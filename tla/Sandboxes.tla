----------------------------- MODULE Sandboxes -----------------------------
(***************************************************************************)
(* run_in_sandbox: the Redis semaphore that caps the containers of all     *)
(* workers, one container per run, and the two clean-ups that remove what  *)
(* a dead worker leaves behind (on the start of a worker, and periodically *)
(* by age).                                                                *)
(*                                                                         *)
(* A run is one call of run_in_sandbox.  A slot is a lease: it is given up *)
(* when the run ends, or it runs out by itself.  The container has no      *)
(* limit of its own: only the run that waits for it stops it in time.      *)
(*                                                                         *)
(* Time is kept as ages; they saturate at AgeCap, beyond every deadline.   *)
(***************************************************************************)
EXTENDS Integers, FiniteSets

CONSTANTS
    Runs,               \* the calls of run_in_sandbox
    Hosts, HostOf,      \* the worker that makes each call
    MaxConcurrent,      \* max_concurrent_sandboxes
    Timeouts,           \* the timeouts of the tools
    LeaseSlack,         \* a lease lasts this much longer than the timeout (300 s)
    ReapMargin,         \* the reaper spares this much over the longest one (120 s)
    SlotTimeout,        \* sandbox_slot_timeout_seconds
    MaxPrepare,         \* bound: from the slot to the created container
    MaxStart,           \* bound: from the created to the started container
    MaxCleanup,         \* bound: kill and removal
    AgeCap,             \* where ages saturate
    Faults,             \* which parts may fail
    Unreadable          \* runs whose container has a creation time that the
                        \* reaper cannot parse

FaultKinds == {"crash", "kill", "remove", "redis"}

LongestTimeout == CHOOSE t \in Timeouts : \A u \in Timeouts : u <= t

\* max_sandbox_seconds
ReapAge == LongestTimeout + ReapMargin

ASSUME TimesAssumption ==
    /\ Timeouts \subseteq Nat
    /\ LongestTimeout \in Timeouts /\ \A t \in Timeouts : t <= LongestTimeout
    /\ LeaseSlack \in Nat /\ ReapMargin \in Nat /\ SlotTimeout \in Nat
    /\ MaxPrepare \in Nat /\ MaxStart \in Nat /\ MaxCleanup \in Nat
    /\ AgeCap \in Nat
    /\ AgeCap > LongestTimeout + LeaseSlack /\ AgeCap > ReapAge
    /\ AgeCap > SlotTimeout
ASSUME RunsAssumption ==
    /\ IsFiniteSet(Runs) /\ HostOf \in [Runs -> Hosts]
    /\ MaxConcurrent \in Nat /\ Unreadable \subseteq Runs
    /\ Faults \subseteq FaultKinds

VARIABLES
    step,               \* where each run is
    clock,              \* since when it is there
    limit,              \* its timeout
    lease,              \* the age of its entry in the slots set, or Null
    container,          \* the state of its container
    born                \* the age of its container

vars == <<step, clock, limit, lease, container, born>>

Null == -1
Ages == 0 .. AgeCap
Waiting == "wait"
Owning == {"prepare", "start", "run", "remove", "release"}
Steps == {"new", Waiting, "done", "dead"} \union Owning
Exists == {"created", "running", "exited"}
Older(a) == IF a < AgeCap THEN a + 1 ELSE a

TypeOK ==
    /\ step \in [Runs -> Steps]
    /\ clock \in [Runs -> Ages]
    /\ limit \in [Runs -> Timeouts]
    /\ lease \in [Runs -> Ages \union {Null}]
    /\ container \in [Runs -> Exists \union {"none", "removed"}]
    /\ born \in [Runs -> Ages]

Init ==
    /\ step = [r \in Runs |-> "new"]
    /\ clock = [r \in Runs |-> 0]
    /\ limit \in [Runs -> Timeouts]
    /\ lease = [r \in Runs |-> Null]
    /\ container = [r \in Runs |-> "none"]
    /\ born = [r \in Runs |-> 0]

\* The run r goes on to a step, where its clock starts again.
Goto(r, s) ==
    /\ step' = [step EXCEPT ![r] = s]
    /\ clock' = [clock EXCEPT ![r] = 0]

SetContainer(r, s) == container' = [container EXCEPT ![r] = s]

-----------------------------------------------------------------------------
(* The slots: SandboxSlot and its Lua script.                              *)

LeaseTime(r) == limit[r] + LeaseSlack
Expired(r) == lease[r] >= LeaseTime(r)
LiveSlots == {r \in Runs : lease[r] # Null /\ ~Expired(r)}

Enter(r) ==
    /\ step[r] = "new"
    /\ Goto(r, Waiting)
    /\ UNCHANGED <<limit, lease, container, born>>

\* The script first drops the leases that have run out.
Purged == [r \in Runs |-> IF lease[r] # Null /\ Expired(r) THEN Null ELSE lease[r]]

\* Mutant: off by one at the limit.
SlotFreeOneMore == Cardinality(LiveSlots) <= MaxConcurrent

SlotFree == Cardinality(LiveSlots) < MaxConcurrent

Acquire(r) ==
    /\ step[r] = Waiting
    /\ SlotFree
    /\ lease' = [Purged EXCEPT ![r] = 0]
    /\ Goto(r, "prepare")
    /\ UNCHANGED <<limit, container, born>>

\* The slot was taken but Redis' answer is lost: the run fails without a
\* container, and the lease has to run out.
AcquireAnswerLost(r) ==
    /\ "redis" \in Faults
    /\ step[r] = Waiting
    /\ SlotFree
    /\ lease' = [Purged EXCEPT ![r] = 0]
    /\ Goto(r, "done")
    /\ UNCHANGED <<limit, container, born>>

\* SandboxCapacityError
GiveUp(r) ==
    /\ step[r] = Waiting
    /\ ~SlotFree
    /\ clock[r] > SlotTimeout
    /\ lease' = Purged
    /\ Goto(r, "done")
    /\ UNCHANGED <<limit, container, born>>

-----------------------------------------------------------------------------
(* One run.                                                                *)

\* The image is there (it may have to be pulled first) and the daemon has
\* created the container.
Create(r) ==
    /\ step[r] = "prepare"
    /\ SetContainer(r, "created")
    /\ born' = [born EXCEPT ![r] = 0]
    /\ Goto(r, "start")
    /\ UNCHANGED <<limit, lease>>

\* No daemon, no image, or a refused container: only the slot is given back.
CreateFails(r) ==
    /\ step[r] = "prepare"
    /\ Goto(r, "release")
    /\ UNCHANGED <<limit, lease, container, born>>

Start(r) ==
    /\ step[r] = "start"
    /\ IF container[r] = "created"
       THEN SetContainer(r, "running") /\ Goto(r, "run")
       ELSE UNCHANGED container /\ Goto(r, "remove")
    /\ UNCHANGED <<limit, lease, born>>

\* The daemon fails the start, or has done it and fails to say so.
StartFails(r) ==
    /\ step[r] = "start" /\ container[r] = "created"
    /\ \E s \in {"created", "running"} : SetContainer(r, s)
    /\ Goto(r, "remove")
    /\ UNCHANGED <<limit, lease, born>>

\* The tool ends, or is killed by the kernel or by the watch on its disk use.
ToolExits(r) ==
    /\ container[r] = "running"
    /\ SetContainer(r, "exited")
    /\ UNCHANGED <<step, clock, limit, lease, born>>

\* container.wait returns, or the connection to the daemon is lost.
WaitEnds(r, connected) ==
    /\ step[r] = "run"
    /\ connected => container[r] # "running"
    /\ Goto(r, "remove")
    /\ UNCHANGED <<limit, lease, container, born>>

WaitTimesOut(r) ==
    /\ step[r] = "run"
    /\ clock[r] >= limit[r]
    /\ \/ container[r] = "running" /\ SetContainer(r, "exited")
       \/ "kill" \in Faults /\ UNCHANGED container
       \/ container[r] # "running" /\ UNCHANGED container
    /\ Goto(r, "remove")
    /\ UNCHANGED <<limit, lease, born>>

\* Mutant: the slot is given back before the container is removed.
RemoveAfterRelease(r) ==
    /\ step[r] = "remove"
    /\ lease' = [lease EXCEPT ![r] = Null]
    /\ Goto(r, "release")
    /\ UNCHANGED <<limit, container, born>>

\* _remove_quietly: the daemon may fail it, and it is then forgotten.
Remove(r) ==
    /\ step[r] = "remove"
    /\ \/ SetContainer(r, "removed")
       \/ "remove" \in Faults /\ UNCHANGED container
    /\ Goto(r, "release")
    /\ UNCHANGED <<limit, lease, born>>

\* The slot goes back, unless Redis fails: then its lease runs out.
Release(r) ==
    /\ step[r] = "release"
    /\ \/ lease' = [lease EXCEPT ![r] = Null]
       \/ "redis" \in Faults /\ UNCHANGED lease
    /\ Goto(r, "done")
    /\ UNCHANGED <<limit, container, born>>

\* The pool process is killed: no `finally` runs.
Crash(r) ==
    /\ "crash" \in Faults
    /\ step[r] \in Owning \union {Waiting}
    /\ Goto(r, "dead")
    /\ UNCHANGED <<limit, lease, container, born>>

-----------------------------------------------------------------------------
(* The clean-ups.                                                          *)

\* Mutant: whichever worker the containers belong to.
RemoveAllSandboxes(h) ==
    /\ "crash" \in Faults
    /\ \A r \in Runs : HostOf[r] = h => step[r] \notin Owning \union {Waiting}
    /\ \E r \in Runs : HostOf[r] = h /\ step[r] = "dead"
    /\ container' = [r \in Runs |->
            IF container[r] \in Exists THEN "removed" ELSE container[r]]
    /\ UNCHANGED <<step, clock, limit, lease, born>>

\* A worker starts again under the same name: none of its runs is left, and
\* it removes their containers.
RemoveOrphanedSandboxes(h) ==
    /\ "crash" \in Faults
    /\ \A r \in Runs : HostOf[r] = h => step[r] \notin Owning \union {Waiting}
    /\ \E r \in Runs : HostOf[r] = h /\ step[r] = "dead"
    /\ container' = [r \in Runs |->
            IF HostOf[r] = h /\ container[r] \in Exists THEN "removed" ELSE container[r]]
    /\ UNCHANGED <<step, clock, limit, lease, born>>

\* Mutant: the limit of the run's own tool, counted from the creation.
ReapOwnLimit(r) ==
    /\ container[r] \in Exists
    /\ r \notin Unreadable
    /\ born[r] > limit[r]
    /\ SetContainer(r, "removed")
    /\ UNCHANGED <<step, clock, limit, lease, born>>

\* Mutant: only what still runs is removed.
ReapRunningOnly(r) ==
    /\ container[r] = "running"
    /\ r \notin Unreadable
    /\ born[r] > ReapAge
    /\ SetContainer(r, "removed")
    /\ UNCHANGED <<step, clock, limit, lease, born>>

\* reap_expired_sandboxes: a container whose creation time cannot be parsed
\* is skipped.
Reap(r) ==
    /\ container[r] \in Exists
    /\ r \notin Unreadable
    /\ born[r] > ReapAge
    /\ SetContainer(r, "removed")
    /\ UNCHANGED <<step, clock, limit, lease, born>>

-----------------------------------------------------------------------------
\* The timers of a live run are on time, and the daemon answers within its
\* bounds.
MayWait(r) ==
    CASE step[r] = Waiting -> clock[r] <= SlotTimeout
      [] step[r] = "prepare" -> clock[r] < MaxPrepare
      [] step[r] = "start" -> clock[r] < MaxStart
      [] step[r] = "run" -> clock[r] < limit[r]
      [] step[r] = "remove" -> clock[r] < MaxCleanup
      [] OTHER -> step[r] # "release"

Tick ==
    /\ \A r \in Runs : MayWait(r)
    /\ clock' = [r \in Runs |-> IF step[r] \in Owning \union {Waiting}
                                THEN Older(clock[r]) ELSE clock[r]]
    /\ lease' = [r \in Runs |-> IF lease[r] = Null THEN Null ELSE Older(lease[r])]
    /\ born' = [r \in Runs |-> IF container[r] \in Exists THEN Older(born[r])
                               ELSE born[r]]
    /\ UNCHANGED <<step, limit, container>>

RunInSandbox(r) ==
    \/ Enter(r) \/ Acquire(r) \/ AcquireAnswerLost(r) \/ GiveUp(r)
    \/ Create(r) \/ CreateFails(r) \/ Start(r) \/ StartFails(r)
    \/ \E connected \in BOOLEAN : WaitEnds(r, connected)
    \/ WaitTimesOut(r) \/ Remove(r) \/ Release(r)

Next ==
    \/ \E r \in Runs : RunInSandbox(r) \/ ToolExits(r) \/ Crash(r) \/ Reap(r)
    \/ \E h \in Hosts : RemoveOrphanedSandboxes(h)
    \/ Tick

Spec == Init /\ [][Next]_vars

\* Time passes, a run goes on or dies, and beat runs the reaper on some worker;
\* the daemon owes nothing, no worker has to start again.
Fairness ==
    /\ WF_vars(Tick)
    /\ \A r \in Runs : WF_vars(RunInSandbox(r) \/ Crash(r)) /\ WF_vars(Reap(r))
FairSpec == Spec /\ Fairness

-----------------------------------------------------------------------------
(* Properties.                                                             *)

\* The containers that some process still looks after.
Running == {r \in Runs : container[r] = "running" /\ step[r] \in Owning}

\* A burst of scans queues in SandboxSlot: the processes of all the workers
\* together never run more containers than MAX_CONCURRENT_SANDBOXES, whatever
\* fails.  What a killed process left running is not counted: its slot may be
\* free again before a clean-up finds its container.
RunningWithinCapacity == Cardinality(Running) <= MaxConcurrent

\* No clean-up takes the container away from a run that still waits for it:
\* neither the start of another worker nor the reaper, however late the
\* container was started.
LiveSandboxKept ==
    \A r \in Runs : step[r] \in {"start", "run"} => container[r] # "removed"

\* Every container is removed in the end, whoever dies: the reaper alone is
\* enough ("The container is always removed"), except for one whose creation
\* time it cannot read.
EverySandboxRemoved ==
    \A r \in Runs \ Unreadable :
        (container[r] \in Exists) ~> (container[r] = "removed")
=============================================================================
