---------------------------- MODULE Workspaces ----------------------------
(***************************************************************************)
(* The working directories of run_scan, enrich_scan and regenerate_fix on  *)
(* the volume that all workers share, and the clean-up of stale ones that  *)
(* each worker makes when it starts.                                       *)
(*                                                                         *)
(* A directory's age is the age of its modification time, which changes    *)
(* when the task adds or removes an entry at its top.  Ages saturate at    *)
(* AgeCap.                                                                 *)
(***************************************************************************)
EXTENDS Integers

CONSTANTS
    Tasks,              \* the tasks that use a directory
    Hosts, HostOf,      \* the worker that executes each
    SoftLimit,          \* the soft time limit of each
    KillDelay,          \* hard limit minus soft limit (60 s)
    ScanTimeout,        \* scan_timeout_seconds
    StaleMargin,        \* the 120 s of cleanup_after_crash
    AgeCap              \* where ages saturate

HardLimit(t) == SoftLimit[t] + KillDelay
StaleAge == ScanTimeout + StaleMargin

ASSUME WorkspaceAssumption ==
    /\ HostOf \in [Tasks -> Hosts] /\ SoftLimit \in [Tasks -> Nat]
    /\ KillDelay \in Nat /\ ScanTimeout \in Nat /\ StaleMargin \in Nat
    /\ AgeCap \in Nat /\ AgeCap > StaleAge
    /\ \A t \in Tasks : AgeCap > HardLimit(t)

VARIABLES
    task,               \* "new", "started", "working", "done" or "dead"
    elapsed,            \* since the task started
    dir,                \* its directory: "none", "there" or "removed"
    touched             \* the age of the directory's modification time

vars == <<task, elapsed, dir, touched>>

Ages == 0 .. AgeCap
Live == {"started", "working"}
Older(a) == IF a < AgeCap THEN a + 1 ELSE a

TypeOK ==
    /\ task \in [Tasks -> {"new", "done", "dead"} \union Live]
    /\ elapsed \in [Tasks -> Ages]
    /\ dir \in [Tasks -> {"none", "there", "removed"}]
    /\ touched \in [Tasks -> Ages]

Init ==
    /\ task = [t \in Tasks |-> "new"]
    /\ elapsed = [t \in Tasks |-> 0]
    /\ dir = [t \in Tasks |-> "none"]
    /\ touched = [t \in Tasks |-> 0]

Become(t, state) == task' = [task EXCEPT ![t] = state]

Start(t) ==
    /\ task[t] = "new"
    /\ Become(t, "started")
    /\ UNCHANGED <<elapsed, dir, touched>>

CreateWorkspace(t) ==
    /\ task[t] = "started"
    /\ Become(t, "working")
    /\ dir' = [dir EXCEPT ![t] = "there"]
    /\ touched' = [touched EXCEPT ![t] = 0]
    /\ UNCHANGED elapsed

\* The archive, the sources or an analyzer's output are put into it.
Touch(t) ==
    /\ task[t] = "working" /\ dir[t] = "there"
    /\ touched' = [touched EXCEPT ![t] = 0]
    /\ UNCHANGED <<task, elapsed, dir>>

\* The task ends, in whatever way its handlers see, and removes the directory.
Finish(t) ==
    /\ task[t] \in Live
    /\ Become(t, "done")
    /\ dir' = [dir EXCEPT ![t] = IF @ = "there" THEN "removed" ELSE @]
    /\ UNCHANGED <<elapsed, touched>>

\* The hard limit, a lost process or a lost host: no `finally` runs.
Killed(t) ==
    /\ task[t] \in Live
    /\ Become(t, "dead")
    /\ UNCHANGED <<elapsed, dir, touched>>

\* Mutant: stale after the soft limit of a scan.
RemoveStaleEarly(h) ==
    /\ \A t \in Tasks : HostOf[t] = h => task[t] \notin Live
    /\ dir' = [t \in Tasks |-> IF dir[t] = "there" /\ touched[t] >= ScanTimeout
                               THEN "removed" ELSE dir[t]]
    /\ UNCHANGED <<task, elapsed, touched>>

\* Mutant: only the directories of the worker's own tasks.
RemoveStaleOwn(h) ==
    /\ \A t \in Tasks : HostOf[t] = h => task[t] \notin Live
    /\ dir' = [t \in Tasks |-> IF HostOf[t] = h /\ dir[t] = "there" /\ touched[t] > StaleAge
                               THEN "removed" ELSE dir[t]]
    /\ UNCHANGED <<task, elapsed, touched>>

\* A worker starts (none of its tasks is left) and removes every directory on
\* the shared volume that is older than a scan.
RemoveStaleWorkspaces(h) ==
    /\ \A t \in Tasks : HostOf[t] = h => task[t] \notin Live
    /\ dir' = [t \in Tasks |-> IF dir[t] = "there" /\ touched[t] > StaleAge
                               THEN "removed" ELSE dir[t]]
    /\ UNCHANGED <<task, elapsed, touched>>

\* The hard limit is enforced on time.
Tick ==
    /\ \A t \in Tasks : task[t] \in Live => elapsed[t] < HardLimit(t)
    /\ elapsed' = [t \in Tasks |-> IF task[t] \in Live THEN elapsed[t] + 1
                                   ELSE elapsed[t]]
    /\ touched' = [t \in Tasks |-> IF dir[t] = "there" THEN Older(touched[t])
                                   ELSE touched[t]]
    /\ UNCHANGED <<task, dir>>

Next ==
    \/ \E t \in Tasks :
         Start(t) \/ CreateWorkspace(t) \/ Touch(t) \/ Finish(t) \/ Killed(t)
    \/ \E h \in Hosts : RemoveStaleWorkspaces(h)
    \/ Tick

Spec == Init /\ [][Next]_vars

\* Time passes (so the hard limits strike), and workers are started again.
Fairness ==
    /\ WF_vars(Tick)
    /\ \A t \in Tasks : WF_vars(Finish(t) \/ Killed(t))
    /\ \E h \in Hosts : WF_vars(RemoveStaleWorkspaces(h))
FairSpec == Spec /\ Fairness

-----------------------------------------------------------------------------
(* Properties.                                                             *)

\* A scan keeps its directory until it ends: a worker that starts beside it
\* takes only what crashed tasks left behind.  So does every other task that is
\* killed before its directory counts as stale.
ScanWorkspaceKept ==
    \A t \in Tasks : HardLimit(t) <= StaleAge /\ task[t] = "working" => dir[t] = "there"

\* What a killed task leaves behind is removed, also when its own worker never
\* comes back, as long as some worker is started again.
StaleWorkspaceRemoved ==
    \A t \in Tasks : (task[t] = "dead" /\ dir[t] = "there") ~> (dir[t] = "removed")

-----------------------------------------------------------------------------
(* What the code's comments say and the model refutes.                     *)

\* cleanup_after_crash: "Remove sandboxes and workspaces a previous crashed run
\* of this worker left behind", and nothing that a live task works in.
LiveWorkspaceKept == \A t \in Tasks : task[t] = "working" => dir[t] = "there"
=============================================================================
