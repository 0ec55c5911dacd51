-------------------------- MODULE SandboxesProofs --------------------------
(***************************************************************************)
(* Theorems about Sandboxes, for every number of runs and workers and every*)
(* choice of time limits.                                                  *)
(***************************************************************************)
EXTENDS Sandboxes, FiniteSetTheorems, TLAPS

USE DEF Null

\* Saturating ages stay in range, never run backwards, and advance by one at
\* most.
LEMMA OlderAge ==
    ASSUME NEW a \in Ages
    PROVE  /\ Older(a) \in Ages
           /\ Older(a) >= a /\ Older(a) <= a + 1
           /\ Older(a) = a \/ Older(a) = a + 1
           /\ \A b \in Ages : b <= a => Older(b) <= Older(a)
           /\ \A b \in Ages, d \in Nat : b <= d + a => Older(b) <= d + Older(a)
  BY TimesAssumption DEF Older, Ages

LEMMA Limits ==
    /\ Timeouts \subseteq Nat /\ LongestTimeout \in Nat
    /\ \A t \in Timeouts : t <= LongestTimeout
    /\ 0 \in Ages /\ Null \notin Ages /\ Ages \subseteq Nat
  BY TimesAssumption DEF Ages

-----------------------------------------------------------------------------
LEMMA TypeInit == Init => TypeOK
  BY Limits DEF Init, TypeOK, Steps

\* A run that goes on to a step of the list is well typed.
LEMMA GotoType ==
    ASSUME TypeOK, NEW r \in Runs, NEW s \in Steps, Goto(r, s)
    PROVE  step' \in [Runs -> Steps] /\ clock' \in [Runs -> Ages]
  BY Limits DEF TypeOK, Goto

LEMMA PurgedType == TypeOK => Purged \in [Runs -> Ages \union {Null}]
  BY DEF TypeOK, Purged

LEMMA TypeRun ==
    ASSUME TypeOK, NEW r \in Runs, RunInSandbox(r)
    PROVE  TypeOK'
  <1> USE DEF TypeOK, Exists
  <1>0. /\ Waiting \in Steps
        /\ \A s \in {"done", "prepare", "start", "run", "remove", "release"} : s \in Steps
    BY DEF Steps, Waiting, Owning
  <1>1. CASE Enter(r)
    BY <1>0, <1>1, GotoType DEF Enter
  <1>2. CASE Acquire(r) \/ AcquireAnswerLost(r)
    BY <1>0, <1>2, GotoType, PurgedType, Limits DEF Acquire, AcquireAnswerLost
  <1>3. CASE GiveUp(r)
    BY <1>0, <1>3, GotoType, PurgedType DEF GiveUp
  <1>4. CASE Create(r)
    BY <1>0, <1>4, GotoType, Limits DEF Create, SetContainer
  <1>5. CASE CreateFails(r)
    BY <1>0, <1>5, GotoType DEF CreateFails
  <1>6. CASE Start(r)
    BY <1>0, <1>6, GotoType DEF Start, SetContainer
  <1>7. CASE StartFails(r)
    BY <1>0, <1>7, GotoType DEF StartFails, SetContainer
  <1>8. CASE \E connected \in BOOLEAN : WaitEnds(r, connected)
    BY <1>0, <1>8, GotoType DEF WaitEnds
  <1>9. CASE WaitTimesOut(r)
    BY <1>0, <1>9, GotoType DEF WaitTimesOut, SetContainer
  <1>10. CASE Remove(r)
    BY <1>0, <1>10, GotoType DEF Remove, SetContainer
  <1>11. CASE Release(r)
    BY <1>0, <1>11, GotoType DEF Release
  <1> QED
    BY <1>1, <1>2, <1>3, <1>4, <1>5, <1>6, <1>7, <1>8, <1>9, <1>10, <1>11
    DEF RunInSandbox

LEMMA TypeTick == TypeOK /\ Tick => TypeOK'
  <1> SUFFICES ASSUME TypeOK, Tick PROVE TypeOK'
    OBVIOUS
  <1>0. \A a \in Ages : Older(a) \in Ages
    BY OlderAge
  <1>1. clock' \in [Runs -> Ages]
    BY <1>0 DEF Tick, TypeOK
  <1>2. born' \in [Runs -> Ages]
    BY <1>0 DEF Tick, TypeOK
  <1>3. lease' \in [Runs -> Ages \union {Null}]
    BY <1>0 DEF Tick, TypeOK
  <1> QED
    BY <1>1, <1>2, <1>3 DEF Tick, TypeOK

LEMMA TypeStep == TypeOK /\ [Next]_vars => TypeOK'
  <1> SUFFICES ASSUME TypeOK, [Next]_vars PROVE TypeOK'
    OBVIOUS
  <1>1. CASE \E r \in Runs : RunInSandbox(r)
    BY <1>1, TypeRun
  <1>2. CASE \E r \in Runs : ToolExits(r) \/ Reap(r)
    BY <1>2 DEF ToolExits, Reap, SetContainer, TypeOK, Exists
  <1>3. CASE \E r \in Runs : Crash(r)
    <2> PICK r \in Runs : Crash(r)
      BY <1>3
    <2>1. "dead" \in Steps
      BY DEF Steps
    <2> QED
      BY <2>1, GotoType DEF Crash, TypeOK
  <1>4. CASE \E h \in Hosts : RemoveOrphanedSandboxes(h)
    BY <1>4 DEF RemoveOrphanedSandboxes, TypeOK
  <1>5. CASE Tick
    BY <1>5, TypeTick
  <1>6. CASE UNCHANGED vars
    BY <1>6 DEF vars, TypeOK
  <1> QED
    BY <1>1, <1>2, <1>3, <1>4, <1>5, <1>6 DEF Next

\* Every variable keeps its type, whatever fails.
THEOREM TypeCorrect == Spec => []TypeOK
  <1>1. Init => TypeOK
    BY TypeInit
  <1>2. TypeOK /\ [Next]_vars => TypeOK'
    BY TypeStep
  <1> QED
    BY <1>1, <1>2, PTL DEF Spec
-----------------------------------------------------------------------------
(* The slots bound the running containers.                                 *)

\* How long a run has been holding its slot, step by step.
LeaseBound(r) ==
    /\ step[r] = "prepare" => /\ clock[r] <= MaxPrepare
                              /\ lease[r] \in Nat /\ lease[r] <= clock[r]
    /\ step[r] = "start" => /\ clock[r] <= MaxStart
                            /\ lease[r] \in Nat
                            /\ lease[r] <= MaxPrepare + clock[r]
    /\ step[r] = "run" => /\ clock[r] <= limit[r]
                          /\ lease[r] \in Nat
                          /\ lease[r] <= MaxPrepare + MaxStart + clock[r]
    /\ step[r] = "remove" => /\ clock[r] <= MaxCleanup
                             /\ lease[r] \in Nat
                             /\ lease[r] <= MaxPrepare + MaxStart + limit[r] + clock[r]
    /\ step[r] = "release" =>
           /\ lease[r] \in Nat
           /\ lease[r] <= MaxPrepare + MaxStart + limit[r] + MaxCleanup

SlotsWithinLimit == Cardinality(LiveSlots) <= MaxConcurrent

CapacityInv ==
    /\ TypeOK
    /\ \A r \in Runs : LeaseBound(r)
    /\ SlotsWithinLimit

\* The lease outlives the run, however slow the daemon is within its bounds.
LEMMA LeaseOutlivesRun ==
    ASSUME MaxPrepare + MaxStart + MaxCleanup < LeaseSlack,
           TypeOK, NEW r \in Runs, LeaseBound(r),
           step[r] \in Owning
    PROVE  lease[r] \in Nat /\ ~Expired(r) /\ Purged[r] = lease[r]
  <1>1. limit[r] \in Nat /\ clock[r] \in Nat
    BY Limits DEF TypeOK
  <1>2. lease[r] \in Nat /\ lease[r] < limit[r] + LeaseSlack
    BY <1>1, TimesAssumption DEF LeaseBound, Owning
  <1> QED
    BY <1>1, <1>2, TimesAssumption DEF Expired, LeaseTime, Purged

\* The owners of running containers hold live slots, so they are no more than
\* the limit.
LEMMA CapacityFollows ==
    ASSUME MaxPrepare + MaxStart + MaxCleanup < LeaseSlack, CapacityInv
    PROVE  RunningWithinCapacity
  <1>1. Running \subseteq LiveSlots
    <2> SUFFICES ASSUME NEW r \in Running PROVE r \in LiveSlots
      OBVIOUS
    <2>1. r \in Runs /\ TypeOK /\ LeaseBound(r) /\ step[r] \in Owning
      BY DEF Running, CapacityInv
    <2>2. lease[r] \in Nat /\ ~Expired(r)
      BY <2>1, LeaseOutlivesRun
    <2> QED
      BY <2>1, <2>2 DEF LiveSlots
  <1>2. IsFiniteSet(LiveSlots)
    BY RunsAssumption, FS_Subset DEF LiveSlots
  <1>3. Cardinality(Running) <= Cardinality(LiveSlots)
    BY <1>1, <1>2, FS_Subset
  <1>4. Cardinality(Running) \in Nat /\ Cardinality(LiveSlots) \in Nat
    BY <1>1, <1>2, FS_Subset, FS_CardinalityType
  <1> QED
    BY <1>3, <1>4, RunsAssumption
    DEF RunningWithinCapacity, CapacityInv, SlotsWithinLimit

\* The live slots grow by at most the run that takes one.
LEMMA SlotsShrink ==
    ASSUME SlotsWithinLimit, LiveSlots' \subseteq LiveSlots
    PROVE  SlotsWithinLimit'
  <1>1. IsFiniteSet(LiveSlots)
    BY RunsAssumption, FS_Subset DEF LiveSlots
  <1>2. Cardinality(LiveSlots') <= Cardinality(LiveSlots)
    BY <1>1, FS_Subset
  <1>3. Cardinality(LiveSlots') \in Nat /\ Cardinality(LiveSlots) \in Nat
    BY <1>1, FS_Subset, FS_CardinalityType
  <1> QED
    BY <1>2, <1>3, RunsAssumption DEF SlotsWithinLimit

LEMMA SlotTaken ==
    ASSUME TypeOK, NEW r \in Runs, SlotFree, lease' = [Purged EXCEPT ![r] = 0],
           UNCHANGED limit
    PROVE  SlotsWithinLimit'
  <1>1. IsFiniteSet(LiveSlots)
    BY RunsAssumption, FS_Subset DEF LiveSlots
  <1>2. LiveSlots' \subseteq LiveSlots \union {r}
    <2> SUFFICES ASSUME NEW q \in Runs, q # r, q \in LiveSlots' PROVE q \in LiveSlots
      BY DEF LiveSlots
    <2>1. lease'[q] = Purged[q]
      BY PurgedType
    <2>2. Purged[q] # Null => Purged[q] = lease[q]
      BY DEF Purged
    <2> QED
      BY <2>1, <2>2 DEF LiveSlots, Expired, LeaseTime
  <1>3. /\ IsFiniteSet(LiveSlots \union {r})
        /\ Cardinality(LiveSlots \union {r}) <= Cardinality(LiveSlots) + 1
    <2>1. Cardinality(LiveSlots) \in Nat
      BY <1>1, FS_CardinalityType
    <2>2. /\ IsFiniteSet(LiveSlots \cup {r})
          /\ Cardinality(LiveSlots \cup {r}) =
                IF r \in LiveSlots THEN Cardinality(LiveSlots) ELSE Cardinality(LiveSlots) + 1
      BY <1>1, FS_AddElement
    <2> QED
      BY <2>1, <2>2
  <1>4. Cardinality(LiveSlots') <= Cardinality(LiveSlots \union {r})
    BY <1>2, <1>3, FS_Subset
  <1>5. /\ Cardinality(LiveSlots) \in Nat
        /\ Cardinality(LiveSlots') \in Nat
        /\ Cardinality(LiveSlots \union {r}) \in Nat
    BY <1>1, <1>2, <1>3, FS_Subset, FS_CardinalityType
  <1>6. Cardinality(LiveSlots) < MaxConcurrent
    BY DEF SlotFree
  <1> QED
    BY <1>3, <1>4, <1>5, <1>6, RunsAssumption DEF SlotsWithinLimit

\* What a step of one run does to the bounds of that run and of the others.
LEMMA CapacityRun ==
    ASSUME MaxPrepare + MaxStart + MaxCleanup < LeaseSlack,
           CapacityInv, NEW r \in Runs, RunInSandbox(r)
    PROVE  CapacityInv'
  <1> USE DEF CapacityInv
  <1>0. TypeOK'
    BY TypeRun
  <1>1. SlotsWithinLimit'
    <2>1. CASE Acquire(r) \/ AcquireAnswerLost(r)
      BY <2>1, SlotTaken DEF Acquire, AcquireAnswerLost
    <2>2. CASE GiveUp(r)
      <3>1. LiveSlots' \subseteq LiveSlots
        BY <2>2 DEF GiveUp, LiveSlots, Purged, Expired, LeaseTime
      <3> QED
        BY <3>1, SlotsShrink
    <2>3. CASE Release(r)
      <3>1. LiveSlots' \subseteq LiveSlots
        BY <2>3 DEF Release, LiveSlots, Expired, LeaseTime, TypeOK
      <3> QED
        BY <3>1, SlotsShrink
    <2>4. CASE UNCHANGED <<lease, limit>>
      <3>1. LiveSlots' \subseteq LiveSlots
        BY <2>4 DEF LiveSlots, Expired, LeaseTime
      <3> QED
        BY <3>1, SlotsShrink
    <2>5. \/ Acquire(r) \/ AcquireAnswerLost(r) \/ GiveUp(r) \/ Release(r)
          \/ UNCHANGED <<lease, limit>>
      BY DEF RunInSandbox, Enter, Create, CreateFails, Start, StartFails, WaitEnds,
             WaitTimesOut, Remove
    <2> QED
      BY <2>1, <2>2, <2>3, <2>4, <2>5
  <1>2. \A q \in Runs \ {r} : LeaseBound(q)'
    <2> SUFFICES ASSUME NEW q \in Runs, q # r PROVE LeaseBound(q)'
      OBVIOUS
    <2>1. step'[q] = step[q] /\ clock'[q] = clock[q]
      BY DEF RunInSandbox, Enter, Acquire, AcquireAnswerLost, GiveUp, Create, CreateFails,
             Start, StartFails, WaitEnds, WaitTimesOut, Remove, Release, Goto,
             SetContainer, TypeOK
    <2>2. limit' = limit /\ (lease'[q] = lease[q] \/ lease'[q] = Purged[q])
      BY PurgedType
      DEF RunInSandbox, Enter, Acquire, AcquireAnswerLost, GiveUp, Create, CreateFails,
          Start, StartFails, WaitEnds, WaitTimesOut, Remove, Release, TypeOK
    <2>3. CASE step[q] \in Owning
      <3>1. lease'[q] = lease[q]
        BY <2>2, <2>3, LeaseOutlivesRun
      <3> QED
        BY <3>1, <2>1, <2>2 DEF LeaseBound
    <2>4. CASE step[q] \notin Owning
      BY <2>1, <2>4 DEF LeaseBound, Owning
    <2> QED
      BY <2>3, <2>4
  <1>3. LeaseBound(r)'
    <2> USE DEF TypeOK, Goto, SetContainer, LeaseBound
    <2>0. limit[r] \in Nat /\ clock[r] \in Nat /\ MaxPrepare \in Nat
          /\ MaxStart \in Nat /\ MaxCleanup \in Nat
      BY Limits, TimesAssumption
    <2>1. CASE Enter(r) \/ GiveUp(r) \/ AcquireAnswerLost(r)
      BY <2>1 DEF Enter, GiveUp, AcquireAnswerLost, Waiting
    <2>10. CASE CreateFails(r)
      BY <2>0, <2>10 DEF CreateFails
    <2>2. CASE Acquire(r)
      BY <2>0, <2>2, PurgedType DEF Acquire, Waiting
    <2>3. CASE Create(r)
      BY <2>0, <2>3 DEF Create
    <2>4. CASE Start(r)
      BY <2>0, <2>4 DEF Start
    <2>5. CASE StartFails(r)
      BY <2>0, <2>5 DEF StartFails
    <2>6. CASE \E connected \in BOOLEAN : WaitEnds(r, connected)
      BY <2>0, <2>6 DEF WaitEnds
    <2>7. CASE WaitTimesOut(r)
      BY <2>0, <2>7 DEF WaitTimesOut
    <2>8. CASE Remove(r)
      BY <2>0, <2>8 DEF Remove
    <2>9. CASE Release(r)
      BY <2>9 DEF Release
    <2> QED
      BY <2>1, <2>2, <2>3, <2>4, <2>5, <2>6, <2>7, <2>8, <2>9, <2>10 DEF RunInSandbox
  <1> QED
    BY <1>0, <1>1, <1>2, <1>3

LEMMA CapacityTick ==
    ASSUME CapacityInv, Tick
    PROVE  CapacityInv'
  <1> USE DEF CapacityInv
  <1>0. TypeOK'
    BY TypeTick
  <1>1. SlotsWithinLimit'
    <2>1. ASSUME NEW r \in Runs, lease'[r] # Null, lease[r] = Null \/ Expired(r)
          PROVE  Expired(r)'
      <3>1. lease[r] # Null /\ lease[r] \in Ages /\ lease'[r] = Older(lease[r])
        BY <2>1 DEF Tick, TypeOK
      <3>2. lease'[r] >= lease[r] /\ lease'[r] \in Nat /\ lease[r] \in Nat
        BY <3>1, OlderAge, Limits
      <3>3. limit'[r] = limit[r] /\ limit[r] \in Nat
        BY Limits DEF Tick, TypeOK
      <3> QED
        BY <2>1, <3>1, <3>2, <3>3, TimesAssumption DEF Expired, LeaseTime
    <2>2. LiveSlots' \subseteq LiveSlots
      BY <2>1 DEF LiveSlots
    <2> QED
      BY <2>2, SlotsShrink
  <1>2. ASSUME NEW r \in Runs PROVE LeaseBound(r)'
    <2>1. step[r] # "release"
      BY DEF Tick, MayWait, Waiting
    <2>2. CASE step[r] \in {"prepare", "start", "run", "remove"}
      <3>1. /\ clock[r] \in Ages /\ clock'[r] = Older(clock[r])
            /\ lease[r] \in Ages /\ lease'[r] = Older(lease[r])
        <4>1. clock[r] \in Ages /\ clock'[r] = Older(clock[r])
          BY <2>2 DEF Tick, TypeOK, Owning
        <4>2. lease[r] \in Nat
          BY <2>2 DEF LeaseBound
        <4>3. lease[r] \in Ages /\ lease[r] # Null
          BY <4>2 DEF TypeOK
        <4>4. lease'[r] = Older(lease[r])
          BY <4>3 DEF Tick
        <4> QED
          BY <4>1, <4>3, <4>4
      <3>2. /\ clock'[r] \in Nat /\ clock[r] \in Nat /\ clock'[r] <= clock[r] + 1
            /\ lease'[r] \in Nat
            /\ \A d \in Nat : lease[r] <= d + clock[r] => lease'[r] <= d + clock'[r]
            /\ lease[r] <= clock[r] => lease'[r] <= clock'[r]
        <4>1. \A a \in Ages : a \in Nat /\ Older(a) \in Nat
          BY OlderAge, Limits
        <4>2. \A d \in Nat : lease[r] <= d + clock[r] => lease'[r] <= d + clock'[r]
          BY <3>1, OlderAge
        <4>3. lease[r] <= clock[r] => lease'[r] <= clock'[r]
          BY <3>1, OlderAge
        <4>4. clock'[r] <= clock[r] + 1
          BY <3>1, OlderAge
        <4> QED
          BY <3>1, <4>1, <4>2, <4>3, <4>4
      <3>3. limit'[r] = limit[r] /\ limit[r] \in Nat /\ step'[r] = step[r]
        BY Limits DEF Tick, TypeOK
      <3>4. MayWait(r)
        BY DEF Tick
      <3>5. /\ MaxPrepare + MaxStart \in Nat
            /\ MaxPrepare + MaxStart + limit[r] \in Nat
            /\ MaxPrepare \in Nat /\ MaxStart \in Nat /\ MaxCleanup \in Nat
        BY <3>3, TimesAssumption
      <3>6. CASE step[r] = "prepare"
        BY <3>2, <3>3, <3>4, <3>5, <3>6, <2>1 DEF MayWait, LeaseBound, Waiting
      <3>7. CASE step[r] = "start"
        BY <3>2, <3>3, <3>4, <3>5, <3>7, <2>1 DEF MayWait, LeaseBound, Waiting
      <3>8. CASE step[r] = "run"
        BY <3>2, <3>3, <3>4, <3>5, <3>8, <2>1 DEF MayWait, LeaseBound, Waiting
      <3>9. CASE step[r] = "remove"
        BY <3>2, <3>3, <3>4, <3>5, <3>9, <2>1 DEF MayWait, LeaseBound, Waiting
      <3> QED
        BY <2>2, <3>6, <3>7, <3>8, <3>9
    <2>3. CASE step[r] \notin {"prepare", "start", "run", "remove"}
      BY <2>1, <2>3 DEF Tick, LeaseBound
    <2> QED
      BY <2>2, <2>3
  <1> QED
    BY <1>0, <1>1, <1>2

LEMMA CapacityCrash ==
    ASSUME CapacityInv, NEW r \in Runs, Crash(r)
    PROVE  CapacityInv'
  <1> USE DEF CapacityInv
  <1>1. TypeOK'
    BY TypeStep DEF Next
  <1>2. \A q \in Runs : LeaseBound(q)'
    BY DEF Crash, Goto, TypeOK, LeaseBound
  <1>3. LiveSlots' \subseteq LiveSlots
    BY DEF Crash, LiveSlots, Expired, LeaseTime
  <1> QED
    BY <1>1, <1>2, <1>3, SlotsShrink

LEMMA CapacityStep ==
    ASSUME MaxPrepare + MaxStart + MaxCleanup < LeaseSlack,
           CapacityInv, [Next]_vars
    PROVE  CapacityInv'
  <1> USE DEF CapacityInv
  <1>0. TypeOK'
    BY TypeStep
  <1>1. CASE \E r \in Runs : RunInSandbox(r)
    BY <1>1, CapacityRun
  <1>2. CASE \/ \E r \in Runs : ToolExits(r) \/ Reap(r)
             \/ \E h \in Hosts : RemoveOrphanedSandboxes(h)
             \/ UNCHANGED vars
    <2>1. UNCHANGED <<step, clock, limit, lease>>
      BY <1>2 DEF ToolExits, Reap, RemoveOrphanedSandboxes, vars
    <2>2. LiveSlots' \subseteq LiveSlots
      BY <2>1 DEF LiveSlots, Expired, LeaseTime
    <2> QED
      BY <1>0, <2>1, <2>2, SlotsShrink DEF LeaseBound
  <1>3. CASE \E r \in Runs : Crash(r)
    BY <1>3, CapacityCrash
  <1>4. CASE Tick
    BY <1>4, CapacityTick
  <1> QED
    BY <1>1, <1>2, <1>3, <1>4 DEF Next

LEMMA CapacityInit == Init => CapacityInv
  <1> SUFFICES ASSUME Init PROVE CapacityInv
    OBVIOUS
  <1>1. LiveSlots = {}
    BY DEF Init, LiveSlots
  <1>2. SlotsWithinLimit
    BY <1>1, FS_EmptySet, RunsAssumption DEF SlotsWithinLimit
  <1>3. \A r \in Runs : LeaseBound(r)
    BY DEF Init, LeaseBound
  <1> QED
    BY <1>2, <1>3, TypeInit DEF CapacityInv

\* The processes never run more containers than there are slots, for every
\* number of workers and runs and whatever fails, if the daemon's delays fit
\* into the slack of the lease.
THEOREM SlotsBoundContainers ==
    ASSUME MaxPrepare + MaxStart + MaxCleanup < LeaseSlack
    PROVE  Spec => []RunningWithinCapacity
  <1>1. Init => CapacityInv
    BY CapacityInit
  <1>2. CapacityInv /\ [Next]_vars => CapacityInv'
    BY CapacityStep
  <1>3. CapacityInv => RunningWithinCapacity
    BY CapacityFollows
  <1> QED
    BY <1>1, <1>2, <1>3, PTL DEF Spec

-----------------------------------------------------------------------------
(* The clean-ups spare what is alive.                                      *)

\* A container that a run still waits for is young enough for the reaper.
YoungEnough(r) ==
    /\ step[r] = "start" => /\ container[r] \in Exists
                            /\ clock[r] <= MaxStart /\ born[r] <= clock[r]
    /\ step[r] = "run" => /\ container[r] \in Exists
                          /\ clock[r] <= limit[r] /\ born[r] <= MaxStart + clock[r]

LiveInv == TypeOK /\ \A r \in Runs : YoungEnough(r)

LEMMA LiveNotReaped ==
    ASSUME MaxStart <= ReapMargin, LiveInv, NEW r \in Runs, step[r] \in {"start", "run"}
    PROVE  born[r] <= ReapAge
  <1>1. limit[r] \in Nat /\ limit[r] <= LongestTimeout /\ clock[r] \in Nat /\ born[r] \in Nat
    BY Limits DEF LiveInv, TypeOK
  <1>2. born[r] <= MaxStart + LongestTimeout
    BY <1>1, Limits, TimesAssumption DEF LiveInv, YoungEnough
  <1> QED
    BY <1>1, <1>2, Limits, TimesAssumption DEF ReapAge

LEMMA LiveStep ==
    ASSUME MaxStart <= ReapMargin, LiveInv, [Next]_vars
    PROVE  LiveInv'
  <1> USE DEF LiveInv
  <1>0. TypeOK'
    BY TypeStep
  <1> SUFFICES ASSUME NEW q \in Runs PROVE YoungEnough(q)'
    BY <1>0
  <1>t. limit[q] \in Nat /\ clock[q] \in Nat /\ born[q] \in Nat /\ MaxStart \in Nat
    BY Limits, TimesAssumption DEF TypeOK
  <1>1. ASSUME NEW r \in Runs, RunInSandbox(r)
        PROVE  YoungEnough(q)'
    <2>1. CASE q # r
      BY <2>1, <1>1
      DEF RunInSandbox, Enter, Acquire, AcquireAnswerLost, GiveUp, Create, CreateFails,
          Start, StartFails, WaitEnds, WaitTimesOut, Remove, Release, Goto,
          SetContainer, TypeOK, YoungEnough
    <2>2. CASE q = r
      <3> USE DEF Goto, SetContainer, TypeOK, YoungEnough, Exists
      <3>1. CASE Create(r)
        BY <2>2, <3>1, <1>t DEF Create
      <3>2. CASE Start(r)
        BY <2>2, <3>2, <1>t DEF Start
      <3>3. CASE ~Create(r) /\ ~Start(r)
        BY <2>2, <3>3, <1>1
        DEF RunInSandbox, Enter, Acquire, AcquireAnswerLost, GiveUp, CreateFails,
            StartFails, WaitEnds, WaitTimesOut, Remove, Release, Waiting
      <3> QED
        BY <3>1, <3>2, <3>3
    <2> QED
      BY <2>1, <2>2
  <1>2. ASSUME NEW r \in Runs, Reap(r)
        PROVE  YoungEnough(q)'
    <2>1. CASE step[q] \in {"start", "run"}
      <3>1. q # r
        BY <1>2, <1>t, <2>1, LiveNotReaped, TimesAssumption, Limits DEF Reap, ReapAge
      <3> QED
        BY <1>2, <3>1 DEF Reap, SetContainer, TypeOK, YoungEnough
    <2>2. CASE step[q] \notin {"start", "run"}
      BY <1>2, <2>2 DEF Reap, YoungEnough
    <2> QED
      BY <2>1, <2>2
  <1>3. ASSUME NEW r \in Runs, ToolExits(r)
        PROVE  YoungEnough(q)'
    BY <1>3 DEF ToolExits, SetContainer, TypeOK, YoungEnough, Exists
  <1>4. ASSUME NEW r \in Runs, Crash(r)
        PROVE  YoungEnough(q)'
    BY <1>4 DEF Crash, Goto, TypeOK, YoungEnough
  <1>5. ASSUME NEW h \in Hosts, RemoveOrphanedSandboxes(h)
        PROVE  YoungEnough(q)'
    BY <1>5 DEF RemoveOrphanedSandboxes, Owning, TypeOK, YoungEnough
  <1>6. CASE Tick
    <2>1. CASE step[q] \in {"start", "run"}
      <3>1. clock[q] \in Ages /\ clock'[q] = Older(clock[q]) /\ born[q] \in Ages
        BY <1>6, <2>1 DEF Tick, Owning, TypeOK
      <3>2. born'[q] = Older(born[q])
        BY <1>6, <2>1 DEF Tick, YoungEnough
      <3>3. /\ clock'[q] <= clock[q] + 1 /\ clock'[q] \in Nat
            /\ born[q] <= clock[q] => born'[q] <= clock'[q]
            /\ born[q] <= MaxStart + clock[q] => born'[q] <= MaxStart + clock'[q]
        BY <3>1, <3>2, <1>t, OlderAge, Limits
      <3>4. MayWait(q) /\ UNCHANGED <<step, limit, container>>
        BY <1>6 DEF Tick
      <3> QED
        BY <2>1, <3>3, <3>4, <1>t DEF MayWait, Waiting, YoungEnough
    <2>2. CASE step[q] \notin {"start", "run"}
      BY <1>6, <2>2 DEF Tick, YoungEnough
    <2> QED
      BY <2>1, <2>2
  <1>7. CASE UNCHANGED vars
    BY <1>7 DEF vars, YoungEnough
  <1> QED
    BY <1>1, <1>2, <1>3, <1>4, <1>5, <1>6, <1>7 DEF Next

\* No clean-up removes a container its run still waits for, if a container is
\* started within the reaper's margin; processes and the daemon may fail.
THEOREM CleanupsSpareLiveRuns ==
    ASSUME MaxStart <= ReapMargin
    PROVE  Spec => []LiveSandboxKept
  <1>1. Init => LiveInv
    BY TypeInit DEF Init, LiveInv, YoungEnough
  <1>2. LiveInv /\ [Next]_vars => LiveInv'
    BY LiveStep
  <1>3. LiveInv => LiveSandboxKept
    BY DEF LiveInv, LiveSandboxKept, YoungEnough, Exists
  <1> QED
    BY <1>1, <1>2, <1>3, PTL DEF Spec
=============================================================================
