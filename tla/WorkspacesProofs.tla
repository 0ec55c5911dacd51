------------------------- MODULE WorkspacesProofs -------------------------
(***************************************************************************)
(* Theorems about Workspaces, for every set of tasks and workers and every *)
(* choice of time limits.                                                  *)
(***************************************************************************)
EXTENDS Workspaces, TLAPS

LEMMA Naturals ==
    /\ Ages \subseteq Nat /\ 0 \in Ages /\ StaleAge \in Nat
    /\ \A t \in Tasks : HardLimit(t) \in Nat /\ HardLimit(t) < AgeCap
  BY WorkspaceAssumption DEF Ages, HardLimit, StaleAge

\* The age of a directory follows the clock of its task.
LEMMA OlderBound ==
    ASSUME NEW a \in Ages, NEW b \in Ages, a <= b
    PROVE  Older(a) \in Ages /\ Older(a) <= b + 1
  BY WorkspaceAssumption DEF Older, Ages

\* While a task works in its directory, the directory is no older than the
\* task, and the task has not outlived its hard limit.
InTime(t) ==
    /\ task[t] = "new" => elapsed[t] = 0
    /\ task[t] \in Live => elapsed[t] <= HardLimit(t)
    /\ task[t] = "working" => touched[t] <= elapsed[t]
    /\ task[t] = "working" /\ HardLimit(t) <= StaleAge => dir[t] = "there"

WorkspaceInv == TypeOK /\ \A t \in Tasks : InTime(t)

LEMMA WorkspaceInit == Init => WorkspaceInv
  BY Naturals DEF Init, WorkspaceInv, TypeOK, InTime, Live, HardLimit

\* The parts of the invariant that concern one task.
LEMMA Typed ==
    ASSUME WorkspaceInv, NEW u \in Tasks
    PROVE  /\ task[u] \in {"new", "done", "dead"} \union Live
           /\ elapsed[u] \in Nat /\ touched[u] \in Nat
           /\ elapsed[u] \in Ages /\ touched[u] \in Ages
           /\ dir[u] \in {"none", "there", "removed"}
           /\ InTime(u)
  BY DEF WorkspaceInv, TypeOK, Ages

\* A step of one task, which leaves the others alone.
LEMMA TaskStep ==
    ASSUME WorkspaceInv, NEW t \in Tasks,
           Start(t) \/ CreateWorkspace(t) \/ Touch(t) \/ Finish(t) \/ Killed(t)
    PROVE  WorkspaceInv'
  <1>1. TypeOK'
    BY Naturals DEF WorkspaceInv, TypeOK, Live, Become, Start, CreateWorkspace, Touch, Finish, Killed
  <1>2. ASSUME NEW u \in Tasks PROVE InTime(u)'
    <2>0. /\ InTime(u) /\ InTime(t) /\ elapsed[u] \in Nat /\ touched[u] \in Nat
          /\ SoftLimit[u] + KillDelay \in Nat
      BY <1>2, Typed, Naturals DEF HardLimit
    <2>a. task \in [Tasks -> {"new", "done", "dead", "started", "working"}]
      BY DEF WorkspaceInv, TypeOK, Live
    <2>b. dir \in [Tasks -> {"none", "there", "removed"}] /\ touched \in [Tasks -> Ages]
      BY DEF WorkspaceInv, TypeOK
    <2>1. CASE Start(t)
      BY <2>0, <2>a, <2>b, <2>1, <1>2 DEF Start, InTime, HardLimit, Live, Become
    <2>2. CASE CreateWorkspace(t)
      <3>1. CASE u = t
        <4>1. task[u] = "started" /\ task'[u] = "working" /\ dir'[u] = "there"
              /\ touched'[u] = 0 /\ elapsed'[u] = elapsed[u]
          BY <2>2, <2>a, <2>b, <3>1 DEF CreateWorkspace, Become
        <4> QED
          BY <4>1, <2>0 DEF InTime, HardLimit, Live
      <3>2. CASE u # t
        BY <2>0, <2>a, <2>b, <2>2, <3>2, <1>2 DEF CreateWorkspace, InTime, HardLimit, Live, Become
      <3> QED
        BY <3>1, <3>2
    <2>3. CASE Touch(t)
      <3>1. /\ task' = task /\ dir' = dir /\ elapsed' = elapsed
            /\ touched'[u] = touched[u] \/ touched'[u] = 0
        BY <2>3, <2>b, <1>2 DEF Touch
      <3> QED
        BY <3>1, <2>0 DEF InTime, HardLimit, Live
    <2>4. CASE Finish(t) \/ Killed(t)
      <3>1. CASE u = t
        <4>1. task'[u] \in {"done", "dead"}
          BY <2>4, <2>a, <3>1 DEF Finish, Killed, Become
        <4> QED
          BY <4>1, <2>0 DEF InTime, HardLimit, Live
      <3>2. CASE u # t
        <4>1. task'[u] = task[u] /\ dir'[u] = dir[u] /\ elapsed'[u] = elapsed[u] /\ touched'[u] = touched[u]
          BY <2>4, <2>a, <2>b, <3>2, <1>2 DEF Finish, Killed, Become
        <4> QED
          BY <4>1, <2>0 DEF InTime, HardLimit, Live
      <3> QED
        BY <3>1, <3>2
    <2> QED
      BY <2>1, <2>2, <2>3, <2>4
  <1> QED
    BY <1>1, <1>2 DEF WorkspaceInv

\* A directory in use by a task that is killed in time is not stale.
LEMMA CleanUpStep ==
    ASSUME WorkspaceInv, NEW h \in Hosts, RemoveStaleWorkspaces(h)
    PROVE  WorkspaceInv'
  <1>1. TypeOK'
    BY DEF WorkspaceInv, TypeOK, RemoveStaleWorkspaces
  <1>2. ASSUME NEW u \in Tasks PROVE InTime(u)'
    <2>1. /\ InTime(u) /\ elapsed[u] \in Nat /\ touched[u] \in Nat
          /\ SoftLimit[u] + KillDelay \in Nat /\ StaleAge \in Nat
      BY <1>2, Typed, Naturals DEF HardLimit
    <2>2. /\ task' = task /\ elapsed' = elapsed /\ touched' = touched
          /\ dir'[u] = IF dir[u] = "there" /\ touched[u] > StaleAge THEN "removed" ELSE dir[u]
      BY <1>2 DEF RemoveStaleWorkspaces
    <2> QED
      BY <2>1, <2>2 DEF InTime, HardLimit, Live
  <1> QED
    BY <1>1, <1>2 DEF WorkspaceInv

\* Time passes: no live task is past its hard limit afterwards.
LEMMA TickStep ==
    ASSUME WorkspaceInv, Tick
    PROVE  WorkspaceInv'
  <1>1. ASSUME NEW u \in Tasks PROVE elapsed'[u] \in Ages /\ touched'[u] \in Ages
    <2>1. /\ elapsed[u] \in Ages /\ touched[u] \in Ages
          /\ SoftLimit[u] + KillDelay \in Nat /\ SoftLimit[u] + KillDelay < AgeCap
      BY <1>1, Typed, Naturals DEF HardLimit
    <2>2. task[u] \in Live => elapsed[u] < SoftLimit[u] + KillDelay
      BY <1>1 DEF Tick, HardLimit
    <2>3. /\ elapsed'[u] = IF task[u] \in Live THEN elapsed[u] + 1 ELSE elapsed[u]
          /\ touched'[u] = IF dir[u] = "there" THEN Older(touched[u]) ELSE touched[u]
      BY <1>1 DEF Tick
    <2> QED
      BY <2>1, <2>2, <2>3, WorkspaceAssumption DEF Older, Ages
  <1>2. TypeOK'
    BY <1>1 DEF WorkspaceInv, TypeOK, Tick
  <1>3. ASSUME NEW u \in Tasks PROVE InTime(u)'
    <2>1. /\ InTime(u) /\ elapsed[u] \in Ages /\ touched[u] \in Ages
          /\ elapsed[u] \in Nat /\ touched[u] \in Nat /\ SoftLimit[u] + KillDelay \in Nat
      BY <1>3, Typed, Naturals DEF HardLimit
    <2>2. /\ task' = task /\ dir' = dir
          /\ elapsed'[u] = IF task[u] \in Live THEN elapsed[u] + 1 ELSE elapsed[u]
          /\ touched'[u] = IF dir[u] = "there" THEN Older(touched[u]) ELSE touched[u]
          /\ task[u] \in Live => elapsed[u] < SoftLimit[u] + KillDelay
      BY <1>3 DEF Tick, HardLimit
    <2>3. CASE task[u] = "working"
      <3>1. touched[u] <= elapsed[u] /\ elapsed'[u] = elapsed[u] + 1
        BY <2>1, <2>2, <2>3 DEF InTime, Live
      <3>2. touched'[u] <= elapsed'[u]
        BY <2>1, <2>2, <3>1, OlderBound
      <3> QED
        BY <2>1, <2>2, <2>3, <3>1, <3>2 DEF InTime, HardLimit, Live
    <2>4. CASE task[u] # "working"
      BY <2>1, <2>2, <2>4 DEF InTime, HardLimit, Live
    <2> QED
      BY <2>3, <2>4
  <1> QED
    BY <1>2, <1>3 DEF WorkspaceInv

LEMMA WorkspaceInvariant == Spec => []WorkspaceInv
  <1>1. WorkspaceInv /\ [Next]_vars => WorkspaceInv'
    <2> SUFFICES ASSUME WorkspaceInv, [Next]_vars PROVE WorkspaceInv'
      OBVIOUS
    <2>1. CASE UNCHANGED vars
      BY <2>1 DEF vars, WorkspaceInv, TypeOK, InTime, HardLimit
    <2> QED
      BY <2>1, TaskStep, CleanUpStep, TickStep DEF Next
  <1> QED
    BY <1>1, WorkspaceInit, PTL DEF Spec

\* Every variable keeps its type; ages never pass the value at which they saturate.
THEOREM TypeCorrect == Spec => []TypeOK
  BY WorkspaceInvariant, PTL DEF WorkspaceInv

\* A task that is killed before its directory counts as stale keeps it until it
\* ends, for any number of tasks and workers and any time limits.
THEOREM WorkspacesSpared == Spec => []ScanWorkspaceKept
  <1>1. WorkspaceInv => ScanWorkspaceKept
    BY DEF WorkspaceInv, InTime, ScanWorkspaceKept
  <1> QED
    BY <1>1, WorkspaceInvariant, PTL
=============================================================================
