------------------------ MODULE ScanLifecycleProofs ------------------------
(***************************************************************************)
(* Theorems about ScanLifecycle, for every set of processes, every choice  *)
(* of time limits and every number of retries and losses.                  *)
(***************************************************************************)
EXTENDS ScanLifecycle, FiniteSetTheorems, TLAPS

USE DEF Null

\* Saturating ages stay in range and never run backwards.
LEMMA OlderAge ==
    ASSUME NEW a \in Ages
    PROVE  Older(a) \in Ages /\ Older(a) >= a
  BY DurationAssumption DEF Older, Ages

\* Deadlines are observable: they lie below the age at which ages saturate.
LEMMA Deadlines ==
    /\ HardScan \in Nat /\ HardLLM \in Nat /\ VisibilityTimeout \in Nat
    /\ HardScan < AgeCap /\ HardLLM < AgeCap
    /\ 0 \in Ages /\ Null \notin Ages
  BY DurationAssumption DEF HardScan, HardLLM, VisibilityTimeout, Ages

-----------------------------------------------------------------------------
LEMMA TypeInit == Init => TypeOK
  <1> SUFFICES ASSUME Init PROVE TypeOK
    OBVIOUS
  <1>1. /\ status \in Statuses /\ created \in Ages
        /\ started \in Ages \union {Null} /\ completed \in Ages \union {Null}
        /\ partial \in BOOLEAN /\ results \in BOOLEAN /\ generating \in BOOLEAN
        /\ enrichment \in EnrichmentStatuses /\ api \in {"dispatching", "done"}
    BY Deadlines DEF Init, Statuses, EnrichmentStatuses
  <1>2. /\ runQueue \in [0 .. MaxRetries -> Nat] /\ enrichQueue \in Nat
        /\ lost \subseteq LostMessages /\ losses \in 0 .. MaxLosses
    BY BoundAssumption DEF Init
  <1>3. /\ pc \in [Workers -> Pcs]
        /\ retries \in [Workers -> 0 .. MaxRetries]
        /\ age \in [Workers -> Ages]
    BY BoundAssumption, Deadlines DEF Init, Pcs
  <1>4. NothingSeen \in [status : Statuses, partial : BOOLEAN]
    BY DEF NothingSeen, Statuses
  <1>5. /\ seen \in [Workers -> [status : Statuses, partial : BOOLEAN]]
        /\ outcome \in [Workers -> EnrichmentOutcomes]
        /\ redelivered \in [Workers -> BOOLEAN]
        /\ softFired \in [Workers -> BOOLEAN]
        /\ reaping \in BOOLEAN
    BY <1>4 DEF Init, EnrichmentOutcomes
  <1> QED
    BY <1>1, <1>2, <1>3, <1>5 DEF TypeOK

\* A message put back leaves the queues well typed.
LEMMA PutBackType ==
    ASSUME TypeOK, NEW kind, NEW r \in 0 .. MaxRetries, PutBack(kind, r)
    PROVE  runQueue' \in [0 .. MaxRetries -> Nat] /\ enrichQueue' \in Nat
  BY DEF TypeOK, PutBack

\* A process that ends its task is well typed.
LEMMA EndTaskType ==
    ASSUME TypeOK, NEW w \in Workers, EndTask(w)
    PROVE  /\ pc' \in [Workers -> Pcs]
           /\ retries' \in [Workers -> 0 .. MaxRetries]
           /\ age' \in [Workers -> Ages]
           /\ seen' \in [Workers -> [status : Statuses, partial : BOOLEAN]]
           /\ outcome' \in [Workers -> EnrichmentOutcomes]
           /\ redelivered' \in [Workers -> BOOLEAN]
           /\ softFired' \in [Workers -> BOOLEAN]
  <1>1. NothingSeen \in [status : Statuses, partial : BOOLEAN]
    BY DEF NothingSeen, Statuses
  <1> QED
    BY <1>1, BoundAssumption, Deadlines
    DEF EndTask, Goto, TypeOK, Pcs, EnrichmentOutcomes

\* The API request and run_scan preserve the type invariant.
LEMMA TypeApi == TypeOK /\ Api => TypeOK'
  <1> USE DEF TypeOK
  <1> SUFFICES ASSUME TypeOK, Api PROVE TypeOK'
    OBVIOUS
  <1>1. CASE Dispatch
    BY <1>1, BoundAssumption DEF Dispatch, row, task
  <1>2. CASE DispatchRefused
    BY <1>2 DEF DispatchRefused, broker, task, Statuses
  <1>3. CASE DispatchLost
    BY <1>3, BoundAssumption DEF DispatchLost, row, task
  <1> QED
    BY <1>1, <1>2, <1>3 DEF Api

LEMMA TypeRunScan ==
    ASSUME TypeOK, NEW w \in Workers, RunScan(w)
    PROVE  TypeOK'
  <1> USE DEF TypeOK
  <1> USE DEF Goto, Pcs, RunPcs, RunBody, EnrichPcs
  <1>1. CASE CheckRedelivery(w)
    BY <1>1 DEF CheckRedelivery, row, broker, task
  <1>2. CASE Claim(w)
    BY <1>2, Deadlines DEF Claim, broker, task, Statuses
  <1>3. CASE DuplicateDelivery(w)
    BY <1>3 DEF DuplicateDelivery, row, broker, task
  <1>4. ASSUME NEW someFailed \in BOOLEAN, NEW llm \in BOOLEAN,
               PersistResults(w, someFailed, llm)
        PROVE  TypeOK'
    <2>1. /\ status' \in Statuses /\ completed' \in Ages
          /\ enrichment' \in EnrichmentStatuses /\ partial' \in BOOLEAN
          /\ results' \in BOOLEAN /\ pc' \in [Workers -> Pcs]
      BY <1>4, Deadlines DEF PersistResults, Statuses, EnrichmentStatuses
    <2> QED
      BY <1>4, <2>1 DEF PersistResults, broker, task
  <1>5. CASE AnalysisFails(w)
    BY <1>5 DEF AnalysisFails, Handler, row, broker, task
  <1>6. CASE UnclaimedFails(w)
    BY <1>6 DEF UnclaimedFails, Handler, row, broker, task
  <1>7. CASE QueueEnrichment(w)
    BY <1>7 DEF QueueEnrichment, row, task
  <1>8. CASE QueueEnrichmentRefused(w)
    BY <1>8 DEF QueueEnrichmentRefused, Finish, broker, task, Statuses,
                EnrichmentStatuses
  <1>9. CASE QueueEnrichmentFails(w)
    BY <1>9 DEF QueueEnrichmentFails, Handler, row, broker, task
  <1>10. CASE SetQueued(w)
    BY <1>10 DEF SetQueued, SetStatus, broker, task, Statuses
  <1>11. CASE SetFailed(w)
    BY <1>11, Deadlines DEF SetFailed, SetStatus, broker, task, Statuses
  <1>12. CASE SetStatusLost(w)
    BY <1>12 DEF SetStatusLost, row, broker, task
  <1>13. CASE PublishRetry(w)
    <2>1. \A r \in 0 .. MaxRetries : runQueue[r] + 1 \in Nat
      OBVIOUS
    <2>2. runQueue' \in [0 .. MaxRetries -> Nat]
      BY <1>13, <2>1 DEF PublishRetry
    <2>3. pc' \in [Workers -> Pcs]
      BY <1>13 DEF PublishRetry
    <2> QED
      BY <1>13, <2>2, <2>3 DEF PublishRetry, row, task
  <1>14. CASE PublishRetryRefused(w)
    BY <1>14, EndTaskType DEF PublishRetryRefused, row, broker
  <1> QED
    BY <1>1, <1>2, <1>3, <1>4, <1>5, <1>6, <1>7, <1>8, <1>9, <1>10, <1>11,
       <1>12, <1>13, <1>14 DEF RunScan

LEMMA TypeEnrichScan ==
    ASSUME TypeOK, NEW w \in Workers, EnrichScan(w)
    PROVE  TypeOK'
  <1> USE DEF TypeOK
  <1> USE DEF Goto, Pcs, RunPcs, RunBody, EnrichPcs
  <1>1. CASE EnrichRead(w)
    BY <1>1 DEF EnrichRead, row, broker
  <1>2. CASE EnrichReadFails(w)
    BY <1>2 DEF EnrichReadFails, row, broker, task
  <1>3. CASE EnrichStart(w)
    BY <1>3 DEF EnrichStart, broker, task, Statuses, EnrichmentStatuses
  <1>4. CASE Suggest(w)
    BY <1>4 DEF Suggest, broker, task
  <1>5. CASE EnrichEnds(w)
    BY <1>5 DEF EnrichEnds, row, broker
  <1>6. CASE EnrichFinish(w)
    BY <1>6 DEF EnrichFinish, Finish, broker, task, Statuses,
                EnrichmentStatuses, EnrichmentOutcomes
  <1>7. CASE EnrichFinishLost(w)
    BY <1>7 DEF EnrichFinishLost, row, broker, task
  <1> QED
    BY <1>1, <1>2, <1>3, <1>4, <1>5, <1>6, <1>7 DEF EnrichScan

LEMMA TypeBroker ==
    ASSUME TypeOK, NEW w \in Workers, Broker(w)
    PROVE  TypeOK'
  <1> USE DEF TypeOK
  <1>1. CASE DeliverRun(w)
    <2>1. PICK r \in 0 .. MaxRetries :
            /\ runQueue[r] > 0
            /\ runQueue' = [runQueue EXCEPT ![r] = @ - 1]
            /\ StartTask(w, "check", r)
            /\ UNCHANGED enrichQueue
      BY <1>1 DEF DeliverRun
    <2>2. pc' \in [Workers -> Pcs] /\ retries' \in [Workers -> 0 .. MaxRetries]
      BY <2>1 DEF StartTask, Goto, Pcs, RunPcs, RunBody
    <2>3. runQueue[r] - 1 \in Nat
      <3>1. runQueue[r] \in Nat
        OBVIOUS
      <3>2. runQueue[r] > 0
        BY <2>1
      <3> HIDE DEF TypeOK
      <3> QED
        BY <3>1, <3>2
    <2>4. runQueue' \in [0 .. MaxRetries -> Nat]
      BY <2>1, <2>3
    <2>5. UNCHANGED <<row, api, enrichQueue, lost, losses, age, seen, outcome,
                      redelivered, softFired, reaping>>
      BY <2>1 DEF StartTask
    <2> QED
      BY <2>2, <2>4, <2>5 DEF row
  <1>2. CASE DeliverEnrich(w)
    <2>1. pc' \in [Workers -> Pcs] /\ retries' \in [Workers -> 0 .. MaxRetries]
      BY <1>2, BoundAssumption DEF DeliverEnrich, StartTask, Goto, Pcs, EnrichPcs
    <2> QED
      BY <1>2, <2>1 DEF DeliverEnrich, StartTask, row
  <1>3. CASE Ack(w)
    BY <1>3, EndTaskType DEF Ack, row, broker
  <1>4. CASE ProcessLost(w)
    <2>1. runQueue' \in [0 .. MaxRetries -> Nat] /\ enrichQueue' \in Nat
      BY <1>4, PutBackType DEF ProcessLost
    <2>2. losses' \in 0 .. MaxLosses
      BY <1>4, BoundAssumption DEF ProcessLost
    <2> QED
      BY <1>4, <2>1, <2>2, EndTaskType DEF ProcessLost, row
  <1>5. CASE HostLost(w)
    <2>1. losses' \in 0 .. MaxLosses /\ losses + 1 \in 1 .. MaxLosses
      BY <1>5, BoundAssumption DEF HostLost
    <2>2. [kind |-> Kind(w), retries |-> retries[w], age |-> age[w],
           id |-> losses + 1] \in LostMessages
      BY <2>1 DEF LostMessages, Kind
    <2>3. lost' \subseteq LostMessages
      BY <1>5, <2>2 DEF HostLost
    <2> QED
      BY <1>5, <2>1, <2>3, EndTaskType DEF HostLost, row
  <1>6. CASE RestoreLive(w)
    <2>1. runQueue' \in [0 .. MaxRetries -> Nat] /\ enrichQueue' \in Nat
      BY <1>6, PutBackType DEF RestoreLive
    <2> QED
      BY <1>6, <2>1 DEF RestoreLive, row
  <1> QED
    BY <1>1, <1>2, <1>3, <1>4, <1>5, <1>6 DEF Broker

LEMMA TypeLimits ==
    ASSUME TypeOK, NEW w \in Workers, Limits(w)
    PROVE  TypeOK'
  <1> USE DEF TypeOK
  <1>1. CASE SoftTimeoutRun(w)
    <2>1. CASE pc[w] \in RunBody
      BY <1>1, <2>1 DEF SoftTimeoutRun, row, broker, Goto, Pcs, RunPcs
    <2>2. CASE pc[w] \notin RunBody
      BY <1>1, <2>2, EndTaskType DEF SoftTimeoutRun, row, broker
    <2> QED
      BY <2>1, <2>2
  <1>2. CASE SoftTimeoutEnrich(w)
    BY <1>2 DEF SoftTimeoutEnrich, row, broker, Goto, Pcs, EnrichPcs,
                EnrichmentOutcomes
  <1>3. CASE HardTimeout(w)
    BY <1>3, EndTaskType DEF HardTimeout, row, broker
  <1> QED
    BY <1>1, <1>2, <1>3 DEF Limits

LEMMA TypeReaper == TypeOK /\ Reaper => TypeOK'
  <1> USE DEF TypeOK
  <1> SUFFICES ASSUME TypeOK, Reaper PROVE TypeOK'
    OBVIOUS
  <1>1. CASE ReapRunning
    BY <1>1, Deadlines DEF ReapRunning, broker, task, Statuses
  <1>2. CASE ReapQueued
    BY <1>2, Deadlines DEF ReapQueued, broker, task, Statuses
  <1>3. CASE ReapSelect
    BY <1>3 DEF ReapSelect, row, broker, task
  <1>4. CASE ReapClose
    BY <1>4 DEF ReapClose, Finish, broker, task, Statuses, EnrichmentStatuses
  <1>5. CASE ReaperLost
    <2>1. losses' \in 0 .. MaxLosses
      BY <1>5, BoundAssumption DEF ReaperLost
    <2> QED
      BY <1>5, <2>1 DEF ReaperLost, row, task
  <1> QED
    BY <1>1, <1>2, <1>3, <1>4, <1>5 DEF Reaper

LEMMA TypeRestoreLost == TypeOK /\ RestoreLost => TypeOK'
  <1> SUFFICES ASSUME TypeOK, RestoreLost PROVE TypeOK'
    OBVIOUS
  <1>1. PICK m \in lost :
          /\ lost' = lost \ {m}
          /\ PutBack(m.kind, m.retries)
          /\ UNCHANGED <<row, api, losses, pc, task, reaping>>
    BY DEF RestoreLost
  <1>2. m.retries \in 0 .. MaxRetries
    BY DEF TypeOK, LostMessages
  <1>3. runQueue' \in [0 .. MaxRetries -> Nat] /\ enrichQueue' \in Nat
    BY <1>1, <1>2, PutBackType
  <1> QED
    BY <1>1, <1>3 DEF TypeOK, row, task

LEMMA OlderMessage ==
    ASSUME NEW m \in LostMessages
    PROVE  [m EXCEPT !.age = Older(m.age)] \in LostMessages
  <1>1. m.age \in Ages
    BY DEF LostMessages
  <1>2. Older(m.age) \in Ages
    BY <1>1, OlderAge
  <1> QED
    BY <1>2 DEF LostMessages

LEMMA TypeTick == TypeOK /\ Tick => TypeOK'
  <1> SUFFICES ASSUME TypeOK, Tick PROVE TypeOK'
    OBVIOUS
  <1>1. /\ created' \in Ages /\ started' \in Ages \union {Null}
        /\ completed' \in Ages \union {Null}
    BY OlderAge DEF TypeOK, Tick
  <1>2. age' \in [Workers -> Ages]
    BY OlderAge DEF TypeOK, Tick
  <1>3. lost \subseteq LostMessages
    BY DEF TypeOK
  <1>4. lost' \subseteq LostMessages
    BY <1>3, OlderMessage DEF Tick
  <1> QED
    BY <1>1, <1>2, <1>4 DEF TypeOK, Tick

\* Every variable keeps its type in every behaviour of the scan.
THEOREM TypeCorrect == Spec => []TypeOK
  <1>1. TypeOK /\ [Next]_vars => TypeOK'
    <2> SUFFICES ASSUME TypeOK, [Next]_vars PROVE TypeOK'
      OBVIOUS
    <2>1. CASE Next
      BY <2>1, TypeApi, TypeRunScan, TypeEnrichScan, TypeBroker, TypeLimits,
         TypeRestoreLost, TypeReaper, TypeTick DEF Next
    <2>2. CASE UNCHANGED vars
      BY <2>2 DEF vars, row, broker, task, TypeOK
    <2> QED
      BY <2>1, <2>2
  <1> QED
    BY <1>1, TypeInit, PTL DEF Spec

-----------------------------------------------------------------------------
(***************************************************************************)
(* A scan is shown with findings only when they are stored.  This needs no *)
(* assumption about faults: whoever can still write a readable status knows*)
(* that the results are stored, and nothing deletes them.                  *)
(***************************************************************************)
KnowsResults == \A w \in Workers :
                   pc[w] \in {"queue", "e_start", "e_work", "e_finish"} => results
ReadableInv == ReadableMeansStored /\ KnowsResults /\ (reaping => results)

LEMMA ReadableStep ==
    ASSUME TypeOK, ReadableInv, [Next]_vars
    PROVE  ReadableInv'
  <1> USE DEF TypeOK, ReadableInv, ReadableMeansStored, KnowsResults,
              RESULT_STATUSES, Enrichable
  <1>1. CASE Api
    BY <1>1 DEF Api, Dispatch, DispatchRefused, DispatchLost, row, broker, task
  <1>2. ASSUME NEW w \in Workers, RunScan(w)
        PROVE  ReadableInv'
    <2> USE DEF Goto, row, broker, task
    <2>1. CASE CheckRedelivery(w)
      BY <2>1 DEF CheckRedelivery
    <2>2. CASE Claim(w) \/ DuplicateDelivery(w)
      BY <2>2 DEF Claim, DuplicateDelivery
    <2>3. CASE \E someFailed, llm \in BOOLEAN : PersistResults(w, someFailed, llm)
      BY <2>3 DEF PersistResults
    <2>4. CASE AnalysisFails(w) \/ UnclaimedFails(w) \/ QueueEnrichmentFails(w)
      BY <2>4 DEF AnalysisFails, UnclaimedFails, QueueEnrichmentFails, Handler
    <2>5. CASE QueueEnrichment(w) \/ QueueEnrichmentRefused(w)
      BY <2>5 DEF QueueEnrichment, QueueEnrichmentRefused, Finish
    <2>6. CASE SetQueued(w) \/ SetFailed(w) \/ SetStatusLost(w)
      BY <2>6 DEF SetQueued, SetFailed, SetStatus, SetStatusLost
    <2>7. CASE PublishRetry(w) \/ PublishRetryRefused(w)
      BY <2>7 DEF PublishRetry, PublishRetryRefused, EndTask
    <2> QED
      BY <1>2, <2>1, <2>2, <2>3, <2>4, <2>5, <2>6, <2>7 DEF RunScan
  <1>3. ASSUME NEW w \in Workers, EnrichScan(w)
        PROVE  ReadableInv'
    BY <1>3 DEF EnrichScan, EnrichRead, EnrichReadFails, EnrichStart, Suggest,
       EnrichEnds, EnrichFinish, EnrichFinishLost, Finish, Goto, row, broker, task
  <1>4. ASSUME NEW w \in Workers, Broker(w)
        PROVE  ReadableInv'
    BY <1>4 DEF Broker, DeliverRun, DeliverEnrich, StartTask, Ack, ProcessLost,
       HostLost, RestoreLive, EndTask, Goto, row, task
  <1>5. ASSUME NEW w \in Workers, Limits(w)
        PROVE  ReadableInv'
    BY <1>5 DEF Limits, SoftTimeoutRun, SoftTimeoutEnrich, HardTimeout, EndTask,
       Goto, row
  <1>6. CASE RestoreLost \/ Tick
    BY <1>6 DEF RestoreLost, Tick, row
  <1>7. CASE Reaper
    BY <1>7 DEF Reaper, ReapRunning, ReapQueued, ReapSelect, ReapClose,
       ReaperLost, Finish, row
  <1>8. CASE UNCHANGED vars
    BY <1>8 DEF vars, row
  <1> QED
    BY <1>1, <1>2, <1>3, <1>4, <1>5, <1>6, <1>7, <1>8 DEF Next

\* Whatever errors strike and wherever, no scan is shown with findings that
\* were never stored.
THEOREM ReadableIsStored == Spec => []ReadableMeansStored
  <1>1. Init => ReadableInv
    BY DEF Init, ReadableInv, ReadableMeansStored, KnowsResults, RESULT_STATUSES
  <1>2. ReadableInv => ReadableMeansStored
    BY DEF ReadableInv
  <1> QED
    BY <1>1, <1>2, ReadableStep, TypeCorrect, PTL DEF Spec

-----------------------------------------------------------------------------
(***************************************************************************)
(* The claim is a lock, as long as no database error strikes a delivery    *)
(* that does not own the scan (run unclaimed_error shows what happens      *)
(* then).  The status column says only that somebody analyzes; that it is  *)
(* the holder rests on time: a claim is as old as its task at most, and no *)
(* task outlives its hard limit, which is when the claim becomes stale.    *)
(***************************************************************************)
OneHolder == \A v, w \in Workers : Holding(v) /\ Holding(w) => v = w
WithinLimits == \A w \in Workers :
                   IF Busy(w) THEN age[w] <= HardLimit(w) ELSE age[w] = 0

\* Nothing happens to a scan before its message is sent.
NotDispatched ==
    api = "dispatching" =>
        /\ ~results /\ ~reaping
        /\ \A w \in Workers : ~Busy(w)
        /\ \A r \in 0 .. MaxRetries : runQueue[r] = 0
        /\ enrichQueue = 0 /\ lost = {}

\* No enrichment works with an analysis_partial of an earlier analysis.
VerdictCurrent == \A w \in Workers :
                     pc[w] \in {"e_start", "e_work", "e_finish"}
                         => seen[w].partial = partial

ClaimInv ==
    /\ AnalysisHoldsClaim /\ OneHolder /\ WithinLimits
    /\ StoredResultsStayReadable /\ NotDispatched
    /\ results => completed # Null
    /\ VerdictCurrent /\ VerdictMatchesAnalysis

\* Whoever holds the scan has claimed it, and the claim is not stale.
LEMMA HeldIsFresh ==
    ASSUME TypeOK, ClaimInv, NEW w \in Workers, Holding(w)
    PROVE  status = "running" /\ started <= HardScan /\ started \in Nat
  <1>1. status = "running" /\ started \in 0 .. age[w]
    BY DEF ClaimInv, AnalysisHoldsClaim
  <1>2. age[w] <= HardScan
    BY DEF ClaimInv, WithinLimits, Holding, Busy, HardLimit, RunPcs, RunBody
  <1>3. age[w] \in Nat /\ HardScan \in Nat
    BY Deadlines DEF TypeOK, Ages
  <1> QED
    BY <1>1, <1>2, <1>3

\* A task that moves to a step at which it does not hold the scan disturbs no
\* holder's claim.
LEMMA MoveKeepsHolders ==
    ASSUME TypeOK, ClaimInv, NEW w \in Workers, NEW label,
           label \notin {"analyze", "requeue", "fail"},
           pc' = [pc EXCEPT ![w] = label], UNCHANGED <<status, started, age>>
    PROVE  AnalysisHoldsClaim' /\ OneHolder'
  <1>1. /\ pc'[w] = label
        /\ \A v \in Workers \ {w} : pc'[v] = pc[v]
    BY DEF TypeOK
  <1>2. \A v \in Workers : Holding(v)' => Holding(v)
    BY <1>1 DEF Holding
  <1>3. AnalysisHoldsClaim'
    BY <1>2 DEF ClaimInv, AnalysisHoldsClaim
  <1>4. OneHolder'
    BY <1>2 DEF ClaimInv, OneHolder
  <1> QED
    BY <1>3, <1>4

\* Time alone hurts no claim: the holder ages with it, and its limit strikes
\* before it is stale.
LEMMA TickKeepsClaim ==
    ASSUME TypeOK, ClaimInv, Tick
    PROVE  ClaimInv'
  <1>1. /\ UNCHANGED <<status, partial, results, pc, api, seen, reaping,
                       runQueue, enrichQueue>>
        /\ \A w \in Workers : Holding(w)' = Holding(w) /\ Busy(w)' = Busy(w)
    BY DEF Tick, Holding, Busy
  <1>2. \A w \in Workers :
          /\ Busy(w) => age[w] < HardLimit(w) /\ age'[w] = Older(age[w])
          /\ ~Busy(w) => age'[w] = age[w]
    BY DEF Tick, TypeOK
  <1>3. AnalysisHoldsClaim'
    <2> SUFFICES ASSUME NEW w \in Workers, Holding(w)
                 PROVE  status' = "running" /\ started' \in 0 .. age'[w]
      BY <1>1 DEF AnalysisHoldsClaim
    <2>1. /\ status = "running" /\ started \in 0 .. age[w]
          /\ age[w] \in Ages
      BY DEF ClaimInv, AnalysisHoldsClaim, TypeOK
    <2>2. started' = Older(started) /\ age'[w] = Older(age[w])
      <3>1. started # Null
        BY HeldIsFresh, DurationAssumption
      <3> QED
        BY <3>1, <1>2 DEF Tick, Holding, Busy
    <2>3. started \in Nat /\ age[w] \in Nat /\ started <= age[w]
      BY <2>1 DEF Ages
    <2> QED
      BY <1>1, <2>1, <2>2, <2>3, DurationAssumption DEF Older
  <1>4. OneHolder'
    BY <1>1 DEF ClaimInv, OneHolder
  <1>5. WithinLimits'
    <2> SUFFICES ASSUME NEW w \in Workers
                 PROVE  IF Busy(w) THEN age'[w] <= HardLimit(w)
                                   ELSE age'[w] = 0
      BY <1>1 DEF WithinLimits, HardLimit
    <2>1. age[w] \in Nat /\ HardLimit(w) \in Nat
      BY Deadlines DEF TypeOK, Ages, HardLimit
    <2>2. CASE Busy(w)
      BY <1>2, <2>1, <2>2, DurationAssumption DEF Older
    <2>3. CASE ~Busy(w)
      BY <1>2, <2>3 DEF ClaimInv, WithinLimits
    <2> QED
      BY <2>2, <2>3
  <1>6. StoredResultsStayReadable' /\ VerdictCurrent' /\ VerdictMatchesAnalysis'
    BY <1>1 DEF ClaimInv, StoredResultsStayReadable, VerdictCurrent,
                VerdictMatchesAnalysis
  <1>7. NotDispatched'
    BY <1>1 DEF ClaimInv, NotDispatched, Tick
  <1>8. (results => completed # Null)'
    <2>1. completed # Null => completed' # Null
      BY OlderAge, DurationAssumption DEF Tick, TypeOK, Ages
    <2> QED
      BY <1>1, <2>1 DEF ClaimInv
  <1> QED
    BY <1>3, <1>4, <1>5, <1>6, <1>7, <1>8 DEF ClaimInv

\* A task may end at any point, for any reason: the row still tells the truth.
LEMMA EndTaskKeepsClaim ==
    ASSUME TypeOK, ClaimInv, NEW w \in Workers, Busy(w), EndTask(w),
           UNCHANGED <<row, api, reaping>>
    PROVE  ClaimInv'
  <1>1. /\ pc'[w] = "idle" /\ age'[w] = 0
        /\ \A v \in Workers \ {w} :
             /\ pc'[v] = pc[v] /\ age'[v] = age[v] /\ seen'[v] = seen[v]
    BY DEF EndTask, Goto, TypeOK
  <1>2. AnalysisHoldsClaim' /\ OneHolder'
    BY <1>1 DEF ClaimInv, AnalysisHoldsClaim, OneHolder, Holding, row
  <1>3. WithinLimits'
    BY <1>1 DEF ClaimInv, WithinLimits, Busy, HardLimit
  <1>4. /\ StoredResultsStayReadable' /\ NotDispatched'
        /\ (results => completed # Null)'
    BY DEF ClaimInv, StoredResultsStayReadable, NotDispatched, row
  <1>5. VerdictCurrent' /\ VerdictMatchesAnalysis'
    BY <1>1 DEF ClaimInv, VerdictCurrent, VerdictMatchesAnalysis, row
  <1> QED
    BY <1>2, <1>3, <1>4, <1>5 DEF ClaimInv

LEMMA ClaimStep ==
    ASSUME Faults = {}, TypeOK, ReadableInv, ClaimInv, [Next]_vars
    PROVE  ClaimInv'
  <1> USE DEF ClaimInv, AnalysisHoldsClaim, OneHolder, WithinLimits,
              StoredResultsStayReadable, NotDispatched, VerdictCurrent,
              VerdictMatchesAnalysis, Holding, Busy, RESULT_STATUSES
  <1>0. /\ HardScan \in Nat /\ HardLLM \in Nat
        /\ \A w \in Workers : age[w] \in Nat /\ 0 <= age[w]
    BY Deadlines DEF TypeOK, Ages
  <1>1. CASE Api
    BY <1>1 DEF Api, Dispatch, DispatchRefused, DispatchLost, row, broker, task,
       HardLimit, TypeOK
  <1>2. ASSUME NEW w \in Workers, RunScan(w)
        PROVE  ClaimInv'
    <2> USE DEF Goto, row, broker, task, TypeOK
    <2>1. CASE CheckRedelivery(w)
      BY <2>1, <1>0 DEF CheckRedelivery, HardLimit, RunPcs, RunBody
    <2>2. CASE Claim(w)
      <3>0. \A v \in Workers : ~Holding(v)
        BY <2>2, <1>0, HeldIsFresh DEF Claim, Claimable
      <3>1. AnalysisHoldsClaim' /\ OneHolder'
        BY <2>2, <1>0, <3>0 DEF Claim, Claimable, HardLimit, RunPcs, RunBody,
           ReadableInv, KnowsResults
      <3>2. WithinLimits'
        BY <2>2, <1>0 DEF Claim, Claimable, HardLimit, RunPcs, RunBody,
           ReadableInv, KnowsResults
      <3>3. /\ StoredResultsStayReadable' /\ NotDispatched'
            /\ (results => completed # Null)'
        BY <2>2, <1>0 DEF Claim, Claimable, HardLimit, RunPcs, RunBody,
           ReadableInv, KnowsResults
      <3>4. VerdictCurrent' /\ VerdictMatchesAnalysis'
        BY <2>2, <1>0 DEF Claim, Claimable, HardLimit, RunPcs, RunBody,
           ReadableInv, KnowsResults
      <3> QED
        BY <3>1, <3>2, <3>3, <3>4
    <2>3. CASE DuplicateDelivery(w)
      BY <2>3, <1>0 DEF DuplicateDelivery, HardLimit, RunPcs, RunBody
    <2>4. ASSUME NEW someFailed \in BOOLEAN, NEW llm \in BOOLEAN,
                 PersistResults(w, someFailed, llm)
          PROVE  ClaimInv'
      BY <2>4, <1>0 DEF PersistResults, HardLimit, RunPcs, RunBody, ReadableInv,
                        KnowsResults
    <2>5. CASE AnalysisFails(w)
      BY <2>5, <1>0 DEF AnalysisFails, Handler, HardLimit, RunPcs, RunBody
    <2>6. CASE UnclaimedFails(w) \/ QueueEnrichmentFails(w)
      BY <2>6 DEF UnclaimedFails, QueueEnrichmentFails
    <2>7. CASE QueueEnrichment(w)
      BY <2>7, <1>0 DEF QueueEnrichment, HardLimit, RunPcs, RunBody
    <2>8. CASE QueueEnrichmentRefused(w)
      BY <2>8, <1>0 DEF QueueEnrichmentRefused, Finish, HardLimit, RunPcs,
                        RunBody, ReadableInv, KnowsResults
    <2>9. ASSUME NEW label, NEW next, NEW new,
                 \/ label = "requeue" /\ next = "retry" /\ new = "queued"
                 \/ label = "fail" /\ next = "ack" /\ new = "failed",
                 SetStatus(w, label, next, new)
          PROVE  ClaimInv'
      <3>0. ~results
        BY <2>9 DEF SetStatus
      <3>1. AnalysisHoldsClaim' /\ OneHolder'
        BY <2>9, <1>0 DEF SetStatus, HardLimit, RunPcs, RunBody
      <3>2. WithinLimits'
        BY <2>9, <1>0 DEF SetStatus, HardLimit, RunPcs, RunBody
      <3>3. /\ StoredResultsStayReadable' /\ NotDispatched'
            /\ (results => completed # Null)'
        BY <2>9, <1>0 DEF SetStatus, HardLimit, RunPcs, RunBody
      <3>4. VerdictCurrent' /\ VerdictMatchesAnalysis'
        BY <2>9, <1>0 DEF SetStatus, HardLimit, RunPcs, RunBody
      <3> QED
        BY <3>1, <3>2, <3>3, <3>4
    <2>10. CASE SetStatusLost(w)
      BY <2>10, <1>0 DEF SetStatusLost, HardLimit, RunPcs, RunBody
    <2>11. CASE PublishRetry(w)
      BY <2>11, <1>0 DEF PublishRetry, HardLimit, RunPcs, RunBody
    <2>12. CASE PublishRetryRefused(w)
      <3>1. EndTask(w) /\ Busy(w) /\ UNCHANGED <<row, api, reaping>>
        BY <2>12 DEF PublishRetryRefused
      <3> QED
        BY <3>1, EndTaskKeepsClaim
    <2> QED
      BY <1>2, <2>1, <2>2, <2>3, <2>4, <2>5, <2>6, <2>7, <2>8, <2>9, <2>10,
         <2>11, <2>12 DEF RunScan, SetQueued, SetFailed
  <1>3. ASSUME NEW w \in Workers, EnrichScan(w)
        PROVE  ClaimInv'
    <2> USE DEF Goto, row, broker, task, TypeOK, HardLimit, RunPcs, RunBody
    <2>1. CASE EnrichRead(w) \/ EnrichReadFails(w)
      <3>0. /\ UNCHANGED <<status, started, age>>
            /\ \E label \in {"e_start", "e_ack"} :
                  pc' = [pc EXCEPT ![w] = label]
        BY <2>1 DEF EnrichRead, EnrichReadFails
      <3>1. AnalysisHoldsClaim' /\ OneHolder'
        BY <3>0, MoveKeepsHolders
      <3>2. WithinLimits'
        BY <1>0, <2>1 DEF EnrichRead, EnrichReadFails
      <3>3. /\ StoredResultsStayReadable' /\ NotDispatched'
            /\ (results => completed # Null)'
        BY <1>0, <2>1 DEF EnrichRead, EnrichReadFails
      <3>4. VerdictCurrent' /\ VerdictMatchesAnalysis'
        BY <1>0, <2>1 DEF EnrichRead, EnrichReadFails
      <3> QED
        BY <3>1, <3>2, <3>3, <3>4
    <2>2. CASE EnrichStart(w)
      BY <1>0, <2>2 DEF EnrichStart, ReadableInv, KnowsResults
    <2>3. CASE Suggest(w) \/ EnrichEnds(w) \/ EnrichFinishLost(w)
      <3>0. /\ UNCHANGED <<status, started, age>>
            /\ \E label \in {"e_work", "e_finish", "e_ack"} :
                  pc' = [pc EXCEPT ![w] = label]
        BY <2>3 DEF Suggest, EnrichEnds, EnrichFinishLost
      <3>1. AnalysisHoldsClaim' /\ OneHolder'
        BY <3>0, MoveKeepsHolders
      <3>2. WithinLimits'
        BY <1>0, <2>3 DEF Suggest, EnrichEnds, EnrichFinishLost
      <3>3. /\ StoredResultsStayReadable' /\ NotDispatched'
            /\ (results => completed # Null)'
        BY <1>0, <2>3 DEF Suggest, EnrichEnds, EnrichFinishLost
      <3>4. VerdictCurrent' /\ VerdictMatchesAnalysis'
        BY <1>0, <2>3 DEF Suggest, EnrichEnds, EnrichFinishLost
      <3> QED
        BY <3>1, <3>2, <3>3, <3>4
    <2>4. CASE EnrichFinish(w)
      BY <1>0, <2>4 DEF EnrichFinish, Finish, ReadableInv, KnowsResults
    <2> QED
      BY <1>3, <2>1, <2>2, <2>3, <2>4 DEF EnrichScan
  <1>4. ASSUME NEW w \in Workers, Broker(w)
        PROVE  ClaimInv'
    <2> USE DEF Goto, row, broker, task, TypeOK, HardLimit, RunPcs, RunBody
    <2>1. CASE DeliverRun(w) \/ DeliverEnrich(w)
      <3>0. /\ UNCHANGED <<status, started, age>>
            /\ \E label \in {"check", "e_check"} :
                  pc' = [pc EXCEPT ![w] = label]
        BY <2>1 DEF DeliverRun, DeliverEnrich, StartTask
      <3>1. AnalysisHoldsClaim' /\ OneHolder'
        BY <3>0, MoveKeepsHolders
      <3>2. WithinLimits'
        BY <1>0, <2>1 DEF DeliverRun, DeliverEnrich, StartTask
      <3>3. /\ StoredResultsStayReadable' /\ NotDispatched'
            /\ (results => completed # Null)'
        BY <1>0, <2>1 DEF DeliverRun, DeliverEnrich, StartTask
      <3>4. VerdictCurrent' /\ VerdictMatchesAnalysis'
        BY <1>0, <2>1 DEF DeliverRun, DeliverEnrich, StartTask
      <3> QED
        BY <3>1, <3>2, <3>3, <3>4
    <2>2. CASE Ack(w) \/ ProcessLost(w) \/ HostLost(w)
      <3>1. EndTask(w) /\ Busy(w) /\ UNCHANGED <<row, api, reaping>>
        BY <2>2 DEF Ack, ProcessLost, HostLost
      <3> QED
        BY <3>1, EndTaskKeepsClaim
    <2>3. CASE RestoreLive(w)
      BY <1>0, <2>3 DEF RestoreLive
    <2> QED
      BY <1>4, <2>1, <2>2, <2>3 DEF Broker
  <1>5. ASSUME NEW w \in Workers, Limits(w)
        PROVE  ClaimInv'
    <2> USE DEF Goto, row, TypeOK, HardLimit, RunPcs, RunBody
    <2>1. CASE SoftTimeoutRun(w)
      <3>1. CASE pc[w] \in RunBody
        <4>1. pc[w] = "analyze" /\ pc' = [pc EXCEPT ![w] = "fail"]
          BY <2>1, <3>1 DEF SoftTimeoutRun
        <4>2. UNCHANGED <<row, api, age, seen, reaping>>
          BY <2>1, <3>1 DEF SoftTimeoutRun
        <4>3. AnalysisHoldsClaim' /\ OneHolder' /\ WithinLimits'
          BY <4>1, <4>2
        <4> QED
          BY <4>1, <4>2, <4>3
      <3>2. CASE pc[w] \notin RunBody
        <4>1. EndTask(w) /\ Busy(w) /\ UNCHANGED <<row, api, reaping>>
          BY <2>1, <3>2 DEF SoftTimeoutRun
        <4> QED
          BY <4>1, EndTaskKeepsClaim
      <3> QED
        BY <3>1, <3>2
    <2>2. CASE SoftTimeoutEnrich(w)
      <3>1. /\ pc[w] \in EnrichPcs /\ age' = age /\ seen' = seen
            /\ UNCHANGED <<row, api, broker, reaping>>
            /\ \/ pc' = [pc EXCEPT ![w] = "e_ack"]
               \/ pc[w] = "e_work" /\ pc' = [pc EXCEPT ![w] = "e_finish"]
        BY <2>2 DEF SoftTimeoutEnrich
      <3>0. \E label \in {"e_ack", "e_finish"} :
              pc' = [pc EXCEPT ![w] = label]
        BY <3>1
      <3>2. AnalysisHoldsClaim' /\ OneHolder'
        BY <3>0, <3>1, MoveKeepsHolders
      <3>3. WithinLimits'
        BY <3>1, <1>0 DEF EnrichPcs
      <3>4. VerdictCurrent' /\ VerdictMatchesAnalysis'
        BY <3>1
      <3> QED
        BY <3>1, <3>2, <3>3, <3>4 DEF EnrichPcs
    <2>3. CASE HardTimeout(w)
      <3>1. EndTask(w) /\ Busy(w) /\ UNCHANGED <<row, api, reaping>>
        BY <2>3 DEF HardTimeout
      <3> QED
        BY <3>1, EndTaskKeepsClaim
    <2> QED
      BY <1>5, <2>1, <2>2, <2>3 DEF Limits
  <1>6. CASE RestoreLost
    BY <1>6 DEF RestoreLost, row, task, HardLimit
  <1>7. CASE Tick
    BY <1>7, TickKeepsClaim
  <1>8. CASE Reaper
    <2> USE DEF row, broker, task, HardLimit, RunPcs, RunBody, TypeOK, Ages
    <2>1. CASE ReapRunning
      <3>1. \A w \in Workers : ~Holding(w)
        BY <1>0, <2>1, HeldIsFresh, DurationAssumption DEF ReapRunning
      <3> QED
        BY <1>0, <2>1, <3>1 DEF ReapRunning
    <2>2. CASE ReapQueued
      BY <1>0, <2>2 DEF ReapQueued
    <2>3. CASE ReapSelect \/ ReaperLost
      BY <1>0, <2>3 DEF ReapSelect, ReaperLost, Enrichable, ReadableInv,
                        ReadableMeansStored
    <2>4. CASE ReapClose
      BY <1>0, <2>4 DEF ReapClose, Finish, ReadableInv
    <2> QED
      BY <1>8, <2>1, <2>2, <2>3, <2>4 DEF Reaper
  <1>9. CASE UNCHANGED vars
    BY <1>9 DEF vars, row, broker, task, HardLimit
  <1> QED
    BY <1>1, <1>2, <1>3, <1>4, <1>5, <1>6, <1>7, <1>8, <1>9 DEF Next

\* The invariant of the claim holds in every behaviour.
LEMMA ClaimInvariant ==
    ASSUME Faults = {}
    PROVE  Spec => [](TypeOK /\ ReadableInv /\ ClaimInv)
  <1>1. Init => ReadableInv /\ ClaimInv
    BY DEF Init, ReadableInv, ReadableMeansStored, KnowsResults, ClaimInv,
       AnalysisHoldsClaim, OneHolder, WithinLimits, StoredResultsStayReadable,
       NotDispatched, VerdictCurrent, VerdictMatchesAnalysis, Holding, Busy,
       RESULT_STATUSES
  <1>2. TypeOK /\ ReadableInv /\ ClaimInv /\ [Next]_vars => ReadableInv' /\ ClaimInv'
    BY ReadableStep, ClaimStep
  <1> QED
    BY <1>1, <1>2, TypeCorrect, PTL DEF Spec

\* No two processes ever analyze the scan at the same time.
THEOREM AnalysisIsExclusive ==
    ASSUME Faults = {}
    PROVE  Spec => []OneAnalysisAtATime
  <1>1. ClaimInv => OneAnalysisAtATime
    BY DEF ClaimInv, OneHolder, Holding, OneAnalysisAtATime
  <1> QED
    BY <1>1, ClaimInvariant, PTL

\* Whoever analyzes owns the current claim.
THEOREM AnalysisOwnsClaim ==
    ASSUME Faults = {}
    PROVE  Spec => []AnalysisHoldsClaim
  <1>1. ClaimInv => AnalysisHoldsClaim
    BY DEF ClaimInv
  <1> QED
    BY <1>1, ClaimInvariant, PTL

\* Stored results are never taken back.
THEOREM ResultsStayReadable ==
    ASSUME Faults = {}
    PROVE  Spec => []StoredResultsStayReadable
  <1>1. ClaimInv => StoredResultsStayReadable
    BY DEF ClaimInv
  <1> QED
    BY <1>1, ClaimInvariant, PTL

\* The final status is the one the analysis earned.
THEOREM VerdictIsAnalysis ==
    ASSUME Faults = {}
    PROVE  Spec => []VerdictMatchesAnalysis
  <1>1. ClaimInv => VerdictMatchesAnalysis
    BY DEF ClaimInv
  <1> QED
    BY <1>1, ClaimInvariant, PTL

\* A scan that waits for its enrichment can be found by the reaper.
THEOREM ReaperFindsEnrichments ==
    ASSUME Faults = {}
    PROVE  Spec => []EnrichableCanBeReaped
  <1>1. ReadableInv /\ ClaimInv => EnrichableCanBeReaped
    BY DEF ClaimInv, ReadableInv, ReadableMeansStored, EnrichableCanBeReaped,
       Enrichable, RESULT_STATUSES
  <1> QED
    BY <1>1, ClaimInvariant, PTL

-----------------------------------------------------------------------------
(***************************************************************************)
(* The scan implements the analysis lease: a step of the code takes the    *)
(* lease, stores the result, gives the lease back, or leaves it alone.     *)
(***************************************************************************)
LEMMA LeaseStep ==
    ASSUME TypeOK, ReadableInv, ClaimInv, Faults = {}, [Next]_vars
    PROVE  [Lease!Next]_(Lease!vars)
  <1> USE DEF TypeOK
  <1> DEFINE Keeps == Holders' = Holders /\ results' = results
             Gives(w) == Holders = {w} /\ Holders' = {} /\ results' = results
  <1>1. Keeps => [Lease!Next]_(Lease!vars)
    BY DEF Lease!vars
  <1>2. ASSUME NEW w \in Workers, Gives(w) PROVE Lease!Next
    BY <1>2 DEF Lease!Next, Lease!Release
  \* A process other than the holder moves, and none starts to hold.
  <1>3. ASSUME NEW w \in Workers, ~Holding(w), ~Holding(w)', UNCHANGED results,
               \A v \in Workers \ {w} : pc'[v] = pc[v]
        PROVE  Keeps
    BY <1>3 DEF Holders, Holding
  \* A process stops holding the scan.
  <1>4. ASSUME NEW w \in Workers, ~Holding(w)', UNCHANGED results,
               \A v \in Workers \ {w} : pc'[v] = pc[v]
        PROVE  Keeps \/ Gives(w)
    <2>1. CASE Holding(w)
      BY <1>4, <2>1 DEF Holders, Holding, ClaimInv, OneHolder
    <2>2. CASE ~Holding(w)
      BY <1>3, <1>4, <2>2
    <2> QED
      BY <2>1, <2>2
  \* The holder goes on holding it.
  <1>5. ASSUME NEW w \in Workers, Holding(w), Holding(w)', UNCHANGED results,
               \A v \in Workers \ {w} : pc'[v] = pc[v]
        PROVE  Keeps
    BY <1>5 DEF Holders, Holding
  <1>6. UNCHANGED <<pc, results>> => Keeps
    BY DEF Holders, Holding
  <1>7. ASSUME NEW w \in Workers, EndTask(w)
        PROVE  ~Holding(w)' /\ \A v \in Workers \ {w} : pc'[v] = pc[v]
    BY <1>7 DEF EndTask, Goto, Holding
  <1>8. ASSUME NEW w \in Workers, NEW label, Goto(w, label)
        PROVE  pc'[w] = label /\ \A v \in Workers \ {w} : pc'[v] = pc[v]
    BY <1>8 DEF Goto
  <1>9. CASE Api \/ RestoreLost \/ Reaper \/ Tick \/ UNCHANGED vars
    <2>1. UNCHANGED <<pc, results>>
      BY <1>9 DEF Api, Dispatch, DispatchRefused, DispatchLost, RestoreLost,
         Reaper, ReapRunning, ReapQueued, ReapSelect, ReapClose, ReaperLost,
         Finish, Tick, vars, row
    <2> QED
      BY <2>1, <1>1, <1>6
  <1>10. ASSUME NEW w \in Workers, RunScan(w)
         PROVE  [Lease!Next]_(Lease!vars)
    <2>1. CASE Claim(w)
      <3>1. Holders = {} /\ ~results
        BY <2>1, HeldIsFresh, Deadlines
        DEF Claim, Claimable, Holders, ClaimInv, StoredResultsStayReadable,
            RESULT_STATUSES
      <3>2. Holders' = {w} /\ results' = results
        BY <2>1, <3>1 DEF Claim, Goto, Holders, Holding
      <3> QED
        BY <3>1, <3>2 DEF Lease!Next, Lease!Acquire
    <2>2. ASSUME NEW someFailed \in BOOLEAN, NEW llm \in BOOLEAN,
                 PersistResults(w, someFailed, llm)
          PROVE  Lease!Next
      <3>1. Holders = {w}
        BY <2>2 DEF PersistResults, Holders, Holding, ClaimInv, OneHolder
      <3>2. Holders' = {} /\ results' = TRUE
        BY <2>2, <3>1 DEF PersistResults, Goto, Holders, Holding
      <3> QED
        BY <3>1, <3>2 DEF Lease!Next, Lease!Publish
    <2>3. CASE AnalysisFails(w)
      BY <2>3, <1>1, <1>5, <1>8 DEF AnalysisFails, Handler, Holding, row
    <2>4. CASE UnclaimedFails(w) \/ QueueEnrichmentFails(w)
      BY <2>4 DEF UnclaimedFails, QueueEnrichmentFails
    <2>5. CASE \/ CheckRedelivery(w) \/ DuplicateDelivery(w) \/ QueueEnrichment(w)
               \/ QueueEnrichmentRefused(w) \/ PublishRetry(w)
      <3>1. ~Holding(w) /\ ~Holding(w)' /\ UNCHANGED results
        BY <2>5 DEF CheckRedelivery, DuplicateDelivery, QueueEnrichment,
           QueueEnrichmentRefused, PublishRetry, Finish, Goto, Holding, row
      <3>2. \A v \in Workers \ {w} : pc'[v] = pc[v]
        BY <2>5 DEF CheckRedelivery, DuplicateDelivery, QueueEnrichment,
           QueueEnrichmentRefused, PublishRetry, Goto
      <3> QED
        BY <3>1, <3>2, <1>1, <1>3
    <2>6. CASE \/ SetQueued(w) \/ SetFailed(w) \/ SetStatusLost(w)
               \/ PublishRetryRefused(w)
      <3>1. /\ ~Holding(w)' /\ UNCHANGED results
            /\ \A v \in Workers \ {w} : pc'[v] = pc[v]
        BY <2>6, <1>7 DEF SetQueued, SetFailed, SetStatus, SetStatusLost,
           PublishRetryRefused, Goto, Holding, row
      <3> QED
        BY <3>1, <1>1, <1>2, <1>4
    <2> QED
      BY <1>10, <2>1, <2>2, <2>3, <2>4, <2>5, <2>6 DEF RunScan
  <1>11. ASSUME NEW w \in Workers, EnrichScan(w)
         PROVE  [Lease!Next]_(Lease!vars)
    <2>1. ~Holding(w) /\ ~Holding(w)' /\ UNCHANGED results
      BY <1>11 DEF EnrichScan, EnrichRead, EnrichReadFails, EnrichStart, Suggest,
         EnrichEnds, EnrichFinish, EnrichFinishLost, Finish, Goto, Holding, row
    <2>2. \A v \in Workers \ {w} : pc'[v] = pc[v]
      BY <1>11 DEF EnrichScan, EnrichRead, EnrichReadFails, EnrichStart, Suggest,
         EnrichEnds, EnrichFinish, EnrichFinishLost, Goto
    <2> QED
      BY <2>1, <2>2, <1>1, <1>3
  <1>12. ASSUME NEW w \in Workers, Broker(w)
         PROVE  [Lease!Next]_(Lease!vars)
    <2>1. CASE RestoreLive(w)
      BY <2>1, <1>1, <1>6 DEF RestoreLive, row
    <2>2. CASE ~RestoreLive(w)
      <3>1. ~Holding(w)' /\ UNCHANGED results
        BY <1>12, <2>2, <1>7 DEF Broker, DeliverRun, DeliverEnrich, StartTask,
           Ack, ProcessLost, HostLost, Goto, Holding, row
      <3>2. \A v \in Workers \ {w} : pc'[v] = pc[v]
        BY <1>12, <2>2, <1>7 DEF Broker, DeliverRun, DeliverEnrich, StartTask,
           Ack, ProcessLost, HostLost, Goto
      <3> QED
        BY <3>1, <3>2, <1>1, <1>2, <1>4
    <2> QED
      BY <2>1, <2>2
  <1>13. ASSUME NEW w \in Workers, Limits(w)
         PROVE  [Lease!Next]_(Lease!vars)
    <2>1. CASE SoftTimeoutRun(w) /\ pc[w] = "analyze"
      <3>1. Goto(w, "fail") /\ UNCHANGED results
        BY <2>1 DEF SoftTimeoutRun, RunBody, row
      <3> QED
        BY <2>1, <3>1, <1>1, <1>5, <1>8 DEF Holding
    <2>2. CASE ~(SoftTimeoutRun(w) /\ pc[w] = "analyze")
      <3>1. ~Holding(w)' /\ UNCHANGED results
        BY <1>13, <2>2, <1>7, <1>8 DEF Limits, SoftTimeoutRun, SoftTimeoutEnrich,
           HardTimeout, RunBody, Holding, row
      <3>2. \A v \in Workers \ {w} : pc'[v] = pc[v]
        BY <1>13, <1>7, <1>8 DEF Limits, SoftTimeoutRun, SoftTimeoutEnrich,
           HardTimeout
      <3> QED
        BY <3>1, <3>2, <1>1, <1>2, <1>4
    <2> QED
      BY <2>1, <2>2
  <1> QED
    BY <1>9, <1>10, <1>11, <1>12, <1>13 DEF Next

\* Every behaviour of the scan is one of the lease.
THEOREM ScanImplementsLease ==
    ASSUME Faults = {}
    PROVE  Spec => LeaseSpec
  <1>1. Init => Lease!Init
    BY DEF Init, Lease!Init, Holders, Holding
  <1>2. TypeOK /\ ReadableInv /\ ClaimInv /\ [Next]_vars => [Lease!Next]_(Lease!vars)
    BY LeaseStep
  <1> QED
    BY <1>1, <1>2, ClaimInvariant, PTL DEF Spec, LeaseSpec, Lease!Spec

-----------------------------------------------------------------------------
(***************************************************************************)
(* Deliveries are counted.  The count rests on time once more: the broker  *)
(* would restore the message of a task that still runs, and duplicate it   *)
(* without any loss, if the hard limit of run_scan lay beyond the          *)
(* visibility timeout.  It does not (the formula leaves more slack than    *)
(* there is between the soft and the hard limit), so a running task is     *)
(* never restored, whatever the database does to it.                       *)
(***************************************************************************)
YoungRuns ==
    \A w \in Workers :
        /\ pc[w] = "idle" => age[w] = 0 /\ ~redelivered[w]
        /\ pc[w] \in RunPcs => age[w] <= HardScan /\ ~redelivered[w]

DeliveriesInv ==
    /\ YoungRuns
    /\ IsFiniteSet(QueuedRuns) /\ IsFiniteSet(LostRuns)
    /\ RunDeliveries <= (IF api = "dispatching" THEN 0 ELSE 1) + losses

\* Messages of the queue as elements of a set: one more, one less.
LEMMA QueueGrows ==
    ASSUME TypeOK, IsFiniteSet(QueuedRuns), NEW r \in 0 .. MaxRetries,
           runQueue' = [runQueue EXCEPT ![r] = @ + 1]
    PROVE  /\ IsFiniteSet(QueuedRuns')
           /\ Cardinality(QueuedRuns') = Cardinality(QueuedRuns) + 1
  <1>1. runQueue[r] \in Nat /\ runQueue'[r] = runQueue[r] + 1
        /\ \A q \in 0 .. MaxRetries : q # r => runQueue'[q] = runQueue[q]
    BY DEF TypeOK
  <1>2. ASSUME NEW q \in 0 .. MaxRetries, NEW k
        PROVE  /\ <<q, k>> \in QueuedRuns <=> k \in 1 .. runQueue[q]
               /\ <<q, k>> \in QueuedRuns' <=> k \in 1 .. runQueue'[q]
    BY DEF QueuedRuns
  <1>3. ASSUME NEW m, m \in QueuedRuns \/ m \in QueuedRuns'
        PROVE  \E q \in 0 .. MaxRetries, k \in Nat : m = <<q, k>>
    BY <1>3 DEF QueuedRuns, TypeOK
  <1>4. 1 .. runQueue'[r] = (1 .. runQueue[r]) \union {runQueue[r] + 1}
        /\ runQueue[r] + 1 \notin 1 .. runQueue[r]
    BY <1>1
  <1>5. QueuedRuns' = QueuedRuns \union {<<r, runQueue[r] + 1>>}
    BY <1>1, <1>2, <1>3, <1>4
  <1>6. <<r, runQueue[r] + 1>> \notin QueuedRuns
    BY <1>2, <1>4
  <1> QED
    BY <1>5, <1>6, FS_AddElement

LEMMA QueueShrinks ==
    ASSUME TypeOK, IsFiniteSet(QueuedRuns), NEW r \in 0 .. MaxRetries, runQueue[r] > 0,
           runQueue' = [runQueue EXCEPT ![r] = @ - 1]
    PROVE  /\ IsFiniteSet(QueuedRuns')
           /\ Cardinality(QueuedRuns') = Cardinality(QueuedRuns) - 1
  <1>1. runQueue[r] \in Nat /\ runQueue'[r] = runQueue[r] - 1
        /\ \A q \in 0 .. MaxRetries : q # r => runQueue'[q] = runQueue[q]
    BY DEF TypeOK
  <1>2. ASSUME NEW q \in 0 .. MaxRetries, NEW k
        PROVE  /\ <<q, k>> \in QueuedRuns <=> k \in 1 .. runQueue[q]
               /\ <<q, k>> \in QueuedRuns' <=> k \in 1 .. runQueue'[q]
    BY DEF QueuedRuns
  <1>3. ASSUME NEW m, m \in QueuedRuns \/ m \in QueuedRuns'
        PROVE  \E q \in 0 .. MaxRetries, k \in Nat : m = <<q, k>>
    BY <1>1, <1>3 DEF QueuedRuns, TypeOK
  <1>4. 1 .. runQueue'[r] = (1 .. runQueue[r]) \ {runQueue[r]} /\ runQueue[r] \in 1 .. runQueue[r]
    BY <1>1
  <1>5. QueuedRuns' = QueuedRuns \ {<<r, runQueue[r]>>}
    BY <1>1, <1>2, <1>3, <1>4
  <1>6. <<r, runQueue[r]>> \in QueuedRuns
    BY <1>2, <1>4
  <1> QED
    BY <1>5, <1>6, FS_RemoveElement

LEMMA PutBackCounts ==
    ASSUME TypeOK, IsFiniteSet(QueuedRuns), NEW kind \in {"run", "enrich"},
           NEW r \in 0 .. MaxRetries, PutBack(kind, r)
    PROVE  /\ IsFiniteSet(QueuedRuns')
           /\ Cardinality(QueuedRuns') =
                 Cardinality(QueuedRuns) + (IF kind = "run" THEN 1 ELSE 0)
  <1>1. CASE kind = "run"
    BY <1>1, QueueGrows DEF PutBack
  <1>2. CASE kind = "enrich"
    <2>1. UNCHANGED runQueue
      BY <1>2 DEF PutBack
    <2>2. QueuedRuns' = QueuedRuns /\ Cardinality(QueuedRuns) \in Nat
      BY <2>1, FS_CardinalityType DEF QueuedRuns
    <2> QED
      BY <1>2, <2>2
  <1> QED
    BY <1>1, <1>2

\* Time changes the age of the lost messages, not their number.
LEMMA LostAge ==
    ASSUME IsFiniteSet(LostRuns), lost \subseteq LostMessages,
           lost' = {[m EXCEPT !.age = Older(m.age)] : m \in lost}
    PROVE  IsFiniteSet(LostRuns') /\ Cardinality(LostRuns') <= Cardinality(LostRuns)
  <1> DEFINE f == [m \in LostRuns |-> [m EXCEPT !.age = Older(m.age)]]
  <1>1. \A m \in lost : [m EXCEPT !.age = Older(m.age)].kind = m.kind
    BY DEF LostMessages
  <1>2. LostRuns' = {[m EXCEPT !.age = Older(m.age)] : m \in LostRuns}
    BY <1>1 DEF LostRuns
  <1>3. f \in Surjection(LostRuns, LostRuns')
    BY <1>2 DEF Surjection
  <1> HIDE DEF f
  <1> QED
    BY <1>3, FS_Surjection DEF ExistsSurjection

LEMMA ExecutingCount ==
    IsFiniteSet(ExecutingRuns) /\ Cardinality(ExecutingRuns) \in Nat
  <1>1. ExecutingRuns \in SUBSET Workers
    BY DEF ExecutingRuns
  <1>2. IsFiniteSet(ExecutingRuns)
    BY <1>1, WorkerAssumption, FS_Subset
  <1> QED
    BY <1>2, FS_CardinalityType

\* A process that moves on within its task.
LEMMA MoveExecutes ==
    ASSUME TypeOK, YoungRuns, NEW w \in Workers, NEW l \in Pcs \ {"idle"}, Goto(w, l),
           UNCHANGED <<age, redelivered>>,
           l \in RunPcs => pc[w] \in RunPcs \union {"idle"}
    PROVE  /\ YoungRuns'
           /\ ExecutingRuns' = IF l \in RunPcs \ {"ack"} THEN ExecutingRuns \union {w}
                               ELSE ExecutingRuns \ {w}
  <1>1. pc'[w] = l /\ \A v \in Workers : v # w => pc'[v] = pc[v]
    BY DEF Goto, TypeOK
  <1>2. 0 <= HardScan
    BY Deadlines
  <1> QED
    BY <1>1, <1>2 DEF YoungRuns, ExecutingRuns

LEMMA EndExecutes ==
    ASSUME TypeOK, YoungRuns, NEW w \in Workers, EndTask(w)
    PROVE  YoungRuns' /\ ExecutingRuns' = ExecutingRuns \ {w}
  <1>1. /\ pc'[w] = "idle" /\ age'[w] = 0 /\ redelivered'[w] = FALSE
        /\ \A v \in Workers : v # w => pc'[v] = pc[v] /\ age'[v] = age[v]
                                      /\ redelivered'[v] = redelivered[v]
    BY DEF EndTask, Goto, TypeOK
  <1> QED
    BY <1>1 DEF YoungRuns, ExecutingRuns, RunPcs, RunBody

\* Whatever a task does, its delivery does not execute a second time, and only
\* the retry sends another one.
LEMMA TaskSends ==
    ASSUME TypeOK, YoungRuns, NEW w \in Workers,
           RunScan(w) \/ EnrichScan(w) \/ Limits(w) \/ Ack(w), ~PublishRetry(w)
    PROVE  /\ YoungRuns' /\ ExecutingRuns' \subseteq ExecutingRuns
           /\ UNCHANGED <<runQueue, lost, losses, api>>
  <1> DEFINE Goal == /\ YoungRuns' /\ ExecutingRuns' \subseteq ExecutingRuns
                     /\ UNCHANGED <<runQueue, lost, losses, api>>
  <1> USE DEF Pcs, RunPcs, RunBody, EnrichPcs, broker, task
  <1>1. ASSUME NEW l \in Pcs \ {"idle"}, Goto(w, l), UNCHANGED <<age, redelivered>>,
               l \in RunPcs => pc[w] \in RunPcs,
               l \in RunPcs \ {"ack"} => pc[w] # "ack",
               UNCHANGED <<runQueue, lost, losses, api>>
        PROVE  Goal
    <2>1. /\ YoungRuns'
          /\ ExecutingRuns' = IF l \in RunPcs \ {"ack"} THEN ExecutingRuns \union {w}
                              ELSE ExecutingRuns \ {w}
      BY <1>1, MoveExecutes
    <2>2. l \in RunPcs \ {"ack"} => w \in ExecutingRuns
      BY <1>1 DEF ExecutingRuns
    <2> QED
      BY <1>1, <2>1, <2>2
  <1>2. ASSUME EndTask(w), UNCHANGED <<runQueue, lost, losses, api>> PROVE Goal
    BY <1>2, EndExecutes
  <1>3. CASE RunScan(w)
    <2>1. CASE CheckRedelivery(w)
      BY <1>1, <2>1 DEF CheckRedelivery
    <2>2. CASE Claim(w)
      BY <1>1, <2>2 DEF Claim
    <2>3. CASE DuplicateDelivery(w)
      BY <1>1, <2>3 DEF DuplicateDelivery
    <2>4. CASE \E someFailed, llm \in BOOLEAN : PersistResults(w, someFailed, llm)
      BY <1>1, <2>4 DEF PersistResults
    <2>5. CASE AnalysisFails(w)
      BY <1>1, <2>5 DEF AnalysisFails, Handler
    <2>6. CASE UnclaimedFails(w)
      BY <1>1, <2>6 DEF UnclaimedFails, Handler
    <2>7. CASE QueueEnrichment(w)
      BY <1>1, <2>7 DEF QueueEnrichment
    <2>8. CASE QueueEnrichmentRefused(w)
      BY <1>1, <2>8 DEF QueueEnrichmentRefused
    <2>9. CASE QueueEnrichmentFails(w)
      BY <1>1, <2>9 DEF QueueEnrichmentFails, Handler
    <2>10. CASE SetQueued(w)
      BY <1>1, <2>10 DEF SetQueued, SetStatus
    <2>11. CASE SetFailed(w)
      BY <1>1, <2>11 DEF SetFailed, SetStatus
    <2>12. CASE SetStatusLost(w)
      BY <1>1, <2>12 DEF SetStatusLost
    <2>13. CASE PublishRetryRefused(w)
      BY <1>2, <2>13 DEF PublishRetryRefused
    <2> QED
      BY <1>3, <2>1, <2>2, <2>3, <2>4, <2>5, <2>6, <2>7, <2>8, <2>9, <2>10, <2>11, <2>12, <2>13
         DEF RunScan
  <1>4. CASE EnrichScan(w)
    <2>1. CASE EnrichRead(w)
      BY <1>1, <2>1 DEF EnrichRead
    <2>2. CASE EnrichReadFails(w)
      BY <1>1, <2>2 DEF EnrichReadFails
    <2>3. CASE EnrichStart(w)
      BY <1>1, <2>3 DEF EnrichStart
    <2>4. CASE Suggest(w)
      BY <2>4 DEF Suggest, YoungRuns, ExecutingRuns
    <2>5. CASE EnrichEnds(w)
      BY <1>1, <2>5 DEF EnrichEnds
    <2>6. CASE EnrichFinish(w)
      BY <1>1, <2>6 DEF EnrichFinish
    <2>7. CASE EnrichFinishLost(w)
      BY <1>1, <2>7 DEF EnrichFinishLost
    <2> QED
      BY <1>4, <2>1, <2>2, <2>3, <2>4, <2>5, <2>6, <2>7 DEF EnrichScan
  <1>5. CASE Limits(w)
    <2>1. CASE SoftTimeoutRun(w)
      BY <1>1, <1>2, <2>1 DEF SoftTimeoutRun
    <2>2. CASE SoftTimeoutEnrich(w)
      BY <1>1, <2>2 DEF SoftTimeoutEnrich
    <2>3. CASE HardTimeout(w)
      BY <1>2, <2>3 DEF HardTimeout
    <2> QED
      BY <1>5, <2>1, <2>2, <2>3 DEF Limits
  <1>6. CASE Ack(w)
    BY <1>2, <1>6 DEF Ack
  <1> QED
    BY <1>3, <1>4, <1>5, <1>6

LEMMA TickKeepsYoung ==
    ASSUME TypeOK, YoungRuns, Tick
    PROVE  YoungRuns'
  <1>1. ASSUME NEW w \in Workers
        PROVE  /\ pc'[w] = pc[w] /\ redelivered'[w] = redelivered[w]
               /\ age'[w] = (IF Busy(w) THEN Older(age[w]) ELSE age[w])
               /\ Busy(w) => age[w] < HardLimit(w)
    BY DEF Tick, TypeOK
  <1>2. ASSUME NEW w \in Workers, pc[w] \in RunPcs PROVE age'[w] <= HardScan
    <2>1. Busy(w) /\ HardLimit(w) = HardScan
      BY <1>2 DEF Busy, HardLimit, RunPcs, RunBody
    <2>2. age[w] \in Nat /\ HardScan \in Nat /\ HardScan < AgeCap
      BY Deadlines DEF TypeOK, Ages
    <2> QED
      BY <1>1, <2>1, <2>2, DurationAssumption DEF Older
  <1>3. ASSUME NEW w \in Workers, pc[w] = "idle" PROVE age'[w] = age[w]
    BY <1>1, <1>3 DEF Busy
  <1> QED
    BY <1>1, <1>2, <1>3 DEF YoungRuns

LEMMA DeliveriesStep ==
    ASSUME HardScan <= VisibilityTimeout, TypeOK, TypeOK', DeliveriesInv, [Next]_vars
    PROVE  DeliveriesInv'
  <1> DEFINE q == Cardinality(QueuedRuns)
             l == Cardinality(LostRuns)
             e == Cardinality(ExecutingRuns)
             sent == IF api = "dispatching" THEN 0 ELSE 1
             Queue == IsFiniteSet(QueuedRuns)
             Lost == IsFiniteSet(LostRuns)
  <1> USE DEF broker, task, row
  \* The counts after the step, as constants.
  <1>0. PICK q1, l1, e1, n1, sent1 :
            q1 = q' /\ l1 = l' /\ e1 = e' /\ n1 = losses' /\ sent1 = sent'
    OBVIOUS
  <1>1. YoungRuns /\ Queue /\ Lost /\ q + l + e <= sent + losses
    BY DEF DeliveriesInv, RunDeliveries
  <1>2. q \in Nat /\ l \in Nat /\ e \in Nat /\ losses \in Nat /\ n1 \in Nat /\ e1 \in Nat
    <2>1. losses \in Nat /\ losses' \in Nat
      BY BoundAssumption DEF TypeOK
    <2>2. ExecutingRuns' \in SUBSET Workers
      BY DEF ExecutingRuns
    <2>3. IsFiniteSet(ExecutingRuns')
      BY <2>2, WorkerAssumption, FS_Subset
    <2> QED
      BY <1>0, <1>1, <2>1, <2>3, ExecutingCount, FS_CardinalityType
  <1>3. ASSUME UNCHANGED runQueue PROVE QueuedRuns' = QueuedRuns
    BY <1>3 DEF QueuedRuns
  <1>4. ASSUME UNCHANGED lost PROVE LostRuns' = LostRuns
    BY <1>4 DEF LostRuns
  <1>5. ASSUME UNCHANGED pc PROVE ExecutingRuns' = ExecutingRuns
    BY <1>5 DEF ExecutingRuns
  <1>6. ASSUME UNCHANGED <<pc, age, redelivered>> PROVE YoungRuns'
    BY <1>1, <1>6 DEF YoungRuns
  <1>7. ASSUME NEW w \in Workers
        PROVE  /\ Cardinality(ExecutingRuns \union {w}) <= e + 1
               /\ w \in ExecutingRuns => Cardinality(ExecutingRuns \ {w}) = e - 1
               /\ Cardinality(ExecutingRuns \ {w}) <= e
    <2>1. IsFiniteSet(ExecutingRuns)
      BY ExecutingCount
    <2>2. Cardinality(ExecutingRuns \union {w}) =
              IF w \in ExecutingRuns THEN e ELSE e + 1
      BY <2>1, FS_AddElement
    <2>3. Cardinality(ExecutingRuns \ {w}) = IF w \in ExecutingRuns THEN e - 1 ELSE e
      BY <2>1, FS_RemoveElement
    <2> QED
      BY <1>2, <2>2, <2>3
  <1>8. ASSUME YoungRuns', Queue', Lost', q1 + l1 + e1 <= sent1 + n1
        PROVE  DeliveriesInv'
    BY <1>0, <1>8 DEF DeliveriesInv, RunDeliveries
  <1>api. /\ sent \in {0, 1} /\ (UNCHANGED api => sent1 = sent)
          /\ UNCHANGED losses => n1 = losses
          /\ losses' = losses + 1 => n1 = losses + 1
    BY <1>0
  <1> HIDE DEF q, l, e, sent, Queue, Lost
  <1>same. ASSUME UNCHANGED <<runQueue, lost>>
           PROVE  Queue' /\ Lost' /\ q1 = q /\ l1 = l
    BY <1>0, <1>1, <1>3, <1>4, <1>same DEF q, l, Queue, Lost
  <1>9. CASE Api
    <2>1. Lost' /\ l1 = l /\ e1 = e /\ YoungRuns'
      <3>1. UNCHANGED <<lost, pc, age, redelivered>>
        BY <1>0, <1>9 DEF Api, Dispatch, DispatchRefused, DispatchLost
      <3> QED
        BY <1>0, <1>1, <1>4, <1>5, <1>6, <3>1 DEF l, e, Lost
    <2>2. CASE Dispatch
      <3>1. Queue' /\ q1 = q + 1
        <4>1. 0 \in 0 .. MaxRetries
          BY <1>0, BoundAssumption
        <4> QED
          BY <1>0, <1>1, <2>2, <4>1, QueueGrows DEF Dispatch, q, Queue
      <3>2. sent = 0 /\ sent1 = 1 /\ n1 = losses
        BY <1>0, <2>2 DEF Dispatch, sent
      <3> QED
        BY <1>1, <1>2, <1>8, <1>api, <2>1, <3>1, <3>2
    <2>3. CASE DispatchRefused \/ DispatchLost
      <3>1. Queue' /\ q1 = q
        BY <1>0, <1>1, <1>3, <2>3 DEF DispatchRefused, DispatchLost, q, Queue
      <3>2. sent = 0 /\ sent1 = 1 /\ n1 >= losses
        BY <1>0, <1>2, <2>3 DEF DispatchRefused, DispatchLost, sent
      <3> QED
        BY <1>1, <1>2, <1>8, <1>api, <2>1, <3>1, <3>2
    <2> QED
      BY <1>0, <1>9, <2>2, <2>3 DEF Api
  <1>10. ASSUME NEW w \in Workers,
                RunScan(w) \/ EnrichScan(w) \/ Limits(w) \/ Ack(w), ~PublishRetry(w)
         PROVE  DeliveriesInv'
    <2>1. /\ YoungRuns' /\ ExecutingRuns' \subseteq ExecutingRuns
          /\ UNCHANGED <<runQueue, lost, losses, api>>
      BY <1>0, <1>1, <1>10, TaskSends
    <2>2. e1 <= e
      BY <1>0, <2>1, ExecutingCount, FS_Subset DEF e
    <2> QED
      BY <1>1, <1>2, <1>8, <1>api, <1>same, <2>1, <2>2
  <1>11. ASSUME NEW w \in Workers, PublishRetry(w) PROVE DeliveriesInv'
    <2>1. /\ pc[w] = "retry" /\ Goto(w, "ack") /\ UNCHANGED <<age, redelivered, lost, losses, api>>
          /\ runQueue' = [runQueue EXCEPT ![retries[w] + 1] = @ + 1]
      BY <1>0, <1>11 DEF PublishRetry
    <2>2. YoungRuns' /\ ExecutingRuns' = ExecutingRuns \ {w}
      BY <1>0, <1>1, <2>1, MoveExecutes DEF Pcs, RunPcs
    <2>3. w \in ExecutingRuns
      BY <1>0, <2>1 DEF ExecutingRuns, RunPcs
    <2>4. e1 = e - 1
      BY <1>0, <1>7, <2>2, <2>3 DEF e
    <2>5. Queue' /\ q1 <= q + 1 /\ q1 \in Nat
      <3>1. CASE retries[w] + 1 \in 0 .. MaxRetries
        <4>1. Queue' /\ q1 = q + 1
          BY <1>0, <1>1, <2>1, <3>1, QueueGrows DEF q, Queue
        <4> QED
          BY <1>2, <4>1
      <3>2. CASE retries[w] + 1 \notin 0 .. MaxRetries
        <4>1. UNCHANGED runQueue
          BY <1>0, <2>1, <3>2 DEF TypeOK
        <4> QED
          BY <1>0, <1>1, <1>2, <1>3, <4>1 DEF q, Queue
      <3> QED
        BY <1>0, <3>1, <3>2
    <2>6. Lost' /\ l1 = l
      BY <1>0, <1>1, <1>4, <2>1 DEF l, Lost
    <2> QED
      BY <1>1, <1>2, <1>8, <1>api, <2>1, <2>2, <2>4, <2>5, <2>6
  <1>12. ASSUME NEW w \in Workers, DeliverRun(w) \/ DeliverEnrich(w) PROVE DeliveriesInv'
    <2>1. /\ pc[w] = "idle" /\ UNCHANGED <<age, redelivered, lost, losses, api>>
      BY <1>0, <1>12 DEF DeliverRun, DeliverEnrich, StartTask
    <2>2. Lost' /\ l1 = l
      BY <1>0, <1>1, <1>4, <2>1 DEF l, Lost
    <2>3. CASE DeliverRun(w)
      <3>1. PICK r \in 0 .. MaxRetries :
                /\ runQueue[r] > 0 /\ runQueue' = [runQueue EXCEPT ![r] = @ - 1]
                /\ Goto(w, "check")
        BY <1>0, <2>3 DEF DeliverRun, StartTask
      <3>2. Queue' /\ q1 = q - 1
        BY <1>0, <1>1, <3>1, QueueShrinks DEF q, Queue
      <3>3. YoungRuns' /\ ExecutingRuns' = ExecutingRuns \union {w}
        BY <1>0, <1>1, <2>1, <3>1, MoveExecutes DEF Pcs, RunPcs, RunBody
      <3>4. e1 <= e + 1
        BY <1>0, <1>7, <3>3 DEF e
      <3> QED
        BY <1>1, <1>2, <1>8, <1>api, <2>1, <2>2, <3>2, <3>3, <3>4
    <2>4. CASE DeliverEnrich(w)
      <3>1. Goto(w, "e_check") /\ UNCHANGED runQueue
        BY <1>0, <2>4 DEF DeliverEnrich, StartTask
      <3>2. YoungRuns' /\ ExecutingRuns' = ExecutingRuns \ {w}
        BY <1>0, <1>1, <2>1, <3>1, MoveExecutes DEF Pcs, RunPcs, RunBody, EnrichPcs
      <3>3. e1 <= e
        BY <1>0, <1>7, <3>2 DEF e
      <3>4. Queue' /\ q1 = q
        BY <1>0, <1>1, <1>3, <3>1 DEF q, Queue
      <3> QED
        BY <1>1, <1>2, <1>8, <1>api, <2>1, <2>2, <3>2, <3>3, <3>4
    <2> QED
      BY <1>0, <1>12, <2>3, <2>4
  <1>13. ASSUME NEW w \in Workers, ProcessLost(w) \/ HostLost(w) PROVE DeliveriesInv'
    <2>1. EndTask(w) /\ n1 = losses + 1 /\ UNCHANGED api
      BY <1>0, <1>13 DEF ProcessLost, HostLost
    <2>2. YoungRuns' /\ e1 <= e
      BY <1>0, <1>1, <1>7, <2>1, EndExecutes DEF e
    <2>3. CASE ProcessLost(w)
      <3>1. Kind(w) \in {"run", "enrich"} /\ retries[w] \in 0 .. MaxRetries
        BY <1>0 DEF Kind, TypeOK
      <3>2. Queue' /\ q1 <= q + 1 /\ q1 \in Nat
        <4>1. CASE redelivered[w]
          BY <1>0, <1>1, <1>2, <1>3, <2>3, <4>1 DEF ProcessLost, q, Queue
        <4>2. CASE ~redelivered[w]
          BY <1>0, <1>1, <1>2, <2>3, <3>1, <4>2, PutBackCounts DEF ProcessLost, q, Queue
        <4> QED
          BY <1>0, <4>1, <4>2
      <3>3. Lost' /\ l1 = l
        BY <1>0, <1>1, <1>4, <2>3 DEF ProcessLost, l, Lost
      <3> QED
        BY <1>1, <1>2, <1>8, <1>api, <2>1, <2>2, <3>2, <3>3
    <2>4. CASE HostLost(w)
      <3>1. Queue' /\ q1 = q
        BY <1>0, <1>1, <1>3, <2>4 DEF HostLost, q, Queue
      <3>2. Lost' /\ l1 <= l + 1 /\ l1 \in Nat
        <4>1. PICK m : lost' = lost \/ lost' = lost \union {m}
          BY <1>0, <2>4 DEF HostLost
        <4>2. LostRuns' \in {LostRuns, LostRuns \union {m}}
          BY <1>0, <4>1 DEF LostRuns
        <4> QED
          BY <1>0, <1>1, <1>2, <4>2, FS_AddElement DEF l, Lost
      <3> QED
        BY <1>1, <1>2, <1>8, <1>api, <2>1, <2>2, <3>1, <3>2
    <2> QED
      BY <1>0, <1>13, <2>3, <2>4
  \* Only an enrichment can outlive the visibility timeout.
  <1>14. ASSUME NEW w \in Workers, RestoreLive(w) PROVE DeliveriesInv'
    <2>1. /\ age[w] > VisibilityTimeout /\ PutBack(Kind(w), retries[w])
          /\ redelivered' = [redelivered EXCEPT ![w] = TRUE]
          /\ UNCHANGED <<pc, age, lost, losses, api>> /\ Busy(w)
      BY <1>0, <1>14 DEF RestoreLive
    <2>2. pc[w] \notin RunPcs /\ pc[w] # "idle"
      <3>1. age[w] \in Nat /\ HardScan \in Nat /\ VisibilityTimeout \in Nat
        BY <1>0, Deadlines DEF TypeOK, Ages
      <3> QED
        BY <1>0, <1>1, <2>1, <3>1 DEF YoungRuns, Busy
    <2>3. YoungRuns'
      BY <1>0, <1>1, <2>1, <2>2 DEF YoungRuns, TypeOK
    <2>4. UNCHANGED runQueue
      BY <1>0, <2>1, <2>2 DEF Kind, PutBack
    <2>5. e1 = e
      BY <1>0, <1>5, <2>1 DEF e
    <2> QED
      BY <1>1, <1>2, <1>8, <1>api, <1>same, <2>1, <2>3, <2>4, <2>5
  <1>15. CASE RestoreLost
    <2>1. PICK m \in lost : /\ lost' = lost \ {m} /\ PutBack(m.kind, m.retries)
                            /\ UNCHANGED <<losses, api, pc, age, redelivered>>
      BY <1>0, <1>15 DEF RestoreLost
    <2>2. m.kind \in {"run", "enrich"} /\ m.retries \in 0 .. MaxRetries
      BY <1>0, <2>1 DEF TypeOK, LostMessages
    <2>3. Queue' /\ q1 = q + (IF m.kind = "run" THEN 1 ELSE 0)
      BY <1>0, <1>1, <2>1, <2>2, PutBackCounts DEF q, Queue
    <2>4. Lost' /\ l1 = l - (IF m.kind = "run" THEN 1 ELSE 0)
      <3>1. LostRuns' = LostRuns \ {m} /\ (m \in LostRuns <=> m.kind = "run")
        BY <1>0, <2>1 DEF LostRuns
      <3> QED
        BY <1>0, <1>1, <1>2, <3>1, FS_RemoveElement DEF l, Lost
    <2>5. YoungRuns' /\ e1 = e
      BY <1>0, <1>5, <1>6, <2>1 DEF e
    <2> QED
      BY <1>1, <1>2, <1>8, <1>api, <2>1, <2>3, <2>4, <2>5
  <1>16. CASE Reaper
    <2>1. UNCHANGED <<runQueue, lost, pc, age, redelivered, api>> /\ n1 >= losses
      BY <1>0, <1>2, <1>16 DEF Reaper, ReapRunning, ReapQueued, ReapSelect, ReapClose, ReaperLost
    <2>2. YoungRuns' /\ e1 = e
      BY <1>0, <1>5, <1>6, <2>1 DEF e
    <2> QED
      BY <1>1, <1>2, <1>8, <1>api, <1>same, <2>1, <2>2
  <1>17. CASE Tick
    <2>1. YoungRuns'
      BY <1>0, <1>1, <1>17, TickKeepsYoung
    <2>2. UNCHANGED <<runQueue, losses, pc, api>>
      BY <1>0, <1>17 DEF Tick
    <2>3. Lost' /\ l1 <= l /\ l1 \in Nat
      BY <1>0, <1>1, <1>17, LostAge, FS_CardinalityType DEF Tick, TypeOK, l, Lost
    <2>4. Queue' /\ q1 = q /\ e1 = e
      BY <1>0, <1>1, <1>3, <1>5, <2>2 DEF q, e, Queue
    <2> QED
      BY <1>1, <1>2, <1>8, <1>api, <2>1, <2>2, <2>3, <2>4
  <1>18. CASE UNCHANGED vars
    <2>1. UNCHANGED <<runQueue, lost, pc, age, redelivered, api, losses>>
      BY <1>0, <1>18 DEF vars
    <2>2. YoungRuns' /\ e1 = e
      BY <1>0, <1>5, <1>6, <2>1 DEF e
    <2> QED
      BY <1>1, <1>2, <1>8, <1>api, <1>same, <2>1, <2>2
  <1> QED
    BY <1>0, <1>9, <1>10, <1>11, <1>12, <1>13, <1>14, <1>15, <1>16, <1>17, <1>18 DEF Next, Broker

\* Messages of run_scan multiply only by a loss, whatever fails and is retried: with the visibility
\* timeout beyond the hard limit, the deliveries that are queued, unacknowledged or executing are
\* never more than the losses and the one the API sent.
THEOREM DuplicatesComeFromLosses ==
    ASSUME HardScan <= VisibilityTimeout
    PROVE  Spec => []DuplicatesNeedLosses
  <1>1. Init => DeliveriesInv
    <2> SUFFICES ASSUME Init PROVE DeliveriesInv
      OBVIOUS
    <2>1. QueuedRuns = {} /\ LostRuns = {} /\ ExecutingRuns = {}
      BY DEF Init, QueuedRuns, LostRuns, ExecutingRuns, RunPcs, RunBody
    <2>2. YoungRuns
      BY DEF Init, YoungRuns, RunPcs, RunBody
    <2> QED
      BY <2>1, <2>2, FS_EmptySet DEF Init, DeliveriesInv, RunDeliveries
  <1>2. TypeOK /\ TypeOK' /\ DeliveriesInv /\ [Next]_vars => DeliveriesInv'
    BY DeliveriesStep
  <1>3. TypeOK /\ DeliveriesInv => DuplicatesNeedLosses
    <2> SUFFICES ASSUME TypeOK, DeliveriesInv PROVE DuplicatesNeedLosses
      OBVIOUS
    <2>1. RunDeliveries \in Nat /\ losses \in Nat
      BY ExecutingCount, FS_CardinalityType, BoundAssumption
         DEF TypeOK, DeliveriesInv, RunDeliveries
    <2> QED
      BY <2>1 DEF DeliveriesInv, DuplicatesNeedLosses
  <1> QED
    BY <1>1, <1>2, <1>3, TypeCorrect, PTL DEF Spec
=============================================================================
