------------------------- MODULE SiteAnalysisProofs -------------------------
(***************************************************************************)
(* Theorems about SiteAnalysis, for any number of requests, earlier        *)
(* analyses and users, any time limits and any number of losses.           *)
(***************************************************************************)
EXTENDS SiteAnalysis, FiniteSetTheorems, NaturalsInduction, WellFoundedInduction, TLAPS

LEMMA Limits ==
    /\ HardLimit \in Nat /\ Grace \in Nat /\ AgeCap \in Nat /\ InFlightWindow \in Nat
    /\ MaxLosses \in Nat /\ 0 \in Ages /\ AgeCap \in Ages /\ Ages \subseteq Nat
    /\ HardLimit + Grace < AgeCap /\ InFlightWindow < AgeCap
    /\ \A a \in Ages : Older(a) \in Ages
  BY SiteDurations DEF Ages, Older

(***************************************************************************)
(* The status column is no lock: a delivery reads `queued` and writes      *)
(* `running` in two steps, over whatever the reaper has written meanwhile. *)
(* An analysis is run once all the same, because its message is sent once  *)
(* and is either waiting or being worked on; and a run that is stale has   *)
(* outlived its task.                                                      *)
(***************************************************************************)
Asking == {"idle", "cache", "in_flight", "insert"}
NoMessage(r) == r \notin queue /\ task[r] = "none"

RunInv(r) ==
    /\ api[r] \in Asking => status[r] = "none" /\ fetches[r] = 0
    /\ api[r] # "done" => NoMessage(r) /\ fetches[r] = 0
    /\ r \in queue => task[r] = "none"
    /\ status[r] = "queued" \/ task[r] = "claim" => fetches[r] = 0
    /\ task[r] \in Working => status[r] = "running" /\ runAge[r] <= taskAge[r]
    /\ taskAge[r] <= HardLimit /\ fetches[r] <= 1

\* What a request found in flight and did not share was too old, and stays so.
LookInv(r) ==
    \A q \in looked[r] :
        /\ api[r] # "idle" /\ api[q] \notin Asking /\ status[q] # "none"
        /\ owner[q] = owner[r] => age[q] > InFlightWindow

SiteInv == TypeOK /\ \A r \in Rows : RunInv(r) /\ LookInv(r)

LEMMA SiteInit == Init => SiteInv
  <1> SUFFICES ASSUME Init PROVE SiteInv
    OBVIOUS
  <1>1. TypeOK
    BY Limits DEF Init, TypeOK, InFlight, Settled, Working
  <1>2. \A r \in Rows : RunInv(r) /\ LookInv(r)
    BY Limits DEF Init, RunInv, LookInv, NoMessage, Asking, Working
  <1> QED
    BY <1>1, <1>2 DEF SiteInv

-----------------------------------------------------------------------------
(* Type correctness.                                                       *)

LEMMA TypeRequest ==
    ASSUME TypeOK, NEW r \in Rows, Arrive(r) \/ Respond(r)
    PROVE  TypeOK'
  <1> USE DEF TypeOK, request, row, work, ApiGoto
  <1>1. CASE Arrive(r)
    BY <1>1 DEF Arrive
  <1>2. CASE ReuseRecent(r)
    BY <1>2, Limits DEF ReuseRecent, Newest, Recent, Settled
  <1>3. CASE NothingRecent(r) \/ ShareInFlight(r) \/ Refuse(r) \/ ApiDies(r)
    BY <1>3 DEF NothingRecent, ShareInFlight, Refuse, ApiDies
  <1>4. CASE NothingInFlight(r)
    BY <1>4 DEF NothingInFlight
  <1>5. CASE Insert(r)
    BY <1>5, Limits DEF Insert, InFlight
  <1>6. CASE Publish(r)
    BY <1>6 DEF Publish
  <1>7. CASE PublishRefused(r)
    BY <1>7 DEF PublishRefused, Settled
  <1> QED
    BY <1>1, <1>2, <1>3, <1>4, <1>5, <1>6, <1>7 DEF Respond, Lookup

LEMMA TypeTask ==
    ASSUME TypeOK, NEW r \in Rows, Deliver(r) \/ TaskStep(r) \/ WorkerLost(r)
    PROVE  TypeOK'
  <1> USE DEF TypeOK, request, row, work, TaskGoto, EndTask
  <1>1. CASE Deliver(r)
    BY <1>1, Limits DEF Deliver
  <1>2. CASE Check(r)
    BY <1>2, Limits DEF Check
  <1>3. CASE Claim(r)
    BY <1>3, Limits DEF Claim, InFlight, Working
  <1>4. CASE NextStage(r)
    BY <1>4 DEF NextStage, Working
  <1>5. CASE Complete(r) \/ AnalysisFails(r)
    BY <1>5, Limits DEF Complete, AnalysisFails, Settled
  <1>6. CASE TaskErrors(r) \/ HardTimeout(r)
    BY <1>6, Limits DEF TaskErrors, HardTimeout
  <1>7. CASE WorkerLost(r)
    <2>1. losses' \in 0 .. MaxLosses
      BY <1>7, Limits DEF WorkerLost
    <2> QED
      BY <1>7, <2>1, Limits DEF WorkerLost
  <1> QED
    BY <1>1, <1>2, <1>3, <1>4, <1>5, <1>6, <1>7 DEF TaskStep

LEMMA TypeClock ==
    ASSUME TypeOK, Reap \/ Tick \/ UNCHANGED vars
    PROVE  TypeOK'
  <1> USE DEF TypeOK, request, row, work
  <1>1. CASE Reap
    BY <1>1 DEF Reap, Settled
  <1>2. CASE Tick
    <2>1. /\ age' \in [Rows -> Ages] /\ runAge' \in [Rows -> Ages]
          /\ taskAge' \in [Rows -> Ages]
      BY <1>2, Limits DEF Tick
    <2> QED
      BY <1>2, <2>1 DEF Tick
  <1>3. CASE UNCHANGED vars
    BY <1>3 DEF vars
  <1> QED
    BY <1>1, <1>2, <1>3

-----------------------------------------------------------------------------
(* Steps of one row.                                                       *)

OthersSame(r) ==
    \A q \in Rows \ {r} :
        /\ api'[q] = api[q] /\ owner'[q] = owner[q] /\ status'[q] = status[q]
        /\ age'[q] = age[q] /\ runAge'[q] = runAge[q]
        /\ q \in queue' <=> q \in queue
        /\ task'[q] = task[q] /\ taskAge'[q] = taskAge[q] /\ fetches'[q] = fetches[q]

\* A row that exists goes on to exist, for the same owner, and gets no younger.
Lasts(r) ==
    /\ api[r] # "idle" => api'[r] # "idle" /\ owner'[r] = owner[r]
    /\ api[r] \notin Asking => api'[r] \notin Asking
    /\ api[r] \notin Asking /\ status[r] # "none" =>
           status'[r] # "none" /\ (age[r] > InFlightWindow => age'[r] > InFlightWindow)

LEMMA LookKept ==
    ASSUME SiteInv, \A r \in Rows : Lasts(r), NEW r \in Rows, looked'[r] = looked[r]
    PROVE  LookInv(r)'
  <1> SUFFICES ASSUME NEW q \in looked[r]
               PROVE  /\ api'[r] # "idle" /\ api'[q] \notin Asking
                      /\ status'[q] # "none"
                      /\ owner'[q] = owner'[r] => age'[q] > InFlightWindow
    BY DEF LookInv
  <1>1. q \in Rows
    BY DEF SiteInv, TypeOK
  <1>2. /\ api[r] # "idle" /\ api[q] \notin Asking /\ status[q] # "none"
        /\ owner[q] = owner[r] => age[q] > InFlightWindow
    BY DEF SiteInv, LookInv
  <1>3. Lasts(r) /\ Lasts(q) /\ api[q] # "idle"
    BY <1>1, <1>2 DEF Asking
  <1> QED
    BY <1>2, <1>3 DEF Lasts

LEMMA RowStep ==
    ASSUME SiteInv, TypeOK', NEW r \in Rows, OthersSame(r), Lasts(r),
           looked' = looked, RunInv(r)'
    PROVE  SiteInv'
  <1>1. \A q \in Rows \ {r} : Lasts(q)
    BY DEF OthersSame, Lasts
  <1>2. \A q \in Rows : LookInv(q)'
    BY <1>1, LookKept
  <1>3. \A q \in Rows \ {r} : RunInv(q)'
    BY DEF SiteInv, OthersSame, RunInv, NoMessage
  <1> QED
    BY <1>2, <1>3 DEF SiteInv

\* The steps of a request: none of them touches a message or a task that exists.
LEMMA RequestStep ==
    ASSUME SiteInv, NEW r \in Rows, Arrive(r) \/ Respond(r), ~NothingInFlight(r)
    PROVE  SiteInv'
  <1> USE DEF request, row, work, ApiGoto
  <1>0. TypeOK' /\ TypeOK /\ RunInv(r)
    BY TypeRequest DEF SiteInv
  <1>1. looked' = looked /\ UNCHANGED <<runAge, task, taskAge, fetches>>
    BY DEF Arrive, Respond, Lookup, ReuseRecent, NothingRecent, ShareInFlight, Refuse,
           Insert, Publish, PublishRefused, ApiDies
  <1>2. OthersSame(r)
    BY <1>0 DEF TypeOK, OthersSame, Arrive, Respond, Lookup, ReuseRecent, NothingRecent,
           ShareInFlight, Refuse, Insert, Publish, PublishRefused, ApiDies
  <1>3. api[r] # "done" /\ NoMessage(r) /\ fetches[r] = 0
    BY <1>0 DEF RunInv, Arrive, Respond, Lookup, ReuseRecent, NothingRecent,
           ShareInFlight, Refuse, Insert, Publish, PublishRefused, ApiDies
  <1>4. CASE Arrive(r) \/ NothingRecent(r)
    <2>1. /\ api[r] \in Asking /\ api'[r] \in Asking \ {"idle"}
          /\ api[r] # "idle" => owner'[r] = owner[r]
          /\ status' = status /\ queue' = queue
      BY <1>0, <1>4 DEF TypeOK, Arrive, NothingRecent, Asking
    <2>2. Lasts(r)
      BY <2>1 DEF Lasts
    <2>3. RunInv(r)'
      BY <1>0, <1>1, <1>3, <2>1 DEF RunInv, NoMessage
    <2> QED
      BY <1>0, <1>1, <1>2, <2>2, <2>3, RowStep
  <1>5. CASE ReuseRecent(r) \/ ShareInFlight(r) \/ Refuse(r) \/ Insert(r)
    <2>1. /\ api[r] \in Asking \ {"idle"} /\ api'[r] \in {"publish", "done"}
          /\ owner' = owner /\ queue' = queue
          /\ status'[r] \in {status[r], "completed", "queued"}
      BY <1>0, <1>5 DEF TypeOK, ReuseRecent, ShareInFlight, Refuse, Insert, Asking
    <2>2. Lasts(r)
      BY <2>1 DEF Lasts, Asking
    <2>3. RunInv(r)'
      BY <1>0, <1>1, <1>3, <2>1 DEF RunInv, NoMessage, Asking, Working
    <2> QED
      BY <1>0, <1>1, <1>2, <2>2, <2>3, RowStep
  <1>6. CASE Publish(r) \/ PublishRefused(r) \/ ApiDies(r)
    <2>1. /\ api[r] = "publish" /\ api'[r] = "done"
          /\ owner' = owner /\ age' = age
          /\ queue' \subseteq queue \union {r}
          /\ status'[r] \in {status[r], "failed"}
      BY <1>0, <1>6 DEF TypeOK, Publish, PublishRefused, ApiDies
    <2>2. Lasts(r)
      BY <2>1 DEF Lasts, Asking
    <2>3. RunInv(r)'
      BY <1>0, <1>1, <1>3, <2>1 DEF RunInv, NoMessage, Asking, Working
    <2> QED
      BY <1>0, <1>1, <1>2, <2>2, <2>3, RowStep
  <1> QED
    BY <1>4, <1>5, <1>6 DEF Respond, Lookup

\* A request that shares nothing has seen every analysis of its owner that is in flight
\* to be older than the window.
LEMMA LookStep ==
    ASSUME SiteInv, NEW r \in Rows, NothingInFlight(r)
    PROVE  SiteInv'
  <1> USE DEF request, row, work, ApiGoto
  <1>0. TypeOK' /\ TypeOK /\ RunInv(r)
    BY TypeRequest DEF SiteInv, Respond, Lookup
  <1>1. /\ api[r] = "in_flight" /\ api'[r] = "insert" /\ Shareable(r) = {}
        /\ looked'[r] = {q \in Rows : status[q] \in InFlight}
        /\ \A q \in Rows \ {r} : looked'[q] = looked[q] /\ api'[q] = api[q]
        /\ UNCHANGED <<owner, status, age, runAge, queue, task, taskAge, fetches>>
    BY <1>0 DEF NothingInFlight, TypeOK
  <1>2. \A q \in Rows : Lasts(q)
    BY <1>1 DEF Lasts, Asking
  <1>3. \A q \in Rows : RunInv(q)'
    BY <1>1 DEF SiteInv, RunInv, NoMessage, Asking
  <1>4. \A q \in Rows \ {r} : LookInv(q)'
    BY <1>1, <1>2, LookKept
  <1>5. LookInv(r)'
    <2> SUFFICES ASSUME NEW q \in Rows, status[q] \in InFlight
                 PROVE  /\ api'[q] \notin Asking /\ status[q] # "none"
                        /\ owner[q] = owner[r] => age[q] > InFlightWindow
      BY <1>1 DEF LookInv
    <2>1. status[q] # "none" /\ api[q] \notin Asking /\ q # r
      BY <1>0, <1>1 DEF SiteInv, RunInv, InFlight, Asking
    <2>2. owner[q] = owner[r] => ~(age[q] <= InFlightWindow)
      BY <1>1 DEF Shareable
    <2>3. age[q] \in Nat
      BY <1>0, Limits DEF TypeOK
    <2> QED
      BY <1>1, <2>1, <2>2, <2>3, Limits
  <1> QED
    BY <1>0, <1>3, <1>4, <1>5 DEF SiteInv

\* The steps of the message and of the task.
LEMMA TaskRowStep ==
    ASSUME SiteInv, NEW r \in Rows, Deliver(r) \/ TaskStep(r) \/ WorkerLost(r)
    PROVE  SiteInv'
  <1> USE DEF request, row, work, TaskGoto, EndTask
  <1>0. /\ TypeOK' /\ TypeOK /\ RunInv(r) /\ fetches[r] \in Nat
        /\ runAge[r] \in Nat /\ taskAge[r] \in Nat /\ HardLimit \in Nat
    BY TypeTask, Limits DEF SiteInv, TypeOK
  <1>1. UNCHANGED <<api, owner, age, looked>>
    BY DEF Deliver, TaskStep, Check, Claim, NextStage, Complete, AnalysisFails,
           TaskErrors, HardTimeout, WorkerLost
  <1>2. OthersSame(r)
    BY <1>0, <1>1 DEF TypeOK, OthersSame, Deliver, TaskStep, Check, Claim, NextStage,
           Complete, AnalysisFails, TaskErrors, HardTimeout, WorkerLost
  <1>3. ~NoMessage(r) /\ api[r] = "done"
    BY <1>0 DEF NoMessage, RunInv, Working, Deliver, TaskStep, Check, Claim, NextStage,
           Complete, AnalysisFails, TaskErrors, HardTimeout, WorkerLost
  <1>4. status'[r] \in {status[r], "running", "completed", "failed"}
    BY <1>0 DEF TypeOK, Deliver, TaskStep, Check, Claim, NextStage,
           Complete, AnalysisFails, TaskErrors, HardTimeout, WorkerLost
  <1>5. Lasts(r)
    BY <1>1, <1>3, <1>4 DEF Lasts
  <1>6. CASE Deliver(r)
    <2>1. /\ r \in queue /\ r \notin queue' /\ task'[r] = "check" /\ taskAge'[r] = 0
          /\ UNCHANGED <<row, fetches>>
      BY <1>0, <1>6 DEF Deliver, TypeOK
    <2>2. RunInv(r)'
      BY <1>0, <1>1, <1>3, <2>1 DEF RunInv, Asking, Working
    <2> QED
      BY <1>0, <1>1, <1>2, <1>5, <2>2, RowStep
  <1>7. ASSUME task[r] # "none", task'[r] = "none", taskAge'[r] = 0,
               queue' \subseteq queue \union {r},
               status'[r] \in {status[r], "completed", "failed"}, UNCHANGED fetches
        PROVE  SiteInv'
    <2>1. RunInv(r)'
      BY <1>0, <1>1, <1>3, <1>7 DEF RunInv, Asking, Working
    <2> QED
      BY <1>0, <1>1, <1>2, <1>5, <2>1, RowStep
  <1>8. CASE Check(r)
    <2>1. CASE Claimable(r) /\ TaskGoto(r, "claim") /\ UNCHANGED taskAge
      <3>1. /\ status[r] = "queued" /\ task[r] = "check" /\ task'[r] = "claim"
            /\ UNCHANGED <<row, queue, taskAge, fetches>>
        BY <1>0, <1>8, <2>1 DEF Check, Claimable, TypeOK
      <3>2. RunInv(r)'
        BY <1>0, <1>1, <1>3, <3>1 DEF RunInv, Asking, Working
      <3> QED
        BY <1>0, <1>1, <1>2, <1>5, <3>2, RowStep
    <2>2. CASE EndTask(r)
      BY <1>0, <1>7, <1>8, <2>2 DEF Check, TypeOK
    <2> QED
      BY <1>8, <2>1, <2>2 DEF Check
  <1>9. CASE Claim(r)
    <2>1. /\ task[r] = "claim" /\ task'[r] = "capturing" /\ status'[r] = "running"
          /\ runAge'[r] = 0 /\ fetches'[r] = fetches[r] + 1
          /\ UNCHANGED <<queue, taskAge>>
      BY <1>0, <1>9 DEF Claim, TypeOK
    <2>2. fetches[r] = 0 /\ r \notin queue
      BY <1>0, <2>1 DEF RunInv
    <2>3. RunInv(r)'
      BY <1>0, <1>1, <1>3, <2>1, <2>2 DEF RunInv, Asking, Working
    <2> QED
      BY <1>0, <1>1, <1>2, <1>5, <2>3, RowStep
  <1>10. CASE NextStage(r)
    <2>1. /\ task[r] \in Working /\ task'[r] \in Working
          /\ UNCHANGED <<row, queue, taskAge, fetches>>
      BY <1>0, <1>10 DEF NextStage, TypeOK, Working
    <2>2. RunInv(r)'
      BY <1>0, <1>1, <1>3, <2>1 DEF RunInv, Asking, Working
    <2> QED
      BY <1>0, <1>1, <1>2, <1>5, <2>2, RowStep
  <1>11. CASE \/ Complete(r) \/ AnalysisFails(r) \/ TaskErrors(r) \/ HardTimeout(r)
              \/ WorkerLost(r)
    <2>1. /\ task[r] # "none" /\ task'[r] = "none" /\ taskAge'[r] = 0
          /\ queue' \subseteq queue \union {r} /\ UNCHANGED fetches
      BY <1>0, <1>11 DEF Complete, AnalysisFails, TaskErrors, HardTimeout, WorkerLost,
             TypeOK, Working
    <2>2. status'[r] \in {status[r], "completed", "failed"}
      BY <1>0, <1>11 DEF Complete, AnalysisFails, TaskErrors, HardTimeout, WorkerLost,
             TypeOK
    <2> QED
      BY <1>7, <2>1, <2>2
  <1> QED
    BY <1>6, <1>8, <1>9, <1>10, <1>11 DEF TaskStep

-----------------------------------------------------------------------------
(* The reaper and the clock.                                               *)

\* A run that is stale has outlived its task: the reaper never closes an analysis
\* that a task is working on.
LEMMA ReapStep ==
    ASSUME SiteInv, Reap
    PROVE  SiteInv'
  <1> USE DEF request, row, work
  <1>1. TypeOK' /\ TypeOK
    BY TypeClock DEF SiteInv
  <1>2. /\ UNCHANGED <<request, age, runAge, copyOf, work>>
        /\ \A r \in Rows : status'[r] = IF Stale(r) THEN "failed" ELSE status[r]
    BY DEF Reap
  <1>3. ASSUME NEW r \in Rows, task[r] \in Working
        PROVE  ~Stale(r)
    <2>1. /\ status[r] = "running" /\ runAge[r] <= taskAge[r] /\ taskAge[r] <= HardLimit
          /\ runAge[r] \in Nat /\ taskAge[r] \in Nat
      BY <1>1, <1>3, Limits DEF SiteInv, RunInv, TypeOK
    <2> QED
      BY <2>1, Limits DEF Stale
  <1>4. ASSUME NEW r \in Rows, Stale(r) PROVE status[r] # "none"
    BY <1>4 DEF Stale
  <1>5. \A r \in Rows : RunInv(r)'
    BY <1>2, <1>3, <1>4 DEF SiteInv, RunInv, NoMessage
  <1>6. \A r \in Rows : Lasts(r)
    BY <1>2 DEF Lasts
  <1>7. \A r \in Rows : LookInv(r)'
    BY <1>2, <1>6, LookKept
  <1> QED
    BY <1>1, <1>5, <1>7 DEF SiteInv

LEMMA TickStep ==
    ASSUME SiteInv, Tick
    PROVE  SiteInv'
  <1> USE DEF request, row, work
  <1>1. TypeOK' /\ TypeOK
    BY TypeClock DEF SiteInv
  <1>2. /\ UNCHANGED <<request, status, copyOf, queue, task, losses, fetches>>
        /\ \A r \in Rows :
             /\ task[r] # "none" => taskAge[r] < HardLimit
             /\ taskAge'[r] = IF task[r] = "none" THEN 0 ELSE Older(taskAge[r])
             /\ status[r] = "running" => runAge'[r] = Older(runAge[r])
             /\ status[r] # "none" => age'[r] \in {AgeCap, Older(age[r])}
    BY DEF Tick
  <1>3. ASSUME NEW r \in Rows PROVE RunInv(r)'
    <2>1. RunInv(r) /\ runAge[r] \in Nat /\ taskAge[r] \in Nat
      BY <1>1, Limits DEF SiteInv, TypeOK
    <2>2. taskAge'[r] <= HardLimit
      BY <1>2, <2>1, Limits DEF Older
    <2>3. task[r] \in Working => runAge'[r] <= taskAge'[r]
      BY <1>2, <2>1, Limits DEF RunInv, Working, Older
    <2> QED
      BY <1>2, <2>1, <2>2, <2>3 DEF RunInv, NoMessage
  <1>4. ASSUME NEW r \in Rows PROVE Lasts(r)
    <2>1. age[r] \in Nat
      BY <1>1, Limits DEF TypeOK
    <2>2. status[r] # "none" => (age[r] > InFlightWindow => age'[r] > InFlightWindow)
      BY <1>2, <2>1, Limits DEF Older
    <2> QED
      BY <1>2, <2>2 DEF Lasts
  <1>5. \A r \in Rows : LookInv(r)'
    BY <1>2, <1>4, LookKept
  <1> QED
    BY <1>1, <1>3, <1>5 DEF SiteInv

LEMMA SiteStep == SiteInv /\ [Next]_vars => SiteInv'
  <1> SUFFICES ASSUME SiteInv, [Next]_vars PROVE SiteInv'
    OBVIOUS
  <1>1. CASE UNCHANGED vars
    BY <1>1 DEF SiteInv, TypeOK, RunInv, LookInv, NoMessage, vars, request, row, work
  <1> QED
    BY <1>1, RequestStep, LookStep, TaskRowStep, ReapStep, TickStep DEF Next

LEMMA SiteInvariant == Spec => []SiteInv
  BY SiteInit, SiteStep, PTL DEF Spec

-----------------------------------------------------------------------------
(* Copies.  The chain of a copy is a recursive function; that the chain of *)
(* an original never leaves it is shown by the least link that would.      *)

IsChain(t, r) ==
    t = [n \in Nat |-> IF n = 0 THEN r
                       ELSE IF copyOf[t[n - 1]] = NoRow THEN t[n - 1]
                       ELSE copyOf[t[n - 1]]]

LEMMA OriginIsLastLink ==
    ASSUME NEW r
    PROVE  Origins(r) = (CHOOSE t : IsChain(t, r))[Cardinality(Rows)]
  BY DEF Origins, IsChain

LEMMA ChainOfOriginal ==
    ASSUME NEW q, copyOf[q] = NoRow, NEW t, IsChain(t, q)
    PROVE  \A n \in Nat : t[n] = q
  <1> DEFINE Bad == {n \in Nat : t[n] # q}
  <1> SUFFICES ASSUME Bad # {} PROVE FALSE
    OBVIOUS
  <1>1. PICK n \in Bad : \A m \in Bad : <<m, n>> \notin OpToRel(<, Nat)
    <2>1. Bad \subseteq Nat
      OBVIOUS
    <2> HIDE DEF Bad
    <2> QED
      BY <2>1, NatLessThanWellFounded, WFMin
  <1>2. n # 0
    BY <1>1 DEF IsChain
  <1>3. n - 1 \in Nat /\ n - 1 < n
    BY <1>2
  <1>4. t[n - 1] = q
    BY <1>1, <1>3 DEF OpToRel
  <1>5. t[n] = IF copyOf[t[n - 1]] = NoRow THEN t[n - 1] ELSE copyOf[t[n - 1]]
    BY <1>2 DEF IsChain
  <1> QED
    BY <1>4, <1>5

LEMMA OriginOfOriginal ==
    ASSUME NEW q, copyOf[q] = NoRow
    PROVE  Origins(q) = q
  <1> DEFINE constant == [n \in Nat |-> q]
             chain == CHOOSE t : IsChain(t, q)
  <1>1. IsChain(constant, q)
    <2>1. \A n \in Nat : n = 0 \/ constant[n - 1] = q
      OBVIOUS
    <2>2. constant = [n \in Nat |-> IF n = 0 THEN q
                                    ELSE IF copyOf[constant[n - 1]] = NoRow THEN constant[n - 1]
                                    ELSE copyOf[constant[n - 1]]]
      BY <2>1
    <2> QED
      BY <2>2 DEF IsChain
  <1>2. IsChain(chain, q)
    BY <1>1
  <1>3. Cardinality(Rows) \in Nat
    BY SiteRows, FS_CardinalityType
  <1> HIDE DEF chain
  <1>4. chain[Cardinality(Rows)] = q
    BY <1>2, <1>3, ChainOfOriginal
  <1> QED
    BY <1>4, OriginIsLastLink DEF chain

FreshAndVisible ==
    \A r \in Rows : (copyOf[r] = NoRow /\ copyOf'[r] # NoRow) =>
        LET origin == Origins(copyOf'[r])
        IN /\ age[origin] <= CacheTTL
           /\ owner[origin] \in {Anonymous, owner[r]}

LEMMA CopyStep == TypeOK /\ [Next]_vars => FreshAndVisible
  <1> SUFFICES ASSUME TypeOK, [Next]_vars, NEW r \in Rows,
                      copyOf[r] = NoRow, copyOf'[r] # NoRow
               PROVE  /\ age[Origins(copyOf'[r])] <= CacheTTL
                      /\ owner[Origins(copyOf'[r])] \in {Anonymous, owner[r]}
    BY DEF FreshAndVisible
  <1>1. CASE UNCHANGED copyOf
    BY <1>1
  <1>2. ASSUME NEW s \in Rows, ReuseRecent(s)
        PROVE  /\ age[Origins(copyOf'[r])] <= CacheTTL
               /\ owner[Origins(copyOf'[r])] \in {Anonymous, owner[r]}
    <2>1. PICK q \in Newest(Recent(s)) : copyOf' = [copyOf EXCEPT ![s] = q]
      BY <1>2 DEF ReuseRecent
    <2>2. s = r /\ copyOf'[r] = q
      BY <2>1 DEF TypeOK
    <2>3. copyOf[q] = NoRow /\ age[q] <= CacheTTL /\ owner[q] \in {Anonymous, owner[r]}
      BY <2>1, <2>2 DEF Newest, Recent, VisibleTo
    <2> QED
      BY <2>2, <2>3, OriginOfOriginal
  <1>3. CASE Reap \/ Tick \/ UNCHANGED vars
    BY <1>1, <1>3 DEF Reap, Tick, vars, row
  <1>4. ASSUME NEW s \in Rows,
               Arrive(s) \/ Respond(s) \/ Deliver(s) \/ TaskStep(s) \/ WorkerLost(s)
        PROVE  ReuseRecent(s) \/ UNCHANGED copyOf
    BY <1>4 DEF Arrive, Respond, Lookup, NothingRecent, ShareInFlight, NothingInFlight,
                Refuse, Insert, Publish, PublishRefused, ApiDies, Deliver, TaskStep, Check,
                Claim, NextStage, Complete, AnalysisFails, TaskErrors, HardTimeout,
                WorkerLost, row
  <1> QED
    BY <1>1, <1>2, <1>3, <1>4 DEF Next

-----------------------------------------------------------------------------
(* Theorems.                                                               *)

\* Every variable keeps its type.
THEOREM SitesTyped == Spec => []TypeOK
  BY SiteInvariant, PTL DEF SiteInv

\* The page of an analysis is fetched at most once, whatever is lost, redelivered
\* or reaped, and no reaper closes an analysis that a task is working on.
THEOREM FetchedOnce == Spec => []AnalyzedOnce
  <1>1. SiteInv => AnalyzedOnce
    BY DEF SiteInv, RunInv, AnalyzedOnce
  <1> QED
    BY <1>1, SiteInvariant, PTL

\* Two analyses of one caller are in flight together only when their requests
\* overlapped: a request shares what it finds within the window.
THEOREM SharedUnlessOverlapping == Spec => []DuplicatesOverlap
  <1>1. SiteInv => DuplicatesOverlap
    <2> SUFFICES ASSUME SiteInv, NEW r \in Rows, NEW q \in looked[r],
                        owner[r] = owner[q], age[q] <= InFlightWindow
                 PROVE  FALSE
      BY DEF DuplicatesOverlap
    <2>1. q \in Rows /\ age[q] \in Nat
      BY Limits DEF SiteInv, TypeOK
    <2>2. age[q] > InFlightWindow
      BY DEF SiteInv, LookInv
    <2> QED
      BY <2>1, <2>2, Limits
  <1> QED
    BY <1>1, SiteInvariant, PTL

\* A result taken from the cache is that of a page asked for within the TTL, by an
\* analysis the caller could have read, through however many copies it came.
THEOREM CopiesAreFreshAndVisible == Spec => ReuseIsFreshAndVisible
  <1>1. TypeOK /\ [Next]_vars => [FreshAndVisible]_vars
    BY CopyStep
  <1>2. [FreshAndVisible]_vars =>
            [\A r \in Rows : (copyOf[r] = NoRow /\ copyOf'[r] # NoRow) =>
                LET origin == Origins(copyOf'[r])
                IN /\ age[origin] <= CacheTTL
                   /\ owner[origin] \in {Anonymous, owner[r]}]_vars
    BY DEF FreshAndVisible
  <1> QED
    BY <1>1, <1>2, SitesTyped, PTL DEF Spec, ReuseIsFreshAndVisible
=============================================================================
