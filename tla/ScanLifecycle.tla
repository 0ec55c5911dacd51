--------------------------- MODULE ScanLifecycle ---------------------------
(***************************************************************************)
(* One scan row, the run_scan and enrich_scan messages about it, the pool  *)
(* processes that execute them and the stale-job reaper.                   *)
(*                                                                         *)
(* Every scan has its own row and its own messages, and no statement of    *)
(* the code touches two scans, so one scan is the whole system as far as   *)
(* its life cycle goes.  The broker acknowledges late: a delivery stays    *)
(* unacknowledged until its task ends, goes straight back to the queue     *)
(* when the pool process dies, and only after the visibility timeout when  *)
(* the whole worker host is lost.                                          *)
(*                                                                         *)
(* Time is kept as ages in an arbitrary unit.  An age saturates at AgeCap, *)
(* which lies beyond every deadline, so saturation is never observed.      *)
(***************************************************************************)
EXTENDS Integers, FiniteSets

CONSTANTS
    Workers,            \* pool processes of all the worker hosts
    ScanTimeout,        \* scan_timeout_seconds: the soft limit of run_scan
    LLMTimeout,         \* llm_task_timeout_seconds: the soft limit of enrich_scan
    KillDelay,          \* hard limit minus soft limit (60 s)
    Grace,              \* stale_job_grace_seconds
    MaxQueued,          \* MAX_QUEUED of the reaper (6 h)
    VisibilitySlack,    \* the 600 s of the visibility timeout's formula
    AgeCap,             \* where ages saturate
    MaxRetries,         \* scan_max_retries
    MaxLosses,          \* bound: processes and hosts lost in one behaviour
    Faults              \* where errors may strike outside the owned analysis

FaultKinds == {"pre_claim", "post_store"}

HardScan == ScanTimeout + KillDelay
HardLLM == LLMTimeout + KillDelay
VisibilityTimeout == 2 * ScanTimeout + VisibilitySlack

ASSUME DurationAssumption ==
    /\ ScanTimeout \in Nat /\ LLMTimeout \in Nat /\ KillDelay \in Nat
    /\ Grace \in Nat /\ MaxQueued \in Nat /\ VisibilitySlack \in Nat
    /\ AgeCap \in Nat
    /\ AgeCap > HardScan + Grace /\ AgeCap > HardLLM + Grace
    /\ AgeCap > MaxQueued /\ AgeCap > VisibilityTimeout
ASSUME WorkerAssumption == IsFiniteSet(Workers)
ASSUME BoundAssumption == MaxRetries \in Nat /\ MaxLosses \in Nat
ASSUME FaultAssumption == Faults \subseteq FaultKinds

VARIABLES
    \* the scans row
    status, created, started, completed, partial, enrichment,
    results,            \* findings, graph and score are stored
    generating,         \* some fix suggestion of the scan is `generating`
    \* the API request that created the row
    api,
    \* broker
    runQueue,           \* run_scan messages waiting, by number of retries made
    enrichQueue,        \* enrich_scan messages waiting
    lost,               \* unacknowledged messages of lost hosts
    losses,
    \* pool processes
    pc, retries, age, seen, outcome,
    redelivered,        \* the broker has already restored this delivery
    softFired,          \* SoftTimeLimitExceeded has been raised in this task
    \* the reaper
    reaping             \* it selected the scan and has not closed it yet

row == <<status, created, started, completed, partial, enrichment, results, generating>>
broker == <<runQueue, enrichQueue, lost, losses>>
task == <<retries, age, seen, outcome, redelivered, softFired>>
vars == <<row, api, broker, pc, task, reaping>>

Null == -1
Statuses == {"queued", "running", "analysis_complete", "enriching",
             "completed", "partial", "failed"}
TERMINAL_STATUSES == {"completed", "partial", "failed"}
RESULT_STATUSES == {"analysis_complete", "enriching", "completed", "partial"}
Enrichable == {"analysis_complete", "enriching"}
EnrichmentStatuses == {"none", "pending", "running", "completed", "partial",
                       "failed", "skipped"}
EnrichmentOutcomes == {"completed", "partial", "failed", "skipped"}
Ages == 0 .. AgeCap
NothingSeen == [status |-> "queued", partial |-> FALSE]

RunBody == {"check", "claim", "analyze", "queue", "return"}
RunPcs == RunBody \union {"requeue", "retry", "fail", "ack"}
EnrichPcs == {"e_check", "e_start", "e_work", "e_finish", "e_ack"}
Pcs == {"idle"} \union RunPcs \union EnrichPcs

Busy(w) == pc[w] # "idle"
HardLimit(w) == IF pc[w] \in RunPcs THEN HardScan ELSE HardLLM
SoftLimit(w) == IF pc[w] \in RunPcs THEN ScanTimeout ELSE LLMTimeout
Older(a) == IF a < AgeCap THEN a + 1 ELSE a

LostMessages == [kind : {"run", "enrich"}, retries : 0 .. MaxRetries,
                 age : Ages, id : 1 .. MaxLosses]

\* Control of one process; nothing else changes in that process.
Goto(w, label) == pc' = [pc EXCEPT ![w] = label]

\* What the delivery in process w is about.
Kind(w) == IF pc[w] \in RunPcs THEN "run" ELSE "enrich"

TypeOK ==
    /\ status \in Statuses
    /\ created \in Ages
    /\ started \in Ages \union {Null}
    /\ completed \in Ages \union {Null}
    /\ partial \in BOOLEAN /\ results \in BOOLEAN /\ generating \in BOOLEAN
    /\ enrichment \in EnrichmentStatuses
    /\ api \in {"dispatching", "done"}
    /\ runQueue \in [0 .. MaxRetries -> Nat]
    /\ enrichQueue \in Nat
    /\ lost \subseteq LostMessages
    /\ losses \in 0 .. MaxLosses
    /\ pc \in [Workers -> Pcs]
    /\ retries \in [Workers -> 0 .. MaxRetries]
    /\ age \in [Workers -> Ages]
    /\ seen \in [Workers -> [status : Statuses, partial : BOOLEAN]]
    /\ outcome \in [Workers -> EnrichmentOutcomes]
    /\ redelivered \in [Workers -> BOOLEAN]
    /\ softFired \in [Workers -> BOOLEAN]
    /\ reaping \in BOOLEAN

\* The API has committed the row and not yet dispatched run_scan.
Init ==
    /\ status = "queued"
    /\ created = 0 /\ started = Null /\ completed = Null
    /\ partial = FALSE /\ results = FALSE /\ generating = FALSE
    /\ enrichment = "none"
    /\ api = "dispatching"
    /\ runQueue = [r \in 0 .. MaxRetries |-> 0]
    /\ enrichQueue = 0
    /\ lost = {}
    /\ losses = 0
    /\ pc = [w \in Workers |-> "idle"]
    /\ retries = [w \in Workers |-> 0]
    /\ age = [w \in Workers |-> 0]
    /\ seen = [w \in Workers |-> NothingSeen]
    /\ outcome = [w \in Workers |-> "failed"]
    /\ redelivered = [w \in Workers |-> FALSE]
    /\ softFired = [w \in Workers |-> FALSE]
    /\ reaping = FALSE

-----------------------------------------------------------------------------
(* The API request: dispatch after commit.                                 *)

Dispatch ==
    /\ api = "dispatching"
    /\ api' = "done"
    /\ runQueue' = [runQueue EXCEPT ![0] = @ + 1]
    /\ UNCHANGED <<row, enrichQueue, lost, losses, pc, task, reaping>>

\* The broker refuses the message: the row is marked failed.
DispatchRefused ==
    /\ api = "dispatching"
    /\ api' = "done"
    /\ status' = "failed"
    /\ UNCHANGED <<created, started, completed, partial, enrichment, results,
                   generating, broker, pc, task, reaping>>

\* The API process dies between the commit and the dispatch.
DispatchLost ==
    /\ api = "dispatching"
    /\ losses < MaxLosses
    /\ api' = "done"
    /\ losses' = losses + 1
    /\ UNCHANGED <<row, runQueue, enrichQueue, lost, pc, task, reaping>>

-----------------------------------------------------------------------------
(* Broker deliveries and acknowledgements.                                 *)

StartTask(w, label, r) ==
    /\ pc[w] = "idle"
    /\ Goto(w, label)
    /\ retries' = [retries EXCEPT ![w] = r]
    /\ UNCHANGED <<row, api, lost, losses, age, seen, outcome, redelivered,
                   softFired, reaping>>

\* The process is done with its delivery and remembers nothing of it.
EndTask(w) ==
    /\ Goto(w, "idle")
    /\ retries' = [retries EXCEPT ![w] = 0]
    /\ age' = [age EXCEPT ![w] = 0]
    /\ seen' = [seen EXCEPT ![w] = NothingSeen]
    /\ outcome' = [outcome EXCEPT ![w] = "failed"]
    /\ redelivered' = [redelivered EXCEPT ![w] = FALSE]
    /\ softFired' = [softFired EXCEPT ![w] = FALSE]

DeliverRun(w) ==
    \E r \in 0 .. MaxRetries :
        /\ runQueue[r] > 0
        /\ runQueue' = [runQueue EXCEPT ![r] = @ - 1]
        /\ StartTask(w, "check", r)
        /\ UNCHANGED enrichQueue

DeliverEnrich(w) ==
    /\ enrichQueue > 0
    /\ enrichQueue' = enrichQueue - 1
    /\ StartTask(w, "e_check", 0)
    /\ UNCHANGED runQueue

Ack(w) ==
    /\ pc[w] \in {"return", "ack", "e_ack"}
    /\ EndTask(w)
    /\ UNCHANGED <<row, api, broker, reaping>>

PutBack(kind, r) ==
    IF kind = "run"
    THEN runQueue' = [runQueue EXCEPT ![r] = @ + 1] /\ UNCHANGED enrichQueue
    ELSE enrichQueue' = enrichQueue + 1 /\ UNCHANGED runQueue

\* The pool process dies (OOM, a signal): task_reject_on_worker_lost puts the
\* message back at once, unless the broker already restored it.
ProcessLost(w) ==
    /\ Busy(w) /\ losses < MaxLosses
    /\ losses' = losses + 1
    /\ EndTask(w)
    /\ IF redelivered[w] THEN UNCHANGED <<runQueue, enrichQueue>>
                         ELSE PutBack(Kind(w), retries[w])
    /\ UNCHANGED <<row, api, lost, reaping>>

\* The whole host dies: its unacknowledged messages wait for the visibility
\* timeout, counted from their delivery.
HostLost(w) ==
    /\ Busy(w) /\ losses < MaxLosses
    /\ losses' = losses + 1
    /\ EndTask(w)
    /\ lost' = IF redelivered[w] THEN lost
               ELSE lost \union {[kind |-> Kind(w), retries |-> retries[w],
                                  age |-> age[w], id |-> losses + 1]}
    /\ UNCHANGED <<row, api, runQueue, enrichQueue, reaping>>

RestoreLost ==
    \E m \in lost :
        /\ m.age > VisibilityTimeout
        /\ lost' = lost \ {m}
        /\ PutBack(m.kind, m.retries)
        /\ UNCHANGED <<row, api, losses, pc, task, reaping>>

\* The visibility timeout passes while the task still runs.
RestoreLive(w) ==
    /\ Busy(w) /\ ~redelivered[w]
    /\ age[w] > VisibilityTimeout
    /\ redelivered' = [redelivered EXCEPT ![w] = TRUE]
    /\ PutBack(Kind(w), retries[w])
    /\ UNCHANGED <<row, api, lost, losses, pc, retries, age, seen, outcome,
                   softFired, reaping>>

\* The hard limit: the pool process is killed and the message acknowledged.
HardTimeout(w) ==
    /\ Busy(w) /\ age[w] = HardLimit(w)
    /\ EndTask(w)
    /\ UNCHANGED <<row, api, broker, reaping>>

-----------------------------------------------------------------------------
(* run_scan                                                                *)

CheckRedelivery(w) ==
    /\ pc[w] = "check"
    /\ Goto(w, CASE status \in {"completed", "partial", "enriching"} -> "return"
                 [] status = "analysis_complete" -> "queue"
                 [] OTHER -> "claim")
    /\ UNCHANGED <<row, api, broker, task, reaping>>

\* Mutant: a running scan can be claimed, stale or not.
ClaimableAlways == status \in {"queued", "running", "failed"}

\* Mutant: stale after the soft limit instead of the hard one.
ClaimableEarly ==
    \/ status \in {"queued", "failed"}
    \/ status = "running" /\ started > ScanTimeout

Claimable ==
    \/ status \in {"queued", "failed"}
    \/ status = "running" /\ started > HardScan

Claim(w) ==
    /\ pc[w] = "claim"
    /\ Claimable
    /\ Goto(w, "analyze")
    /\ status' = "running" /\ started' = 0 /\ completed' = Null
    /\ UNCHANGED <<created, partial, enrichment, results, generating, api,
                   broker, task, reaping>>

DuplicateDelivery(w) ==
    /\ pc[w] = "claim"
    /\ ~Claimable
    /\ Goto(w, "return")
    /\ UNCHANGED <<row, api, broker, task, reaping>>

\* Mutant: analysis_partial is not written.
PersistWithoutVerdict(w, someFailed, llm) ==
    /\ pc[w] = "analyze"
    /\ Goto(w, IF llm THEN "queue" ELSE "return")
    /\ status' = IF llm THEN "analysis_complete"
                 ELSE IF someFailed THEN "partial" ELSE "completed"
    /\ completed' = 0
    /\ enrichment' = IF llm THEN "pending" ELSE "skipped"
    /\ results' = TRUE
    /\ UNCHANGED <<created, started, partial, generating, api, broker, task,
                   reaping>>

\* Mutant: completed_at is set only by the final statuses.
PersistWithoutTime(w, someFailed, llm) ==
    /\ pc[w] = "analyze"
    /\ Goto(w, IF llm THEN "queue" ELSE "return")
    /\ status' = IF llm THEN "analysis_complete"
                 ELSE IF someFailed THEN "partial" ELSE "completed"
    /\ completed' = IF llm THEN completed ELSE 0
    /\ partial' = someFailed
    /\ enrichment' = IF llm THEN "pending" ELSE "skipped"
    /\ results' = TRUE
    /\ UNCHANGED <<created, started, generating, api, broker, task, reaping>>

\* At least one analyzer succeeded; everything is stored in one transaction.
\* Without an LLM the scan is final at once.
PersistResults(w, someFailed, llm) ==
    /\ pc[w] = "analyze"
    /\ Goto(w, IF llm THEN "queue" ELSE "return")
    /\ status' = IF llm THEN "analysis_complete"
                 ELSE IF someFailed THEN "partial" ELSE "completed"
    /\ completed' = 0
    /\ partial' = someFailed
    /\ enrichment' = IF llm THEN "pending" ELSE "skipped"
    /\ results' = TRUE
    /\ UNCHANGED <<created, started, generating, api, broker, task, reaping>>

\* TRANSIENT_ERRORS, or any other exception, out of the body of run_scan.
Handler(w, transient) ==
    IF transient /\ retries[w] < MaxRetries THEN "requeue" ELSE "fail"

AnalysisFails(w) ==
    /\ pc[w] = "analyze"
    /\ \E transient \in BOOLEAN : Goto(w, Handler(w, transient))
    /\ UNCHANGED <<row, api, broker, task, reaping>>

\* The database fails a delivery that has not claimed the scan.
UnclaimedFails(w) ==
    /\ "pre_claim" \in Faults
    /\ pc[w] \in {"check", "claim"}
    /\ Goto(w, Handler(w, TRUE))
    /\ UNCHANGED <<row, api, broker, task, reaping>>

QueueEnrichment(w) ==
    /\ pc[w] = "queue"
    /\ Goto(w, "return")
    /\ enrichQueue' = enrichQueue + 1
    /\ UNCHANGED <<row, api, runQueue, lost, losses, task, reaping>>

\* finish_enrichment: the scan becomes final, whatever its status was.
Finish(verdict, verdictPartial) ==
    /\ status' = IF verdictPartial THEN "partial" ELSE "completed"
    /\ enrichment' = verdict
    /\ generating' = FALSE
    /\ UNCHANGED <<created, started, completed, partial, results>>

\* The broker refuses the enrichment message.
QueueEnrichmentRefused(w) ==
    /\ pc[w] = "queue"
    /\ Goto(w, "return")
    /\ Finish("failed", partial)
    /\ UNCHANGED <<api, broker, task, reaping>>

\* The broker refuses it and the database fails the fallback.
QueueEnrichmentFails(w) ==
    /\ "post_store" \in Faults
    /\ pc[w] = "queue"
    /\ Goto(w, Handler(w, TRUE))
    /\ UNCHANGED <<row, api, broker, task, reaping>>

\* The exception handlers record the failure in a session of their own.
SetStatus(w, label, next, new) ==
    /\ pc[w] = label
    /\ Goto(w, next)
    /\ status' = new
    /\ completed' = IF new = "failed" THEN 0 ELSE completed
    /\ UNCHANGED <<created, started, partial, enrichment, results, generating,
                   api, broker, task, reaping>>

SetQueued(w) == SetStatus(w, "requeue", "retry", "queued")
SetFailed(w) == SetStatus(w, "fail", "ack", "failed")

\* _set_status logs a database error and goes on.
SetStatusLost(w) ==
    /\ pc[w] \in {"requeue", "fail"}
    /\ Goto(w, IF pc[w] = "requeue" THEN "retry" ELSE "ack")
    /\ UNCHANGED <<row, api, broker, task, reaping>>

\* Mutant: the retry is published without ending the old delivery.
PublishRetryAndContinue(w) ==
    /\ pc[w] = "retry"
    /\ runQueue' = [runQueue EXCEPT ![retries[w] + 1] = @ + 1]
    /\ UNCHANGED <<row, api, enrichQueue, lost, losses, pc, task, reaping>>

\* self.retry: a new message with one more retry; the old one is acknowledged.
PublishRetry(w) ==
    /\ pc[w] = "retry"
    /\ Goto(w, "ack")
    /\ runQueue' = [runQueue EXCEPT ![retries[w] + 1] = @ + 1]
    /\ UNCHANGED <<row, api, enrichQueue, lost, losses, task, reaping>>

\* The broker refuses the retry: the old message is rejected for good.
PublishRetryRefused(w) ==
    /\ pc[w] = "retry"
    /\ EndTask(w)
    /\ UNCHANGED <<row, api, broker, reaping>>

\* The soft limit raises once, wherever the process is.  In the body it is
\* caught by its handler; inside a handler it ends the task.
SoftTimeoutRun(w) ==
    /\ pc[w] \in RunPcs /\ ~softFired[w]
    /\ age[w] >= SoftLimit(w)
    /\ pc[w] \in {"check", "claim"} => "pre_claim" \in Faults
    /\ pc[w] \in {"queue", "return"} => "post_store" \in Faults
    /\ IF pc[w] \in RunBody
       THEN /\ softFired' = [softFired EXCEPT ![w] = TRUE]
            /\ Goto(w, "fail")
            /\ UNCHANGED <<retries, age, seen, outcome, redelivered>>
       ELSE EndTask(w)
    /\ UNCHANGED <<row, api, broker, reaping>>

-----------------------------------------------------------------------------
(* enrich_scan                                                             *)

\* start_enrichment decides on the row as this session read it.
EnrichRead(w) ==
    /\ pc[w] = "e_check"
    /\ seen' = [seen EXCEPT ![w] = [status |-> status, partial |-> partial]]
    /\ Goto(w, IF status \in Enrichable THEN "e_start" ELSE "e_ack")
    /\ UNCHANGED <<row, api, broker, retries, age, outcome, redelivered,
                   softFired, reaping>>

\* A database error before the claim: nothing is written.
EnrichReadFails(w) ==
    /\ pc[w] \in {"e_check", "e_start"}
    /\ Goto(w, "e_ack")
    /\ UNCHANGED <<row, api, broker, task, reaping>>

\* The session writes only columns whose value differs from what it read.
EnrichStart(w) ==
    /\ pc[w] = "e_start"
    /\ Goto(w, "e_work")
    /\ IF seen[w].status = "enriching" THEN UNCHANGED <<status, enrichment>>
       ELSE status' = "enriching" /\ enrichment' = "running"
    /\ UNCHANGED <<created, started, completed, partial, results, generating,
                   api, broker, task, reaping>>

\* Fix suggestions are marked generating and settled one group at a time.
Suggest(w) ==
    /\ pc[w] = "e_work"
    /\ generating' = ~generating
    /\ UNCHANGED <<status, created, started, completed, partial, enrichment,
                   results, api, broker, pc, task, reaping>>

\* Done, blocked, unavailable, out of time or crashed: one verdict.
EnrichEnds(w) ==
    /\ pc[w] = "e_work"
    /\ Goto(w, "e_finish")
    /\ \E verdict \in EnrichmentOutcomes : outcome' = [outcome EXCEPT ![w] = verdict]
    /\ UNCHANGED <<row, api, broker, retries, age, seen, redelivered, softFired,
                   reaping>>

\* The row may still be the one cached when the task began.
EnrichFinish(w) ==
    /\ pc[w] = "e_finish"
    /\ Goto(w, "e_ack")
    /\ \E p \in {partial, seen[w].partial} : Finish(outcome[w], p)
    /\ UNCHANGED <<api, broker, task, reaping>>

\* A database error is logged; the reaper has to close the enrichment.
EnrichFinishLost(w) ==
    /\ pc[w] = "e_finish"
    /\ Goto(w, "e_ack")
    /\ UNCHANGED <<row, api, broker, task, reaping>>

\* Caught in the try block, but it escapes from its finally clause.
SoftTimeoutEnrich(w) ==
    /\ pc[w] \in EnrichPcs /\ ~softFired[w]
    /\ age[w] >= SoftLimit(w)
    /\ softFired' = [softFired EXCEPT ![w] = TRUE]
    /\ IF pc[w] = "e_work"
       THEN Goto(w, "e_finish") /\ outcome' = [outcome EXCEPT ![w] = "failed"]
       ELSE Goto(w, "e_ack") /\ UNCHANGED outcome
    /\ UNCHANGED <<row, api, broker, retries, age, seen, redelivered, reaping>>

-----------------------------------------------------------------------------
(* reap_stale_jobs_once, run by beat and when a worker starts.             *)

\* Mutant: every unfinished scan that started long ago is failed.
ReapUnfinished ==
    /\ ~reaping
    /\ status \notin TERMINAL_STATUSES /\ started > HardScan + Grace
    /\ status' = "failed" /\ completed' = 0
    /\ UNCHANGED <<created, started, partial, enrichment, results, generating,
                   api, broker, pc, task, reaping>>

ReapRunning ==
    /\ ~reaping
    /\ status = "running" /\ started > HardScan + Grace
    /\ status' = "failed" /\ completed' = 0
    /\ UNCHANGED <<created, started, partial, enrichment, results, generating,
                   api, broker, pc, task, reaping>>

ReapQueued ==
    /\ ~reaping
    /\ status = "queued" /\ created > MaxQueued
    /\ status' = "failed" /\ completed' = 0
    /\ UNCHANGED <<created, started, partial, enrichment, results, generating,
                   api, broker, pc, task, reaping>>

\* Mutant: whatever has not completed is taken for a stuck enrichment.
ReapSelectNotCompleted ==
    /\ ~reaping
    /\ status \notin {"completed", "partial"}
    /\ completed # Null /\ completed > HardLLM + Grace
    /\ reaping' = TRUE
    /\ UNCHANGED <<row, api, broker, pc, task>>

\* Mutant: a scan whose enrichment was never delivered is overlooked.
ReapSelectEnriching ==
    /\ ~reaping
    /\ status = "enriching"
    /\ completed # Null /\ completed > HardLLM + Grace
    /\ reaping' = TRUE
    /\ UNCHANGED <<row, api, broker, pc, task>>

\* The stuck enrichments are selected, and closed after a commit.
ReapSelect ==
    /\ ~reaping
    /\ status \in Enrichable
    /\ completed # Null /\ completed > HardLLM + Grace
    /\ reaping' = TRUE
    /\ UNCHANGED <<row, api, broker, pc, task>>

ReapClose ==
    /\ reaping
    /\ reaping' = FALSE
    /\ Finish("failed", partial)
    /\ UNCHANGED <<api, broker, pc, task>>

ReaperLost ==
    /\ reaping /\ losses < MaxLosses
    /\ reaping' = FALSE
    /\ losses' = losses + 1
    /\ UNCHANGED <<row, api, runQueue, enrichQueue, lost, pc, task>>

-----------------------------------------------------------------------------
\* Hard limits are enforced on time, so no task outlives its own.
Tick ==
    /\ \A w \in Workers : Busy(w) => age[w] < HardLimit(w)
    /\ created' = Older(created)
    /\ started' = IF started = Null THEN Null ELSE Older(started)
    /\ completed' = IF completed = Null THEN Null ELSE Older(completed)
    /\ age' = [w \in Workers |-> IF Busy(w) THEN Older(age[w]) ELSE age[w]]
    /\ lost' = {[m EXCEPT !.age = Older(m.age)] : m \in lost}
    /\ UNCHANGED <<status, partial, enrichment, results, generating, api,
                   runQueue, enrichQueue, losses, pc, retries, seen, outcome,
                   redelivered, softFired, reaping>>

RunScan(w) ==
    \/ CheckRedelivery(w) \/ Claim(w) \/ DuplicateDelivery(w)
    \/ \E someFailed, llm \in BOOLEAN : PersistResults(w, someFailed, llm)
    \/ AnalysisFails(w) \/ UnclaimedFails(w)
    \/ QueueEnrichment(w) \/ QueueEnrichmentRefused(w) \/ QueueEnrichmentFails(w)
    \/ SetQueued(w) \/ SetFailed(w) \/ SetStatusLost(w)
    \/ PublishRetry(w) \/ PublishRetryRefused(w)

EnrichScan(w) ==
    \/ EnrichRead(w) \/ EnrichReadFails(w) \/ EnrichStart(w)
    \/ Suggest(w) \/ EnrichEnds(w) \/ EnrichFinish(w) \/ EnrichFinishLost(w)

Broker(w) ==
    \/ DeliverRun(w) \/ DeliverEnrich(w) \/ Ack(w)
    \/ ProcessLost(w) \/ HostLost(w) \/ RestoreLive(w)

Limits(w) == SoftTimeoutRun(w) \/ SoftTimeoutEnrich(w) \/ HardTimeout(w)

Api == Dispatch \/ DispatchRefused \/ DispatchLost

Reaper == ReapRunning \/ ReapQueued \/ ReapSelect \/ ReapClose \/ ReaperLost

Next ==
    \/ Api
    \/ \E w \in Workers : RunScan(w) \/ EnrichScan(w) \/ Broker(w) \/ Limits(w)
    \/ RestoreLost
    \/ Reaper
    \/ Tick

Spec == Init /\ [][Next]_vars

\* Only what does not depend on a worker behaving: time passes, the main
\* process enforces the hard limit, and beat keeps running the reaper.
Fairness ==
    /\ WF_vars(Tick)
    /\ \A w \in Workers : WF_vars(HardTimeout(w))
    /\ WF_vars(ReapRunning) /\ WF_vars(ReapQueued)
    /\ WF_vars(ReapSelect) /\ WF_vars(ReapClose)

FairSpec == Spec /\ Fairness

-----------------------------------------------------------------------------
(* Properties.                                                             *)

\* A process holds the scan from its claim until it has stored the result or
\* recorded the failure.
Holding(w) == pc[w] \in {"analyze", "requeue", "fail"}
Holders == {w \in Workers : Holding(w)}

\* The claim of run_scan is a lock: no two processes analyze the scan at the
\* same time, whatever is redelivered, retried or lost.
OneAnalysisAtATime ==
    \A v, w \in Workers : pc[v] = "analyze" /\ pc[w] = "analyze" => v = w

\* A process that analyzes works under its own, current claim, so what it
\* stores or fails is never a scan that another delivery owns by then.
AnalysisHoldsClaim ==
    \A w \in Workers : Holding(w) => status = "running" /\ started \in 0 .. age[w]

\* Once findings are stored the scan stays readable: no late message, timeout
\* or reaper run takes a stored result back.
StoredResultsStayReadable == results => status \in RESULT_STATUSES

\* A scan is shown with findings only when an analysis has stored them, also
\* when finish_enrichment made it final without looking at its status.
ReadableMeansStored == status \in RESULT_STATUSES => results

\* The final status tells whether an analyzer failed (analysis_partial), no
\* matter which of the finishers wrote it or how old a row it had cached.
VerdictMatchesAnalysis ==
    /\ status = "completed" => ~partial
    /\ status = "partial" => partial

\* A scan waits for enrichment only while the time the reaper counts from is
\* known: otherwise nobody would ever close it.
EnrichableCanBeReaped == status \in Enrichable => completed # Null

\* run_scan messages multiply only when a process or host is lost: queued,
\* unacknowledged and executing deliveries are never more than the losses
\* plus the one the API sent.  (A delivery that published its retry is done.)
QueuedRuns == UNION {{r} \X (1 .. runQueue[r]) : r \in 0 .. MaxRetries}
LostRuns == {m \in lost : m.kind = "run"}
ExecutingRuns == {w \in Workers : pc[w] \in RunPcs \ {"ack"}}
RunDeliveries ==
    Cardinality(QueuedRuns) + Cardinality(LostRuns) + Cardinality(ExecutingRuns)
DuplicatesNeedLosses == RunDeliveries <= 1 + losses

\* Nothing is left unfinished forever, even if no process ever does anything
\* again: the clock, the hard limit and the reaper are enough.
EventuallyTerminal ==
    (status \notin TERMINAL_STATUSES) ~> (status \in TERMINAL_STATUSES)

\* The scan implements the lease that its claim stands for.
Lease == INSTANCE AnalysisLease WITH holders <- Holders, stored <- results
LeaseSpec == Lease!Spec

-----------------------------------------------------------------------------
(* What the code, its tests and its documents say and the model refutes.   *)

\* enrich_scan: "A duplicate or late delivery: leave the finished result alone."
FinishedResultLeftAlone ==
    [][(status \in {"completed", "partial"}) => status' \notin Enrichable]_vars

\* The reaper picks enrichments "stuck past their maximum runtime": never one
\* that a process is executing within its limit.
ReaperSparesLiveEnrichment ==
    [][~reaping /\ reaping' => \A w \in Workers : pc[w] # "e_work"]_vars

\* finish_enrichment: "Suggestions left `generating` by a crash are marked failed."
EnrichmentOver ==
    /\ status \in TERMINAL_STATUSES /\ ~reaping
    /\ enrichQueue = 0 /\ lost = {}
    /\ \A w \in Workers : pc[w] \notin EnrichPcs
NoStrandedSuggestion == EnrichmentOver => ~generating

\* "Redis visibility timeout must exceed the longest task, or unacked tasks are
\* redelivered while still running."
NeverRedeliveredWhileRunning == \A w \in Workers : Busy(w) => ~redelivered[w]
=============================================================================
