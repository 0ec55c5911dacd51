--------------------------- MODULE FixSuggestions ---------------------------
(***************************************************************************)
(* The fix suggestion of one finding: the enrichment that generates it     *)
(* with those of the other findings, and the requests that regenerate it.  *)
(*                                                                         *)
(* fix_suggestions has one row per finding (finding_id is unique), and no  *)
(* two findings share one, so one finding is enough; what other findings   *)
(* do to the enrichment (a failed group, a spent budget, an error) is a    *)
(* choice of its outcome.                                                  *)
(*                                                                         *)
(* Sessions keep what they loaded (expire_on_commit is off, and a second   *)
(* SELECT of a row that is held does not refresh it) and flush only the    *)
(* columns whose new value differs from the loaded one.  Of a patch the    *)
(* model keeps its true verdict; the version, the hint and the explanation *)
(* are left out.                                                           *)
(***************************************************************************)
EXTENDS Naturals, FiniteSets

CONSTANTS
    Regenerations,  \* POST .../fix/regenerate requests, each with its task
    MaxLosses       \* bound: task processes lost in one behaviour

ASSUME SuggestionBound == MaxLosses \in Nat

VARIABLES
    row,            \* the fix_suggestions row
    enrichment,     \* where the enrich_scan message or task of the scan is
    seen,           \* the row as the enrichment loaded it
    request,        \* where each regeneration is
    loaded,         \* the row as its task loaded it
    early,          \* history: a regeneration was accepted before the scan was final
    abandoned,      \* history: an API process or a killed task left its row behind
    losses

vars == <<row, enrichment, seen, request, loaded, early, abandoned, losses>>

Verdicts == {"valid", "invalid"}
NoRow == [status |-> "none", verdict |-> "not_validated", patch |-> "none"]
RowType == [status : {"none", "generating", "ready", "failed"},
            verdict : {"not_validated"} \union Verdicts,
            patch : {"none"} \union Verdicts]

Fixed(v) == [status |-> "ready", verdict |-> v, patch |-> v]
Failed(old) == [old EXCEPT !.status = "failed", !.verdict = "not_validated"]

EnrichmentPcs == {"queued", "look", "mark", "generate", "finish", "dead", "done"}
RequestPcs == {"idle", "insert", "publish", "queued", "working", "ack", "done"}

TypeOK ==
    /\ row \in RowType /\ seen \in RowType
    /\ enrichment \in EnrichmentPcs
    /\ request \in [Regenerations -> RequestPcs]
    /\ loaded \in [Regenerations -> RowType]
    /\ early \in BOOLEAN /\ abandoned \in BOOLEAN
    /\ losses \in 0 .. MaxLosses

\* The scan has its analysis results; its enrichment waits in the queue or is long over.
Init ==
    /\ \/ enrichment = "queued" /\ row = NoRow
       \/ /\ enrichment = "done"
          /\ row \in {NoRow} \union
                 {Fixed(v) : v \in Verdicts}
    /\ seen = NoRow
    /\ request = [r \in Regenerations |-> "idle"]
    /\ loaded = [r \in Regenerations |-> NoRow]
    /\ early = FALSE /\ abandoned = FALSE
    /\ losses = 0

\* A session that loaded `old` and now holds `new` writes the columns that differ; a
\* new patch always differs.
Flush(old, new, patch) ==
    row' = [status |-> IF new.status # old.status THEN new.status ELSE row.status,
            verdict |-> IF new.verdict # old.verdict THEN new.verdict ELSE row.verdict,
            patch |-> patch]

(***************************************************************************)
(* The enrichment of the scan.                                             *)
(***************************************************************************)
enrichVars == <<enrichment, seen>>
requestVars == <<request, loaded, early, abandoned>>

StartEnrichment ==
    /\ enrichment = "queued"
    /\ enrichment' \in {"look", "finish"}  \* the finding is selected, or nothing is generated
    /\ UNCHANGED <<row, seen, requestVars, losses>>

\* mark_generating: SELECT, then INSERT or UPDATE in one transaction with the other rows.
LookForRow ==
    /\ enrichment = "look"
    /\ seen' = row
    /\ enrichment' = "mark"
    /\ UNCHANGED <<row, requestVars, losses>>

MarkGenerating ==
    /\ enrichment = "mark"
    /\ \/ /\ seen.status = "none" /\ row.status = "none"
          /\ row' = [NoRow EXCEPT !.status = "generating"]
          /\ enrichment' = "generate"
       \/ /\ seen.status # "none"
          /\ Flush(seen, [seen EXCEPT !.status = "generating", !.verdict = "not_validated"],
                   row.patch)
          /\ enrichment' = "generate"
       \/ \* finding_id is taken by now: the enrichment crashes
          /\ seen.status = "none" /\ row.status # "none"
          /\ enrichment' = "finish"
          /\ UNCHANGED row
    /\ UNCHANGED <<seen, requestVars, losses>>

\* The row is loaded again when the model's answer is stored.
StoreGenerated ==
    /\ enrichment = "generate"
    /\ \/ \E v \in Verdicts : row' = Fixed(v)
       \/ row' = Failed(row)  \* no fix for the finding, the call failed, no budget
    /\ enrichment' = "finish"
    /\ UNCHANGED <<seen, requestVars, losses>>

\* An error or the soft limit: the task goes straight to its finally clause.
EnrichmentFails ==
    /\ enrichment \in {"look", "mark", "generate"}
    /\ enrichment' = "finish"
    /\ UNCHANGED <<row, seen, requestVars, losses>>

\* A variant that leaves the suggestions alone, for comparison.
SweepNothing == row' = row

\* finish_enrichment closes what is still `generating`, whoever generates it.
Sweep == row' = IF row.status = "generating" THEN Failed(row) ELSE row

FinishEnrichment ==
    /\ enrichment = "finish"
    /\ Sweep
    /\ enrichment' = "done"
    /\ UNCHANGED <<seen, requestVars, losses>>

EnrichmentLost ==
    /\ enrichment \in {"look", "mark", "generate", "finish"}
    /\ losses < MaxLosses
    /\ losses' = losses + 1
    /\ enrichment' = "queued"
    /\ UNCHANGED <<row, seen, requestVars>>

\* Killed at the hard limit; the reaper finishes the enrichment of the scan.
EnrichmentKilled ==
    /\ enrichment \in {"look", "mark", "generate", "finish"}
    /\ enrichment' = "dead"
    /\ UNCHANGED <<row, seen, requestVars, losses>>

ReapEnrichment ==
    /\ enrichment = "dead"
    /\ Sweep
    /\ enrichment' = "done"
    /\ UNCHANGED <<seen, requestVars, losses>>

(***************************************************************************)
(* A regeneration: the request and its task.                               *)
(***************************************************************************)
Goto(r, label) == request' = [request EXCEPT ![r] = label]
NoteEarly == early' = (early \/ enrichment # "done")

\* A variant that accepts while a suggestion is being generated.
AcceptGenerating(r) ==
    /\ request[r] = "idle" /\ row.status # "none"
    /\ row' = [row EXCEPT !.status = "generating"]
    /\ Goto(r, "publish")
    /\ NoteEarly
    /\ UNCHANGED <<enrichVars, loaded, abandoned, losses>>

\* SELECT ... FOR UPDATE finds the row and holds it until the commit; 409 while a
\* suggestion is being generated.  The old patch and its verdict stay.
Accept(r) ==
    /\ request[r] = "idle" /\ row.status \in {"ready", "failed"}
    /\ row' = [row EXCEPT !.status = "generating"]
    /\ Goto(r, "publish")
    /\ NoteEarly
    /\ UNCHANGED <<enrichVars, loaded, abandoned, losses>>

\* There is no row to lock: the insertion may find that another session was faster.
AcceptWithoutRow(r) ==
    /\ request[r] = "idle" /\ row.status = "none"
    /\ Goto(r, "insert")
    /\ UNCHANGED <<row, enrichVars, loaded, early, abandoned, losses>>

InsertRow(r) ==
    /\ request[r] = "insert"
    /\ \/ /\ row.status = "none"
          /\ row' = [NoRow EXCEPT !.status = "generating"]
          /\ Goto(r, "publish")
          /\ NoteEarly
       \/ /\ row.status # "none"
          /\ Goto(r, "done")
          /\ UNCHANGED <<row, early>>
    /\ UNCHANGED <<enrichVars, loaded, abandoned, losses>>

Refuse(r) ==
    /\ request[r] = "idle" /\ row.status = "generating"
    /\ Goto(r, "done")
    /\ UNCHANGED <<row, enrichVars, loaded, early, abandoned, losses>>

Publish(r) ==
    /\ request[r] = "publish"
    /\ Goto(r, "queued")
    /\ UNCHANGED <<row, enrichVars, loaded, early, abandoned, losses>>

PublishRefused(r) ==
    /\ request[r] = "publish"
    /\ row' = [row EXCEPT !.status = "failed"]
    /\ Goto(r, "done")
    /\ UNCHANGED <<enrichVars, loaded, early, abandoned, losses>>

ApiDies(r) ==
    /\ request[r] = "publish"
    /\ Goto(r, "done")
    /\ abandoned' = TRUE
    /\ UNCHANGED <<row, enrichVars, loaded, early, losses>>

\* The task loads the row and holds it through the call of the model.
StartTask(r) ==
    /\ request[r] = "queued"
    /\ loaded' = [loaded EXCEPT ![r] = row]
    /\ Goto(r, "working")
    /\ UNCHANGED <<row, enrichVars, early, abandoned, losses>>

\* A variant that leaves the verdict for later, for comparison.
StorePatchOnly(r) ==
    /\ request[r] = "working"
    /\ \E v \in Verdicts :
          Flush(loaded[r], [Fixed(v) EXCEPT !.verdict = loaded[r].verdict], v)
    /\ Goto(r, "ack")
    /\ UNCHANGED <<enrichVars, loaded, early, abandoned, losses>>

StoreFix(r) ==
    /\ request[r] = "working"
    /\ \E v \in Verdicts : Flush(loaded[r], Fixed(v), v)
    /\ Goto(r, "ack")
    /\ UNCHANGED <<enrichVars, loaded, early, abandoned, losses>>

\* The call fails, the budget is spent or the answer has no fix for the finding.
StoreFailure(r) ==
    /\ request[r] = "working"
    /\ Flush(loaded[r], Failed(loaded[r]), row.patch)
    /\ Goto(r, "ack")
    /\ UNCHANGED <<enrichVars, loaded, early, abandoned, losses>>

\* A variant whose handler writes nothing.
IgnoreError(r) ==
    /\ request[r] = "working"
    /\ Goto(r, "ack")
    /\ UNCHANGED <<row, enrichVars, loaded, early, abandoned, losses>>

\* A variant that gives the message back to the queue.
RetryOnError(r) ==
    /\ request[r] = "working"
    /\ Goto(r, "queued")
    /\ UNCHANGED <<row, enrichVars, loaded, early, abandoned, losses>>

\* Any other error: rolled back, read again, and closed only if still `generating`.
HandleError(r) ==
    /\ request[r] = "working"
    /\ Sweep
    /\ Goto(r, "ack")
    /\ UNCHANGED <<enrichVars, loaded, early, abandoned, losses>>

Acknowledge(r) ==
    /\ request[r] = "ack"
    /\ Goto(r, "done")
    /\ UNCHANGED <<row, enrichVars, loaded, early, abandoned, losses>>

TaskLost(r) ==
    /\ request[r] \in {"working", "ack"} /\ losses < MaxLosses
    /\ losses' = losses + 1
    /\ Goto(r, "queued")
    /\ UNCHANGED <<row, enrichVars, loaded, early, abandoned>>

\* Killed at the hard limit: the message is acknowledged, nothing is written.
TaskKilled(r) ==
    /\ request[r] = "working"
    /\ Goto(r, "done")
    /\ abandoned' = TRUE
    /\ UNCHANGED <<row, enrichVars, loaded, early, losses>>

EnrichmentStep ==
    \/ StartEnrichment \/ LookForRow \/ MarkGenerating \/ StoreGenerated
    \/ EnrichmentFails \/ FinishEnrichment \/ ReapEnrichment
RequestStep(r) ==
    \/ InsertRow(r) \/ Publish(r) \/ PublishRefused(r)
    \/ StartTask(r) \/ StoreFix(r) \/ StoreFailure(r) \/ HandleError(r) \/ Acknowledge(r)

Next ==
    \/ EnrichmentStep \/ EnrichmentLost \/ EnrichmentKilled
    \/ \E r \in Regenerations :
          \/ Accept(r) \/ AcceptWithoutRow(r) \/ Refuse(r)
          \/ RequestStep(r)
          \/ ApiDies(r) \/ TaskLost(r) \/ TaskKilled(r)

Spec == Init /\ [][Next]_vars

\* Requests are answered, workers take and end their tasks, beat runs the reaper.
FairSpec == Spec /\ WF_vars(EnrichmentStep)
                 /\ \A r \in Regenerations : WF_vars(RequestStep(r))

(***************************************************************************)
(* Properties.                                                             *)
(***************************************************************************)
\* A request or a task that will still write the row.
Pending(r) == request[r] \in {"publish", "queued", "working"}

\* A suggestion that is `generating` always has somebody who will settle it: otherwise
\* every later request is refused with 409 for good.  Nobody settles what an API process
\* or a task killed at the hard limit leaves behind: the reaper does not know suggestions.
GeneratingIsOwned ==
    row.status = "generating" /\ ~abandoned =>
        enrichment # "done" \/ \E r \in Regenerations : Pending(r)

\* Under the same condition no suggestion stays `generating`.
GeneratingSettles == (row.status = "generating" /\ ~abandoned)
                         ~> (row.status # "generating" \/ abandoned)

\* On a scan that is final, regenerations of one finding exclude each other ("409 while
\* generating"), as long as no task ran twice or was killed.
Calm == ~early /\ losses = 0 /\ ~abandoned
RegenerationsExclude ==
    Calm => Cardinality({r \in Regenerations : Pending(r)}) <= 1

\* On such a scan the verdict beside a finished patch is the verdict of that patch.
VerdictIsOfThePatch == Calm /\ row.status = "ready" => row.verdict = row.patch

\* "A patch that doesn't apply or doesn't parse is stored with that status and never
\* presented as working" (docstring of fix_suggester.py).
NeverPresentedAsWorking ==
    row.status = "ready" /\ row.verdict = "valid" => row.patch = "valid"
=============================================================================
