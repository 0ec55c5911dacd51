------------------------ MODULE FixSuggestionsProofs ------------------------
(***************************************************************************)
(* Theorems about FixSuggestions, for any number of regenerations and of   *)
(* lost processes.                                                         *)
(***************************************************************************)
EXTENDS FixSuggestions, FiniteSetTheorems, TLAPS

(***************************************************************************)
(* A task whose session loaded the row before it was marked `generating`   *)
(* does not settle it: the status it writes may be the one it has loaded,  *)
(* and is not flushed.  Who settles the row is therefore a request before  *)
(* its task has loaded it, or a task that has loaded it as `generating`.   *)
(***************************************************************************)
Settles(r) ==
    \/ request[r] \in {"publish", "queued"}
    \/ request[r] = "working" /\ loaded[r].status = "generating"

OwnerInv ==
    row.status = "generating" /\ ~abandoned =>
        enrichment # "done" \/ \E r \in Regenerations : Settles(r)

\* On a calm final scan the row belongs to one regeneration from its acceptance to the
\* end of its task, which therefore holds the row as it is; before that, to the enrichment.
OneRegeneration ==
    \A r \in Regenerations : Pending(r) =>
        /\ enrichment = "done" /\ row.status = "generating"
        /\ request[r] = "working" => loaded[r] = row
        /\ \A q \in Regenerations : Pending(q) => q = r
SeenIsCurrent == enrichment = "mark" => seen = row

SuggestionInv ==
    /\ TypeOK
    /\ OwnerInv
    /\ Calm => OneRegeneration /\ SeenIsCurrent
    /\ VerdictIsOfThePatch

LEMMA SuggestionInit == Init => SuggestionInv
  <1> SUFFICES ASSUME Init PROVE SuggestionInv
    OBVIOUS
  <1> USE DEF Init, NoRow, Fixed, Verdicts
  <1>1. TypeOK
    <2>1. row \in RowType /\ seen \in RowType
      BY DEF RowType
    <2>2. NoRow \in RowType
      BY DEF RowType
    <2>3. loaded \in [Regenerations -> RowType]
      BY <2>2 DEF Init
    <2>4. request \in [Regenerations -> RequestPcs]
      BY DEF RequestPcs
    <2>5. enrichment \in EnrichmentPcs /\ losses \in 0 .. MaxLosses
      BY SuggestionBound DEF EnrichmentPcs
    <2> QED
      BY <2>1, <2>3, <2>4, <2>5 DEF TypeOK
  <1>2. OwnerInv /\ OneRegeneration /\ SeenIsCurrent /\ VerdictIsOfThePatch
    BY DEF OwnerInv, OneRegeneration, SeenIsCurrent, VerdictIsOfThePatch, Pending
  <1> QED
    BY <1>1, <1>2 DEF SuggestionInv

-----------------------------------------------------------------------------
(* What the writers of the row leave in it.                                *)

LEMMA RowValues ==
    /\ NoRow \in RowType /\ [NoRow EXCEPT !.status = "generating"] \in RowType
    /\ \A v \in Verdicts : Fixed(v) \in RowType
    /\ \A old \in RowType : Failed(old) \in RowType
  BY DEF NoRow, RowType, Fixed, Failed, Verdicts

\* A flush changes no column to anything but the new value.
LEMMA FlushKeepsType ==
    ASSUME row \in RowType, NEW old \in RowType, NEW new \in RowType,
           NEW patch \in {"none"} \union Verdicts, Flush(old, new, patch)
    PROVE  row' \in RowType
  BY DEF Flush, RowType

\* What a session flushes over the row it has loaded is what it holds.
LEMMA FlushOfCurrent ==
    ASSUME row \in RowType, NEW new \in RowType, NEW patch, Flush(row, new, patch)
    PROVE  row'.status = new.status /\ row'.verdict = new.verdict /\ row'.patch = patch
  BY DEF Flush, RowType

LEMMA SweepSettles ==
    ASSUME row \in RowType, Sweep
    PROVE  row' \in RowType /\ row'.status # "generating" /\ (row' = row \/ row'.status = "failed")
  BY DEF Sweep, Failed, RowType

-----------------------------------------------------------------------------
(* Steps of the enrichment.                                                *)

LEMMA EnrichmentKeepsType ==
    ASSUME TypeOK, EnrichmentStep \/ EnrichmentLost \/ EnrichmentKilled
    PROVE  TypeOK'
  <1> USE DEF TypeOK, EnrichmentPcs, requestVars
  <1>1. CASE StartEnrichment
    BY <1>1 DEF StartEnrichment
  <1>2. CASE LookForRow
    BY <1>2 DEF LookForRow
  <1>3. CASE MarkGenerating
    <2>1. row' \in RowType
      <3>1. CASE row' = [NoRow EXCEPT !.status = "generating"] \/ row' = row
        BY <3>1, RowValues
      <3>2. CASE Flush(seen, [seen EXCEPT !.status = "generating",
                                          !.verdict = "not_validated"], row.patch)
        <4>1. [seen EXCEPT !.status = "generating", !.verdict = "not_validated"] \in RowType
          BY DEF RowType
        <4>2. row.patch \in {"none"} \union Verdicts
          BY DEF RowType
        <4> QED
          BY <3>2, <4>1, <4>2, FlushKeepsType
      <3> QED
        BY <1>3, <3>1, <3>2 DEF MarkGenerating
    <2> QED
      BY <1>3, <2>1 DEF MarkGenerating
  <1>4. CASE StoreGenerated
    BY <1>4, RowValues DEF StoreGenerated
  <1>5. CASE EnrichmentFails \/ EnrichmentKilled
    BY <1>5 DEF EnrichmentFails, EnrichmentKilled
  <1>6. CASE FinishEnrichment \/ ReapEnrichment
    BY <1>6, SweepSettles DEF FinishEnrichment, ReapEnrichment
  <1>7. CASE EnrichmentLost
    BY <1>7, SuggestionBound DEF EnrichmentLost
  <1> QED
    BY <1>1, <1>2, <1>3, <1>4, <1>5, <1>6, <1>7 DEF EnrichmentStep

LEMMA EnrichmentKeepsInv ==
    ASSUME SuggestionInv, EnrichmentStep \/ EnrichmentLost \/ EnrichmentKilled
    PROVE  SuggestionInv'
  <1> USE DEF SuggestionInv
  <1>1. TypeOK'
    BY EnrichmentKeepsType
  <1>2. enrichment # "done" /\ UNCHANGED requestVars
    BY DEF EnrichmentStep, StartEnrichment, LookForRow, MarkGenerating, StoreGenerated,
           EnrichmentFails, FinishEnrichment, ReapEnrichment, EnrichmentLost, EnrichmentKilled
  <1>3. Calm' => Calm
    BY <1>2 DEF Calm, requestVars, TypeOK, EnrichmentStep, StartEnrichment, LookForRow,
                MarkGenerating, StoreGenerated, EnrichmentFails, FinishEnrichment,
                ReapEnrichment, EnrichmentLost, EnrichmentKilled
  <1>4. Calm' => \A r \in Regenerations : ~Pending(r)'
    BY <1>2, <1>3 DEF OneRegeneration, Pending, requestVars
  <1>5. enrichment' = "done" => row'.status # "generating"
    BY SweepSettles DEF TypeOK, EnrichmentStep, StartEnrichment, LookForRow, MarkGenerating,
           StoreGenerated, EnrichmentFails, FinishEnrichment, ReapEnrichment, EnrichmentLost,
           EnrichmentKilled
  <1>6. Calm' => SeenIsCurrent'
    BY DEF SeenIsCurrent, EnrichmentStep, StartEnrichment, LookForRow,
           MarkGenerating, StoreGenerated, EnrichmentFails, FinishEnrichment, ReapEnrichment,
           EnrichmentLost, EnrichmentKilled
  <1>7. VerdictIsOfThePatch'
    <2> SUFFICES ASSUME Calm, row'.status = "ready"
                 PROVE  row'.verdict = row'.patch
      BY <1>3 DEF VerdictIsOfThePatch
    <2>1. CASE MarkGenerating
      <3>1. seen = row
        BY <2>1 DEF MarkGenerating, SeenIsCurrent
      <3>2. [seen EXCEPT !.status = "generating", !.verdict = "not_validated"] \in RowType
        BY DEF RowType, TypeOK
      <3>3. row'.status = "generating" \/ row' = row
        BY <2>1, <3>1, <3>2, FlushOfCurrent DEF MarkGenerating, NoRow, TypeOK, RowType
      <3> QED
        BY <3>3 DEF VerdictIsOfThePatch
    <2>2. CASE StoreGenerated
      <3>1. Failed(row).status = "failed"
        BY DEF TypeOK, RowType, Failed
      <3> QED
        BY <2>2, <3>1 DEF StoreGenerated, Fixed
    <2>3. CASE FinishEnrichment \/ ReapEnrichment
      BY <2>3, SweepSettles DEF FinishEnrichment, ReapEnrichment, VerdictIsOfThePatch, TypeOK
    <2>4. CASE row' = row
      BY <2>4 DEF VerdictIsOfThePatch
    <2> QED
      BY <2>1, <2>2, <2>3, <2>4 DEF EnrichmentStep, StartEnrichment, LookForRow,
           EnrichmentFails, EnrichmentLost, EnrichmentKilled
  <1>8. OwnerInv'
    BY <1>5 DEF OwnerInv
  <1>9. Calm' => OneRegeneration'
    BY <1>4 DEF OneRegeneration
  <1> QED
    BY <1>1, <1>6, <1>7, <1>8, <1>9

-----------------------------------------------------------------------------
(* Steps of a regeneration.                                                *)

Request(r) ==
    \/ Accept(r) \/ AcceptWithoutRow(r) \/ Refuse(r) \/ RequestStep(r)
    \/ ApiDies(r) \/ TaskLost(r) \/ TaskKilled(r)

LEMMA StoresKeepType ==
    ASSUME TypeOK, NEW r \in Regenerations, StoreFix(r) \/ StoreFailure(r)
    PROVE  row' \in RowType
  <1>1. loaded[r] \in RowType /\ row \in RowType /\ row.patch \in {"none"} \union Verdicts
    BY DEF TypeOK, RowType
  <1>2. CASE StoreFix(r)
    <2>1. PICK v \in Verdicts : Flush(loaded[r], Fixed(v), v)
      BY <1>2 DEF StoreFix
    <2> QED
      BY <1>1, <2>1, RowValues, FlushKeepsType
  <1>3. CASE StoreFailure(r)
    BY <1>1, <1>3, RowValues, FlushKeepsType DEF StoreFailure
  <1> QED
    BY <1>2, <1>3

LEMMA RequestKeepsType ==
    ASSUME TypeOK, NEW r \in Regenerations, Request(r)
    PROVE  TypeOK'
  <1> USE DEF TypeOK, RequestPcs, enrichVars, Goto, NoteEarly
  <1>1. CASE Accept(r)
    BY <1>1 DEF Accept, RowType
  <1>2. CASE AcceptWithoutRow(r) \/ Refuse(r) \/ Publish(r) \/ Acknowledge(r)
    BY <1>2 DEF AcceptWithoutRow, Refuse, Publish, Acknowledge
  <1>3. CASE InsertRow(r)
    BY <1>3, RowValues DEF InsertRow
  <1>4. CASE PublishRefused(r)
    BY <1>4 DEF PublishRefused, RowType
  <1>5. CASE ApiDies(r) \/ TaskKilled(r)
    BY <1>5 DEF ApiDies, TaskKilled
  <1>6. CASE StartTask(r)
    BY <1>6 DEF StartTask
  <1>7. CASE StoreFix(r) \/ StoreFailure(r)
    BY <1>7, StoresKeepType DEF StoreFix, StoreFailure
  <1>8. CASE HandleError(r)
    BY <1>8, SweepSettles DEF HandleError
  <1>9. CASE TaskLost(r)
    BY <1>9, SuggestionBound DEF TaskLost
  <1> QED
    BY <1>1, <1>2, <1>3, <1>4, <1>5, <1>6, <1>7, <1>8, <1>9 DEF Request, RequestStep

\* The row a task settles, and what becomes of the settling when it does not.
LEMMA StoresSettle ==
    ASSUME TypeOK, NEW r \in Regenerations, StoreFix(r) \/ StoreFailure(r)
    PROVE  /\ loaded[r].status = "generating" => row'.status # "generating"
           /\ row'.status = "generating" => row.status = "generating"
           /\ loaded[r] = row /\ row'.status = "ready" => row'.verdict = row'.patch
  <1> USE DEF TypeOK, RowType
  <1>1. CASE StoreFix(r)
    <2>1. PICK v \in Verdicts : Flush(loaded[r], Fixed(v), v)
      BY <1>1 DEF StoreFix
    <2> QED
      BY <2>1 DEF Flush, Fixed, Verdicts
  <1>2. CASE StoreFailure(r)
    <2>1. Failed(loaded[r]).status = "failed"
      BY DEF Failed
    <2>2. row'.status \in {"failed", row.status}
      BY <1>2, <2>1 DEF StoreFailure, Flush
    <2>3. loaded[r].status # "failed" => row'.status = "failed"
      BY <1>2, <2>1 DEF StoreFailure, Flush
    <2>4. loaded[r] = row => row'.status = "failed"
      BY <2>2, <2>3
    <2> QED
      BY <2>2, <2>3, <2>4
  <1> QED
    BY <1>1, <1>2

\* Every way a step of a regeneration can touch the row.
LEMMA RequestOwner ==
    ASSUME TypeOK, OwnerInv, NEW r \in Regenerations, Request(r)
    PROVE  OwnerInv'
  <1> USE DEF OwnerInv, TypeOK, Goto, enrichVars
  <1>1. CASE Accept(r) \/ Publish(r)
    <2>1. Settles(r)'
      BY <1>1 DEF Accept, Publish, Settles
    <2> QED
      BY <2>1
  <1>2. CASE AcceptWithoutRow(r) \/ Refuse(r) \/ Acknowledge(r)
    <2>1. ~Settles(r) /\ \A q \in Regenerations : Settles(q) => Settles(q)'
      BY <1>2 DEF AcceptWithoutRow, Refuse, Acknowledge, Settles
    <2> QED
      BY <1>2, <2>1 DEF AcceptWithoutRow, Refuse, Acknowledge
  <1>3. CASE InsertRow(r)
    <2>1. CASE row.status = "none"
      <3>1. Settles(r)'
        BY <1>3, <2>1 DEF InsertRow, Settles
      <3> QED
        BY <3>1
    <2>2. CASE row.status # "none"
      <3>1. \A q \in Regenerations : Settles(q) => Settles(q)'
        BY <1>3, <2>2 DEF InsertRow, Settles
      <3> QED
        BY <1>3, <2>2, <3>1 DEF InsertRow
    <2> QED
      BY <2>1, <2>2
  <1>4. CASE PublishRefused(r)
    BY <1>4 DEF PublishRefused, RowType
  <1>5. CASE ApiDies(r) \/ TaskKilled(r)
    BY <1>5 DEF ApiDies, TaskKilled
  <1>6. CASE StartTask(r)
    <2>1. \A q \in Regenerations : row.status = "generating" /\ Settles(q) => Settles(q)'
      BY <1>6 DEF StartTask, Settles
    <2> QED
      BY <1>6, <2>1 DEF StartTask
  <1>7. CASE StoreFix(r) \/ StoreFailure(r)
    <2>1. /\ request[r] = "working" /\ UNCHANGED <<enrichment, loaded, abandoned>>
          /\ request' = [request EXCEPT ![r] = "ack"]
      BY <1>7 DEF StoreFix, StoreFailure
    <2>2. \A q \in Regenerations : q # r /\ Settles(q) => Settles(q)'
      BY <2>1 DEF Settles
    <2>3. row'.status = "generating" => row.status = "generating" /\ ~Settles(r)
      BY <1>7, <2>1, StoresSettle DEF Settles
    <2> QED
      BY <2>1, <2>2, <2>3
  <1>8. CASE HandleError(r)
    BY <1>8, SweepSettles DEF HandleError
  <1>9. CASE TaskLost(r)
    <2>1. \A q \in Regenerations : Settles(q) => Settles(q)'
      BY <1>9 DEF TaskLost, Settles
    <2> QED
      BY <1>9, <2>1 DEF TaskLost
  <1> QED
    BY <1>1, <1>2, <1>3, <1>4, <1>5, <1>6, <1>7, <1>8, <1>9 DEF Request, RequestStep

LEMMA CalmBefore ==
    ASSUME TypeOK, NEW r \in Regenerations, Request(r), Calm'
    PROVE  /\ Calm /\ UNCHANGED <<enrichment, seen>>
           /\ ~ApiDies(r) /\ ~TaskLost(r) /\ ~TaskKilled(r)
           /\ Pending(r)' /\ ~Pending(r) => enrichment = "done"
  <1> USE DEF Calm, TypeOK
  <1>1. early' = early \/ early' = (early \/ enrichment # "done")
    BY DEF Request, RequestStep, Accept, AcceptWithoutRow, Refuse, InsertRow, Publish,
           PublishRefused, StartTask, StoreFix, StoreFailure, HandleError, Acknowledge,
           ApiDies, TaskLost, TaskKilled, NoteEarly
  <1>2. ~ApiDies(r) /\ ~TaskLost(r) /\ ~TaskKilled(r)
    BY SuggestionBound DEF ApiDies, TaskLost, TaskKilled
  <1>3. UNCHANGED <<losses, abandoned, enrichment, seen>>
    BY <1>2 DEF Request, RequestStep, Accept, AcceptWithoutRow, Refuse, InsertRow, Publish,
           PublishRefused, StartTask, StoreFix, StoreFailure, HandleError, Acknowledge,
           enrichVars
  <1>4. Pending(r)' /\ ~Pending(r) => NoteEarly
    BY <1>2 DEF Request, RequestStep, Accept, AcceptWithoutRow, Refuse, InsertRow, Publish,
           PublishRefused, StartTask, StoreFix, StoreFailure, HandleError, Acknowledge,
           Goto, Pending
  <1> QED
    BY <1>1, <1>2, <1>3, <1>4 DEF NoteEarly

\* On a calm scan the regeneration that steps is the one that owns the row, or it becomes
\* the owner of a row that has none, or it leaves the row alone.
LEMMA RequestCalm ==
    ASSUME SuggestionInv, NEW r \in Regenerations, Request(r), Calm'
    PROVE  OneRegeneration' /\ SeenIsCurrent' /\ VerdictIsOfThePatch'
  <1>1. /\ TypeOK /\ TypeOK' /\ Calm /\ OneRegeneration /\ SeenIsCurrent
        /\ VerdictIsOfThePatch /\ UNCHANGED <<enrichment, seen>>
    BY CalmBefore, RequestKeepsType DEF SuggestionInv
  <1>2. /\ request' = [request EXCEPT ![r] = request'[r]]
        /\ \A q \in Regenerations : q # r => loaded'[q] = loaded[q]
    BY <1>1 DEF TypeOK, Request, RequestStep, Accept, AcceptWithoutRow, Refuse, InsertRow,
           Publish, PublishRefused, StartTask, StoreFix, StoreFailure, HandleError,
           Acknowledge, ApiDies, TaskLost, TaskKilled, Goto
  <1>3. \A q \in Regenerations : q # r => (Pending(q)' <=> Pending(q))
    BY <1>1, <1>2 DEF TypeOK, Pending
  <1>4. CASE Accept(r) \/ (InsertRow(r) /\ row.status = "none")
    <2>1. /\ row'.status = "generating" /\ row.status # "generating"
          /\ request'[r] = "publish" /\ enrichment = "done"
      BY <1>1, <1>4, CalmBefore DEF Accept, InsertRow, NoteEarly, Goto, TypeOK, RowType, Pending,
                                    NoRow, Calm
    <2>2. \A q \in Regenerations : ~Pending(q)
      BY <1>1, <2>1 DEF OneRegeneration
    <2> QED
      BY <1>1, <1>3, <2>1, <2>2 DEF OneRegeneration, SeenIsCurrent, VerdictIsOfThePatch
  <1>5. CASE /\ row' = row /\ (Pending(r)' => Pending(r))
             /\ request'[r] = "working" => loaded'[r] = row
    BY <1>1, <1>2, <1>3, <1>5 DEF OneRegeneration, SeenIsCurrent, VerdictIsOfThePatch, Calm, TypeOK
  <1>6. CASE /\ Pending(r) /\ ~Pending(r)'
             /\ row'.status = "ready" => row'.verdict = row'.patch
    <2>1. \A q \in Regenerations : ~Pending(q)'
      BY <1>1, <1>3, <1>6 DEF OneRegeneration
    <2>2. enrichment = "done"
      BY <1>1, <1>6 DEF OneRegeneration
    <2> QED
      BY <1>1, <1>6, <2>1, <2>2 DEF OneRegeneration, SeenIsCurrent, VerdictIsOfThePatch
  <1>7. CASE AcceptWithoutRow(r) \/ (InsertRow(r) /\ row.status # "none") \/ Refuse(r)
                \/ Publish(r) \/ Acknowledge(r) \/ StartTask(r)
    BY <1>1, <1>5, <1>7 DEF TypeOK, AcceptWithoutRow, InsertRow, Refuse, Publish, Acknowledge,
                            StartTask, Goto, Pending
  <1>8. CASE PublishRefused(r) \/ HandleError(r) \/ StoreFix(r) \/ StoreFailure(r)
    <2>1. Pending(r) /\ ~Pending(r)'
      BY <1>1, <1>8 DEF TypeOK, PublishRefused, HandleError, StoreFix, StoreFailure, Goto, Pending
    <2>2. row.status = "generating" /\ (request[r] = "working" => loaded[r] = row)
      BY <1>1, <2>1 DEF OneRegeneration
    <2>3. row'.status = "ready" => row'.verdict = row'.patch
      <3>1. CASE PublishRefused(r)
        BY <1>1, <3>1 DEF PublishRefused, TypeOK, RowType
      <3>2. CASE HandleError(r)
        BY <1>1, <2>2, <3>2, SweepSettles DEF HandleError, TypeOK
      <3>3. CASE StoreFix(r) \/ StoreFailure(r)
        <4>1. request[r] = "working"
          BY <3>3 DEF StoreFix, StoreFailure
        <4> QED
          BY <1>1, <2>2, <3>3, <4>1, StoresSettle
      <3> QED
        BY <1>8, <3>1, <3>2, <3>3
    <2> QED
      BY <1>6, <2>1, <2>3
  <1> QED
    BY <1>4, <1>7, <1>8, CalmBefore, <1>1 DEF Request, RequestStep

-----------------------------------------------------------------------------
(* The theorems.                                                           *)

LEMMA SuggestionStep == SuggestionInv /\ [Next]_vars => SuggestionInv'
  <1> SUFFICES ASSUME SuggestionInv, [Next]_vars PROVE SuggestionInv'
    OBVIOUS
  <1>1. CASE EnrichmentStep \/ EnrichmentLost \/ EnrichmentKilled
    BY <1>1, EnrichmentKeepsInv
  <1>2. ASSUME NEW r \in Regenerations, Request(r) PROVE SuggestionInv'
    <2>1. TypeOK' /\ OwnerInv'
      BY <1>2, RequestKeepsType, RequestOwner DEF SuggestionInv
    <2>2. Calm' => OneRegeneration' /\ SeenIsCurrent' /\ VerdictIsOfThePatch'
      BY <1>2, RequestCalm
    <2> QED
      BY <2>1, <2>2 DEF SuggestionInv, VerdictIsOfThePatch
  <1>3. CASE UNCHANGED vars
    BY <1>3 DEF vars, SuggestionInv, TypeOK, OwnerInv, Settles, Calm, OneRegeneration, Pending,
                SeenIsCurrent, VerdictIsOfThePatch
  <1> QED
    BY <1>1, <1>2, <1>3 DEF Next, Request

LEMMA SuggestionInvariant == Spec => []SuggestionInv
  BY SuggestionInit, SuggestionStep, PTL DEF Spec

\* The row, what the sessions have loaded and where the requests are stay within their types.
THEOREM SuggestionsTyped == Spec => []TypeOK
  BY SuggestionInvariant, PTL DEF SuggestionInv

\* However the enrichment, the requests and their tasks overlap, and however often a task is
\* run again, a suggestion that is `generating` has somebody who will settle it: the tasks
\* whose flush would leave the status alone (regenerate_fix over a row loaded before it was
\* marked) are never the only ones.
THEOREM GeneratingHasAnOwner == Spec => []GeneratingIsOwned
  <1>1. OwnerInv => GeneratingIsOwned
    BY DEF OwnerInv, GeneratingIsOwned, Settles, Pending
  <1> QED
    BY <1>1, SuggestionInvariant, PTL DEF SuggestionInv

\* On a final scan whose tasks ran once, "409 while generating" makes regenerations of one
\* finding exclude each other, however many are asked for.
THEOREM OneRegenerationAtATime == Spec => []RegenerationsExclude
  <1>1. SuggestionInv => RegenerationsExclude
    <2> SUFFICES ASSUME SuggestionInv, Calm
                 PROVE  Cardinality({r \in Regenerations : Pending(r)}) <= 1
      BY DEF RegenerationsExclude
    <2>1. CASE {r \in Regenerations : Pending(r)} = {}
      BY <2>1, FS_EmptySet
    <2>2. CASE \E r \in Regenerations : Pending(r)
      <3>1. PICK r \in Regenerations : Pending(r)
        BY <2>2
      <3>2. {q \in Regenerations : Pending(q)} = {r}
        BY <3>1 DEF SuggestionInv, OneRegeneration
      <3>3. Cardinality({r}) = 1
        BY FS_Singleton
      <3> QED
        BY <3>2, <3>3
    <2> QED
      BY <2>1, <2>2
  <1> QED
    BY <1>1, SuggestionInvariant, PTL

\* On such a scan the columns flushed by different sessions belong together: the verdict
\* beside a finished patch is the verdict of that patch.
THEOREM VerdictBelongsToPatch == Spec => []VerdictIsOfThePatch
  BY SuggestionInvariant, PTL DEF SuggestionInv
=============================================================================
