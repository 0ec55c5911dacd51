------------------------- MODULE PullRequestsProofs -------------------------
(***************************************************************************)
(* Theorems about PullRequests, for every set of previews, branches,       *)
(* contents and workers, every time limit and any number of losses.        *)
(***************************************************************************)
EXTENDS PullRequests, FiniteSetTheorems, TLAPS

LEMMA Some == SomePreview \in Previews /\ SomeContent \in Contents
  BY PullRequestsAssumption DEF SomePreview, SomeContent

LEMMA Limits == HardLimit \in Nat /\ AgeCap \in Nat /\ 0 \in 0 .. AgeCap /\ 0 \in 0 .. HardLimit
  BY PullRequestsAssumption DEF AgeCap

-----------------------------------------------------------------------------
(***************************************************************************)
(* The invariant: a preview has at most one job at a time, be it a request *)
(* that has confirmed it and not yet queued the task, a message, or an     *)
(* execution.  No lock says so.  It holds because a preview is confirmed   *)
(* only once and every step hands the one job on.                          *)
(***************************************************************************)
Saved(p) == row[p].status # "none"
Runs(w, p) == pc[w] # "idle" /\ job[w] = p
NoMessage(p) == queue[p] = 0 /\ held[p] = 0
NoJob(p) == p \notin publishing /\ NoMessage(p) /\ \A w \in Workers : ~Runs(w, p)
NothingWritten(p) == p \notin pulls /\ \A x \in written : x.preview # p

OneJob(p) ==
    /\ \A v, w \in Workers : Runs(v, p) /\ Runs(w, p) => v = w
    /\ queue[p] + held[p] <= 1
    /\ p \in publishing => NoMessage(p)
    /\ p \in publishing \/ ~NoMessage(p) => \A w \in Workers : ~Runs(w, p)

\* What the row says about the job and about what is at GitHub.
RowInv(p) ==
    /\ row[p].status \in {"none", "previewed"} => NoJob(p) /\ NothingWritten(p)
    /\ row[p].status = "open" => NoJob(p) /\ p \in pulls
    /\ Saved(p) /\ row[p].error = "queue_unavailable" =>
         row[p].status = "failed" /\ NoJob(p) /\ NothingWritten(p)
    /\ p \in publishing => NothingWritten(p)

\* An execution writes the content its row was saved with.
TaskInv(w) ==
    /\ pc[w] = "planned" => plan[w] = row[job[w]].fingerprint
    /\ pc[w] = "opened" => job[w] \in pulls
    /\ code[w] # "queue_unavailable"

ContentInv ==
    \A x \in written : row[x.preview].fingerprint = x.content

PullInv ==
    /\ TypeOK
    /\ \A p \in Previews : OneJob(p) /\ RowInv(p)
    /\ \A w \in Workers : TaskInv(w)
    /\ ContentInv

\* A saved row is a record with all its columns.
LEMMA SavedRow ==
    ASSUME TypeOK, NEW p \in Previews, Saved(p)
    PROVE  row[p] \in Rows
  BY DEF TypeOK, Saved, NoRow

\* What the statements that change a row leave in it.
LEMMA RowUpdate ==
    ASSUME TypeOK, NEW p \in Previews, Saved(p),
           NEW s \in {"creating", "open", "failed"}, NEW e \in Errors
    PROVE  /\ [row EXCEPT ![p].status = s] \in [Previews -> Rows \union {NoRow}]
           /\ [row EXCEPT ![p].status = s, ![p].error = e]
                \in [Previews -> Rows \union {NoRow}]
  <1>1. row[p] \in Rows /\ row \in [Previews -> Rows \union {NoRow}]
    BY SavedRow DEF TypeOK
  <1>2. [row[p] EXCEPT !.status = s] \in Rows
    BY <1>1 DEF Rows
  <1>3. [row[p] EXCEPT !.status = s, !.error = e] \in Rows
    BY <1>1 DEF Rows
  <1> QED
    BY <1>1, <1>2, <1>3

\* Every preview of a job has been saved.
LEMMA JobIsSaved ==
    ASSUME PullInv, NEW p \in Previews, ~NoJob(p)
    PROVE  Saved(p) /\ row[p].status # "previewed" /\ row[p].status # "open"
  BY DEF PullInv, RowInv, Saved

LEMMA PullInit == Init => PullInv
  <1> SUFFICES ASSUME Init PROVE PullInv
    OBVIOUS
  <1>1. TypeOK
    BY Some, Limits, PullRequestsAssumption DEF Init, TypeOK, NoRow, Errors
  <1>2. \A p \in Previews : OneJob(p) /\ RowInv(p)
    BY DEF Init, OneJob, RowInv, NoJob, NoMessage, NothingWritten, Saved, Runs, NoRow
  <1>3. (\A w \in Workers : TaskInv(w)) /\ ContentInv
    BY DEF Init, TaskInv, ContentInv
  <1> QED
    BY <1>1, <1>2, <1>3 DEF PullInv

-----------------------------------------------------------------------------
(* Type correctness.                                                       *)

LEMMA TypeRequests ==
    ASSUME PullInv, NEW p \in Previews,
           \/ \E b \in Branches : SavePreview(p, b)
           \/ Confirm(p) \/ Dispatch(p) \/ DispatchRefused(p) \/ DispatchLost(p)
           \/ Skip(p) \/ RestoreHeld(p) \/ Reap(p)
    PROVE  TypeOK'
  <1> USE DEF PullInv, TypeOK, request, broker, tasks, github
  <1>1. ASSUME NEW b \in Branches, SavePreview(p, b)
        PROVE  TypeOK'
    <2>1. [status |-> "previewed", fingerprint |-> current, branch |-> b,
           error |-> "none"] \in Rows
      BY DEF Rows, Errors
    <2> QED
      BY <1>1, <2>1 DEF SavePreview
  <1>2. CASE Confirm(p)
    <2>1. Saved(p)
      BY <1>2 DEF Confirm, ConfirmIf, Saved
    <2> QED
      BY <1>2, <2>1, RowUpdate, Limits DEF Confirm, ConfirmIf, Errors
  <1>3. CASE Dispatch(p)
    BY <1>3 DEF Dispatch
  <1>4. CASE DispatchRefused(p)
    <2>1. Saved(p)
      BY <1>4, JobIsSaved DEF DispatchRefused, NoJob
    <2> QED
      BY <1>4, <2>1, RowUpdate DEF DispatchRefused, Errors
  <1>5. CASE DispatchLost(p)
    BY <1>5 DEF DispatchLost
  <1>6. CASE Skip(p)
    BY <1>6 DEF Skip, Deliver
  <1>7. CASE RestoreHeld(p)
    BY <1>7 DEF RestoreHeld
  <1>8. CASE Reap(p)
    <2>1. Saved(p)
      BY <1>8 DEF Reap, ReapIf, Saved
    <2> QED
      BY <1>8, <2>1, RowUpdate DEF Reap, ReapIf, Errors
  <1> QED
    BY <1>1, <1>2, <1>3, <1>4, <1>5, <1>6, <1>7, <1>8

LEMMA TypeFailWith ==
    ASSUME TypeOK, NEW w \in Workers, NEW e \in Errors, FailWith(w, e),
           UNCHANGED <<plan, current>>,
           refs' \in [Branches -> {NoBranch, Foreign} \union {Own(p) : p \in Previews}],
           written' \subseteq [preview : Previews, content : Contents],
           pulls' \subseteq Previews
    PROVE  TypeOK'
  BY DEF TypeOK, FailWith, Goto, request, broker

LEMMA TypeEndTask ==
    ASSUME TypeOK, NEW w \in Workers, EndTask(w),
           row' \in [Previews -> Rows \union {NoRow}],
           queue' \in [Previews -> Nat], held' \in [Previews -> Nat],
           losses' \in 0 .. MaxLosses
    PROVE  TypeOK'
  BY Some, Limits DEF TypeOK, EndTask, Goto, github, Errors

LEMMA TypeExecute ==
    ASSUME PullInv, NEW w \in Workers, Execute(w) \/ ProcessLost(w) \/ HostLost(w)
    PROVE  TypeOK'
  <1> USE DEF request, broker, tasks, github
  <1>0. TypeOK /\ job[w] \in Previews /\ (pc[w] # "idle" => Saved(job[w]))
    BY JobIsSaved DEF PullInv, TypeOK, NoJob, Runs
  <1>1. CASE \/ PlanOutdated(w) \/ PlanBlocked(w) \/ CreateBranchRefused(w)
             \/ CreatePullRequestRefused(w) \/ Fails(w)
    <2>1. /\ \E e \in Errors : FailWith(w, e)
          /\ UNCHANGED <<plan, github>>
      BY <1>1 DEF PlanOutdated, PlanBlocked, CreateBranchRefused,
                  CreatePullRequestRefused, Fails, Errors
    <2> QED
      BY <1>0, <2>1, TypeFailWith DEF TypeOK
  <1>2. CASE BuildPlan(w)
    BY <1>0, <1>2 DEF TypeOK, BuildPlan, Goto, Active
  <1>3. CASE CreateBranch(w)
    <2>1. refs' \in [Branches -> {NoBranch, Foreign} \union {Own(p) : p \in Previews}]
      BY <1>0, <1>3 DEF TypeOK, CreateBranch
    <2>2. written' \subseteq [preview : Previews, content : Contents]
      BY <1>0, <1>3 DEF TypeOK, CreateBranch
    <2>3. CASE FailWith(w, "other")
      BY <1>0, <1>3, <2>1, <2>2, <2>3, TypeFailWith DEF TypeOK, CreateBranch, Errors
    <2>4. CASE /\ Goto(w, "branched")
               /\ UNCHANGED <<request, broker, job, elapsed, code, attempts, losses>>
      BY <1>0, <1>3, <2>1, <2>2, <2>4 DEF TypeOK, CreateBranch, Goto, Active
    <2> QED
      BY <1>3, <2>3, <2>4 DEF CreateBranch
  <1>4. CASE CreatePullRequest(w)
    <2>1. pulls' \subseteq Previews
      BY <1>0, <1>4 DEF TypeOK, CreatePullRequest
    <2>2. CASE FailWith(w, "other")
      BY <1>0, <1>4, <2>1, <2>2, TypeFailWith DEF TypeOK, CreatePullRequest, Errors
    <2>3. CASE /\ Goto(w, "opened")
               /\ UNCHANGED <<request, broker, job, elapsed, code, attempts, losses>>
      BY <1>0, <1>4, <2>1, <2>3 DEF TypeOK, CreatePullRequest, Goto, Active
    <2> QED
      BY <1>4, <2>2, <2>3 DEF CreatePullRequest
  <1>5. CASE RecordOpen(w)
    <2>1. row' \in [Previews -> Rows \union {NoRow}]
      BY <1>0, <1>5, RowUpdate DEF RecordOpen, Errors
    <2> QED
      BY <1>0, <1>5, <2>1, TypeEndTask DEF RecordOpen, TypeOK
  <1>6. CASE RecordFailed(w)
    <2>1. code[w] \in Errors
      BY <1>0 DEF TypeOK
    <2>2. row' \in [Previews -> Rows \union {NoRow}]
      BY <1>0, <1>6, <2>1, RowUpdate DEF RecordFailed
    <2> QED
      BY <1>0, <1>6, <2>2, TypeEndTask DEF RecordFailed, TypeOK
  <1>7. CASE EndsSilently(w)
    BY <1>0, <1>7, TypeEndTask DEF EndsSilently, TypeOK
  <1>8. CASE ProcessLost(w) \/ HostLost(w)
    <2>1. /\ EndTask(w) /\ row' = row /\ losses' \in 0 .. MaxLosses
          /\ queue' \in [Previews -> Nat] /\ held' \in [Previews -> Nat]
      BY <1>0, <1>8, PullRequestsAssumption DEF ProcessLost, HostLost, Lost, TypeOK
    <2> QED
      BY <1>0, <2>1, TypeEndTask DEF TypeOK
  <1> QED
    BY <1>1, <1>2, <1>3, <1>4, <1>5, <1>6, <1>7, <1>8 DEF Execute

LEMMA TypeStep ==
    ASSUME PullInv, [Next]_vars
    PROVE  TypeOK'
  <1> USE DEF PullInv, request, broker, tasks, github
  <1>1. CASE ContentChanges
    BY <1>1 DEF TypeOK, ContentChanges
  <1>2. ASSUME NEW b \in Branches, OthersPush(b) \/ BranchDeleted(b)
        PROVE  TypeOK'
    BY <1>2 DEF TypeOK, OthersPush, BranchDeleted, SetRef
  <1>3. ASSUME NEW p \in Previews, NEW w \in Workers, Start(w, p)
        PROVE  TypeOK'
    BY <1>3 DEF TypeOK, Start, Deliver, Goto, Active
  <1>4. CASE Tick
    <2>1. elapsed' \in [Workers -> 0 .. HardLimit]
      BY <1>4, Limits DEF Tick, TypeOK
    <2>2. age' \in [Previews -> 0 .. AgeCap]
      BY <1>4, Limits DEF Tick, TypeOK
    <2> QED
      BY <1>4, <2>1, <2>2 DEF Tick, TypeOK
  <1>5. CASE UNCHANGED vars
    BY <1>5 DEF vars, TypeOK
  <1> QED
    BY <1>1, <1>2, <1>3, <1>4, <1>5, TypeRequests, TypeExecute DEF Next

-----------------------------------------------------------------------------
(* Jobs.                                                                   *)

\* The steps that hand no job on.
JobsStay ==
    /\ UNCHANGED <<publishing, queue, held>>
    /\ \A w \in Workers, p \in Previews : Runs(w, p)' = Runs(w, p)

\* A step that neither confirms, ends nor hands on a job keeps all of them.
LEMMA StayingJobs ==
    ASSUME JobsStay, NEW p \in Previews
    PROVE  OneJob(p)' = OneJob(p) /\ NoJob(p)' = NoJob(p)
  BY DEF JobsStay, OneJob, NoJob, NoMessage

\* The jobs of the other previews.
OthersStay(p) ==
    \A q \in Previews \ {p} :
        /\ q \in publishing' <=> q \in publishing
        /\ queue'[q] = queue[q] /\ held'[q] = held[q]
        /\ \A w \in Workers : Runs(w, q)' = Runs(w, q)

LEMMA OtherJobs ==
    ASSUME NEW p \in Previews, OthersStay(p), NEW q \in Previews, q # p
    PROVE  OneJob(q)' = OneJob(q) /\ NoJob(q)' = NoJob(q)
  BY DEF OthersStay, OneJob, NoJob, NoMessage

\* It is enough to look at the preview a step is about.
LEMMA OtherPreviews ==
    ASSUME PullInv, NEW p \in Previews, OthersStay(p),
           \A q \in Previews \ {p} : /\ row'[q] = row[q]
                                     /\ q \in pulls' <=> q \in pulls,
           \A x \in written' \ written : x.preview = p,
           OneJob(p)', RowInv(p)'
    PROVE  \A q \in Previews : OneJob(q)' /\ RowInv(q)'
  <1> SUFFICES ASSUME NEW q \in Previews, q # p
               PROVE  OneJob(q)' /\ RowInv(q)'
    OBVIOUS
  <1>1. OneJob(q)' = OneJob(q) /\ NoJob(q)' = NoJob(q)
    BY OtherJobs
  <1>2. NothingWritten(q) => NothingWritten(q)'
    BY DEF NothingWritten
  <1>3. OneJob(q) /\ RowInv(q)
    BY DEF PullInv
  <1>4. q \in publishing' <=> q \in publishing
    BY DEF OthersStay
  <1> QED
    BY <1>1, <1>2, <1>3, <1>4 DEF RowInv, Saved

\* A row keeps its fingerprint, so what was planned and written stays right.
LEMMA ContentKept ==
    ASSUME PullInv, \A q \in Previews : Saved(q) => row'[q].fingerprint = row[q].fingerprint
    PROVE  /\ UNCHANGED written => ContentInv'
           /\ \A w \in Workers :
                /\ pc'[w] = pc[w] /\ job'[w] = job[w] /\ plan'[w] = plan[w]
                /\ code'[w] = code[w] /\ pulls \subseteq pulls'
                => TaskInv(w)'
  <1>1. ASSUME UNCHANGED written PROVE ContentInv'
    <2> SUFFICES ASSUME NEW x \in written
                 PROVE  row'[x.preview].fingerprint = x.content
      BY <1>1 DEF ContentInv
    <2>1. x.preview \in Previews
      BY DEF PullInv, TypeOK
    <2>2. Saved(x.preview)
      BY <2>1 DEF PullInv, RowInv, NothingWritten, Saved
    <2> QED
      BY <2>1, <2>2 DEF PullInv, ContentInv
  <1>2. ASSUME NEW w \in Workers, pc'[w] = pc[w], job'[w] = job[w],
               plan'[w] = plan[w], code'[w] = code[w], pulls \subseteq pulls'
        PROVE  TaskInv(w)'
    <2>1. job[w] \in Previews /\ TaskInv(w)
      BY DEF PullInv, TypeOK
    <2>2. pc[w] = "planned" => Saved(job[w])
      BY <2>1, JobIsSaved DEF NoJob, Runs
    <2> QED
      BY <1>2, <2>1, <2>2 DEF TaskInv
  <1> QED
    BY <1>1, <1>2

\* What happens at GitHub, and the clock, concern no job and no row.
LEMMA EnvironmentStep ==
    ASSUME PullInv,
           \/ ContentChanges \/ Tick \/ UNCHANGED vars
           \/ \E b \in Branches : OthersPush(b) \/ BranchDeleted(b)
    PROVE  PullInv'
  <1>1. UNCHANGED <<row, publishing, queue, held, pc, job, plan, code, written, pulls>>
    BY DEF ContentChanges, Tick, OthersPush, BranchDeleted, SetRef, vars, request,
           broker, tasks, github
  <1>2. TypeOK'
    BY TypeStep DEF Next
  <1>3. \A p \in Previews : OneJob(p)' /\ RowInv(p)'
    BY <1>1 DEF PullInv, OneJob, RowInv, NoJob, NoMessage, NothingWritten, Runs, Saved
  <1>4. ContentInv' /\ \A w \in Workers : TaskInv(w)'
    BY <1>1, ContentKept
  <1> QED
    BY <1>2, <1>3, <1>4 DEF PullInv

LEMMA SavePreviewStep ==
    ASSUME PullInv, NEW p \in Previews, NEW b \in Branches, SavePreview(p, b)
    PROVE  PullInv'
  <1> USE DEF request, broker, tasks, github
  <1>1. TypeOK'
    BY TypeRequests
  <1>2. /\ UNCHANGED <<publishing, queue, held, pc, job, plan, code, written, pulls>>
        /\ row[p].status = "none" /\ row'[p].status = "previewed"
        /\ row'[p].error = "none"
        /\ \A q \in Previews \ {p} : row'[q] = row[q]
    BY DEF SavePreview, PullInv, TypeOK, NoRow
  <1>3. JobsStay /\ OthersStay(p)
    BY <1>2 DEF JobsStay, OthersStay, Runs
  <1>4. OneJob(p) /\ NoJob(p) /\ NothingWritten(p)
    BY <1>2 DEF PullInv, RowInv
  <1>5. OneJob(p)' /\ NoJob(p)' /\ NothingWritten(p)'
    BY <1>2, <1>3, <1>4, StayingJobs DEF NothingWritten
  <1>6. RowInv(p)'
    BY <1>2, <1>5 DEF RowInv
  <1>7. \A q \in Previews : OneJob(q)' /\ RowInv(q)'
    BY <1>2, <1>3, <1>5, <1>6, OtherPreviews
  <1>8. ContentInv' /\ \A w \in Workers : TaskInv(w)'
    BY <1>2, ContentKept DEF Saved
  <1> QED
    BY <1>1, <1>7, <1>8 DEF PullInv

\* A request that only changes the status of its row and hands its job on.
LEMMA StatusStep ==
    ASSUME PullInv, TypeOK', NEW p \in Previews, OthersStay(p),
           UNCHANGED <<pc, job, plan, code, written, pulls>>,
           \A q \in Previews \ {p} : row'[q] = row[q],
           Saved(p) => row'[p].fingerprint = row[p].fingerprint,
           OneJob(p)', RowInv(p)'
    PROVE  PullInv'
  <1>1. \A q \in Previews : OneJob(q)' /\ RowInv(q)'
    BY OtherPreviews
  <1>2. ContentInv' /\ \A w \in Workers : TaskInv(w)'
    BY ContentKept
  <1> QED
    BY <1>1, <1>2 DEF PullInv

LEMMA RequestStep ==
    ASSUME PullInv, NEW p \in Previews,
           \/ Confirm(p) \/ Dispatch(p) \/ DispatchRefused(p) \/ DispatchLost(p)
           \/ Skip(p) \/ RestoreHeld(p) \/ Reap(p)
    PROVE  PullInv'
  <1> USE DEF request, broker, tasks, github
  <1>0. /\ TypeOK' /\ TypeOK /\ OneJob(p) /\ RowInv(p)
        /\ queue[p] \in Nat /\ held[p] \in Nat
    BY TypeRequests DEF PullInv, TypeOK
  <1>1. /\ UNCHANGED <<pc, job, plan, code, written, pulls>>
        /\ \A w \in Workers, q \in Previews : Runs(w, q)' = Runs(w, q)
        /\ NothingWritten(p)' = NothingWritten(p)
    BY DEF Confirm, ConfirmIf, Dispatch, DispatchRefused, DispatchLost, Skip,
           Deliver, RestoreHeld, Reap, ReapIf, Runs, NothingWritten
  <1>2. OthersStay(p) /\ \A q \in Previews \ {p} : row'[q] = row[q]
    BY <1>0, <1>1 DEF Confirm, ConfirmIf, Dispatch, DispatchRefused, DispatchLost,
           Skip, Deliver, RestoreHeld, Reap, ReapIf, OthersStay, TypeOK
  <1>3. CASE Confirm(p)
    <2>1. Saved(p) /\ row[p] \in Rows
      BY <1>0, <1>3, SavedRow DEF Confirm, ConfirmIf, Saved
    <2>2. /\ row[p].status = "previewed" /\ row'[p] = [row[p] EXCEPT !.status = "creating"]
          /\ p \in publishing' /\ queue' = queue /\ held' = held
      BY <1>0, <1>3 DEF Confirm, ConfirmIf, TypeOK
    <2>3. /\ row'[p].status = "creating" /\ row'[p].error = row[p].error
          /\ row'[p].fingerprint = row[p].fingerprint
      BY <2>1, <2>2 DEF Rows
    <2>4. NoJob(p) /\ NothingWritten(p) /\ row[p].error # "queue_unavailable"
      BY <1>0, <2>1, <2>2 DEF RowInv
    <2>5. OneJob(p)'
      BY <1>1, <2>2, <2>4 DEF OneJob, NoJob, NoMessage
    <2>6. RowInv(p)'
      BY <1>1, <2>3, <2>4 DEF RowInv
    <2> QED
      BY <1>0, <1>1, <1>2, <2>3, <2>5, <2>6, StatusStep
  <1>4. CASE Dispatch(p) \/ DispatchLost(p)
    <2>1. /\ row' = row /\ p \in publishing /\ p \notin publishing' /\ held' = held
          /\ queue'[p] \in {queue[p], queue[p] + 1}
      BY <1>0, <1>4 DEF Dispatch, DispatchLost, TypeOK
    <2>2. ~NoJob(p) /\ NoMessage(p) /\ \A w \in Workers : ~Runs(w, p)
      BY <1>0, <2>1 DEF OneJob, NoJob
    <2>3. OneJob(p)'
      BY <1>0, <1>1, <2>1, <2>2 DEF OneJob, NoMessage
    <2>4. RowInv(p)'
      BY <1>0, <1>1, <2>1, <2>2 DEF RowInv, Saved
    <2> QED
      BY <1>0, <1>1, <1>2, <2>1, <2>3, <2>4, StatusStep
  <1>5. CASE DispatchRefused(p)
    <2>1. p \in publishing /\ Saved(p) /\ row[p] \in Rows
      BY <1>0, <1>5, JobIsSaved, SavedRow DEF DispatchRefused, NoJob
    <2>2. /\ row'[p].status = "failed" /\ row'[p].fingerprint = row[p].fingerprint
          /\ p \notin publishing' /\ queue' = queue /\ held' = held
      BY <1>0, <1>5, <2>1 DEF DispatchRefused, TypeOK, Rows
    <2>3. NoMessage(p) /\ NothingWritten(p) /\ \A w \in Workers : ~Runs(w, p)
      BY <1>0, <2>1 DEF OneJob, RowInv
    <2>4. OneJob(p)' /\ NoJob(p)'
      BY <1>1, <2>2, <2>3 DEF OneJob, NoJob, NoMessage
    <2>5. RowInv(p)'
      BY <1>1, <2>2, <2>3, <2>4 DEF RowInv
    <2> QED
      BY <1>0, <1>1, <1>2, <2>2, <2>4, <2>5, StatusStep
  <1>6. CASE Skip(p)
    <2>1. /\ row' = row /\ publishing' = publishing /\ held' = held
          /\ queue[p] > 0 /\ queue'[p] = queue[p] - 1
      BY <1>0, <1>6 DEF Skip, Deliver, TypeOK
    <2>2. OneJob(p)' /\ NoJob(p)'
      BY <1>0, <1>1, <2>1 DEF OneJob, NoJob, NoMessage
    <2>3. RowInv(p)'
      BY <1>0, <1>1, <2>1, <2>2 DEF RowInv, Saved
    <2> QED
      BY <1>0, <1>1, <1>2, <2>1, <2>2, <2>3, StatusStep
  <1>7. CASE RestoreHeld(p)
    <2>1. /\ row' = row /\ publishing' = publishing /\ held[p] > 0
          /\ held'[p] = held[p] - 1 /\ queue'[p] = queue[p] + 1
      BY <1>0, <1>7 DEF RestoreHeld, TypeOK
    <2>2. OneJob(p)' /\ ~NoJob(p)
      BY <1>0, <1>1, <2>1 DEF OneJob, NoJob, NoMessage
    <2>3. RowInv(p)'
      BY <1>0, <1>1, <2>1, <2>2 DEF RowInv, Saved
    <2> QED
      BY <1>0, <1>1, <1>2, <2>1, <2>2, <2>3, StatusStep
  <1>8. CASE Reap(p)
    <2>1. Saved(p) /\ row[p] \in Rows
      BY <1>0, <1>8, SavedRow DEF Reap, ReapIf, Saved
    <2>2. /\ row'[p].status = "failed" /\ row'[p].error = "interrupted"
          /\ row'[p].fingerprint = row[p].fingerprint
          /\ UNCHANGED <<publishing, queue, held>>
      BY <1>0, <1>8, <2>1 DEF Reap, ReapIf, TypeOK, Rows
    <2>3. OneJob(p)'
      BY <1>0, <1>1, <2>2, StayingJobs DEF JobsStay
    <2>4. RowInv(p)'
      BY <1>0, <1>1, <2>2 DEF RowInv
    <2> QED
      BY <1>0, <1>1, <1>2, <2>2, <2>3, <2>4, StatusStep
  <1> QED
    BY <1>3, <1>4, <1>5, <1>6, <1>7, <1>8

LEMMA StartStep ==
    ASSUME PullInv, NEW p \in Previews, NEW w \in Workers, Start(w, p)
    PROVE  PullInv'
  <1> USE DEF request, broker, tasks, github
  <1>1. TypeOK' /\ TypeOK /\ OneJob(p) /\ RowInv(p) /\ TaskInv(w)
    BY TypeStep DEF PullInv, Next
  <1>2. /\ UNCHANGED <<row, publishing, held, plan, code, written, pulls>>
        /\ pc[w] = "idle" /\ pc'[w] = "planning" /\ job'[w] = p
        /\ row[p].status = "creating" /\ queue[p] > 0 /\ queue'[p] = queue[p] - 1
        /\ queue[p] \in Nat /\ held[p] \in Nat
        /\ \A q \in Previews \ {p} : queue'[q] = queue[q]
        /\ \A v \in Workers \ {w} : pc'[v] = pc[v] /\ job'[v] = job[v]
    BY <1>1 DEF Start, Deliver, Goto, TypeOK
  <1>3. OthersStay(p)
    BY <1>2 DEF OthersStay, Runs
  <1>4. \A v \in Workers : Runs(v, p)' <=> v = w
    BY <1>1, <1>2 DEF OneJob, NoMessage, Runs
  <1>5. OneJob(p)'
    BY <1>1, <1>2, <1>4 DEF OneJob, NoMessage
  <1>6. ~NoJob(p)
    BY <1>2 DEF NoJob, NoMessage
  <1>7. RowInv(p)'
    BY <1>1, <1>2, <1>6 DEF RowInv, Saved, NothingWritten
  <1>8. \A q \in Previews : OneJob(q)' /\ RowInv(q)'
    BY <1>2, <1>3, <1>5, <1>7, OtherPreviews
  <1>9. ContentInv' /\ \A v \in Workers \ {w} : TaskInv(v)'
    BY <1>2, ContentKept
  <1>10. TaskInv(w)'
    BY <1>1, <1>2 DEF TaskInv
  <1> QED
    BY <1>1, <1>8, <1>9, <1>10 DEF PullInv

-----------------------------------------------------------------------------
(* Executions.                                                             *)

\* An execution that goes on: it is still the only job of its preview.
LEMMA GoesOn ==
    ASSUME PullInv, TypeOK', NEW w \in Workers,
           pc[w] # "idle", pc'[w] # "idle",
           UNCHANGED <<row, publishing, queue, held, job>>,
           \A v \in Workers \ {w} : /\ pc'[v] = pc[v] /\ plan'[v] = plan[v]
                                    /\ code'[v] = code[v],
           pulls \subseteq pulls' /\ pulls' \subseteq pulls \union {job[w]},
           \A x \in written' \ written :
               x.preview = job[w] /\ x.content = row[job[w]].fingerprint,
           TaskInv(w)'
    PROVE  PullInv'
  <1>0. PICK p \in Previews : p = job[w]
    BY DEF PullInv, TypeOK
  <1>1. Runs(w, p)
    BY <1>0 DEF Runs
  <1>2. JobsStay /\ OthersStay(p)
    BY <1>0 DEF JobsStay, OthersStay, Runs
  <1>3. OneJob(p) /\ RowInv(p) /\ ~NoJob(p)
    BY <1>1 DEF PullInv, NoJob
  <1>4. OneJob(p)'
    BY <1>1, <1>2, <1>3, StayingJobs
  <1>5. p \notin publishing
    BY <1>1, <1>3 DEF OneJob
  <1>6. RowInv(p)'
    BY <1>2, <1>3, <1>5, StayingJobs DEF RowInv, Saved
  <1>7. \A q \in Previews : OneJob(q)' /\ RowInv(q)'
    BY <1>0, <1>2, <1>4, <1>6, OtherPreviews
  <1>8. ContentInv'
    BY DEF PullInv, ContentInv
  <1>9. \A v \in Workers \ {w} : TaskInv(v)'
    BY ContentKept
  <1> QED
    BY <1>7, <1>8, <1>9 DEF PullInv

\* What is left of an execution that ends: nothing, or one message.
LEMMA EndsTask ==
    ASSUME PullInv, TypeOK', NEW w \in Workers, pc[w] # "idle", EndTask(w),
           NEW p \in Previews, p = job[w],
           \A q \in Previews \ {p} : /\ row'[q] = row[q] /\ queue'[q] = queue[q]
                                     /\ held'[q] = held[q],
           row'[p].fingerprint = row[p].fingerprint,
           queue'[p] + held'[p] <= queue[p] + held[p] + 1,
           \/ row' = row
           \/ /\ UNCHANGED <<queue, held>>
              /\ row'[p].status = "open" => p \in pulls
              /\ row'[p].status \in {"open", "failed"}
              /\ row'[p].error # "queue_unavailable"
    PROVE  PullInv'
  <1> USE DEF request, broker, tasks, github
  <1>1. /\ Runs(w, p) /\ ~NoJob(p) /\ OneJob(p) /\ RowInv(p) /\ Saved(p)
        /\ TypeOK /\ queue[p] = 0 /\ held[p] = 0
    BY JobIsSaved DEF PullInv, Runs, NoJob, OneJob, NoMessage, RowInv
  <1>2. /\ UNCHANGED <<publishing, written, pulls>>
        /\ pc'[w] = "idle" /\ code'[w] = "none"
        /\ \A v \in Workers \ {w} :
             /\ pc'[v] = pc[v] /\ job'[v] = job[v]
             /\ plan'[v] = plan[v] /\ code'[v] = code[v]
    BY <1>1 DEF EndTask, Goto, TypeOK
  <1>3. \A v \in Workers : ~Runs(v, p)'
    BY <1>1, <1>2 DEF OneJob, Runs
  <1>4. OthersStay(p)
    BY <1>2 DEF OthersStay, Runs
  <1>5. p \notin publishing /\ NothingWritten(p)' = NothingWritten(p)
    BY <1>1, <1>2 DEF OneJob, NothingWritten
  <1>6. OneJob(p)'
    BY <1>1, <1>2, <1>3, <1>5 DEF OneJob
  <1>7. RowInv(p)'
    <2>1. CASE row' = row
      BY <1>1, <1>2, <1>5, <2>1 DEF RowInv, Saved
    <2>2. CASE row' # row
      <3>1. NoJob(p)'
        BY <1>1, <1>2, <1>3, <1>5, <2>2 DEF NoJob, NoMessage
      <3> QED
        BY <1>2, <1>5, <2>2, <3>1 DEF RowInv
    <2> QED
      BY <2>1, <2>2
  <1>8. \A q \in Previews : OneJob(q)' /\ RowInv(q)'
    BY <1>2, <1>4, <1>6, <1>7, OtherPreviews
  <1>9. ContentInv' /\ \A v \in Workers \ {w} : TaskInv(v)'
    BY <1>2, ContentKept
  <1>10. TaskInv(w)'
    BY <1>2 DEF TaskInv
  <1> QED
    BY <1>8, <1>9, <1>10 DEF PullInv

LEMMA ExecuteStep ==
    ASSUME PullInv, NEW w \in Workers, Execute(w)
    PROVE  PullInv'
  <1> USE DEF request, broker, tasks, github
  <1>0. /\ TypeOK' /\ TypeOK /\ TaskInv(w) /\ job[w] \in Previews
        /\ code[w] \in Errors
    BY TypeExecute DEF PullInv, TypeOK
  <1>1. CASE \/ PlanOutdated(w) \/ PlanBlocked(w) \/ CreateBranchRefused(w)
             \/ CreatePullRequestRefused(w) \/ Fails(w)
    <2>1. /\ pc[w] # "idle" /\ UNCHANGED <<plan, github>>
          /\ \E e \in Errors \ {"queue_unavailable"} : FailWith(w, e)
      BY <1>1 DEF PlanOutdated, PlanBlocked, CreateBranchRefused,
                  CreatePullRequestRefused, Fails, Errors, Active
    <2>2. TaskInv(w)'
      BY <1>0, <2>1 DEF FailWith, Goto, TaskInv, TypeOK
    <2> QED
      BY <1>0, <2>1, <2>2, GoesOn DEF FailWith, Goto, TypeOK
  <1>2. CASE BuildPlan(w)
    <2>1. TaskInv(w)'
      BY <1>0, <1>2 DEF BuildPlan, Goto, TaskInv, TypeOK
    <2> QED
      BY <1>0, <1>2, <2>1, GoesOn DEF BuildPlan, Goto, TypeOK
  <1>3. CASE CreateBranch(w)
    <2>1. /\ pc[w] = "planned" /\ UNCHANGED <<request, broker, job, plan, pulls>>
          /\ pc'[w] \in {"branched", "failing"} /\ code'[w] \in {code[w], "other"}
          /\ \A v \in Workers \ {w} : pc'[v] = pc[v] /\ code'[v] = code[v]
          /\ written' = written \union {[preview |-> job[w], content |-> plan[w]]}
      BY <1>0, <1>3 DEF CreateBranch, FailWith, Goto, TypeOK
    <2>2. TaskInv(w)' /\ plan[w] = row[job[w]].fingerprint
      BY <1>0, <2>1 DEF TaskInv
    <2> QED
      BY <1>0, <2>1, <2>2, GoesOn
  <1>4. CASE CreatePullRequest(w)
    <2>1. /\ pc[w] = "branched" /\ UNCHANGED <<request, broker, job, plan, written>>
          /\ pc'[w] \in {"opened", "failing"} /\ code'[w] \in {code[w], "other"}
          /\ \A v \in Workers \ {w} : pc'[v] = pc[v] /\ code'[v] = code[v]
          /\ pulls' = pulls \union {job[w]}
      BY <1>0, <1>4 DEF CreatePullRequest, FailWith, Goto, TypeOK
    <2>2. TaskInv(w)'
      BY <1>0, <2>1 DEF TaskInv
    <2> QED
      BY <1>0, <2>1, <2>2, GoesOn
  <1>5. PICK p \in Previews : p = job[w]
    BY <1>0
  <1>6. CASE RecordOpen(w) \/ RecordFailed(w)
    <2>1. /\ pc[w] # "idle" /\ EndTask(w) /\ UNCHANGED <<queue, held>>
          /\ \A q \in Previews \ {p} : row'[q] = row[q]
          /\ queue'[p] + held'[p] <= queue[p] + held[p] + 1
      BY <1>0, <1>5, <1>6 DEF RecordOpen, RecordFailed, TypeOK
    <2>2. row[p] \in Rows /\ RowInv(p) /\ ~NoJob(p)
      BY <1>0, <1>5, <2>1, JobIsSaved, SavedRow DEF PullInv, NoJob, Runs
    <2>3. CASE RecordOpen(w)
      <3>1. row'[p] = [row[p] EXCEPT !.status = "open"] /\ p \in pulls
        BY <1>0, <1>5, <2>3 DEF RecordOpen, TaskInv, TypeOK
      <3>2. row[p].error # "queue_unavailable"
        BY <2>2 DEF RowInv, Saved, Rows
      <3>3. /\ row'[p].status = "open" /\ row'[p].error # "queue_unavailable"
            /\ row'[p].fingerprint = row[p].fingerprint
        BY <2>2, <3>1, <3>2 DEF Rows
      <3>4. p \in pulls
        BY <3>1
      <3> QED
        BY <1>0, <1>5, <2>1, <3>3, <3>4, EndsTask
    <2>4. CASE RecordFailed(w)
      <3>1. row'[p] = [row[p] EXCEPT !.status = "failed", !.error = code[w]]
        BY <1>0, <1>5, <2>4 DEF RecordFailed, TypeOK
      <3>2. /\ row'[p].status = "failed" /\ row'[p].error = code[w]
            /\ row'[p].fingerprint = row[p].fingerprint
            /\ code[w] # "queue_unavailable"
        BY <1>0, <2>2, <3>1 DEF Rows, TaskInv
      <3> QED
        BY <1>0, <1>5, <2>1, <3>2, EndsTask
    <2> QED
      BY <1>6, <2>3, <2>4
  <1>7. CASE EndsSilently(w)
    <2>1. /\ pc[w] # "idle" /\ EndTask(w) /\ UNCHANGED <<row, queue, held>>
          /\ queue'[p] + held'[p] <= queue[p] + held[p] + 1
      BY <1>0, <1>7 DEF EndsSilently, TypeOK
    <2> QED
      BY <1>0, <1>5, <2>1, EndsTask
  <1> QED
    BY <1>1, <1>2, <1>3, <1>4, <1>6, <1>7 DEF Execute

LEMMA LossStep ==
    ASSUME PullInv, NEW w \in Workers, ProcessLost(w) \/ HostLost(w)
    PROVE  PullInv'
  <1>1. TypeOK' /\ TypeOK
    BY TypeExecute DEF PullInv
  <1>2. PICK p \in Previews : p = job[w]
    BY <1>1 DEF TypeOK
  <1>3. /\ pc[w] # "idle" /\ EndTask(w) /\ row' = row
        /\ \A q \in Previews \ {p} : queue'[q] = queue[q] /\ held'[q] = held[q]
        /\ queue'[p] + held'[p] <= queue[p] + held[p] + 1
    BY <1>1, <1>2 DEF ProcessLost, HostLost, Lost, TypeOK
  <1> QED
    BY <1>1, <1>2, <1>3, EndsTask

LEMMA PullStep == PullInv /\ [Next]_vars => PullInv'
  BY EnvironmentStep, SavePreviewStep, RequestStep, StartStep, ExecuteStep, LossStep
     DEF Next

LEMMA PullInvariant == Spec => []PullInv
  BY PullInit, PullStep, PTL DEF Spec

-----------------------------------------------------------------------------
(* Theorems.                                                               *)

\* Every variable keeps its type.
THEOREM TypeCorrect == Spec => []TypeOK
  BY PullInvariant, PTL DEF PullInv

\* No two processes ever write to GitHub for one preview: whatever is confirmed
\* twice, redelivered, lost or reaped, a preview has one job at most.
THEOREM OneWriterAlways == Spec => []OneWriter
  <1>1. PullInv => OneWriter
    <2> SUFFICES ASSUME PullInv, NEW p \in Previews
                 PROVE  Cardinality(Executing(p)) <= 1
      BY DEF OneWriter
    <2>1. \A v, w \in Executing(p) : v = w
      BY DEF PullInv, OneJob, Runs, Executing
    <2>2. CASE Executing(p) = {}
      BY <2>2, FS_EmptySet
    <2>3. ASSUME NEW w \in Executing(p)
          PROVE  Cardinality(Executing(p)) <= 1
      <3>1. Executing(p) = {w}
        BY <2>1
      <3> QED
        BY <3>1, FS_Singleton
    <2> QED
      BY <2>2, <2>3
  <1> QED
    BY <1>1, PullInvariant, PTL

\* GitHub gets what the user saw and confirmed: every commit has the content
\* the row's fingerprint stood for when it was previewed.
THEOREM GitHubGetsThePreview == Spec => []WrittenAsPreviewed
  <1>1. PullInv => WrittenAsPreviewed
    BY DEF PullInv, TypeOK, RowInv, NothingWritten, ContentInv, WrittenAsPreviewed
  <1> QED
    BY <1>1, PullInvariant, PTL

\* "Nothing was written to GitHub" is true when the row says so and stays true,
\* for nothing is left that could still write; `open` is said of no preview
\* whose pull request does not exist.
THEOREM RowsTellTheTruth == Spec => []RowTellsTheTruth
  <1>1. PullInv => RowTellsTheTruth
    <2> SUFFICES ASSUME PullInv, NEW p \in Previews
                 PROVE  /\ Saved(p) /\ row[p].error = "queue_unavailable" =>
                             /\ NothingWritten(p)
                             /\ queue[p] + held[p] = 0 /\ Executing(p) = {}
                        /\ row[p].status = "open" => p \in pulls
      BY DEF RowTellsTheTruth, Saved, NothingWritten
    <2> QED
      BY DEF PullInv, RowInv, NoJob, NoMessage, Runs, Executing
  <1> QED
    BY <1>1, PullInvariant, PTL

\* No reaper, error handler or later execution takes an open pull request back:
\* a preview whose row is `open` has no job left, and only a job writes to it.
THEOREM OpenStaysOpen == Spec => OpenIsFinal
  <1>1. PullInv /\ [Next]_vars
          => \A p \in Previews : row[p].status = "open" => row'[p].status = "open"
    <2> SUFFICES ASSUME PullInv, [Next]_vars, NEW p \in Previews,
                        row[p].status = "open"
                 PROVE  row'[p] = row[p]
      OBVIOUS
    <2> USE DEF request, broker, tasks, github
    <2>1. NoJob(p) /\ TypeOK
      BY DEF PullInv, RowInv
    <2>2. \A w \in Workers : pc[w] # "idle" => job[w] # p
      BY <2>1 DEF NoJob, Runs
    <2>3. ASSUME NEW q \in Previews,
                 \/ \E b \in Branches : SavePreview(q, b)
                 \/ Confirm(q) \/ DispatchRefused(q) \/ Reap(q)
          PROVE  row'[p] = row[p]
      <3>1. q # p
        BY <2>1, <2>3 DEF SavePreview, Confirm, ConfirmIf, DispatchRefused, Reap,
                          ReapIf, NoRow, NoJob
      <3> QED
        BY <2>1, <2>3, <3>1 DEF SavePreview, Confirm, ConfirmIf, DispatchRefused,
                                Reap, ReapIf, TypeOK
    <2>4. ASSUME NEW w \in Workers, RecordOpen(w) \/ RecordFailed(w)
          PROVE  row'[p] = row[p]
      BY <2>1, <2>2, <2>4 DEF RecordOpen, RecordFailed, TypeOK
    <2>5. ASSUME NEW q \in Previews,
                 \/ Dispatch(q) \/ DispatchLost(q) \/ Skip(q) \/ RestoreHeld(q)
                 \/ \E w \in Workers : Start(w, q)
          PROVE  row' = row
      BY <2>5 DEF Dispatch, DispatchLost, Skip, RestoreHeld, Start
    <2>6. ASSUME NEW w \in Workers, Execute(w) \/ ProcessLost(w) \/ HostLost(w),
                 ~RecordOpen(w), ~RecordFailed(w)
          PROVE  row' = row
      BY <2>6 DEF Execute, PlanOutdated, PlanBlocked, BuildPlan, CreateBranch,
                  CreateBranchRefused, CreatePullRequest, CreatePullRequestRefused,
                  Fails, FailWith, EndsSilently, ProcessLost, HostLost, Lost
    <2>7. CASE \/ ContentChanges \/ Tick \/ UNCHANGED vars
               \/ \E b \in Branches : OthersPush(b) \/ BranchDeleted(b)
      BY <2>7 DEF ContentChanges, Tick, OthersPush, BranchDeleted, SetRef, vars
    <2> QED
      BY <2>3, <2>4, <2>5, <2>6, <2>7 DEF Next
  <1> QED
    BY <1>1, PullInvariant, PTL DEF Spec, OpenIsFinal
=============================================================================
