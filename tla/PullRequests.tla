---------------------------- MODULE PullRequests ----------------------------
(***************************************************************************)
(* Fix pull requests: previewed, confirmed, written to GitHub by           *)
(* create_pull_request_task, closed by the reaper when that takes too      *)
(* long.                                                                   *)
(*                                                                         *)
(* The content of a pull request (base commit, patches, head repository)   *)
(* is one value, as its fingerprint is: `current` is what build_plan would *)
(* compute now.  It changes whenever the base branch moves or a fix is     *)
(* edited, and not by rebuilding it: the groups are taken to stand in the  *)
(* order of their ids (Plans says what happens otherwise).                 *)
(* Blobs, trees and commits that no branch points to do not show.          *)
(***************************************************************************)
EXTENDS Integers, FiniteSets

CONSTANTS
    Previews,           \* rows of pull_requests
    Branches,           \* branch names
    Contents,           \* what a plan may contain
    Workers,            \* pool processes
    PreviewTTL,         \* 30 minutes
    HardLimit,          \* time_limit of the task (360 s)
    ReapAge,            \* 15 minutes
    MaxLosses           \* bound: lost processes and hosts

ASSUME PullRequestsAssumption ==
    /\ PreviewTTL \in Nat /\ HardLimit \in Nat \ {0} /\ ReapAge \in Nat
    /\ MaxLosses \in Nat
    /\ Previews # {} /\ Contents # {}

VARIABLES
    row,                \* pull_requests
    age,                \* of the row, since its creation or confirmation
    publishing,         \* confirmed, and the request has yet to queue the task
    queue, held,        \* messages waiting, and messages of lost hosts
    pc, job, plan,      \* the task of each worker, its row, the plan it built
    elapsed, code,      \* its running time; the error code it will write
    current,
    refs,               \* branches at GitHub
    written, pulls,     \* what tasks wrote: branches and pull requests
    attempts,           \* executions that found the row `creating`
    losses

request == <<row, age, publishing>>
broker == <<queue, held>>
tasks == <<pc, job, plan, elapsed, code>>
github == <<current, refs, written, pulls>>
vars == <<request, broker, tasks, github, attempts, losses>>

SomePreview == CHOOSE p \in Previews : TRUE
SomeContent == CHOOSE c \in Contents : TRUE
NoBranch == [owner |-> "nobody"]
Foreign == [owner |-> "other"]
Own(p) == [owner |-> "codeaudit", preview |-> p]
Errors == {"none", "queue_unavailable", "preview_outdated", "branch_exists",
           "pull_request_exists", "interrupted", "other"}
NoRow == [status |-> "none"]
Rows == [status : {"previewed", "creating", "open", "failed"}, fingerprint : Contents,
         branch : Branches, error : Errors]
Active == {"planning", "planned", "branched", "opened"}
AgeCap == 1 + IF PreviewTTL > ReapAge THEN PreviewTTL ELSE ReapAge

TypeOK ==
    /\ row \in [Previews -> Rows \union {NoRow}] /\ age \in [Previews -> 0 .. AgeCap]
    /\ publishing \subseteq Previews
    /\ queue \in [Previews -> Nat] /\ held \in [Previews -> Nat]
    /\ pc \in [Workers -> Active \union {"idle", "failing"}]
    /\ job \in [Workers -> Previews] /\ plan \in [Workers -> Contents]
    /\ elapsed \in [Workers -> 0 .. HardLimit] /\ code \in [Workers -> Errors]
    /\ current \in Contents
    /\ refs \in [Branches -> {NoBranch, Foreign} \union {Own(p) : p \in Previews}]
    /\ written \subseteq [preview : Previews, content : Contents] /\ pulls \subseteq Previews
    /\ attempts \in [Previews -> Nat] /\ losses \in 0 .. MaxLosses

Init ==
    /\ row = [p \in Previews |-> NoRow] /\ age = [p \in Previews |-> 0]
    /\ publishing = {}
    /\ queue = [p \in Previews |-> 0] /\ held = [p \in Previews |-> 0]
    /\ pc = [w \in Workers |-> "idle"]
    /\ job = [w \in Workers |-> SomePreview]
    /\ plan = [w \in Workers |-> SomeContent]
    /\ elapsed = [w \in Workers |-> 0] /\ code = [w \in Workers |-> "none"]
    /\ current = SomeContent
    /\ refs = [b \in Branches |-> NoBranch] /\ written = {} /\ pulls = {}
    /\ attempts = [p \in Previews |-> 0] /\ losses = 0

-----------------------------------------------------------------------------
(* GitHub, and whoever else works in the repository.                       *)

\* A push to the base branch, an edited or regenerated fix.
ContentChanges ==
    /\ current' \in Contents \ {current}
    /\ UNCHANGED <<request, broker, tasks, refs, written, pulls, attempts, losses>>

SetRef(b, r) ==
    /\ refs' = [refs EXCEPT ![b] = r]
    /\ UNCHANGED <<request, broker, tasks, current, written, pulls, attempts, losses>>

OthersPush(b) == refs[b] = NoBranch /\ SetRef(b, Foreign)
BranchDeleted(b) == refs[b] # NoBranch /\ SetRef(b, NoBranch)

-----------------------------------------------------------------------------
(* The requests.                                                           *)

\* A preview is saved also when something (a taken branch) blocks it.
SavePreview(p, b) ==
    /\ row[p] = NoRow
    /\ row' = [row EXCEPT ![p] = [status |-> "previewed", fingerprint |-> current,
                                  branch |-> b, error |-> "none"]]
    /\ UNCHANGED <<age, publishing, broker, tasks, github, attempts, losses>>

ConfirmIf(p, statuses) ==
    /\ row[p].status \in statuses /\ age[p] <= PreviewTTL
    /\ row' = [row EXCEPT ![p].status = "creating"]
    /\ age' = [age EXCEPT ![p] = 0]
    /\ publishing' = publishing \union {p}
    /\ UNCHANGED <<broker, tasks, github, attempts, losses>>

\* Mutant: the row is not locked, so two requests may both see `previewed`.
ConfirmUnlocked(p) == ConfirmIf(p, {"previewed", "creating"})

\* The row is locked from the check to the commit.
Confirm(p) == ConfirmIf(p, {"previewed"})

Dispatch(p) ==
    /\ p \in publishing
    /\ queue' = [queue EXCEPT ![p] = @ + 1]
    /\ publishing' = publishing \ {p}
    /\ UNCHANGED <<row, age, held, tasks, github, attempts, losses>>

DispatchRefused(p) ==
    /\ p \in publishing
    /\ row' = [row EXCEPT ![p].status = "failed", ![p].error = "queue_unavailable"]
    /\ publishing' = publishing \ {p}
    /\ UNCHANGED <<age, broker, tasks, github, attempts, losses>>

\* The API process dies after the commit.
DispatchLost(p) ==
    /\ p \in publishing
    /\ publishing' = publishing \ {p}
    /\ UNCHANGED <<row, age, broker, tasks, github, attempts, losses>>

-----------------------------------------------------------------------------
(* create_pull_request_task                                                *)

Goto(w, label) == pc' = [pc EXCEPT ![w] = label]

Deliver(p) == queue[p] > 0 /\ queue' = [queue EXCEPT ![p] = @ - 1]

Skip(p) ==
    /\ Deliver(p) /\ row[p].status # "creating"
    /\ \E w \in Workers : pc[w] = "idle"
    /\ UNCHANGED <<request, held, tasks, github, attempts, losses>>

Start(w, p) ==
    /\ pc[w] = "idle" /\ Deliver(p) /\ row[p].status = "creating"
    /\ Goto(w, "planning")
    /\ job' = [job EXCEPT ![w] = p]
    /\ attempts' = [attempts EXCEPT ![p] = @ + 1]
    /\ UNCHANGED <<request, held, plan, elapsed, code, github, losses>>

FailWith(w, error) ==
    /\ Goto(w, "failing")
    /\ code' = [code EXCEPT ![w] = error]
    /\ UNCHANGED <<request, broker, job, elapsed, attempts, losses>>

BranchOf(w) == row[job[w]].branch

\* The plan is built again from GitHub's and the database's current state.
PlanOutdated(w) ==
    /\ pc[w] = "planning" /\ current # row[job[w]].fingerprint
    /\ FailWith(w, "preview_outdated")
    /\ UNCHANGED <<plan, github>>

PlanBlocked(w) ==
    /\ pc[w] = "planning" /\ current = row[job[w]].fingerprint
    /\ refs[BranchOf(w)] # NoBranch
    /\ FailWith(w, "branch_exists")
    /\ UNCHANGED <<plan, github>>

\* Mutant: the fingerprints are not compared.
BuildPlanUnchecked(w) ==
    /\ pc[w] = "planning"
    /\ refs[BranchOf(w)] = NoBranch
    /\ plan' = [plan EXCEPT ![w] = current]
    /\ Goto(w, "planned")
    /\ UNCHANGED <<request, broker, job, elapsed, code, github, attempts, losses>>

BuildPlan(w) ==
    /\ pc[w] = "planning" /\ current = row[job[w]].fingerprint
    /\ refs[BranchOf(w)] = NoBranch
    /\ plan' = [plan EXCEPT ![w] = current]
    /\ Goto(w, "planned")
    /\ UNCHANGED <<request, broker, job, elapsed, code, github, attempts, losses>>

\* GitHub makes the branch, unless its name is taken; the answer may be lost.
CreateBranch(w) ==
    /\ pc[w] = "planned" /\ refs[BranchOf(w)] = NoBranch
    /\ refs' = [refs EXCEPT ![BranchOf(w)] = Own(job[w])]
    /\ written' = written \union {[preview |-> job[w], content |-> plan[w]]}
    /\ \/ /\ Goto(w, "branched")
          /\ UNCHANGED <<request, broker, job, elapsed, code, attempts, losses>>
       \/ FailWith(w, "other")
    /\ UNCHANGED <<plan, current, pulls>>

CreateBranchRefused(w) ==
    /\ pc[w] = "planned" /\ refs[BranchOf(w)] # NoBranch
    /\ FailWith(w, "branch_exists")
    /\ UNCHANGED <<plan, github>>

CreatePullRequest(w) ==
    /\ pc[w] = "branched" /\ refs[BranchOf(w)] # NoBranch
    /\ pulls' = pulls \union {job[w]}
    /\ \/ /\ Goto(w, "opened")
          /\ UNCHANGED <<request, broker, job, elapsed, code, attempts, losses>>
       \/ FailWith(w, "other")
    /\ UNCHANGED <<plan, current, refs, written>>

\* The branch is gone, or somebody opened a pull request for it.
CreatePullRequestRefused(w) ==
    /\ pc[w] = "branched"
    /\ FailWith(w, "pull_request_exists")
    /\ UNCHANGED <<plan, github>>

\* Any other error of GitHub, the database or the code, and the soft limit.
Fails(w) ==
    /\ pc[w] \in Active
    /\ FailWith(w, "other")
    /\ UNCHANGED <<plan, github>>

EndTask(w) ==
    /\ Goto(w, "idle")
    /\ job' = [job EXCEPT ![w] = SomePreview] /\ plan' = [plan EXCEPT ![w] = SomeContent]
    /\ elapsed' = [elapsed EXCEPT ![w] = 0] /\ code' = [code EXCEPT ![w] = "none"]
    /\ UNCHANGED <<age, publishing, github, attempts>>

\* The session still holds the row as Start loaded it, without an error code:
\* the UPDATE has no such column, and the code of a reaper stays.
RecordOpen(w) ==
    /\ pc[w] = "opened"
    /\ row' = [row EXCEPT ![job[w]].status = "open"]
    /\ EndTask(w)
    /\ UNCHANGED <<broker, losses>>

\* The handler reads the row again and writes whatever its status is.
RecordFailed(w) ==
    /\ pc[w] = "failing"
    /\ row' = [row EXCEPT ![job[w]].status = "failed", ![job[w]].error = code[w]]
    /\ EndTask(w)
    /\ UNCHANGED <<broker, losses>>

\* The handler fails, or the hard limit strikes: nothing is written, and the
\* message is acknowledged all the same.
EndsSilently(w) ==
    /\ \/ pc[w] = "failing"
       \/ pc[w] # "idle" /\ elapsed[w] = HardLimit
    /\ EndTask(w)
    /\ UNCHANGED <<row, broker, losses>>

Lost(w) ==
    /\ pc[w] # "idle" /\ losses < MaxLosses
    /\ losses' = losses + 1
    /\ EndTask(w)
    /\ UNCHANGED row

\* Mutant: the process that is lost was only cut off, and goes on.
ProcessCutOff(w) ==
    /\ pc[w] # "idle" /\ losses < MaxLosses
    /\ losses' = losses + 1
    /\ queue' = [queue EXCEPT ![job[w]] = @ + 1]
    /\ UNCHANGED <<request, held, tasks, github, attempts>>

\* A lost process gives its message back at once.
ProcessLost(w) ==
    /\ Lost(w)
    /\ queue' = [queue EXCEPT ![job[w]] = @ + 1]
    /\ UNCHANGED held

\* The message of a lost host comes back after the visibility timeout.
HostLost(w) ==
    /\ Lost(w)
    /\ held' = [held EXCEPT ![job[w]] = @ + 1]
    /\ UNCHANGED queue

RestoreHeld(p) ==
    /\ held[p] > 0
    /\ held' = [held EXCEPT ![p] = @ - 1]
    /\ queue' = [queue EXCEPT ![p] = @ + 1]
    /\ UNCHANGED <<request, tasks, github, attempts, losses>>

-----------------------------------------------------------------------------
(* The reaper and the clock.                                               *)

ReapIf(p, status) ==
    /\ row[p].status \in status /\ age[p] > ReapAge
    /\ row' = [row EXCEPT ![p].status = "failed", ![p].error = "interrupted"]
    /\ UNCHANGED <<age, publishing, broker, tasks, github, attempts, losses>>

\* Mutants: the status is not asked; only rows whose task has started.
ReapAny(p) == ReapIf(p, {"creating", "open"})
ReapStarted(p) == attempts[p] > 0 /\ ReapIf(p, {"creating"})

Reap(p) == ReapIf(p, {"creating"})

\* The hard limit is enforced on time.  Ages count only where somebody asks.
Tick ==
    /\ \A w \in Workers : pc[w] # "idle" => elapsed[w] < HardLimit
    /\ elapsed' = [w \in Workers |-> IF pc[w] # "idle" THEN elapsed[w] + 1 ELSE elapsed[w]]
    /\ age' = [p \in Previews |->
                 IF row[p].status \notin {"previewed", "creating"} THEN 0
                 ELSE IF age[p] < AgeCap THEN age[p] + 1 ELSE age[p]]
    /\ UNCHANGED <<row, publishing, broker, pc, job, plan, code, github, attempts, losses>>

-----------------------------------------------------------------------------

Execute(w) ==
    \/ PlanOutdated(w) \/ PlanBlocked(w) \/ BuildPlan(w)
    \/ CreateBranch(w) \/ CreateBranchRefused(w)
    \/ CreatePullRequest(w) \/ CreatePullRequestRefused(w)
    \/ Fails(w) \/ RecordOpen(w) \/ RecordFailed(w) \/ EndsSilently(w)

Next ==
    \/ ContentChanges
    \/ \E b \in Branches : OthersPush(b) \/ BranchDeleted(b)
    \/ \E p \in Previews :
         \/ \E b \in Branches : SavePreview(p, b)
         \/ Confirm(p) \/ Dispatch(p) \/ DispatchRefused(p) \/ DispatchLost(p)
         \/ Skip(p) \/ RestoreHeld(p) \/ Reap(p)
         \/ \E w \in Workers : Start(w, p)
    \/ \E w \in Workers : Execute(w) \/ ProcessLost(w) \/ HostLost(w)
    \/ Tick

Spec == Init /\ [][Next]_vars

\* Time passes, so the hard limit strikes, and the reaper runs every minute.
Fairness ==
    /\ WF_vars(Tick)
    /\ \A w \in Workers : WF_vars(EndsSilently(w))
    /\ \A p \in Previews : WF_vars(Reap(p))
FairSpec == Spec /\ Fairness

-----------------------------------------------------------------------------
(* Properties.                                                             *)

Executing(p) == {w \in Workers : pc[w] # "idle" /\ job[w] = p}

\* GitHub gets what the user saw and confirmed, also when the base branch or
\* the fixes change at any time between the preview and the last write.
WrittenAsPreviewed ==
    \A x \in written : /\ row[x.preview].status # "previewed"
                       /\ row[x.preview].fingerprint = x.content

\* Two processes never write for one preview at the same time, whatever is
\* confirmed twice, redelivered or lost.
OneWriter == \A p \in Previews : Cardinality(Executing(p)) <= 1

\* The row tells what is at GitHub: "Could not queue the job. Nothing was written to
\* GitHub." is true, and stays true, since no execution of that preview is left that could
\* still write; and a row is `open` only for a pull request that a task of it opened.
RowTellsTheTruth ==
    \A p \in Previews :
        /\ row[p].status # "none" /\ row[p].error = "queue_unavailable" =>
               /\ \A x \in written : x.preview # p
               /\ p \notin pulls
               /\ queue[p] + held[p] = 0 /\ Executing(p) = {}
        /\ row[p].status = "open" => p \in pulls

\* No reaper, error handler or later execution takes an open pull request back.
OpenIsFinal == [][\A p \in Previews : row[p].status = "open" => row'[p].status = "open"]_vars

\* A confirmed preview ends, also when the request died before it queued the
\* task or no worker ever takes the message.
CreatingEnds ==
    \A p \in Previews : (row[p].status = "creating") ~> (row[p].status \in {"open", "failed"})

-----------------------------------------------------------------------------
(* What the code's comments say and the model refutes.                     *)

\* create_pull_request_task: "Never retried: GitHub writes are not idempotent".
NeverExecutedTwice == \A p \in Previews : attempts[p] <= 1

\* An open pull request shows no error.
OpenHasNoError ==
    \A p \in Previews : row[p].status = "open" => row[p].error = "none"
=============================================================================
