------------------------------- MODULE Plans -------------------------------
(***************************************************************************)
(* What a fix pull request would contain: build_plan against the state     *)
(* GitHub is in, what the preview stores of it, and the plan rebuilt from  *)
(* the stored row when the user has confirmed.                             *)
(*                                                                         *)
(* A file is a tuple of lines, or NoFile; a patch is a function from paths *)
(* to the line it replaces, [at, old, new].  The fingerprint is what is    *)
(* hashed.  A branch name is the sequence of the suffixes added to the     *)
(* default one.                                                            *)
(***************************************************************************)
LOCAL INSTANCE Integers
LOCAL INSTANCE Sequences
LOCAL INSTANCE FiniteSets
LOCAL INSTANCE FiniteSetsExt
LOCAL INSTANCE SequencesExt
LOCAL INSTANCE Functions

CONSTANTS MAX_BRANCH_SUFFIX, Broken(_)

NoFile == <<>>
NoBranch == <<0>>
Distinct(seq) == FoldLeft(LAMBDA kept, x : IF Contains(kept, x) THEN kept ELSE Append(kept, x), <<>>, seq)

(***************************************************************************)
(* The groups: suggestions that share a patch, in the order the first of   *)
(* each was asked for.  rows is what the database holds under an id.       *)
(***************************************************************************)
Usable(row) == row.of_scan /\ row.status = "ready" /\ row.validation = "valid"
load_groups(rows, suggestion_ids) ==
    LET requested == Distinct(suggestion_ids)
        usable == SelectSeq(requested, LAMBDA id : id \in DOMAIN rows /\ Usable(rows[id]))
        key(id) == <<rows[id].llm_call_id, rows[id].patch>>
        keys == Distinct([i \in DOMAIN usable |-> key(usable[i])])
    IN [groups |-> [k \in DOMAIN keys |->
                       [suggestion_ids |-> {id \in Range(usable) : key(id) = keys[k]}, patch |-> keys[k][2]]],
        excluded |-> Range(requested) \ Range(usable)]
Paths(group) == DOMAIN group.patch

(***************************************************************************)
(* One group on the files as the groups before it left them.  The state is *)
(* [work, checks, applied].                                                *)
(***************************************************************************)
Applies(work, patch) == \A p \in DOMAIN patch : work[p] # NoFile /\ work[p][patch[p].at] = patch[p].old
Patched(work, patch) ==
    [p \in DOMAIN work |-> IF p \in DOMAIN patch THEN [work[p] EXCEPT ![patch[p].at] = patch[p].new] ELSE work[p]]
TryGroup(originals, head_moved, state, group) ==
    LET checked(status) == [state EXCEPT !.checks = Append(@, [group |-> group, status |-> status])]
        touched_by_earlier == \E g \in Range(state.applied) : Paths(g) \intersect Paths(group) # {}
        patched == Patched(state.work, group.patch)
    IN CASE \E p \in Paths(group) : originals[p] = NoFile -> checked("no_longer_applies")
         [] ~Applies(state.work, group.patch) ->
                checked(IF touched_by_earlier /\ ~head_moved THEN "conflicts" ELSE "no_longer_applies")
         [] \E p \in Paths(group) : Broken(patched[p]) -> checked("syntax_error")
         [] OTHER -> [checked("applies") EXCEPT !.work = patched, !.applied = Append(@, group)]

(***************************************************************************)
(* The plan.  github is [default_branch, heads, can_push, taken]: a head   *)
(* is a commit [sha, files], taken holds the branch names in use in the    *)
(* repository itself and in the user's fork of it.                         *)
(***************************************************************************)
base_branch_of(scan, github) ==
    IF scan.repo_ref \in DOMAIN github.heads THEN scan.repo_ref ELSE github.default_branch
_fingerprint(base_sha, head_repo, branch, use_fork, groups) == <<base_sha, head_repo, branch, use_fork, groups>>
Suggested(taken, wanted) ==
    LET free == {n \in 2 .. MAX_BRANCH_SUFFIX + 1 : Append(wanted, n) \notin taken}
    IN IF wanted \notin taken \/ free = {} THEN NoBranch ELSE Append(wanted, Min(free))
Blocking(applied, head_moved, can_push, use_fork, branch_available) ==
    (IF applied # <<>> THEN <<>> ELSE IF head_moved THEN <<"stale_head">> ELSE <<"merge_conflict">>)
    \o (IF can_push \/ use_fork THEN <<>> ELSE <<"fork_required">>)
    \o (IF branch_available THEN <<>> ELSE <<"branch_exists">>)
build_plan(scan, rows, suggestion_ids, wanted, use_fork, github) ==
    LET loaded == load_groups(rows, suggestion_ids)
        base == github.heads[base_branch_of(scan, github)]
        head_moved == base.sha # scan.commit_sha
        head_repo == IF use_fork THEN "fork" ELSE "repository"
        tried == FoldLeft(LAMBDA state, group : TryGroup(base.files, head_moved, state, group),
                          [work |-> base.files, checks |-> <<>>, applied |-> <<>>], loaded.groups)
        touched == UNION {Paths(g) : g \in Range(tried.applied)}
        available == wanted \notin github.taken[head_repo]
    IN [base |-> base, head_moved |-> head_moved, head_repo |-> head_repo, use_fork |-> use_fork, branch |-> wanted,
        suggested_branch |-> Suggested(github.taken[head_repo], wanted),
        groups |-> tried.applied, excluded |-> loaded.excluded, patch_checks |-> tried.checks,
        files |-> [p \in touched |-> [before |-> base.files[p], after |-> tried.work[p]]],
        blocking |-> Blocking(tried.applied, head_moved, github.can_push, use_fork, available),
        fingerprint |-> _fingerprint(base.sha, head_repo, wanted, use_fork, tried.applied)]
Refused(rows, suggestion_ids) == load_groups(rows, suggestion_ids).groups = <<>>

\* What the row keeps: the ids of the groups that applied, sorted, and the fingerprint.
included_suggestion_ids(plan) ==
    SetToSortSeq(UNION {g.suggestion_ids : g \in Range(plan.groups)}, LAMBDA a, b : a < b)
save_preview(plan) ==
    [included_suggestion_ids |-> included_suggestion_ids(plan), preview_fingerprint |-> plan.fingerprint,
     branch |-> plan.branch, use_fork |-> plan.use_fork]

(***************************************************************************)
(* The confirmed row: the plan is built again from it, and written if it   *)
(* is the one previewed.  A commit holds the files of its group.           *)
(***************************************************************************)
rebuilt(scan, rows, preview, github) ==
    build_plan(scan, rows, preview.included_suggestion_ids, preview.branch, preview.use_fork, github)
Replayed(plan) ==
    LET step(state, group) ==
            LET work == Patched(state.work, group.patch)
            IN [ok |-> state.ok /\ Applies(state.work, group.patch), work |-> work,
                tree |-> [p \in DOMAIN state.tree |-> IF p \in Paths(group) THEN work[p] ELSE state.tree[p]]]
    IN FoldLeft(step, [ok |-> TRUE, work |-> [p \in DOMAIN plan.files |-> plan.files[p].before],
                       tree |-> plan.base.files], plan.groups)
create_pull_request_from_preview(scan, rows, preview, github) ==
    IF Refused(rows, preview.included_suggestion_ids) THEN [code |-> "no_valid_suggestions", tree |-> <<>>]
    ELSE LET plan == rebuilt(scan, rows, preview, github)
             replay == Replayed(plan)
         IN CASE plan.fingerprint # preview.preview_fingerprint -> [code |-> "preview_outdated", tree |-> <<>>]
              [] plan.blocking # <<>> -> [code |-> plan.blocking[1], tree |-> <<>>]
              [] ~replay.ok -> [code |-> "merge_conflict", tree |-> <<>>]
              [] OTHER -> [code |-> "written", tree |-> replay.tree]

(***************************************************************************)
(* Properties.                                                             *)
(***************************************************************************)
\* Every suggestion asked for is accounted for once: excluded, or in one group with one verdict;
\* what is shown as changed are the files of the groups that applied, each parses, and a group that
\* was turned down, or put back for what it broke, left nothing in them.
PlanAccountsForAll(suggestion_ids, plan) ==
    LET verdicts == plan.patch_checks
    IN /\ plan.excluded \union UNION {v.group.suggestion_ids : v \in Range(verdicts)} = Range(suggestion_ids)
       /\ \A i, j \in DOMAIN verdicts :
             /\ verdicts[i].group.suggestion_ids \intersect plan.excluded = {}
             /\ i # j => verdicts[i].group.suggestion_ids \intersect verdicts[j].group.suggestion_ids = {}
       /\ \A p \in DOMAIN plan.files : plan.files[p].before # NoFile /\ ~Broken(plan.files[p].after)
       /\ Replayed(plan).ok
       /\ \A p \in DOMAIN plan.base.files :
             Replayed(plan).tree[p] = IF p \in DOMAIN plan.files THEN plan.files[p].after ELSE plan.base.files[p]

\* Where the branch is still at the scanned commit and each patch applies to it by itself, a group
\* that does not apply is said to conflict with the others, not to be out of date.
ConflictsAreNamed(plan) ==
    ~plan.head_moved /\ (\A v \in Range(plan.patch_checks) : Applies(plan.base.files, v.group.patch)) =>
        \A v \in Range(plan.patch_checks) : v.status # "no_longer_applies"

\* Confirming while nothing has changed writes exactly what the preview showed, if the groups of
\* the preview stood in the order of their least ids; otherwise it is refused as outdated, because
\* the row keeps the ids sorted and the fingerprint the order they were asked for in.
LeastId(group) == Min(group.suggestion_ids)
Ascending(plan) == \A i \in 2 .. Len(plan.groups) : LeastId(plan.groups[i - 1]) < LeastId(plan.groups[i])
UnchangedIsWritten(scan, rows, plan, github) ==
    LET created == create_pull_request_from_preview(scan, rows, save_preview(plan), github)
    IN plan.blocking = <<>> =>
          /\ (created.code = "written") <=> Ascending(plan)
          /\ created.code \in {"written", "preview_outdated"}
          /\ created.code = "written" => created.tree = Replayed(plan).tree

\* A name is suggested where the one wanted is taken and another is left, and that one is free.
SuggestedIsFree(plan, github) ==
    LET taken == github.taken[plan.head_repo]
    IN /\ plan.suggested_branch # NoBranch => plan.suggested_branch \notin taken /\ plan.branch \in taken
       /\ plan.branch \in taken /\ Cardinality(taken) <= MAX_BRANCH_SUFFIX => plan.suggested_branch # NoBranch

\* Whatever happened to the repository or the rows in between, what is written is the tree that was
\* previewed, on the commit it was previewed on.
OnlyThePreviewIsWritten(scan, later, plan, github) ==
    LET created == create_pull_request_from_preview(scan, later, save_preview(plan), github)
    IN created.code = "written" => created.tree = Replayed(plan).tree
=============================================================================
