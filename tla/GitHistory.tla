----------------------------- MODULE GitHistory -----------------------------
(***************************************************************************)
(* The git-history signal: the captured log of a repository, newest commit *)
(* first, and what its messages, authors, churn and first-parent chain say *)
(* of how it is maintained.                                                *)
(*                                                                         *)
(* A commit is [sha, parents, author, bot, day, subject, files, boundary]: *)
(* parents a sequence of shas, day the age of the commit in days, subject  *)
(* the set of what its message matches ("conventional", "low", "squash"),  *)
(* files a sequence of [path, lines], lines 0 for a binary file.  A path   *)
(* is [rank, kind], rank its place in name order.  Scores are in 1/1000.   *)
(***************************************************************************)
LOCAL INSTANCE Integers
LOCAL INSTANCE Sequences
LOCAL INSTANCE FiniteSets
LOCAL INSTANCE FiniteSetsExt
LOCAL INSTANCE SequencesExt
LOCAL INSTANCE Functions

CONSTANTS MIN_COMMITS,   \* fewer commits than this are no history
          MAX_COMMITS,   \* as many as the log is cut at
          MAX_HOTSPOTS   \* as many are reported

RECENT_DAYS == 90
ACTIVE_COMMITS == 10
BUS_FACTOR_TARGET == 3
NoValue == -1

is_merge(commit) == Len(commit.parents) > 1
is_excluded(path) == path.kind \in {"lockfile", "minified", "vendored"}

(***************************************************************************)
(* The log: a record [fields, commit] of the wrong shape is skipped; the   *)
(* commits named in .git/shallow are boundaries, whose numstat is their    *)
(* whole tree.                                                             *)
(***************************************************************************)
parse_log(records, shallow) ==
    LET wellFormed == SelectSeq(records, LAMBDA r : r.fields = 6)
    IN [i \in DOMAIN wellFormed |->
            [wellFormed[i].commit EXCEPT !.boundary = wellFormed[i].commit.sha \in shallow]]

\* The log of the clone, else what a sandbox reads from an uploaded .git, else nothing.
NoHistory == [found |-> FALSE, commits |-> <<>>]
_history(cloned, hasGit, uploaded) ==
    IF cloned.found THEN cloned
    ELSE IF hasGit THEN uploaded
    ELSE NoHistory

(***************************************************************************)
(* Helpers.                                                                *)
(***************************************************************************)
Total(counts) == FoldFunction(LAMBDA a, b : a + b, 0, counts)
\* Of a function, the values in order.
Ascending(counts) ==
    LET keys == SetToSortSeq(DOMAIN counts, LAMBDA a, b :
                    counts[a] < counts[b] \/ (counts[a] = counts[b] /\ a < b))
    IN [i \in DOMAIN keys |-> counts[keys[i]]]

gini(counts) ==
    LET ordered == Ascending(counts)
        n == Len(ordered)
        total == Total(counts)
        weighted == FoldLeft(LAMBDA a, b : a + b, 0, [i \in DOMAIN ordered |-> i * ordered[i]])
    IN IF n = 0 \/ total = 0 THEN NoValue
       ELSE (1000 * (2 * weighted - (n + 1) * total)) \div (n * total)

\* How many of the largest reach half of all.
bus_factor(lines_by_author) ==
    LET largestFirst == Reverse(Ascending(lines_by_author))
        covered(k) == FoldLeft(LAMBDA a, b : a + b, 0, SubSeq(largestFirst, 1, k))
        total == Total(lines_by_author)
    IN IF total = 0 THEN NoValue
       ELSE Min({k \in DOMAIN largestFirst : 2 * covered(k) >= total})

Decile(n) == Max({1, (n + 9) \div 10})
top_decile(counts) ==
    LET ordered == SetToSortSeq(DOMAIN counts, LAMBDA a, b :
                       counts[a] > counts[b] \/ (counts[a] = counts[b] /\ a.rank < b.rank))
        top == SubSeq(ordered, 1, Min({Decile(Len(ordered)), Len(ordered)}))
    IN SelectSeq(top, LAMBDA path : counts[path] > 0)

_share(part, whole) == IF whole = 0 THEN NoValue ELSE (1000 * part) \div whole

Count(commits, Test(_)) == Cardinality({i \in DOMAIN commits : Test(commits[i])})

(***************************************************************************)
(* Metrics.                                                                *)
(***************************************************************************)
message_metrics(commits) ==
    LET messages == Count(commits, LAMBDA c : ~is_merge(c))
        saying(what) == Count(commits, LAMBDA c : ~is_merge(c) /\ what \in c.subject)
    IN [conventional |-> _share(saying("conventional"), messages), low_info |-> _share(saying("low"), messages)]

recency_metrics(commits) ==
    [days_since_last_commit |-> Max({0, Min({c.day : c \in Range(commits)})}),
     commits_last_90d |-> Count(commits, LAMBDA c : ~is_merge(c) /\ c.day <= RECENT_DAYS)]

\* The commits of people, each credited to its author.
Authored(commits) == {i \in DOMAIN commits : ~is_merge(commits[i]) /\ ~commits[i].bot}

\* Without the test for the boundary, for comparison.
ChangedWithTrees(commit) ==
    FoldLeft(LAMBDA a, f : a + IF is_excluded(f.path) THEN 0 ELSE f.lines, 0, commit.files)

\* Binary files and generated ones have no lines that count.
Changed(commit) ==
    IF commit.boundary THEN 0
    ELSE FoldLeft(LAMBDA a, f : a + IF is_excluded(f.path) THEN 0 ELSE f.lines, 0, commit.files)

author_metrics(commits) ==
    LET authors == {commits[i].author : i \in Authored(commits)}
        own(a) == {i \in Authored(commits) : commits[i].author = a}
    IN [authors |-> Cardinality(authors),
        lines_by_author |-> [a \in authors |-> MapThenSumSet(LAMBDA i : Changed(commits[i]), own(a))],
        author_gini |-> gini([a \in authors |-> Cardinality(own(a))])]

change_frequency(commits, present) ==
    LET counting == {i \in DOMAIN commits : ~is_merge(commits[i]) /\ ~commits[i].boundary}
        touched(i) == {f.path : f \in Range(commits[i].files)}
        paths == {p \in UNION {touched(i) : i \in counting} : p \in present /\ ~is_excluded(p)}
    IN [p \in paths |-> Cardinality({i \in counting : p \in touched(i)})]

\* Unavailable is the complexity of a collector that failed or ran out of time.
Unavailable == [path \in {} |-> "unavailable"]
hotspot_metrics(frequency, available, complexity) ==
    LET churn_top == top_decile(frequency)
        complex_top == IF available THEN Range(top_decile(complexity)) ELSE {}
        hotspots == SelectSeq(churn_top, LAMBDA p : p \in complex_top)
    IN [hotspots |-> SubSeq(hotspots, 1, Min({MAX_HOTSPOTS, Len(hotspots)})),
        hotspot_share |-> IF churn_top = <<>> \/ complex_top = {} THEN NoValue
                          ELSE _share(Len(hotspots), Len(churn_top))]

\* The first parents of the newest commit, as far as the log goes: seen ends a cycle.
RECURSIVE FirstParents(_, _, _)
FirstParents(commits, i, seen) ==
    IF i = 0 \/ commits[i].sha \in seen THEN {}
    ELSE LET \* a dictionary keeps the last commit of a sha
             parents == IF commits[i].parents = <<>> THEN {}
                        ELSE {j \in DOMAIN commits : commits[j].sha = commits[i].parents[1]}
         IN {i} \union FirstParents(commits, IF parents = {} THEN 0 ELSE Max(parents),
                                    seen \union {commits[i].sha})

review_flow_metrics(commits) ==
    LET chain == FirstParents(commits, 1, {})
        direct == {i \in chain : ~is_merge(commits[i]) /\ "squash" \notin commits[i].subject}
    IN [first_parent_commits |-> Cardinality(chain), direct_commits |-> Cardinality(direct),
        direct_ratio |-> _share(Cardinality(direct), Cardinality(chain))]

(***************************************************************************)
(* The report.  exp(-days / 365) is only known to fall with the days.      *)
(***************************************************************************)
Fading(days) == CASE days = 0 -> 1000 [] days <= 90 -> 781 [] days <= 365 -> 367 [] OTHER -> 135
inverse(value) == IF value = NoValue THEN NoValue ELSE 1000 - value
mean_score(values) ==
    LET present == SelectSeq(values, LAMBDA v : v # NoValue)
    IN IF present = <<>> THEN NoValue
       ELSE FoldLeft(LAMBDA a, b : a + b, 0, present) \div Len(present)

NotApplicable == [applicable |-> FALSE, score |-> NoValue, components |-> <<>>]
build_report(commits, present, available, complexity) ==
    LET messages == message_metrics(commits)
        recency == recency_metrics(commits)
        authors == author_metrics(commits)
        bus == bus_factor(authors.lines_by_author)
        hotspots == hotspot_metrics(change_frequency(commits, present), available, complexity)
        flow == review_flow_metrics(commits)
        components ==
            <<messages.conventional, inverse(messages.low_info),
              Fading(recency.days_since_last_commit),
              Min({1000, (1000 * recency.commits_last_90d) \div ACTIVE_COMMITS}),
              IF bus = NoValue THEN NoValue
              ELSE (1000 * Min({bus, BUS_FACTOR_TARGET})) \div BUS_FACTOR_TARGET,
              inverse(authors.author_gini), inverse(hotspots.hotspot_share), inverse(flow.direct_ratio)>>
    IN IF Len(commits) < MIN_COMMITS THEN NotApplicable
       ELSE [applicable |-> TRUE, score |-> mean_score(components), components |-> components,
             hotspots |-> hotspots.hotspots, authors |-> authors.authors, flow |-> flow,
             shallow |-> \E c \in Range(commits) : c.boundary,
             truncated |-> Len(commits) >= MAX_COMMITS]

(***************************************************************************)
(* The files of the tree: [path, symlink, readable, large, ignored,        *)
(* decisions], decisions the number of branches in a source file's syntax. *)
(***************************************************************************)
present_files(files) == {f.path : f \in {g \in files : ~g.symlink /\ g.path.kind # "vendored"}}

\* A file that cannot be read or is too large is left out of the count, not counted as simple.
collect_complexity(files) ==
    LET measured == {f \in files : f.path.kind \in {"source", "minified"} /\ ~f.ignored
                                   /\ f.path \in present_files(files) /\ f.readable /\ ~f.large}
    IN [p \in {f.path : f \in measured} |-> (CHOOSE f \in measured : f.path = p).decisions]

\* run(): a collector that failed only takes the hotspots away.
run(history, files, collectorFails) ==
    IF ~history.found THEN NotApplicable
    ELSE build_report(history.commits, present_files(files), ~collectorFails, collect_complexity(files))

(***************************************************************************)
(* Properties.                                                             *)
(***************************************************************************)
\* The bus factor is the least number of authors who together changed half of the lines.
BusFactorIsLeast(lines) ==
    LET half(S) == 2 * MapThenSumSet(LAMBDA a : lines[a], S) >= Total(lines)
    IN Total(lines) > 0
           => bus_factor(lines) = Min({Cardinality(S) : S \in {T \in SUBSET DOMAIN lines : half(T)}})

\* A commit moved from an author with more to one with fewer, but not past it, never makes the
\* history look more concentrated, and the coefficient stays below one.
SharingNeverConcentrates(counts) ==
    /\ gini(counts) \in {NoValue} \union 0..999
    /\ \A a, b \in DOMAIN counts : counts[a] > counts[b] + 1
           => gini([counts EXCEPT ![a] = @ - 1, ![b] = @ + 1]) <= gini(counts)

\* What the commits at the edge of a shallow clone seem to add is no change of anybody: the
\* report is the same whatever files they list.
ShallowTreesDoNotCount(commits, present, complexity, tree) ==
    LET filled == [i \in DOMAIN commits |->
                       IF commits[i].boundary THEN [commits[i] EXCEPT !.files = tree] ELSE commits[i]]
    IN build_report(filled, present, TRUE, complexity) = build_report(commits, present, TRUE, complexity)

\* The walk over first parents ends, at a commit whose first parent the log does not hold
\* or in a cycle; nothing off the chain counts, and reviewing one more commit never hurts.
ReviewingNeverHurts(commits) ==
    LET flow == review_flow_metrics(commits)
        chain == FirstParents(commits, 1, {})
    IN commits # <<>> =>
       /\ 1 \in chain /\ flow.direct_commits <= flow.first_parent_commits
       /\ \A i \in chain \ {1} : \E j \in chain :
              commits[j].parents # <<>> /\ commits[j].parents[1] = commits[i].sha
       /\ \A i \in DOMAIN commits :
              LET reviewed == [commits EXCEPT ![i].subject = @ \union {"squash"}]
              IN review_flow_metrics(reviewed).direct_ratio <= flow.direct_ratio

\* A hotspot is a file of the tree that changed and has decisions in it, never a generated one
\* or one only merges and shallow trees touched; a collector that fails takes the hotspots away
\* and nothing else.
HotspotsAreHandWritten(commits, files) ==
    LET history == [found |-> TRUE, commits |-> commits]
        report == run(history, files, FALSE)
        bare == run(history, files, TRUE)
    IN report.applicable =>
       /\ \A p \in Range(report.hotspots) :
              /\ \E f \in files : f.path = p /\ ~f.symlink /\ ~f.large /\ f.decisions > 0
              /\ ~is_excluded(p)
              /\ \E c \in Range(commits) : /\ ~is_merge(c) /\ ~c.boundary
                                           /\ \E f \in Range(c.files) : f.path = p
       /\ bare.hotspots = <<>> /\ bare.components[7] = NoValue
       /\ \A k \in DOMAIN report.components : k # 7 => report.components[k] = bare.components[k]
=============================================================================
