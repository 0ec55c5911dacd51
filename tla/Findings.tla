------------------------------ MODULE Findings ------------------------------
(***************************************************************************)
(* What happens to findings between the tools and the report: the category *)
(* that makes findings of different tools comparable, the merging of those *)
(* that describe the same issue, the comparison of two scans, and the      *)
(* order in which findings are offered a fix.                              *)
(*                                                                         *)
(* A finding is a record; its message is the length of it (the only thing  *)
(* the merge looks at) and evidence, the normalized snippet or message.    *)
(* A category is a tuple, <<>> where the code has None.                    *)
(***************************************************************************)
LOCAL INSTANCE Integers
LOCAL INSTANCE Sequences
LOCAL INSTANCE FiniteSets
LOCAL INSTANCE FiniteSetsExt
LOCAL INSTANCE SequencesExt

MAX_CONTAINING_SPAN == 5
_SEVERITY_RANK == [info |-> 0, warning |-> 1, error |-> 2, critical |-> 3]
HighestSeverity(severities) ==
    CHOOSE s \in severities : \A t \in severities : _SEVERITY_RANK[t] <= _SEVERITY_RANK[s]

(***************************************************************************)
(* Categories.                                                             *)
(***************************************************************************)
KEYWORD_CATEGORIES ==
    <<"debug-enabled", "insecure-deserialization", "sql-injection", "command-injection",
      "code-injection", "xss", "path-traversal", "ssrf", "xxe", "open-redirect",
      "tls-verification", "weak-crypto", "insecure-randomness", "bind-all-interfaces",
      "hardcoded-secret">>

\* matched is the set of categories whose pattern the rule text matches, cwes the sequence of
\* the categories of its CWE ids, <<>> for an id without one.  Keywords come first.
categorize(matched, cwes) ==
    LET known == SelectSeq(cwes, LAMBDA c : c # <<>>)
    IN IF matched # {} THEN <<SelectSeq(KEYWORD_CATEGORIES, LAMBDA c : c \in matched)[1]>>
       ELSE IF known # <<>> THEN known[1]
       ELSE <<>>

(***************************************************************************)
(* Deduplication.                                                          *)
(***************************************************************************)
\* A finding without a category is only merged with the same rule of the same analyzer.
dedup_category(f) == IF f.category # <<>> THEN f.category ELSE <<"rule", f.analyzer, f.rule_id>>
Bucket(f) == <<f.file_path, dedup_category(f)>>

Holds(outer, inner) ==
    /\ outer.end_line - outer.start_line <= MAX_CONTAINING_SPAN
    /\ inner.start_line \in outer.start_line .. outer.end_line
_same_location(a, b) == a.start_line = b.start_line \/ Holds(a, b) \/ Holds(b, a)

_richness(f) == 100 * f.message + 10 * _SEVERITY_RANK[f.severity] + (IF f.code_snippet THEN 1 ELSE 0)

\* groups are sequences of indices, each group in the order of its start lines.  A finding
\* joins the first group whose first finding, its anchor, is at the same location.
Place(findings, groups, i) ==
    LET near == {g \in DOMAIN groups : _same_location(findings[Head(groups[g])], findings[i])}
    IN IF near = {} THEN Append(groups, <<i>>) ELSE [groups EXCEPT ![Min(near)] = Append(@, i)]

Groups(findings, bucket) ==
    LET before(i, j) == \/ findings[i].start_line < findings[j].start_line
                        \/ findings[i].start_line = findings[j].start_line /\ i < j
        members == {i \in DOMAIN findings : Bucket(findings[i]) = bucket}
    IN FoldLeft(LAMBDA groups, i : Place(findings, groups, i), <<>>, SetToSortSeq(members, before))

AllGroups(findings) ==
    UNION {Range(Groups(findings, Bucket(findings[i]))) : i \in DOMAIN findings}

Keeper(findings, group) ==
    group[Min({k \in DOMAIN group :
                  \A l \in DOMAIN group : _richness(findings[group[l]]) <= _richness(findings[group[k]])})]

_merge(findings, group) ==
    LET keeper == findings[Keeper(findings, group)]
        others == SelectSeq(group, LAMBDA i : i # Keeper(findings, group))
    IN IF Len(group) = 1 THEN keeper
       ELSE [keeper EXCEPT
                !.severity = HighestSeverity({findings[i].severity : i \in Range(group)}),
                !.corroborated_by = @ \union ({findings[i].analyzer : i \in Range(others)} \ {keeper.analyzer}),
                !.merged_from = @ \o others]

\* In the order of the first finding of each group in the input.
deduplicate(findings) ==
    LET before(g, h) == Min(Range(g)) < Min(Range(h))
        ordered == SetToSortSeq(AllGroups(findings), before)
    IN [k \in DOMAIN ordered |-> _merge(findings, ordered[k])]

(***************************************************************************)
(* Comparison of two scans, as multisets of identities.                    *)
(***************************************************************************)
\* evidence is the code, or the message without its numbers; a vulnerable package is the same
\* wherever it is found.
finding_identity(f) ==
    IF f.dependency # <<>> THEN <<f.analyzer, f.rule_id, f.dependency>>
    ELSE <<f.analyzer, f.rule_id, f.file_path, f.evidence>>

\* The head's findings take the base's one by one; what is not taken is new, what is left over
\* is resolved.  remaining maps an identity to how many of the base's are left.
diff_findings(base, head) ==
    LET Count(s, id) == Len(SelectSeq(s, LAMBDA f : finding_identity(f) = id))
        ids == {finding_identity(f) : f \in Range(base) \union Range(head)}
        Take(acc, f) ==
            LET id == finding_identity(f)
            IN IF acc.remaining[id] > 0
               THEN [acc EXCEPT !.remaining[id] = @ - 1, !.unchanged = @ + 1]
               ELSE [acc EXCEPT !.new = Append(@, id)]
    IN FoldLeft(Take, [remaining |-> [id \in ids |-> Count(base, id)], unchanged |-> 0, new |-> <<>>],
                head)

resolved(comparison) == MapThenSumSet(LAMBDA id : comparison.remaining[id], DOMAIN comparison.remaining)

(***************************************************************************)
(* Which findings are offered a fix first.                                 *)
(***************************************************************************)
NOT_FIXABLE_ANALYZERS == {"architecture"}

top_fixable(findings, impacts, limit) ==
    LET rank(i) == <<0 - impacts[i], 0 - _SEVERITY_RANK[findings[i].severity],
                     0 - Cardinality(findings[i].corroborated_by), findings[i].start_line, i>>
        before(i, j) ==
            \E k \in 1 .. 5 : rank(i)[k] < rank(j)[k] /\ \A l \in 1 .. k - 1 : rank(i)[l] = rank(j)[l]
        ranked == SetToSortSeq({i \in DOMAIN findings :
                                   findings[i].analyzer \notin NOT_FIXABLE_ANALYZERS}, before)
    IN SubSeq(ranked, 1, Min({limit, Len(ranked)}))

(***************************************************************************)
(* Properties, for given findings.                                         *)
(***************************************************************************)
\* Every raw finding ends up in exactly one merged finding, as its keeper or in merged_from.
NothingIsLost(findings) ==
    /\ \A i \in DOMAIN findings : Cardinality({g \in AllGroups(findings) : i \in Range(g)}) = 1
    /\ MapThenSumSet(LAMBDA k : 1 + Len(deduplicate(findings)[k].merged_from),
                     DOMAIN deduplicate(findings)) = Len(findings)

\* Two findings of one file and category that start at one line are one finding, whatever else
\* was reported between or around them.
SameStartMerges(findings) ==
    \A i, j \in DOMAIN findings :
        Bucket(findings[i]) = Bucket(findings[j]) /\ findings[i].start_line = findings[j].start_line
            => \E g \in AllGroups(findings) : {i, j} \subseteq Range(g)

\* Groups do not chain along a file: no merged finding spreads further than one short finding.
GroupsDoNotChain(findings) ==
    \A g \in AllGroups(findings) : \A i, j \in Range(g) :
        findings[i].start_line - findings[j].start_line <= MAX_CONTAINING_SPAN

\* Agreement is between tools: an analyzer never corroborates itself, and merging never softens.
AgreementIsForeign(findings) ==
    \A g \in AllGroups(findings) :
        LET m == _merge(findings, g)
        IN /\ m.analyzer \notin m.corroborated_by
           /\ \A i \in Range(g) : _SEVERITY_RANK[findings[i].severity] <= _SEVERITY_RANK[m.severity]

\* Going back undoes a comparison: what is new from base to head is what is resolved from
\* head to base, and both scans are accounted for in full.
ComparisonIsSymmetric(findings) ==
    \A k \in 0 .. Len(findings) :
        LET base == SubSeq(findings, 1, k)
            head == SubSeq(findings, k + 1, Len(findings))
            there == diff_findings(base, head)
            back == diff_findings(head, base)
        IN /\ Len(there.new) = resolved(back)
           /\ Len(back.new) = resolved(there)
           /\ there.unchanged = back.unchanged
           /\ there.unchanged + resolved(there) = Len(base)
=============================================================================
