------------------------------ MODULE Reviews ------------------------------
(***************************************************************************)
(* The citations of an architecture review, verified against the stored    *)
(* import graph.                                                           *)
(*                                                                         *)
(* A path is a sequence of parts, and so is the id of a module.  A         *)
(* reference, cleaned of quotes and line numbers, is [name, slash]: slash  *)
(* tells a "/" at its end.  A citation is a sequence of references: one,   *)
(* or the sides of imports.  Nodes are [id, path, loc], internal edges     *)
(* pairs of ids.                                                           *)
(***************************************************************************)
LOCAL INSTANCE Integers
LOCAL INSTANCE Sequences
LOCAL INSTANCE FiniteSets
LOCAL INSTANCE FiniteSetsExt
LOCAL INSTANCE SequencesExt
LOCAL INSTANCE Functions

CONSTANT TREE_DEPTH

Missing == <<"missing", <<>>>>
Directories(path) == {SubSeq(path, 1, i) : i \in 1 .. Len(path) - 1}
load_facts(nodes, edges) ==
    LET module_ids == [id \in {n.id : n \in nodes} |-> (CHOOSE n \in nodes : n.id = id).path]
    IN [paths |-> {n.path : n \in nodes}, module_ids |-> module_ids,
        directories |-> UNION {Directories(n.path) : n \in nodes},
        edges |-> {<<module_ids[e[1]], module_ids[e[2]]>> :
                      e \in {f \in edges : {f[1], f[2]} \subseteq DOMAIN module_ids}}]

\* The directories shown to the model, with the modules below each and their lines; that only the
\* first MAX_TREE_ENTRIES are is left out.
_directory_tree(nodes) ==
    LET dirs == {d \in UNION {Directories(n.path) : n \in nodes} : Len(d) <= TREE_DEPTH}
        below(d) == {n \in nodes : d \in Directories(n.path)}
    IN [d \in dirs |-> [modules |-> Cardinality(below(d)), loc |-> MapThenSumSet(LAMBDA n : n.loc, below(d))]]

(***************************************************************************)
(* One citation.  A name with a slash is no module's, and one without is   *)
(* a module's before it is a directory's.                                  *)
(***************************************************************************)
_resolve_side(reference, facts) ==
    CASE ~reference.slash /\ reference.name \in facts.paths -> <<"module", reference.name>>
      [] ~reference.slash /\ reference.name \in DOMAIN facts.module_ids ->
             <<"module", facts.module_ids[reference.name]>>
      [] reference.name \in facts.directories -> <<"directory", reference.name>>
      [] OTHER -> Missing
Matches(side, path) == IF side[1] = "module" THEN path = side[2] ELSE side[2] \in Directories(path)
_edge_exists(source, target, facts) == \E e \in facts.edges : Matches(source, e[1]) /\ Matches(target, e[2])
verify_evidence(parts, facts) ==
    LET resolved == [i \in DOMAIN parts |-> _resolve_side(parts[i], facts)]
        sides == SelectSeq(resolved, LAMBDA side : side # Missing)
        invalid == Len(resolved) - Len(sides)
        connected == \A i \in 2 .. Len(sides) : _edge_exists(sides[i - 1], sides[i], facts)
    IN [valid |-> Len(sides), invalid |-> invalid,
        reason |-> CASE parts = <<>> -> "empty citation"
                     [] invalid > 0 -> "not in the graph"
                     [] ~connected -> "no import"
                     [] OTHER -> "none"]

(***************************************************************************)
(* A review: a sequence of issues, each with the sequence of its           *)
(* citations.  The rate is in ten-thousandths, -1 without references.      *)
(***************************************************************************)
Judged(issue, facts) ==
    LET sound(citation) == verify_evidence(citation, facts).reason = "none"
    IN [evidence |-> SelectSeq(issue, sound), rejected |-> SelectSeq(issue, LAMBDA citation : ~sound(citation))]
verify_review(issues, facts) ==
    LET records == [i \in DOMAIN issues |-> Judged(issues[i], facts)]
        verdicts == FlattenSeq([i \in DOMAIN issues |->
                        [j \in DOMAIN issues[i] |-> verify_evidence(issues[i][j], facts)]])
        count(field(_)) == FoldLeft(LAMBDA sum, v : sum + field(v), 0, verdicts)
    IN [issues |-> SelectSeq(records, LAMBDA r : r.evidence # <<>>),
        dropped |-> SelectSeq(records, LAMBDA r : r.evidence = <<>>),
        references_total |-> count(LAMBDA v : v.valid + v.invalid),
        references_invalid |-> count(LAMBDA v : v.invalid)]
hallucination_rate(result) ==
    IF result.references_total = 0 THEN -1
    ELSE (2 * 10000 * result.references_invalid + result.references_total) \div (2 * result.references_total)

\* A scan without a graph is not reviewed.  A failed call leaves what an earlier review stored.
NoReview == [status |-> "none", verified |-> <<>>, error |-> FALSE]
generate_architecture_review(has_graph, review, answer, facts) ==
    CASE ~has_graph -> review
      [] answer.failed -> [review EXCEPT !.status = "failed", !.error = TRUE]
      [] OTHER -> [status |-> "ready", verified |-> verify_review(answer.issues, facts), error |-> FALSE]

(***************************************************************************)
(* Properties.                                                             *)
(***************************************************************************)
\* What a reference written as the prompt asks (a path, or a directory with its "/") stands for.
Denotes(reference, nodes) ==
    {n \in nodes : IF reference.slash THEN reference.name \in Directories(n.path) ELSE n.path = reference.name}
AsPrompted(reference, nodes) == reference.slash \/ reference.name \notin {n.id : n \in nodes} \union
                                    UNION {Directories(n.path) : n \in nodes}

\* A citation written as the prompt asks is kept exactly when all it names is in the graph and each
\* import it claims is there, from one of the modules the left side stands for to one of the right.
CitationsAreJudgedByTheGraph(citation, nodes, edges) ==
    (\A i \in DOMAIN citation : AsPrompted(citation[i], nodes)) =>
        (verify_evidence(citation, load_facts(nodes, edges)).reason = "none"
            <=> /\ citation # <<>> /\ \A i \in DOMAIN citation : Denotes(citation[i], nodes) # {}
                /\ \A i \in 2 .. Len(citation) :
                      \E s \in Denotes(citation[i - 1], nodes), t \in Denotes(citation[i], nodes) : <<s.id, t.id>> \in edges)

\* Every directory the model is shown may be cited, and so may every import below it, both ways
\* round a module's id and its path.
WhatIsShownIsCitable(nodes, edges) ==
    LET facts == load_facts(nodes, edges)
        dir(d) == [name |-> d, slash |-> TRUE]
        file(n) == [name |-> n.path, slash |-> FALSE]
    IN /\ \A d \in DOMAIN _directory_tree(nodes) :
             /\ verify_evidence(<<dir(d)>>, facts).reason = "none"
             /\ _directory_tree(nodes)[d].modules = Cardinality(Denotes(dir(d), nodes))
       /\ \A s, t \in nodes : <<s.id, t.id>> \in edges =>
             /\ verify_evidence(<<file(s), file(t)>>, facts).reason = "none"
             /\ verify_evidence(<<[file(s) EXCEPT !.name = s.id], file(t)>>, facts).reason = "none"
             /\ \A d \in Directories(s.path) : verify_evidence(<<dir(d), file(t)>>, facts).reason = "none"

\* No issue is lost or shown without evidence, no evidence shown that was rejected; the rate counts
\* what is not in the graph, wherever it stands, and only that: an import that is not there between
\* modules that are is rejected and not counted.  A later review that fails leaves all this as it is.
ReviewIsSound(issues, nodes, edges) ==
    LET facts == load_facts(nodes, edges)
        stored == generate_architecture_review(TRUE, NoReview, [failed |-> FALSE, issues |-> issues], facts)
        result == stored.verified
        records == result.issues \o result.dropped
        citations == FlattenSeq(issues)
    IN /\ generate_architecture_review(TRUE, stored, [failed |-> TRUE, issues |-> <<>>], facts).verified = result
       /\ Len(records) = Len(issues)
       /\ \A i \in DOMAIN records :
             /\ i <= Len(result.issues) <=> \E j \in DOMAIN records[i].evidence :
                                               verify_evidence(records[i].evidence[j], facts).reason = "none"
             /\ \A j \in DOMAIN records[i].rejected : verify_evidence(records[i].rejected[j], facts).reason # "none"
       /\ MapThenSumSet(LAMBDA i : Len(records[i].evidence) + Len(records[i].rejected), DOMAIN records) = Len(citations)
       /\ hallucination_rate(result) \in -1 .. 10000
       /\ hallucination_rate(result) <= 0 <=>
             \A i \in DOMAIN citations, k \in 1 .. 3 :
                k <= Len(citations[i]) => _resolve_side(citations[i][k], facts) # Missing
=============================================================================
