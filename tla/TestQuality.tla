---------------------------- MODULE TestQuality ----------------------------
(***************************************************************************)
(* The test-quality signal: the tests of a repository, the assertions in   *)
(* them, their mix and the coverage reports committed beside them.         *)
(*                                                                         *)
(* Code is a syntax tree: a node is [type, name, owner, children], name    *)
(* and owner of the called function where it is a call (owner "" for a     *)
(* plain name), children the nodes below it.  Scores are in 1/1000.        *)
(***************************************************************************)
LOCAL INSTANCE Integers
LOCAL INSTANCE Sequences
LOCAL INSTANCE FiniteSets
LOCAL INSTANCE FiniteSetsExt
LOCAL INSTANCE SequencesExt

TARGET_ASSERTIONS == 2
NoValue == -1

_is_python_assertion(node) ==
    \/ node.type = "assert_statement"
    \/ /\ node.type = "call"
       /\ CASE node.owner = "pytest" -> node.name \in {"raises", "warns", "fail", "deprecated_call"}
            [] node.owner = "self" -> node.name \in {"assertEqual", "fail"}
            [] node.owner # "" -> node.name = "assert_called"
            [] OTHER -> node.name \in {"assert_valid", "check_that", "verify"}

\* A chain expect(x).toBe(y) is the call of its last member, with expect(x) below it.
_is_js_assertion(node) ==
    \/ node.type = "member" /\ node.name = "should"
    \/ /\ node.type = "call"
       /\ \/ node.owner = "" /\ node.name \in {"expect", "assert", "verifyThat"}
          \/ node.owner = "assert"
          \/ node.owner # "" /\ node.name = "expect"

IsAssertion(language, node) ==
    IF language = "python" THEN _is_python_assertion(node) ELSE _is_js_assertion(node)

\* Nothing inside an assertion is counted again.
RECURSIVE _count_assertions(_, _)
_count_assertions(body, language) ==
    IF IsAssertion(language, body) THEN 1
    ELSE FoldLeft(LAMBDA sum, child : sum + _count_assertions(child, language), 0, body.children)
Assertions(language, test) ==
    FoldLeft(LAMBDA sum, child : sum + _count_assertions(child, language), 0, test.children)

(***************************************************************************)
(* Test files: [path, language, loc, imports, top], path the set of marks  *)
(* in it ("test", "e2e", "integration"), top the sequence of its top-level *)
(* nodes: functions, classes ([type |-> "class", name, bases]) and calls.  *)
(***************************************************************************)
_py_is_test_class(node) == node.name = "TestThing" \/ "TestCase" \in node.bases
PythonTestNames == {"test_one", "test_two"}
python_tests(top) ==
    FlattenSeq([i \in DOMAIN top |->
        IF top[i].type = "class"
        THEN IF _py_is_test_class(top[i])
             THEN SelectSeq(top[i].children, LAMBDA m : m.type = "function" /\ m.name \in PythonTestNames)
             ELSE <<>>
        ELSE IF top[i].type = "function" /\ top[i].name \in PythonTestNames THEN <<top[i]>> ELSE <<>>])

\* Every call in the file, so a test inside a describe() is found and so is one inside a test.
RECURSIVE Calls(_)
Calls(nodes) ==
    FlattenSeq([i \in DOMAIN nodes |->
        (IF nodes[i].type = "call" THEN <<nodes[i]>> ELSE <<>>) \o Calls(nodes[i].children)])
javascript_tests(top) ==
    SelectSeq(Calls(top), LAMBDA c : c.owner = "" /\ c.name \in {"it", "test"} /\ c.children # <<>>)

Tests(file) == IF file.language = "python" THEN python_tests(file.top) ELSE javascript_tests(file.top)

E2E_PACKAGES == {"playwright", "cypress"}
INTEGRATION_PACKAGES == {"requests", "sqlalchemy", "supertest"}
INTEGRATION_NAMES == {"TestClient"}
classify_test_file(file) ==
    IF "e2e" \in file.path \/ file.imports \intersect E2E_PACKAGES # {} THEN "e2e"
    ELSE IF "integration" \in file.path
            \/ file.imports \intersect (INTEGRATION_PACKAGES \union INTEGRATION_NAMES) # {}
    THEN "integration"
    ELSE "unit"

(***************************************************************************)
(* Coverage: a report is [directory, kind, covered, total, pct, readable], *)
(* NoValue for a number the file does not give; a Cobertura file may give  *)
(* either number without the other.                                        *)
(***************************************************************************)
Priority(kind) == CASE kind = "istanbul-summary" -> 0
                    [] kind = "lcov" -> 1
                    [] kind = "istanbul-final" -> 2
                    [] OTHER -> 3

\* The first of the best kind in a directory, in the order of the names; reports is in that order.
Chosen(reports) ==
    LET better(i, j) == \/ Priority(reports[i].kind) < Priority(reports[j].kind)
                        \/ Priority(reports[i].kind) = Priority(reports[j].kind) /\ i < j
    IN SelectSeq([i \in DOMAIN reports |-> i], LAMBDA j : ~\E i \in DOMAIN reports :
           reports[i].directory = reports[j].directory /\ better(i, j))
\* What _read_report() accepts: only a Cobertura file may lack the counts, or have no lines.
Usable(report) == report.readable /\ (report.kind = "cobertura" \/ report.total > 0)

Sum(values) == FoldLeft(LAMBDA a, b : a + b, 0, values)
\* all() takes an absent or zero total as missing; only the totals are looked at before the sum
\* of the covered lines.
collect_coverage(reports) ==
    LET used == SelectSeq([k \in DOMAIN Chosen(reports) |-> reports[Chosen(reports)[k]]], Usable)
    IN IF used = <<>> THEN [pct |-> NoValue, error |-> FALSE, used |-> used]
       ELSE IF \A r \in Range(used) : r.total > 0
       THEN IF \E r \in Range(used) : r.covered = NoValue
            THEN [pct |-> NoValue, error |-> TRUE, used |-> used]
            ELSE [pct |-> (1000 * Sum([k \in DOMAIN used |-> used[k].covered]))
                              \div Sum([k \in DOMAIN used |-> used[k].total]),
                  error |-> FALSE, used |-> used]
       ELSE [pct |-> Sum([k \in DOMAIN used |-> used[k].pct]) \div Len(used), error |-> FALSE, used |-> used]

(***************************************************************************)
(* collect() and build_report().  sources is the number of source files    *)
(* that are not tests and source_loc their lines.                          *)
(***************************************************************************)
Capped(value) == Min({1000, value})
mean_score(values) ==
    LET present == SelectSeq(values, LAMBDA v : v # NoValue)
    IN IF present = <<>> THEN NoValue ELSE Sum(present) \div Len(present)

AllTests(files) ==
    FlattenSeq([i \in DOMAIN files |->
        LET tests == Tests(files[i]) IN [k \in DOMAIN tests |-> Assertions(files[i].language, tests[k])]])
TypesPresent(files) == {classify_test_file(f) : f \in {g \in Range(files) : Tests(g) # <<>>}}

test_presence(source_loc, test_loc) ==
    IF source_loc = 0 THEN 1000 ELSE Capped((10000 * test_loc) \div (3 * source_loc))

NotApplicable == [applicable |-> FALSE, score |-> NoValue, components |-> <<>>]
build_report(sources, source_loc, files, coverage) ==
    LET counts == AllTests(files)
        zero == Len(SelectSeq(counts, LAMBDA n : n = 0))
        components == <<test_presence(source_loc, Sum([i \in DOMAIN files |-> files[i].loc])),
                        Capped((1000 * Sum(counts)) \div (Len(counts) * TARGET_ASSERTIONS)),
                        1000 - (1000 * zero) \div Len(counts),
                        IF Cardinality(TypesPresent(files)) >= 2 THEN 1000 ELSE 500,
                        IF coverage = NoValue THEN NoValue ELSE Capped(coverage)>>
    IN IF sources = 0 /\ files = <<>> THEN NotApplicable
       ELSE IF counts = <<>> THEN [applicable |-> TRUE, score |-> 0, components |-> <<0>>]
       ELSE [applicable |-> TRUE, score |-> mean_score(components), components |-> components]

(***************************************************************************)
(* Properties.                                                             *)
(***************************************************************************)
\* One more assertion in a test never lowers the score, wherever the test is found.
WithAssertion(file, i) ==
    LET assertion == [type |-> "call", name |-> IF file.language = "python" THEN "verify" ELSE "expect",
                      owner |-> "", children |-> <<>>]
    IN [file EXCEPT !.top[i].children = Append(@, assertion)]
AssertionsNeverHurt(files, source_loc, coverage) ==
    \A f \in DOMAIN files : \A i \in DOMAIN files[f].top :
        files[f].top[i].type = "function"
            => build_report(1, source_loc, files, coverage).score
                   <= build_report(1, source_loc, [files EXCEPT ![f] = WithAssertion(@, i)], coverage).score

\* The combined coverage lies between the lowest and the highest report, a directory counts
\* once, and which of its files are found first does not matter as long as their kinds differ.
CoverageIsBetween(reports) ==
    LET result == collect_coverage(reports)
        shares == {r.pct : r \in Range(result.used)}
    IN /\ \A i, j \in DOMAIN result.used :
            i # j => result.used[i].directory # result.used[j].directory
       /\ result.pct # NoValue => Min(shares) <= result.pct /\ result.pct <= Max(shares)
       /\ (\A i, j \in DOMAIN reports : i # j /\ reports[i].directory = reports[j].directory
               => Priority(reports[i].kind) # Priority(reports[j].kind))
          => collect_coverage(Reverse(reports)).pct = result.pct
=============================================================================
