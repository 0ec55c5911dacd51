------------------------------ MODULE MCRules ------------------------------
(***************************************************************************)
(* The pure rules of the program over bounded inputs.  A behaviour picks a *)
(* kind of input and grows one, an item at a time; it may stop at any      *)
(* length, and there the rules are judged on it.  The properties say what  *)
(* their results must be.  The kinds in Chosen append items of increasing  *)
(* number: their inputs are sets.                                          *)
(***************************************************************************)
EXTENDS Integers, Sequences, FiniteSets, SequencesExt, TLC

CONSTANTS MAX_CYCLE_LENGTH, MAX_CYCLES, MAX_ISSUES_PER_TYPE, MIN_COMMITS, MAX_COMMITS,
          MAX_HOTSPOTS, MAX_PALETTE, SECOND, HOPS, MAX_LAG, MAX_FILES, MAX_TOTAL, MAX_FILE,
          EXCERPT_CONTEXT_LINES, MAX_EXCERPT_LINES

VARIABLES kind, items

Score == INSTANCE Rubric
Merge == INSTANCE Findings
Resolve == INSTANCE Resolver
Graph == INSTANCE ImportGraph
Review == INSTANCE Reviews WITH TREE_DEPTH <- 2
Handlers == INSTANCE ErrorHandling
Health == INSTANCE DepHealth
Tests == INSTANCE TestQuality
Ci == INSTANCE CiQuality
Tools == INSTANCE ToolResults
History == INSTANCE GitHistory
Advise == INSTANCE Advisory
Sites == INSTANCE Risk WITH BRANDS <- <<"paypal", "apple">>
Look == INSTANCE Design WITH GRIDS <- <<12, 8, 4, 2>>

Limit == INSTANCE Admission WITH
    WINDOWS <- [requests |-> 2, scans |-> 3, pull_requests |-> 3],
    QUOTAS <- [anonymous |-> [requests |-> 2, scans |-> 1, pull_requests |-> 9],
               free |-> [requests |-> 3, scans |-> 2, pull_requests |-> 1],
               pro |-> [requests |-> 9, scans |-> 9, pull_requests |-> 9]]
Upload == INSTANCE Uploads
Patch == INSTANCE Patches
\* A file stands for one that no longer parses once both its lines are "b".
BrokenFile(lines) == lines = <<"b", "b">>
Plan == INSTANCE Plans WITH MAX_BRANCH_SUFFIX <- 2, Broken <- BrokenFile

(***************************************************************************)
(* Findings, to be scored and to be merged.                                *)
(***************************************************************************)
Scored(analyzer, rule_id, severity, corroborated_by, test) ==
    [analyzer |-> analyzer, rule_id |-> rule_id, severity |-> severity, corroborated_by |-> corroborated_by, test |-> test]
ScoredFindings ==
    {Scored("ruff", "a", "critical", {}, FALSE), Scored("ruff", "a", "error", {}, FALSE),
     Scored("semgrep", "s", "warning", {}, FALSE), Scored("bandit", "s", "critical", {"semgrep"}, TRUE),
     Scored("ruff", "a", "warning", {}, TRUE)}
Signal == [applicable |-> TRUE, score |-> 50,
           components |-> [direct_count |-> 10, freshness |-> -1, transitive |-> 80,
                           trivial |-> -1, unused |-> -1, phantom |-> -1]]
Contexts ==
    {[size |-> size, failed |-> failed, run |-> {"ruff", "semgrep"},
      signals |-> [s \in {"error_handling", "test_quality", "dep_health", "git_history", "ci_quality"} |-> Signal]] :
         size \in {1, 2}, failed \in {{}, {"bandit"}}}
Configurations ==
    {[signals |-> {}, process_dimension |-> FALSE, dep_health_target |-> "dependencies"],
     [signals |-> {"dep_health", "git_history"}, process_dimension |-> TRUE, dep_health_target |-> "security"]}

Raw(analyzer, first, last, message, category) ==
    [analyzer |-> analyzer, rule_id |-> "r", severity |-> "error", file_path |-> "f", start_line |-> first,
     end_line |-> last, message |-> message, code_snippet |-> FALSE, category |-> category,
     corroborated_by |-> {}, merged_from |-> <<>>, evidence |-> "e", test |-> FALSE, dependency |-> <<>>]
RawFindings ==
    {Raw("semgrep", 1, 5, 2, <<"x">>), Raw("bandit", 3, 3, 1, <<"x">>), Raw("ruff", 3, 9, 1, <<"x">>),
     [Raw("ruff", 5, 9, 1, <<"x">>) EXCEPT !.severity = "warning"],
     Raw("ruff", 8, 9, 3, <<"x">>), Raw("bandit", 1, 1, 1, <<>>)}

(***************************************************************************)
(* Repositories, their imports and the graph of these.                     *)
(***************************************************************************)
File(dir, stem, ext) == Resolve!File(dir, stem, ext)
PythonFiles ==
    <<File(<<"a">>, "__init__", ".py"), File(<<"a">>, "types", ".py"), File(<<"a">>, "m", ".py"),
      File(<<"a", "s">>, "__init__", ".py"), File(<<"a", "s">>, "x", ".py"), File(<<>>, "types", ".py"),
      File(<<"b">>, "m", ".py"), File(<<"b">>, "setup", ".cfg")>>
ScriptFiles ==
    <<File(<<"w">>, "main", ".ts"), File(<<"w">>, "util", ".ts"), File(<<"w">>, "util", ".js"),
      File(<<"w", "lib">>, "index", ".ts"), File(<<"w">>, "s", ".css"), File(<<"w", "lib", "src">>, "index", ".js")>>
Repository(files) ==
    [files |-> files,
     packages |-> (<<"w">> :> [name |-> "w", entry |-> <<".">>, deps |-> {"react"}])
               @@ (<<"w", "lib">> :> [name |-> "lib", entry |-> <<"src">>, deps |-> {}]),
     options |-> <<"w">> :> [paths |-> <<[prefix |-> <<"@", "lib">>, target |-> <<"w", "lib">>]>>,
                             base_url |-> <<"w">>, extends |-> <<"n">>]]
Standard == {"types"}
Declared == {"b"}
PythonImports ==
    [kind : {"import", "from"}, level : 0 .. 3, names : {{}, {"s"}, {"m", "types"}}, dynamic : {FALSE},
     parts : {<<>>, <<"types">>, <<"a">>, <<"a", "s">>, <<"m">>, <<"s", "x">>}]
Specifiers ==
    [form : {"relative", "root", "bare"}, ext : {"", ".js", ".css"},
     parts : {<<"util">>, <<"..", "util">>, <<"lib">>, <<"@", "lib">>, <<"react">>, <<"w">>, <<"s">>,
              <<"..", "..", "util">>}]

Module(dir, name, layer) ==
    [dir |-> dir, name |-> name, stack |-> "backend", layer |-> layer, layer_root |-> dir,
     is_test |-> FALSE, is_entrypoint |-> FALSE, parse_error |-> FALSE]
Modules == <<Module(<<"app", "routes">>, "a", "presentation"), Module(<<"app", "services">>, "b", "service"),
             Module(<<"app", "models">>, "c", "data")>>
Imports == [source : 1 .. 3, target : 1 .. 3, type_only : BOOLEAN, lazy : BOOLEAN]

\* A package whose directory has its id, a directory beside a file of its name, an import each way.
Node(id, path) == [id |-> id, path |-> path, loc |-> 10]
Nodes == {Node(<<"app">>, <<"app", "__init__.py">>), Node(<<"app", "m">>, <<"app", "m.py">>),
          Node(<<"app", "s", "x">>, <<"app", "s", "x.py">>), Node(<<"w", "lib">>, <<"w", "lib.ts">>),
          Node(<<"w", "lib", "a">>, <<"w", "lib", "a.ts">>)}
NodeEdges == {<<<<"app">>, <<"app", "m">>>>, <<<<"app", "s", "x">>, <<"app", "m">>>>,
              <<<<"w", "lib">>, <<"w", "lib", "a">>>>, <<<<"app", "m">>, <<"app", "gone">>>>}
References == [name : {n.id : n \in Nodes} \union {n.path : n \in Nodes} \union {<<"w">>, <<"app", "s">>, <<"app", "gone">>},
               slash : BOOLEAN]
\* An issue with a citation and its reverse, one with a part of it, one with none.
ReviewOf(citation) ==
    <<<<citation, Reverse(citation)>>, <<SubSeq(citation, 2, Len(citation))>>, <<>>>>

(***************************************************************************)
(* Code, as the signals see it.                                            *)
(***************************************************************************)
OpenCall == [name |-> "open", owner |-> "", attribute |-> FALSE]
LogCall == [name |-> "warning", owner |-> "logger", attribute |-> TRUE]
Statements ==
    {[form |-> "pass", calls |-> {}, uses_alias |-> FALSE], [form |-> "raise", calls |-> {}, uses_alias |-> FALSE],
     [form |-> "other", calls |-> {LogCall}, uses_alias |-> FALSE], [form |-> "other", calls |-> {}, uses_alias |-> TRUE]}
Excepts ==
    {[kind |-> "except", handler |-> [types |-> types, alias |-> alias, body |-> <<statement>>, span |-> 26]] :
        types \in {<<>>, <<"Exception">>, <<"KeyError", "OSError">>}, alias \in BOOLEAN, statement \in Statements}
Inside(type, body) == [type |-> type, body |-> body]
Ancestors ==
    {<<>>, <<Inside("try", TRUE), Inside("function", TRUE)>>, <<Inside("try", FALSE), Inside("function", TRUE)>>,
     <<Inside("function", FALSE), Inside("try", TRUE)>>, <<Inside("function", TRUE)>>}
CallSites == {[kind |-> "call", ancestors |-> a, call |-> c] : a \in Ancestors, c \in {OpenCall, LogCall}}
Link(method, args, io) == [method |-> method, args |-> args, io |-> io]
Chains ==
    {<<Link("", 1, TRUE)>>, <<Link("", 1, TRUE), Link("then", 1, FALSE)>>,
     <<Link("", 1, TRUE), Link("then", 1, FALSE), Link("catch", 1, FALSE)>>,
     <<Link("", 1, TRUE), Link("then", 2, FALSE), Link("query", 1, TRUE)>>}
ChainSites ==
    {[kind |-> "chain", ancestors |-> a, role |-> role, chain |-> chain] :
        a \in Ancestors, role \in {"statement", "await", "other"}, chain \in Chains}
CatchSites == {[kind |-> "catch", statements |-> s] : s \in {{}, {"console"}, {"console", "other"}}}

TestNode(type, name, owner, children) ==
    [type |-> type, name |-> name, owner |-> owner, children |-> children, bases |-> {}]
ExpectCall == TestNode("call", "expect", "", <<>>)
Bodies == {<<>>, <<TestNode("assert_statement", "", "", <<>>)>>, <<TestNode("call", "run", "", <<>>)>>,
           <<ExpectCall>>, <<TestNode("call", "toBe", "x", <<ExpectCall>>)>>}
Tops == {TestNode("function", "test_one", "", body) : body \in Bodies}
        \union {TestNode("function", "helper", "", <<>>),
                TestNode("call", "it", "", <<TestNode("function", "f", "", <<ExpectCall>>)>>),
                TestNode("class", "TestThing", "", <<TestNode("function", "test_two", "", <<>>)>>)}
TestFiles == {[path |-> {"test"}, language |-> language, loc |-> 10, imports |-> imports, top |-> <<top>>] :
                 language \in {"python", "javascript"}, top \in Tops, imports \in {{}, {"requests"}}}
\* An LCOV report always has counts, a summary of Istanbul's a percentage with them.
CoverageReports ==
    {[directory |-> directory, kind |-> form, covered |-> c[1], total |-> c[2], pct |-> c[3], readable |-> TRUE] :
        directory \in {"a", "b"}, form \in {"lcov", "cobertura", "istanbul-summary"},
        c \in {<<1, 2, 500>>, <<3, 4, 750>>, <<0, 0, 0>>, <<-1, -1, 300>>, <<-1, 4, 250>>}}

JobNames == <<"p", "q", "r">>
Steps == {[categories |-> {"tests"}, install |-> FALSE], [categories |-> {"build"}, install |-> FALSE],
          [categories |-> {"tests", "build"}, install |-> TRUE], [categories |-> {"lint"}, install |-> FALSE]}
Jobs == {[name |-> name, hidden |-> FALSE, runs |-> TRUE, script |-> <<step>>, stage |-> stage,
          needs |-> needs, dependencies |-> {}] :
            name \in Range(JobNames), step \in Steps, stage \in {"build", "test"}, needs \in SUBSET Range(JobNames)}
Workflow(jobs) == [stages |-> <<>>, before |-> <<>>, values |-> {}, jobs |-> jobs]

(***************************************************************************)
(* A log: the three newest commits, of which a merge and the ends of a     *)
(* shallow clone may be; and lines or commits per author.                  *)
(***************************************************************************)
Path(rank, form) == [rank |-> rank, kind |-> form]
Main == Path(1, "source")
Lock == Path(2, "lockfile")
Gone == Path(3, "source")
Other == Path(4, "source")
Lines(path) == [path |-> path, lines |-> 2]
Commits(n) ==
    [sha : {n}, parents : {<<>>, <<n + 1>>, <<n + 2>>, <<n + 1, n + 2>>}, author : {1, 2}, bot : {FALSE}, day : {0},
     subject : {{}}, files : {<<>>, <<Lines(Main)>>, <<Lines(Main), Lines(Lock), Lines(Gone)>>}, boundary : BOOLEAN]
CommitAt(n) == {c \in Commits(n) : c.boundary => c.parents = <<>>}
Present == {Main, Lock, Other}
Tree == {[path |-> p, symlink |-> FALSE, readable |-> TRUE, large |-> FALSE, ignored |-> FALSE, decisions |-> 2] :
            p \in Present}
Complexity == [p \in {Main, Other} |-> IF p = Main THEN 2 ELSE 1]

Name(id, styles, short) ==
    [id |-> id, styles |-> styles, short |-> short, generic |-> id = "data", private |-> FALSE]
NameX == Name("x", {"snake", "camel"}, TRUE)
NameE == Name("e", {"snake", "camel"}, TRUE)
Data == Name("data", {"snake", "camel"}, FALSE)
Identifier(name) == [type |-> "identifier", name |-> name, children |-> <<>>]
SyntaxNode(type, name, bound, children) ==
    [type |-> type, name |-> name, bound |-> bound, value |-> "", documented |-> TRUE, children |-> children]
Binding(type, name) == SyntaxNode(type, Data, <<Identifier(name)>>, <<>>)
Bindings == {Binding(type, name) : type \in {"assignment", "for", "lambda", "var", "const", "arrow", "as", "catch"},
                                   name \in {NameX, NameE, Name("UP", {"UPPER", "Pascal"}, FALSE)}}
SyntaxNodes ==
    Bindings
    \union {SyntaxNode(type, name, <<Identifier(NameX)>>, <<below>>) :
               type \in {"function", "class"}, name \in {Name("Cls", {"Pascal"}, FALSE), Data},
               below \in {b \in Bindings : b.bound[1].name = NameX}}
    \union {SyntaxNode("except", Data, <<>>, <<Binding("as", NameE)>>),
            SyntaxNode("assignment", Data,
                       <<[type |-> "tuple_pattern", name |-> Data,
                          children |-> <<Identifier(NameX), Identifier(Data)>>]>>, <<>>)}
SyntaxTree(language, nodes) ==
    [language |-> language, nodes |-> nodes, statements |-> <<>>, comments |-> <<>>, nonBlank |-> 3]

(***************************************************************************)
(* Manifests, lockfiles, versions, what is imported and what registries    *)
(* answer; advisories, tool reports and vulnerability databases.           *)
(***************************************************************************)
Entry(section, name, spec, registry) ==
    [section |-> section, group |-> <<"dev">>, name |-> name, spec |-> spec, registry |-> registry]
Version(a, b, c) == [release |-> <<a, b, c>>, pre |-> FALSE]
AtLeast(major) == <<<<[op |-> ">=", release |-> <<major, 0, -1>>]>>>>
Entries == {Entry("dependencies", <<"x">>, <<>>, "yes"), Entry("optional-dependencies", <<"x">>, AtLeast(1), "yes"),
            Entry("dependency-groups", <<"x">>, AtLeast(2), "yes"),
            Entry("dependencies", <<"py+", "yaml">>, AtLeast(2), "no")}
Manifest(path, order, form, stem, entries) ==
    [path |-> path, order |-> order, form |-> form, stem |-> stem, entries |-> entries]
Manifests ==
    {Manifest(path, "toml", "pyproject.toml", <<>>, <<entry>>) : path \in {<<>>, <<"a">>}, entry \in Entries}
    \union {Manifest(<<>>, order, "requirements", stem, <<Entry("", <<"x">>, AtLeast(3), "yes")>>) :
               order \in {"in", "txt"}, stem \in {<<"dev">>, <<>>}}

Place(dir, mods) == [dir |-> dir, mods |-> mods]
LockNames == {<<"x">>, <<"y">>}
LockEntries ==
    {<<place, [version |-> version, deps |-> deps, link |-> Health!NoPlace]>> :
        place \in {Place("", <<<<"x">>>>), Place("", <<<<"y">>>>), Place("", <<<<"x">>, <<"y">>>>),
                   Place("w", <<>>), Place("w", <<<<"y">>>>)},
        version \in {1, 2}, deps \in {{}, LockNames}}
    \union {<<Place("", <<<<"z">>>>), [version |-> 1, deps |-> {}, link |-> Place("w", <<>>)]>>}
\* A lockfile holds a place once.
Lockfile == [p \in {items[i][1] : i \in DOMAIN items} |->
                 items[CHOOSE i \in DOMAIN items : items[i][1] = p /\ \A j \in 1 .. (i - 1) : items[j][1] # p][2]]

Versions == {Version(a, b, 0) : a, b \in 0 .. 2} \union {[release |-> <<1, 2, 0>>, pre |-> TRUE]}
Published == [found |-> TRUE, latest |-> IF items = <<>> THEN Health!NoVersion ELSE items[1],
              versions |-> Range(items), sizes |-> <<>>, file_counts |-> <<>>]

Usage(language, target, words, names, method) ==
    [language |-> language, target |-> target, words |-> words, names |-> names, method |-> method]
Usages ==
    {Usage("python", target, words, names, method) :
        target \in {<<"yaml">>, <<"google">>}, words \in {<<"yaml">>, <<"google", "cloud">>},
        names \in {{}, {"s"}}, method \in {"declared", "undeclared", "stdlib"}}
    \union {Usage("javascript", <<"x">>, <<"x">>, {}, method) : method \in {"declared", "undeclared"}}
Dependency(key, form) == [key |-> key, kind |-> form, manifest |-> 0, spec |-> AtLeast(1), registry |-> TRUE]
DependenciesOf(python, node) ==
    [ecosystem \in {"PyPI", "npm"} |->
        IF ecosystem = "npm" THEN [k \in node |-> Dependency(k, "dev")]
        ELSE [k \in python |-> Dependency(k, "runtime")]]
DependencySets ==
    {DependenciesOf(python, node) : python \in SUBSET {<<"py+", "yaml">>, <<"google", "cloud", "s">>, <<"google">>},
                                    node \in SUBSET {<<"x">>, <<"eslint", "x">>}}

Three == DependenciesOf({<<"a">>, <<"b">>}, {<<"n">>})
ThreeKeys == <<<<"PyPI", <<"a">>>>, <<"PyPI", <<"b">>>>, <<"npm", <<"n">>>>>>
Answers == [d \in Range(ThreeKeys) |->
               LET i == CHOOSE j \in 1 .. 3 : ThreeKeys[j] = d IN IF i <= Len(items) THEN items[i] ELSE "found"]
ThreeInfos == [d \in Range(ThreeKeys) |->
                  [found |-> TRUE, latest |-> Version(2, 0, 0), versions |-> {Version(1, 0, 0), Version(2, 0, 0)},
                   sizes |-> Version(1, 0, 0) :> 5, file_counts |-> Version(2, 0, 0) :> 1]]

AdvisoryEvents == [event : {"introduced", "fixed"}, version : {<<0>>, <<1>>, <<1, 1>>, <<2>>}]
EventLists == {<<a>> : a \in AdvisoryEvents}
              \union {<<a, b>> : a \in {e \in AdvisoryEvents : e.event = "introduced"},
                                 b \in {e \in AdvisoryEvents : e.event = "fixed"}}
Advisories == {[id |-> id, label |-> label, affected |-> {[package |-> "p", git |-> FALSE, events |-> events]}] :
                  id \in {1, 2}, label \in {"none", "warning"}, events \in EventLists}
Reports == [malformed : BOOLEAN, rule_id : {"r"}, path : {"a", "b"}, start_line : {1, 3}, start_col : {1},
            end_line : {2}, end_col : {1, 2}, severity : {"ERROR"}]
Databases == [cached : {"missing", "stale", "fresh"}, refreshed : BOOLEAN, download : BOOLEAN]

(***************************************************************************)
(* Sites and the styles of their elements.                                 *)
(***************************************************************************)
Far == [same |-> FALSE, lookalike |-> FALSE, distance |-> 5, length |-> 6, token |-> FALSE, inside |-> FALSE,
        subdomain |-> FALSE]
Reference(brand, blank, similarity, favicon) ==
    [brand |-> brand, blank |-> blank, similarity |-> similarity, favicon |-> favicon]
PlainSite ==
    [official |-> 0, ip |-> FALSE, platform |-> FALSE, tld |-> "com", depth |-> 0, punycode |-> FALSE, labelled |-> TRUE,
     resembles |-> <<<<Far, Far>>, <<[Far EXCEPT !.length = 5]>>>>, days |-> 400, dns |-> "mail", certificate |-> {},
     listings |-> <<[source |-> "google_safe_browsing", listed |-> "unchecked"], [source |-> "openphish", listed |-> "no"]>>,
     https |-> TRUE, screenshot |-> "clear", favicon |-> TRUE, references |-> <<>>, forms |-> <<>>, orphans |-> {},
     title |-> {}, text |-> {}, links |-> <<>>, hops |-> <<"a">>]
SITE_TRAITS == 17
With(site, n) ==
    CASE n = 1 -> [site EXCEPT !.official = 1]
      [] n = 2 -> [site EXCEPT !.platform = TRUE, !.depth = 3, !.tld = "top"]
      [] n = 3 -> [site EXCEPT !.resembles[1][2].lookalike = TRUE, !.resembles[2][1].distance = 1, !.punycode = TRUE]
      [] n = 4 -> [site EXCEPT !.resembles[1][1].distance = 1, !.resembles[1][2].inside = TRUE]
      [] n = 5 -> [site EXCEPT !.resembles[2][1].same = TRUE]
      [] n = 6 -> [site EXCEPT !.days = 6]
      [] n = 7 -> [site EXCEPT !.days = 1095]
      [] n = 8 -> [site EXCEPT !.https = FALSE, !.certificate = {"untrusted"}]
      [] n = 9 -> [site EXCEPT !.references = Append(@, Reference(1, FALSE, 92, 20))]
      [] n = 10 -> [site EXCEPT !.references = Append(@, Reference(2, FALSE, 85, 96))]
      [] n = 11 -> [site EXCEPT !.references = Append(@, Reference(0, FALSE, 95, 96))]
      [] n = 12 -> [site EXCEPT !.forms = Append(@, [fields |-> {"password"}, action |-> "other"])]
      [] n = 13 -> [site EXCEPT !.forms = Append(@, [fields |-> {"card"}, action |-> "other"]), !.text = {1, 2}]
      [] n = 14 -> [site EXCEPT !.title = {2}, !.hops = <<"a", "b">>]
      [] n = 15 -> [site EXCEPT !.links = <<1, 1, 1, 2, 2, 2>>]
      [] n = 16 -> [site EXCEPT !.listings[2].listed = "host"]
      [] n = 17 -> [site EXCEPT !.listings[1].listed = "url", !.dns = "no mail"]
Site == FoldLeft(With, PlainSite, items)
Ages == {0, 6, 7, 29, 30, 89, 90, 364, 365, 1094, 1095}

Color(l, a, b) == [l |-> l, a |-> a, b |-> b]
Painted(color) == [color |-> color, alpha |-> 100]
Nothing == Painted(Look!NoColor)
White == Painted(Color(1000, 0, 0))
Near == Painted(Color(995, 0, 0))
Nearer == Painted(Color(989, 0, 0))
Grey == Painted(Color(500, 0, 0))
Dark == Painted(Color(200, 0, 0))
Blue == Painted(Color(500, 0, -150))
Teal == Painted(Color(500, -150, 0))
Glass == [color |-> Color(0, 0, 0), alpha |-> 60]
Element(background, color, border, area, fold, button, link, text, size, radius, space) ==
    [background |-> background, color |-> color, border |-> border, area |-> area, fold |-> fold, button |-> button,
     link |-> link, text |-> text, size |-> size, radius |-> radius, space |-> space]
Elements ==
    {Element(White, Dark, Nothing, 90, TRUE, FALSE, FALSE, 300, 16, 0, <<8, 16>>),
     Element(Dark, White, Grey, 50, FALSE, FALSE, FALSE, 300, 15, 4, <<12>>),
     Element(Near, Grey, Nothing, 20, FALSE, FALSE, FALSE, 100, 64, 999, <<24, 300>>),
     Element(Nearer, Grey, Teal, 5, FALSE, FALSE, FALSE, 0, 16, 8, <<4>>),
     Element(Blue, White, Nothing, 2, TRUE, TRUE, FALSE, 10, 14, 9999, <<6>>),
     Element(Teal, Teal, Nothing, 2, FALSE, TRUE, TRUE, 10, 17, 12, <<>>),
     Element(Glass, Blue, Nothing, 30, FALSE, FALSE, TRUE, 40, 16, 2, <<8>>),
     Element(Nothing, Nothing, Nothing, 0, FALSE, FALSE, FALSE, 1, 100, 0, <<5>>)}
Claims == {<<Look!NoColor, Blue.color>>, <<Color(505, 0, -150), Color(750, 0, 0)>>, <<Dark.color>>}

(***************************************************************************)
(* Requests, archives, diffs and the edits they make.                      *)
(***************************************************************************)
Free == [id |-> 1, tier |-> "free", overrides |-> [n \in {"scans"} |-> 1]]
Request(bearer, consumes, cost, gap, lag) ==
    [bearer |-> bearer, cookie |-> Limit!NoUser, safe |-> FALSE, csrf |-> FALSE, forwarded |-> <<"b", "a">>, host |-> "h",
     exempt |-> FALSE, consumes |-> consumes, cost |-> cost, gap |-> gap, lag |-> lag]
Requests ==
    {Request(Limit!NoUser, "scans", 1, gap, lag) : gap \in {0, 1, 3}, lag \in {0, 1}}
    \union {Request(Limit!NoUser, "nothing", 1, gap, 0) : gap \in {0, 1, 4}}
    \union {Request(Limit!NoUser, "scans", 0, 1, 0), Request(Limit!NoUser, "pull_requests", 1, 1, 0), Request(Free, "scans", 1, 1, 0),
            [Request(Limit!NoUser, "scans", 1, 1, 0) EXCEPT !.cookie = Free]}

Zipped(path, dir, size, stream) ==
    [path |-> path, plain |-> TRUE, encrypted |-> FALSE, symlink |-> FALSE, dir |-> dir, size |-> size, stream |-> stream]
ZipPaths == {<<>>, <<"a">>, <<"a", "b">>, <<"c">>}
ZipEntries ==
    {Zipped(path, TRUE, 0, "whole") : path \in ZipPaths}
    \union {Zipped(path, FALSE, size, "whole") : path \in ZipPaths, size \in 0 .. 2}
    \union {Zipped(<<"c">>, FALSE, 1, stream) : stream \in {"mismatch", "ends", "unreadable"}}
    \union {Zipped(<<"c">>, FALSE, 3, "whole"), [Zipped(<<"c">>, FALSE, 1, "whole") EXCEPT !.symlink = TRUE],
            [Zipped(<<"c">>, TRUE, 0, "whole") EXCEPT !.plain = FALSE]}

Part(form, name, from) == [form |-> form, name |-> name, from |-> from]
Headers == {Part("file", "f", "f"), Part("file", "g", "g"), Part("file", "g", "null"), Part("file", "h", "f")}
HunkLines == {Part(form, "", "") : form \in {" ", "", "-", "+"}} \union {Part("---", "x", "")}
NextParts ==
    IF items = <<>> THEN Headers
    ELSE CASE Last(items).form = "file" -> {Part("hunk", "", "")}
           [] Last(items).form = "hunk" -> HunkLines
           [] OTHER -> HunkLines \union Headers \union {Part("hunk", "", "")}
Applications == {<<"ok", "rejected">>, <<"rejected", "ok">>, <<"rejected", "timeout">>}

(***************************************************************************)
(* Suggestions in the order they are selected, and what GitHub holds.      *)
(***************************************************************************)
Edit(at, old, new) == [at |-> at, old |-> old, new |-> new]
FixPatches == {"f" :> Edit(1, "a", "b"), "f" :> Edit(2, "a", "b"), "g" :> Edit(1, "a", "b"),
               ("f" :> Edit(1, "a", "c")) @@ ("g" :> Edit(2, "a", "c"))}
Selected(id, call, patch, status, validation) ==
    [id |-> id, row |-> [of_scan |-> TRUE, status |-> status, validation |-> validation,
                         llm_call_id |-> call, patch |-> patch]]
Selections ==
    {Selected(id, call, patch, "ready", "valid") : id \in 1 .. 3, call \in {1, 2}, patch \in FixPatches}
    \union {Selected(id, 1, "f" :> Edit(1, "a", "b"), "ready", "syntax_error") : id \in 1 .. 3}
SuggestionRows == [id \in {item.id : item \in Range(items)} |-> (CHOOSE item \in Range(items) : item.id = id).row]
\* All that is selected, the first of it twice.
Asked == [i \in DOMAIN items |-> items[i].id] \o (IF items = <<>> THEN <<>> ELSE <<items[1].id>>)
\* What the rows may be by the time the task runs: as they were, one generating again, or with a new fix.
LaterRows ==
    {SuggestionRows}
    \union {[SuggestionRows EXCEPT ![id].status = "generating"] : id \in DOMAIN SuggestionRows}
    \union {[SuggestionRows EXCEPT ![id].patch = "g" :> Edit(2, "a", "b")] : id \in DOMAIN SuggestionRows}
ScanOf == [repo_ref |-> "dev", commit_sha |-> 1]
Scanned == [sha |-> 1, files |-> [f |-> <<"a", "a">>, g |-> <<"a", "a">>]]
Moved == [sha |-> 2, files |-> [f |-> <<"b", "a">>, g |-> <<"a", "a">>]]
Removed == [sha |-> 3, files |-> [f |-> <<"a", "a">>, g |-> <<>>]]
Hub(heads, can_push, repository, fork) ==
    [default_branch |-> "main", heads |-> heads, can_push |-> can_push,
     taken |-> [repository |-> repository, fork |-> fork]]
Hubs == {Hub([main |-> Removed, dev |-> Scanned], TRUE, {}, {}), Hub([main |-> Moved], FALSE, {<<>>, <<2>>}, {}),
         Hub([main |-> Scanned, dev |-> Removed], TRUE, {<<>>, <<2>>, <<3>>}, {<<>>, <<3>>})}

(***************************************************************************)
(* The inputs of a kind, and how long they get.                            *)
(***************************************************************************)
Chosen == [python_files |-> 8, script_files |-> 6, site |-> SITE_TRAITS]
Alphabets ==
    [scored |-> ScoredFindings, raw |-> RawFindings, imports |-> Imports, citation |-> References,
     code |-> Excepts \union CallSites \union ChainSites \union CatchSites,
     tests |-> TestFiles, coverage |-> CoverageReports, jobs |-> Jobs, lines |-> 0 .. 4,
     python |-> SyntaxNodes, javascript |-> SyntaxNodes, manifests |-> Manifests, lockfile |-> LockEntries,
     versions |-> Versions, usages |-> Usages, answers |-> {"cached", "found", "missing", "down", "late"},
     advisories |-> Advisories, reports |-> Reports, databases |-> Databases, styles |-> Elements,
     requests |-> Requests, archive |-> ZipEntries, edits |-> {"keep", "drop", "add"}, plan |-> Selections]
Bounds ==
    [scored |-> 3, raw |-> 4, imports |-> 3, citation |-> 3, code |-> 2, tests |-> 2, coverage |-> 2, jobs |-> 3, lines |-> 4,
     python |-> 2, javascript |-> 2, manifests |-> 3, lockfile |-> 3, versions |-> 3, usages |-> 2, answers |-> 3,
     advisories |-> 2, reports |-> 3, databases |-> 3, styles |-> 3,
     python_files |-> 8, script_files |-> 6, site |-> 4, commits |-> 3,
     requests |-> 4, archive |-> 3, edits |-> 8, diff |-> 6, plan |-> 3]
Kinds == DOMAIN Bounds

Extensions ==
    CASE kind \in DOMAIN Chosen -> (IF items = <<>> THEN 1 ELSE Last(items) + 1) .. Chosen[kind]
      [] kind = "commits" -> CommitAt(Len(items) + 1)
      [] kind = "diff" -> NextParts
      [] kind = "jobs" -> {job \in Jobs : job.name = JobNames[Len(items) + 1]}
      [] kind = "plan" -> {s \in Selections : s.id \notin {item.id : item \in Range(items)}}
      [] OTHER -> Alphabets[kind]

Init == kind \in Kinds /\ items = <<>>
Grow ==
    /\ kind \in Kinds /\ Len(items) < Bounds[kind]
    /\ \E item \in Extensions : items' = Append(items, item)
    /\ kind' = kind
Judge == kind # "judged" /\ kind' = "judged" /\ items' = <<>>
Next == Grow \/ Judge
vars == <<kind, items>>
Spec == Init /\ [][Next]_vars

(***************************************************************************)
(* Properties.  Each is the conjunction of what the modules of one part    *)
(* state of their rules; these are explained there.                        *)
(***************************************************************************)
\* The score and its findings: removing a finding raises the score by exactly the impact shown for
\* it and never lowers it, whatever the order; a failed analyzer is reported; no raw finding is lost
\* in a merge, groups do not chain, and the comparison of two scans is symmetric.
ScoringIsSound == [][Judge =>
        /\ kind = "scored" => \A context \in Contexts, config \in Configurations :
               /\ Score!ImpactsAreExact(items, context, config)
               /\ Score!FixesNeverHurt(items, context, config)
               /\ Score!OrderIsIrrelevant(items, context, config)
               /\ Score!FailuresAreReported(items, context, config)
        /\ kind = "raw" =>
               /\ Merge!NothingIsLost(items) /\ Merge!SameStartMerges(items) /\ Merge!GroupsDoNotChain(items)
               /\ Merge!AgreementIsForeign(items) /\ Merge!ComparisonIsSymmetric(items)]_vars

\* The import graph: an import resolves to files of the repository, by Python's rules for packages
\* and siblings; every runtime cycle is reported up to the caps and no type-only one, the layers a
\* cycle crosses are reported inverted, and what is shown keeps the worst issues and every edge; a
\* review's citation is kept exactly when the graph has what it names.
Chosens(files) == Repository({files[items[i]] : i \in DOMAIN items})
Sources(repository, python) == {m \in Resolve!modules(repository) : (m.ext = ".py") = python}
GraphIsSound == [][Judge =>
        /\ kind = "python_files" =>
               LET repository == Chosens(PythonFiles)
               IN \A m \in Sources(repository, TRUE), raw \in PythonImports :
                     /\ Resolve!TargetsAreFiles(repository, Resolve!PythonResolve(repository, Standard, Declared, m, raw))
                     /\ Resolve!SiblingsAreNotTopLevel(repository, Standard, Declared, m, raw)
                     /\ Resolve!RelativeStaysInPackage(repository, Standard, Declared, m, raw)
        /\ kind = "script_files" =>
               LET repository == Chosens(ScriptFiles)
               IN \A m \in Sources(repository, FALSE), specifier \in Specifiers :
                     Resolve!TargetsAreFiles(repository, Resolve!JsResolve(repository, {"fs"}, m.dir, specifier))
        /\ kind = "imports" =>
               /\ Graph!CyclesAreComplete(1 .. 3, items) /\ Graph!TypesMakeNoCycles(1 .. 3, items)
               /\ Graph!CyclesInvertLayers(Modules, items) /\ Graph!DepthIsBounded(1 .. 3, items)
               /\ Graph!WorstIssuesKept(Modules, items)
               /\ \A limit \in 1 .. 3 :
                     /\ Graph!ViewFits(Modules, limit, {})
                     /\ Graph!ViewKeepsEdges(Modules, limit, {}, {<<"app">>}, items)
                     /\ Graph!ViewKeepsEdges(Modules, limit, {<<"app">>}, {}, items)
        /\ kind = "citation" =>
               /\ \A nodes \in {Nodes, {n \in Nodes : n.id # <<"app">>}} :
                     /\ Review!CitationsAreJudgedByTheGraph(items, nodes, NodeEdges)
                     /\ Review!ReviewIsSound(ReviewOf(items), nodes, NodeEdges)
               /\ items = <<>> => \A nodes \in SUBSET Nodes : Review!WhatIsShownIsCitable(nodes, NodeEdges)]_vars

\* The experimental signals: rates stay shares, a reported await has no handler around it, an
\* assertion or a CI step more never lowers a score, coverage lies between its reports, builds wait
\* for tests exactly where needs force it, and a shallow clone's edge is nobody's work.
SignalsAreSound == [][Judge =>
        /\ kind = "code" => /\ Handlers!RatesAreShares(items) /\ Handlers!ReportedAwaitsAreUnwrapped(items)
                            /\ Handlers!DefinitionsAreNotGuarded(items)
        /\ kind = "tests" => \A source \in {0, 10}, coverage \in {-1, 500} :
                                 Tests!AssertionsNeverHurt(items, source, coverage)
        /\ kind = "coverage" => Tests!CoverageIsBetween(items)
        /\ kind = "jobs" =>
               /\ Ci!NeedsMeanAlwaysAfter(Ci!_parse_gitlab(Workflow(items)).jobs)
               /\ Len(items) < 3 => \A job \in {j \in Jobs : j.name = "r"} :
                     Ci!AddingAJobNeverHurts(<<[readable |-> TRUE, provider |-> "gitlab", doc |-> Workflow(items)]>>, FALSE, job)
        /\ kind = "lines" => History!BusFactorIsLeast(items) /\ History!SharingNeverConcentrates(items)
        /\ kind = "commits" =>
               /\ History!ShallowTreesDoNotCount(items, Present, Complexity, <<Lines(Other), Lines(Other)>>)
               /\ History!ReviewingNeverHurts(items)
               /\ History!HotspotsAreHandWritten(items, Tree)
        /\ kind \in {"python", "javascript"} =>
               Advise!NamesCountOnce(SyntaxTree(kind, items)) /\ Advise!ShortNamesAreCounted(SyntaxTree(kind, items))]_vars

\* Dependencies: runtime beats dev in any order of manifests, lockfile counts fit their resolution,
\* an upgrade never lowers freshness, nothing unused is called phantom and no registry's silence is
\* taken for an answer; a recommended version fixes its group, and no ecosystem goes unchecked
\* without a warning or a failed run.
DependenciesAreSound == [][Judge =>
        /\ kind = "manifests" => Health!RuntimeWins(Range(items), "PyPI")
        /\ kind = "versions" => Health!UpgradingNeverHurts(Published)
        /\ kind = "lockfile" => /\ \A roots \in SUBSET LockNames : Health!LockCountsFit(Lockfile, roots)
                                /\ Health!NearestWins(Lockfile, LockNames)
        /\ kind = "usages" => \A deps \in DependencySets, complete \in SUBSET {"PyPI", "npm"} :
                                  Health!NothingUnusedIsPhantom(deps, complete, items, {}, {})
        /\ kind = "answers" => \A limit \in 1 .. 3, racing \in SUBSET Range(ThreeKeys) :
               Health!SilenceMeansChecked(Three, limit, Answers, racing, ThreeInfos, [e \in {"PyPI", "npm"} |-> <<>>], <<>>)
        /\ kind = "advisories" /\ items # <<>> => \A installed \in {<<0>>, <<1>>, <<1, 0>>} :
               Tools!UpgradeFixesGroup(Range(items), "p", installed)
        /\ kind = "reports" => Tools!OneReportPerPlace(items)
        /\ kind = "databases" => \A scanner \in {"ok", "failed"} :
               Tools!NothingUncheckedIsSilent(DOMAIN items, [e \in DOMAIN items |-> items[e].cached],
                   [e \in DOMAIN items |-> items[e].refreshed], [e \in DOMAIN items |-> items[e].download], scanner)]_vars

\* Sites: a signal counts once, impersonation is only said with evidence for the brand named, and
\* worse evidence never lowers the risk; clusters partition the colours measured, roles are among
\* them, and what a vision model claims adds no colour the page does not have.
SitesAreSound == [][Judge =>
        /\ kind = "site" => /\ Sites!EvidenceCountsOnce(Site) /\ Sites!ImpersonationHasEvidence(Site)
                            /\ \A days \in Ages : Sites!RiskIsMonotone(Site, days)
        /\ kind = "styles" => /\ Look!ClustersPartition(items) /\ Look!RolesAreUsable(items) /\ Look!ScalesAreNamed(items)
                              /\ \A claims \in Claims : Look!VisionInventsNothing(items, claims)]_vars

\* What is let in: no window holds more than its limit wherever it starts, who waits as told is let
\* in; an archive is extracted whole or not at all and within its limits; a patch is checked for
\* the files it changes, keeps their line endings, and what is shown of it is what it changes; the
\* plan of a pull request accounts for all that was selected, and what is written is the plan that
\* was previewed, which an unchanged repository only allows for groups in the order of their ids.
InputsAreSound == [][Judge =>
        /\ kind = "requests" => /\ Limit!WindowHolds(items, MAX_LAG) /\ Limit!RetryAfterSuffices(items)
                                /\ Limit!RefusalIsAdvertised(items)
        /\ kind = "archive" => Upload!ExtractionIsWhole(items) /\ Upload!ExtractionIsBounded(items)
        /\ kind = "diff" => /\ Patch!EndingsFollowTheFile(items, {"f"})
                            /\ \A applies \in Applications : Patch!ValidChangesKnownFiles(items, {"f", "g"}, applies)
        /\ kind = "edits" => Patch!ExcerptsAlign(items)
        /\ kind = "plan" /\ ~Plan!Refused(SuggestionRows, Asked) => \A hub \in Hubs, use_fork \in BOOLEAN :
               LET plan == Plan!build_plan(ScanOf, SuggestionRows, Asked, <<>>, use_fork, hub)
               IN /\ Plan!PlanAccountsForAll(Asked, plan) /\ Plan!ConflictsAreNamed(plan)
                  /\ Plan!SuggestedIsFree(plan, hub)
                  /\ Plan!UnchangedIsWritten(ScanOf, SuggestionRows, plan, hub)
                  /\ \A later \in LaterRows, then \in Hubs :
                        Plan!OnlyThePreviewIsWritten(ScanOf, later, plan, then)]_vars
=============================================================================
