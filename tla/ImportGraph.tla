---------------------------- MODULE ImportGraph ----------------------------
(***************************************************************************)
(* The architecture graph of a repository: modules and the imports between *)
(* them, the structural issues found in it, and the view of it that is     *)
(* sent to the browser, folded to a number of nodes.                       *)
(*                                                                         *)
(* Modules are numbers, in the order of their paths.  attrs[m] has the     *)
(* attributes of a module; dir is the sequence of its directories, whose   *)
(* names are single words.                                                 *)
(***************************************************************************)
LOCAL INSTANCE Integers
LOCAL INSTANCE Sequences
LOCAL INSTANCE FiniteSets
LOCAL INSTANCE FiniteSetsExt
LOCAL INSTANCE SequencesExt

CONSTANTS MAX_CYCLE_LENGTH,       \* the longest cycles that are looked for
          MAX_CYCLES,             \* how many cycles are kept
          MAX_ISSUES_PER_TYPE

(***************************************************************************)
(* Module ids.  The extension is dropped and a package is its directory;   *)
(* files that would share an id keep their full paths.                     *)
(***************************************************************************)
module_id(path) ==
    IF path.name # "__init__" THEN Append(path.dir, path.name)
    ELSE IF path.dir = <<>> THEN <<"__init__">> ELSE path.dir

module_ids_for(paths) ==
    [p \in paths |-> IF \E q \in paths \ {p} : module_id(q) = module_id(p)
                     THEN Append(p.dir, p.name \o p.ext) ELSE module_id(p)]

(***************************************************************************)
(* Layers.                                                                 *)
(***************************************************************************)
STACKS == [backend |-> <<"presentation", "service", "data">>,
           frontend |-> <<"ui", "hooks", "api", "store">>]
_BACKEND_WORDS == [routes |-> "presentation", services |-> "service", models |-> "data"]
_FRONTEND_WORDS == [components |-> "ui", hooks |-> "hooks", api |-> "api", services |-> "api",
                    store |-> "store"]
_TEST_WORDS == {"tests", "spec", "e2e"}
NoLayer == [stack |-> "", layer |-> "", layer_root |-> <<>>]

\* "use" is the name of a script that starts with it: a hook.
_match_segment(word, language, frontend_project) ==
    CASE language # "python" /\ word = "use" -> <<"frontend", "hooks">>
      [] language = "python" /\ word = "api" -> <<"backend", "presentation">>
      [] language # "python" /\ frontend_project /\ word \in DOMAIN _FRONTEND_WORDS
            -> <<"frontend", _FRONTEND_WORDS[word]>>
      [] word \in DOMAIN _BACKEND_WORDS -> <<"backend", _BACKEND_WORDS[word]>>
      [] language # "python" /\ ~frontend_project /\ word = "api" -> <<"backend", "presentation">>
      [] OTHER -> <<>>

is_test(path) == Range(Append(path.dir, path.name)) \intersect _TEST_WORDS # {}

\* The innermost segment that names a layer decides; the file's own name comes first.
infer_layer(path, language, frontend_project) ==
    LET segments == Append(path.dir, path.name)
        named == {k \in DOMAIN segments : _match_segment(segments[k], language, frontend_project) # <<>>}
        match == _match_segment(segments[Max(named)], language, frontend_project)
    IN IF is_test(path) \/ named = {} THEN NoLayer
       ELSE [stack |-> match[1], layer |-> match[2], layer_root |-> SubSeq(segments, 1, Max(named))]

_ENTRYPOINT_STEMS == {"__init__", "main", "index"}
_ENTRYPOINT_DIRS == {"scripts", "migrations"}
is_entrypoint(path, language) ==
    \/ is_test(path)
    \/ path.name \in _ENTRYPOINT_STEMS
    \/ Range(path.dir) \intersect _ENTRYPOINT_DIRS # {}
    \/ language # "python" /\ "pages" \in Range(path.dir)

(***************************************************************************)
(* The graph.  resolved is a sequence of imports [source, target,          *)
(* type_only, lazy] between modules.                                       *)
(***************************************************************************)
Refs(resolved, e) == {k \in DOMAIN resolved : <<resolved[k].source, resolved[k].target>> = e}
edges(resolved) ==
    {e \in {<<resolved[k].source, resolved[k].target>> : k \in DOMAIN resolved} : e[1] # e[2]}

\* Every import of the pair is erased at run time.
type_only(resolved, e) == \A k \in Refs(resolved, e) : resolved[k].type_only
\* Every import of the pair at run time happens inside a function.
lazy(resolved, e) ==
    /\ ~type_only(resolved, e)
    /\ \A k \in Refs(resolved, e) : ~resolved[k].type_only => resolved[k].lazy

\* A variant that keeps the pair out once any of its imports is erased, for comparison.
RuntimeIfAll(resolved) ==
    {e \in edges(resolved) : \A k \in Refs(resolved, e) : ~resolved[k].type_only}
runtime_graph(resolved) == {e \in edges(resolved) : ~type_only(resolved, e)}

fan_in(resolved, m) == Cardinality({e \in edges(resolved) : e[2] = m})
fan_out(resolved, m) == Cardinality({e \in edges(resolved) : e[1] = m})

(***************************************************************************)
(* Cycles: simple cycles from their smallest module, shortest first.  The  *)
(* enumeration is also cut at a ceiling above MAX_CYCLES, which changes    *)
(* which cycles are kept, never whether some are not.                      *)
(***************************************************************************)
Closure(nodes, E) ==
    FoldSet(LAMBDA k, R : R \union {<<a, b>> \in nodes \X nodes : <<a, k>> \in R /\ <<k, b>> \in R},
            E, nodes)
ComponentOf(nodes, E, m) ==
    {n \in nodes : n = m \/ {<<m, n>>, <<n, m>>} \subseteq Closure(nodes, E)}
Components(nodes, E) == {ComponentOf(nodes, E, m) : m \in nodes}
cyclic_modules(nodes, E) == UNION {c \in Components(nodes, E) : Cardinality(c) > 1}

CycleEdges(c) == {<<c[k], c[(k % Len(c)) + 1]>> : k \in DOMAIN c}
SimpleCycles(nodes, E, length) ==
    UNION {{c \in [1 .. n -> nodes] :
                /\ \A k \in 2 .. n : c[1] < c[k]
                /\ \A k, l \in 1 .. n : k # l => c[k] # c[l]
                /\ CycleEdges(c) \subseteq E} : n \in 2 .. length}

Shorter(c, d) ==
    \/ Len(c) < Len(d)
    \/ Len(c) = Len(d) /\ \E k \in DOMAIN c : c[k] < d[k] /\ \A l \in 1 .. k - 1 : c[l] = d[l]

find_cycles(nodes, E) ==
    LET found == SetToSortSeq(SimpleCycles(nodes, E, MAX_CYCLE_LENGTH), Shorter)
    IN [cycles |-> SubSeq(found, 1, Min({MAX_CYCLES, Len(found)})),
        truncated |-> Len(found) > MAX_CYCLES]

(***************************************************************************)
(* Issues.                                                                 *)
(***************************************************************************)
Issue(type, severity, modules, involved) ==
    [type |-> type, severity |-> severity, modules |-> modules, edges |-> involved]

_cycle_issues(resolved, cycles) ==
    [k \in DOMAIN cycles |->
        Issue("circular_dependency",
              IF \E e \in CycleEdges(cycles[k]) : lazy(resolved, e) THEN "warning" ELSE "error",
              cycles[k], CycleEdges(cycles[k]))]

RankIn(attrs, m) == CHOOSE k \in DOMAIN STACKS[attrs[m].stack] : STACKS[attrs[m].stack][k] = attrs[m].layer

\* Both ends have a layer of one stack, neither is a test, and the importer is not inside the
\* directory that gives the target its layer.
Layered(attrs, e) ==
    LET src == attrs[e[1]]  dst == attrs[e[2]]
        own == Append(dst.dir, dst.name)
    IN /\ src.layer # "" /\ dst.layer # "" /\ src.stack = dst.stack
       /\ ~src.is_test /\ ~dst.is_test
       /\ ~(dst.layer_root # own /\ IsPrefix(dst.layer_root, src.dir))

skipped(attrs, e) ==
    {k \in RankIn(attrs, e[1]) + 1 .. RankIn(attrs, e[2]) - 1 :
        \E m \in DOMAIN attrs : /\ attrs[m].stack = attrs[e[1]].stack
                                /\ attrs[m].layer = STACKS[attrs[m].stack][k]}

_layer_issues(attrs, E) ==
    LET layered == {e \in E : Layered(attrs, e)}
    IN {Issue("layer_violation", "error", e, {e}) :
            e \in {d \in layered : RankIn(attrs, d[1]) > RankIn(attrs, d[2])}}
       \union
       {Issue("layer_violation", "warning", e, {e}) : e \in {d \in layered : skipped(attrs, d) # {}}}

_orphans(attrs, resolved) ==
    {m \in DOMAIN attrs : /\ fan_in(resolved, m) = 0
                          /\ ~attrs[m].is_entrypoint
                          /\ ~attrs[m].parse_error}

\* The longest import chain, with each cycle collapsed to one node.
_max_depth(nodes, E) ==
    LET parts == Components(nodes, E)
        next(c) == {d \in parts \ {c} : \E e \in E : e[1] \in c /\ e[2] \in d}
        depth[c \in parts] == IF next(c) = {} THEN 0 ELSE 1 + Max({depth[d] : d \in next(c)})
    IN IF nodes = {} THEN 0 ELSE Max({depth[c] : c \in parts})

\* The issues of one type that are kept: the worst first.
_cap(issues) ==
    LET errors == SelectSeq(issues, LAMBDA i : i.severity = "error")
        ranked == errors \o SelectSeq(issues, LAMBDA i : i.severity # "error")
    IN SubSeq(ranked, 1, Min({MAX_ISSUES_PER_TYPE, Len(ranked)}))

(***************************************************************************)
(* The view.                                                               *)
(***************************************************************************)
Directory(dir) == <<"dir", dir>>
Single(m) == <<"module", m>>

\* The shallowest collapsed ancestor wins; then the directory at the depth of the view, or
\* deeper through expanded ones; a directory that is expanded shows its files.
group_key(attrs, m, depth, expand, collapse) ==
    LET dir == attrs[m].dir
        collapsed == {k \in 1 .. Len(dir) : SubSeq(dir, 1, k) \in collapse}
        start == Min({depth, Len(dir)})
        open == {k \in start .. Len(dir) : \A l \in start .. k - 1 : SubSeq(dir, 1, l) \in expand}
    IN IF collapsed # {} THEN Directory(SubSeq(dir, 1, Min(collapsed)))
       ELSE IF depth = 0 \/ dir = <<>> \/ (Max(open) = Len(dir) /\ dir \in expand) THEN Single(m)
       ELSE Directory(SubSeq(dir, 1, Max(open)))

Keys(attrs, depth, expand, collapse) ==
    {group_key(attrs, m, depth, expand, collapse) : m \in DOMAIN attrs}

\* 0 stands for None: every module fits.
choose_depth(attrs, max_nodes) ==
    LET deepest == Max({1} \union {Len(attrs[m].dir) : m \in DOMAIN attrs})
        fitting == {d \in 1 .. deepest : Cardinality(Keys(attrs, d, {}, {})) <= max_nodes}
    IN IF Cardinality(DOMAIN attrs) <= max_nodes THEN 0
       ELSE IF fitting = {} THEN 1 ELSE Max(fitting)

\* The directory that is opened no longer counts.
Fits(total, children, max_nodes) == total - 1 + children <= max_nodes

\* Opens the largest directory that still fits, again and again.
auto_expand(attrs, depth, max_nodes, expand, collapse) ==
    LET all == UNION {{SubSeq(attrs[m].dir, 1, k) : k \in 1 .. Len(attrs[m].dir)} : m \in DOMAIN attrs}
        members(current, key) == {m \in DOMAIN attrs : group_key(attrs, m, depth, current, collapse) = key}
        children(current, dir) ==
            Cardinality({group_key(attrs, m, depth, current \union {dir}, collapse) :
                            m \in members(current, Directory(dir))})
        open(current) ==
            LET total == Cardinality(Keys(attrs, depth, current, collapse))
            IN {d \in all : /\ Cardinality(members(current, Directory(d))) > 1
                            /\ children(current, d) > 1
                            /\ Fits(total, children(current, d), max_nodes)}
        largest(current) ==
            CHOOSE d \in open(current) : \A e \in open(current) :
                Cardinality(members(current, Directory(e))) <= Cardinality(members(current, Directory(d)))
        expanded[current \in SUBSET all] ==
            IF open(current) = {} THEN current ELSE expanded[current \union {largest(current)}]
    IN expanded[expand]

ViewKeys(attrs, max_nodes, expand, collapse) ==
    LET depth == choose_depth(attrs, max_nodes)
        effective == IF depth = 0 THEN expand ELSE auto_expand(attrs, depth, max_nodes, expand, collapse)
    IN [m \in DOMAIN attrs |-> group_key(attrs, m, depth, effective, collapse)]

\* Edges between different groups, each with the module edges behind it.
ViewEdges(keys, E) ==
    {[source |-> keys[e[1]], target |-> keys[e[2]],
      behind |-> {d \in E : keys[d[1]] = keys[e[1]] /\ keys[d[2]] = keys[e[2]]}] :
        e \in {d \in E : keys[d[1]] # keys[d[2]]}}

(***************************************************************************)
(* Properties.                                                             *)
(***************************************************************************)
\* The reported cycles and the strongly connected components agree: a module is in a cycle that
\* is reported exactly when it is counted as cyclic, unless the report says it was truncated.
CyclesAreComplete(nodes, resolved) ==
    LET E == runtime_graph(resolved)
        found == find_cycles(nodes, E)
    IN ~found.truncated /\ MAX_CYCLE_LENGTH >= Cardinality(nodes)
        => UNION {Range(found.cycles[k]) : k \in DOMAIN found.cycles} = cyclic_modules(nodes, E)

\* An import that exists only for type checking neither makes a cycle nor breaks one that the
\* other imports make.
TypesMakeNoCycles(nodes, resolved) ==
    LET runtime == SelectSeq(resolved, LAMBDA i : ~i.type_only)
    IN find_cycles(nodes, runtime_graph(resolved)) = find_cycles(nodes, edges(runtime))

\* A cycle through two layers of a stack goes up somewhere: one of its imports is an inversion.
CyclesInvertLayers(attrs, resolved) ==
    LET E == runtime_graph(resolved)
        errors == {i.edges : i \in {j \in _layer_issues(attrs, E) : j.severity = "error"}}
    IN \A c \in SimpleCycles(DOMAIN attrs, E, Cardinality(DOMAIN attrs)) :
          /\ \A e \in CycleEdges(c) : Layered(attrs, e)
          /\ Cardinality({attrs[m].layer : m \in Range(c)}) > 1
          => \E e \in CycleEdges(c) : {e} \in errors

\* The depth counts layers of modules, not turns of a cycle.
DepthIsBounded(nodes, resolved) ==
    LET E == runtime_graph(resolved)
    IN _max_depth(nodes, E) <= Max({0, Cardinality(Components(nodes, E)) - 1})

\* An issue is only left out for one that is at least as bad.
WorstIssuesKept(attrs, resolved) ==
    LET E == runtime_graph(resolved)
        issues == SetToSeq(_layer_issues(attrs, E))
        kept == _cap(issues)
    IN \A i \in Range(issues) \ Range(kept) :
          \A j \in Range(kept) : j.severity = "warning" => i.severity = "warning"

\* Left alone, the view fits the number of nodes asked for, or shows one node per top-level
\* directory, whatever is collapsed.
ViewFits(attrs, max_nodes, collapse) ==
    LET keys == ViewKeys(attrs, max_nodes, {}, collapse)
    IN Cardinality(Range(keys)) <= Max({max_nodes, Cardinality(Keys(attrs, 1, {}, {}))})

\* Folding loses no import: each is inside one node or behind exactly one edge of the view.
ViewKeepsEdges(attrs, max_nodes, expand, collapse, resolved) ==
    LET keys == ViewKeys(attrs, max_nodes, expand, collapse)
    IN \A e \in edges(resolved) :
          Cardinality({v \in ViewEdges(keys, edges(resolved)) : e \in v.behind})
              = IF keys[e[1]] = keys[e[2]] THEN 0 ELSE 1
=============================================================================
