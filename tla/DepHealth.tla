----------------------------- MODULE DepHealth -----------------------------
(***************************************************************************)
(* The dependency-health signal: the direct dependencies declared in the   *)
(* manifests, what the lockfiles say of them, what the registries answer,  *)
(* and which are imported.                                                 *)
(*                                                                         *)
(* A name is the sequence of its words ("google-cloud" and "Google.Cloud"  *)
(* are <<"google", "cloud">>, "pyyaml" read as py + yaml is               *)
(* <<"py+", "yaml">>), which is its identity in both ecosystems.  A        *)
(* version is [release, pre] with three release numbers.  Scores are in    *)
(* 1/1000.                                                                 *)
(***************************************************************************)
LOCAL INSTANCE Integers
LOCAL INSTANCE Sequences
LOCAL INSTANCE FiniteSets
LOCAL INSTANCE FiniteSetsExt
LOCAL INSTANCE SequencesExt
LOCAL INSTANCE Functions

PYPI == "PyPI"
NPM == "npm"
ECOSYSTEMS == <<PYPI, NPM>>
RUNTIME == "runtime"
DEV == "dev"
NoValue == -1
NoSpec == <<>>

_matches(name, patterns) ==
    \E p \in patterns : IF Last(p) = "*" THEN IsPrefix(Front(p), name)
                        ELSE IF Head(p) = "*" THEN IsSuffix(Tail(p), name)
                        ELSE name = p
TOOLING_ALLOW_LIST == {<<"pytest", "*">>, <<"types", "*">>, <<"*", "stubs">>, <<"eslint", "*">>, <<"gunicorn">>}
RUNTIME_PLUGIN_ALLOW_LIST == {<<"psycopg2">>, <<"email", "validator">>}
STUB_PATTERNS == {<<"types", "*">>, <<"*", "stubs">>}
_DEV_TOKENS == {"dev", "test", "docs", "types"}
_allow_listed(dep) == _matches(dep.key, TOOLING_ALLOW_LIST \union RUNTIME_PLUGIN_ALLOW_LIST)
_is_dev_group(tokens) == Range(tokens) \intersect _DEV_TOKENS # {}

(***************************************************************************)
(* Versions.                                                               *)
(***************************************************************************)
_major_key(v) == IF v.release[1] > 0 THEN <<v.release[1], 0>> ELSE <<0, v.release[2]>>
RECURSIVE Below(_, _)
Below(a, b) == a # <<>> /\ (a[1] < b[1] \/ (a[1] = b[1] /\ Below(Tail(a), Tail(b))))
Key(v) == Append(v.release, IF v.pre THEN 0 ELSE 1)
Older(v, w) == Below(Key(v), Key(w))
NoVersion == [release |-> <<>>, pre |-> FALSE]

\* A constraint is a sequence of alternatives (one only in Python), each a sequence of clauses
\* [op, release] whose numbers may be absent or wildcards.  The bound is the first clause that
\* states one.
Wildcard == -2
Bounding(ecosystem, clause) ==
    IF ecosystem = NPM THEN clause.op \in {"", "=", ">=", ">", "^", "~"}
    ELSE clause.op \in {"", "=", "==", "===", ">=", "~=", "^", "~"} /\ clause.release[1] # Wildcard
Filled(release) == [i \in 1 .. 3 |-> IF release[i] \in {NoValue, Wildcard} THEN 0 ELSE release[i]]
NoBound == [release |-> <<>>, exact |-> FALSE]
LowerBound(ecosystem, clauses) ==
    LET stated == SelectSeq(clauses, LAMBDA c : Bounding(ecosystem, c))
    IN IF stated = <<>> \/ stated[1].release[1] = Wildcard THEN NoBound
       ELSE [release |-> Filled(stated[1].release),
             exact |-> /\ stated[1].op \in {"", "=", "==", "==="}
                       /\ Wildcard \notin Range(stated[1].release)
                       /\ ecosystem = NPM => NoValue \notin Range(stated[1].release)]

minimum_version(ecosystem, spec) ==
    LET bounds == SelectSeq([i \in DOMAIN spec |-> LowerBound(ecosystem, spec[i])], LAMBDA b : b # NoBound)
        lowest == CHOOSE b \in Range(bounds) : \A c \in Range(bounds) : ~Below(c.release, b.release)
    IN IF bounds = <<>> THEN NoBound ELSE [lowest EXCEPT !.exact = @ /\ Len(bounds) = 1]

(***************************************************************************)
(* Manifests: a set of [path, order, form, stem, entries], path a sequence *)
(* of directories, entries a sequence of [section, group, name, spec,      *)
(* registry]; registry is FALSE for a url, a path, git or a workspace.     *)
(***************************************************************************)
EcosystemOf(file) == IF file.form = "package.json" THEN NPM ELSE PYPI
RuntimeSections == {"dependencies", "packages", "install_requires", "extras_require",
                    "peerDependencies", "optionalDependencies"}
KindOf(file, entry) ==
    CASE file.form = "requirements" -> IF _is_dev_group(file.stem) THEN DEV ELSE RUNTIME
      [] entry.section = "optional-dependencies" -> IF _is_dev_group(entry.group) THEN DEV ELSE RUNTIME
      [] entry.section = "poetry.group" -> IF entry.group = <<"main">> THEN RUNTIME ELSE DEV
      [] OTHER -> IF entry.section \in RuntimeSections THEN RUNTIME ELSE DEV

\* pip-tools output beside its .in file is a lock, not a list of direct dependencies.
Compiled(files, file) ==
    file.form = "requirements" /\ file.order = "txt"
    /\ \E other \in files : other.form = "requirements" /\ other.order = "in"
                            /\ other.path = file.path /\ other.stem = file.stem
\* The python entry of a poetry table and the packages of the workspace itself are not dependencies.
Declares(file, entry, workspace_packages) ==
    IF EcosystemOf(file) = NPM THEN entry.registry # "workspace" /\ entry.name \notin workspace_packages
    ELSE ~(entry.section \in {"poetry.dependencies", "poetry.group"} /\ entry.name = <<"python">>)

\* Shallow manifests first.
Rank(file) == <<Len(file.path), CASE file.form = "package.json" -> 0
                                  [] file.form = "pyproject.toml" -> 1
                                  [] OTHER -> IF file.order = "in" THEN 2 ELSE 3>>
InOrder(files) == SetToSortSeq(files, LAMBDA f, g : Below(Rank(f), Rank(g)))

Dependencies(files, file, workspace_packages) ==
    LET entries == SelectSeq(file.entries, LAMBDA e : Declares(file, e, workspace_packages))
    IN [i \in DOMAIN entries |->
           [key |-> entries[i].name, kind |-> KindOf(file, entries[i]), manifest |-> file,
            spec |-> entries[i].spec, registry |-> entries[i].registry = "yes"]]

\* The first declaration decides alone, for comparison.
AddFirst(deps, dep) ==
    IF dep.key \in DOMAIN deps THEN deps
    ELSE [k \in DOMAIN deps \union {dep.key} |-> IF k = dep.key THEN dep ELSE deps[k]]

\* Runtime beats dev; otherwise the first declaration stays and the first constraint completes it.
add(deps, dep) ==
    IF dep.key \notin DOMAIN deps THEN [k \in DOMAIN deps \union {dep.key} |-> IF k = dep.key THEN dep ELSE deps[k]]
    ELSE LET existing == deps[dep.key]
             spec == IF dep.spec # NoSpec THEN dep.spec ELSE existing.spec
         IN [deps EXCEPT ![dep.key] =
                IF existing.kind = DEV /\ dep.kind = RUNTIME
                THEN [existing EXCEPT !.kind = RUNTIME, !.manifest = dep.manifest, !.spec = spec]
                ELSE IF existing.spec = NoSpec THEN [existing EXCEPT !.spec = dep.spec]
                ELSE existing]

NoDependencies == [k \in {} |-> {}]
read(files, ecosystem, workspace_packages) ==
    LET used == SelectSeq(InOrder(files), LAMBDA f : EcosystemOf(f) = ecosystem /\ ~Compiled(files, f))
        declared == FlattenSeq([i \in DOMAIN used |-> Dependencies(files, used[i], workspace_packages)])
    IN FoldLeft(add, NoDependencies, declared)
Marked(files, ecosystem) == {f \in files : EcosystemOf(f) = ecosystem /\ ~Compiled(files, f)}

(***************************************************************************)
(* Lockfiles.  A place in an npm lockfile is [dir, mods]: the workspace    *)
(* directory, "" for the root, and the node_modules nesting below it;      *)
(* entries maps places to [version, deps, link], link the place a link     *)
(* leads to.  A distribution's lockfile maps a name to [version, deps].    *)
(***************************************************************************)
Root == [dir |-> "", mods |-> <<>>]
NoPlace == [dir |-> "", mods |-> <<>>, none |-> TRUE]
Enclosing(place) ==
    IF place.mods # <<>> THEN [place EXCEPT !.mods = Front(place.mods)] ELSE Root

RECURSIVE _node_resolve(_, _, _)
_node_resolve(entries, place, name) ==
    LET candidate == [place EXCEPT !.mods = Append(@, name)]
    IN IF candidate \in DOMAIN entries THEN candidate
       ELSE IF place = Root THEN NoPlace
       ELSE _node_resolve(entries, Enclosing(place), name)

Linked(entries, place) ==
    IF place \in DOMAIN entries /\ entries[place].link # NoPlace
    THEN IF entries[place].link \in DOMAIN entries THEN entries[place].link ELSE NoPlace
    ELSE place
ResolveAll(entries, place, names) ==
    {Linked(entries, _node_resolve(entries, place, n)) : n \in names} \ {NoPlace}

RECURSIVE Layers(_, _, _)
Layers(frontier, seen, edges) ==
    IF frontier = {} THEN 0
    ELSE 1 + Layers(UNION {edges[n] : n \in frontier} \ (seen \union frontier), seen \union frontier, edges)
\* The longest shortest way from the direct dependencies, which are at depth 1.
_bfs_depth(roots, edges) == Layers(roots, {}, edges)

Counts(packages, direct, depth) ==
    [packages |-> packages, direct |-> direct,
     transitive |-> Max({0, packages - direct}), max_depth |-> depth]

parse_package_lock(entries, root_deps) ==
    LET counted == {p \in DOMAIN entries : p.mods # <<>> /\ entries[p].link = NoPlace}
        identity(p) == <<Last(p.mods), entries[p].version>>
        roots == ResolveAll(entries, Root, root_deps)
        edges == [p \in DOMAIN entries |-> ResolveAll(entries, p, entries[p].deps)]
    IN Counts(Cardinality({identity(p) : p \in counted}),
              Cardinality({identity(p) : p \in roots \intersect counted}), _bfs_depth(roots, edges))

parse_poetry_lock(packages, declared) ==
    LET roots == declared \intersect DOMAIN packages
        edges == [n \in DOMAIN packages |-> packages[n].deps \intersect DOMAIN packages]
    IN Counts(Cardinality(DOMAIN packages), Cardinality(roots), _bfs_depth(roots, edges))

\* The project's own entry names the roots and is not counted.
parse_uv_lock(packages, projects, fallback) ==
    LET named == UNION {packages[n].deps : n \in projects} \ projects
        roots == (IF projects # {} THEN named ELSE fallback) \intersect DOMAIN packages
        edges == [n \in DOMAIN packages |-> packages[n].deps \intersect DOMAIN packages]
    IN Counts(Cardinality(DOMAIN packages \ projects), Cardinality(roots \ projects), _bfs_depth(roots, edges))

\* descriptors maps <<name, spec>> to an entry of a sequence of [name, version, deps].
YarnLookup(entries, descriptors, dep) ==
    LET named == {i \in DOMAIN entries : entries[i].name = dep[1]}
    IN IF dep \in DOMAIN descriptors THEN {descriptors[dep]}
       ELSE IF named = {} THEN {} ELSE {Min(named)}
parse_yarn_v1(entries, descriptors, root_specs) ==
    LET roots == UNION {YarnLookup(entries, descriptors, d) : d \in root_specs}
        edges == [i \in DOMAIN entries |-> UNION {YarnLookup(entries, descriptors, d) : d \in entries[i].deps}]
        identity(i) == <<entries[i].name, entries[i].version>>
    IN Counts(Cardinality({identity(i) : i \in DOMAIN entries}),
              Cardinality({identity(i) : i \in roots}), _bfs_depth(roots, edges))

\* Pipfile.lock and pnpm-lock.yaml are flat: the depth is unknown.
FlatCounts(packages, direct) == Counts(packages, Min({packages, direct}), NoValue)

\* What the manifests beside a lockfile declare; every dependency where there is no manifest there.
\* A package.json is read again, since a dependency it shares may stand under another manifest.
_dir_manifest_deps(files, deps, ecosystem, directory) ==
    LET local == {f \in Marked(files, ecosystem) : f.path = directory}
    IN IF local = {} THEN DOMAIN deps
       ELSE {k \in DOMAIN deps : deps[k].manifest \in local}
            \union UNION {{f.entries[i].name : i \in DOMAIN f.entries} :
                             f \in {g \in local : g.form = "package.json"}}

_transitive(locks) ==
    LET total == MapThenSumSet(LAMBDA i : locks[i].transitive, DOMAIN locks)
        direct == MapThenSumSet(LAMBDA i : locks[i].direct, DOMAIN locks)
        free == 50 * Max({1, direct})
    IN IF locks = <<>> THEN NoValue
       ELSE (1000 * free) \div (free + Max({0, total - 10 * direct}))

(***************************************************************************)
(* The registries.  info is [found, latest, versions, sizes, file_counts], *)
(* sizes and file_counts functions of some of the versions.                *)
(***************************************************************************)
freshness_of(installed, info) ==
    LET ceiling == IF info.latest = NoVersion \/ info.latest.pre THEN NoVersion ELSE info.latest
        newer == {v \in info.versions : /\ ~v.pre
                                        /\ Older(installed, v)
                                        /\ ceiling = NoVersion \/ ~Older(ceiling, v)}
        majors == {m \in {_major_key(v) : v \in newer} : Below(_major_key(installed), m)}
        behind == Cardinality(newer)
        factor == IF behind <= 2 THEN 1000 ELSE IF behind <= 10 THEN 800 ELSE 600
    IN factor \div (1 + Cardinality(majors))
trivial_size(ecosystem, installed, info, threshold) ==
    LET version == IF ecosystem = PYPI /\ installed \in DOMAIN info.sizes THEN installed ELSE info.latest
    IN IF version \notin DOMAIN info.sizes \union DOMAIN info.file_counts THEN "unknown"
       ELSE IF \/ version \in DOMAIN info.sizes /\ info.sizes[version] < threshold
               \/ version \in DOMAIN info.file_counts /\ info.file_counts[version] <= 2
            THEN "trivial" ELSE "substantial"

\* What is locked, else compiled, else the least the constraint allows.
_installed_version(ecosystem, dep, locked, pins) ==
    IF dep.key \in DOMAIN locked THEN locked[dep.key]
    ELSE IF ecosystem = PYPI /\ dep.key \in DOMAIN pins THEN pins[dep.key]
    ELSE [release |-> minimum_version(ecosystem, dep.spec).release, pre |-> FALSE]

\* Runtime dependencies first, then by ecosystem; a fixed order stands for the one by name.
Candidates(deps) ==
    LET of(kind, ecosystem) == SetToSeq({<<ecosystem, k>> : k \in {j \in DOMAIN deps[ecosystem] :
                                   deps[ecosystem][j].registry /\ deps[ecosystem][j].kind = kind}})
    IN of(RUNTIME, NPM) \o of(RUNTIME, PYPI) \o of(DEV, NPM) \o of(DEV, PYPI)
Selected(deps, limit) == SubSeq(Candidates(deps), 1, Min({limit, Len(Candidates(deps))}))

\* answers says of each dependency: "cached", "found", "missing", "down" (a transport or server
\* error) or "late" (the deadline passed first).  Eight lookups run together: those in racing had
\* passed the check of a registry before its first failure was recorded.
lookup(client, dep, answer, racing) ==
    CASE answer = "late" -> [client EXCEPT !.timed_out = @ \union {dep}]
      [] answer = "cached" -> [client EXCEPT !.checked = @ \union {dep}]
      [] dep[1] \in client.unreachable /\ dep \notin racing -> client
      [] answer = "down" -> [client EXCEPT !.unreachable = @ \union {dep[1]}]
      [] answer = "missing" -> [client EXCEPT !.not_found = @ \union {dep}]
      [] OTHER -> [client EXCEPT !.checked = @ \union {dep}]
Lookups(deps, limit, answers, racing) ==
    FoldLeft(LAMBDA client, dep : lookup(client, dep, answers[dep], racing),
             [checked |-> {}, not_found |-> {}, unreachable |-> {}, timed_out |-> {}],
             Selected(deps, limit))

MeanOf(values) == IF values = <<>> THEN NoValue ELSE FoldLeft(LAMBDA a, b : a + b, 0, values) \div Len(values)

\* infos and locked are per dependency; the notes say why something was not checked.
_registry(deps, limit, answers, racing, infos, locked, pins, threshold) ==
    LET client == Lookups(deps, limit, answers, racing)
        found == SelectSeq(Selected(deps, limit), LAMBDA d : d \in client.checked /\ infos[d].found)
        installed(d) == _installed_version(d[1], deps[d[1]][d[2]], locked[d[1]], pins)
        versioned == SelectSeq(found, LAMBDA d : installed(d).release # <<>>)
        sized == SelectSeq(found, LAMBDA d : ~_matches(d[2], STUB_PATTERNS)
                                             /\ trivial_size(d[1], installed(d), infos[d], threshold) # "unknown")
        trivial == SelectSeq(sized, LAMBDA d : trivial_size(d[1], installed(d), infos[d], threshold) = "trivial")
        freshness == MeanOf([i \in DOMAIN versioned |-> freshness_of(installed(versioned[i]), infos[versioned[i]])])
    IN [freshness |-> freshness,
        trivial |-> IF sized = <<>> THEN NoValue ELSE 1000 - (1000 * Len(trivial)) \div Len(sized),
        notes |-> client.unreachable
                  \union (IF Len(Candidates(deps)) > limit THEN {"limit"} ELSE {})
                  \union (IF client.timed_out # {} THEN {"deadline"} ELSE {})
                  \union (IF freshness = NoValue /\ Selected(deps, limit) # <<>> THEN {"freshness"} ELSE {})]

(***************************************************************************)
(* Imports: [language, target, words, names, method], target the top-level *)
(* package the resolver names, words the dotted path, names what a "from"  *)
(* takes from it, method declared or undeclared (others are not external). *)
(***************************************************************************)
IMPORT_ALIASES == [t \in {<<"yaml">>, <<"dns">>, <<"mpl", "toolkits">>} |->
                      CASE t = <<"yaml">> -> {<<"py+", "yaml">>}
                        [] t = <<"dns">> -> {<<"dnspython">>}
                        [] OTHER -> {<<"matplotlib">>}]
_python_candidates(item) ==
    LET paths == {item.words} \union {Append(item.words, n) : n \in item.names}
    IN {item.target, <<"python">> \o item.target, <<"py+">> \o item.target}
       \union (IF item.target \in DOMAIN IMPORT_ALIASES THEN IMPORT_ALIASES[item.target] ELSE {})
       \union UNION {{SubSeq(p, 1, n) : n \in 2 .. Len(p)} : p \in paths}

Of(imports, ecosystem) ==
    {i \in Range(imports) : /\ (IF i.language = "python" THEN PYPI ELSE NPM) = ecosystem
                            /\ i.method \in {"declared", "undeclared"}}
External(imports, ecosystem) == {i.target : i \in Of(imports, ecosystem)}
CandidatesOf(imports, package) ==
    UNION {_python_candidates(i) : i \in {j \in Of(imports, PYPI) : j.target = package}}
\* templates: packages named in components and stylesheets the parser does not read.
Used(imports, ecosystem, templates) ==
    IF ecosystem = PYPI THEN UNION {_python_candidates(i) : i \in Of(imports, PYPI)}
    ELSE External(imports, NPM) \union templates

_unused(deps, imports, templates, mentioned) ==
    {d \in {<<e, k>> : e \in Range(ECOSYSTEMS), k \in UNION {DOMAIN deps[e] : e \in Range(ECOSYSTEMS)}} :
        /\ d[2] \in DOMAIN deps[d[1]]
        /\ d[2] \notin Used(imports, d[1], templates)
        /\ ~_allow_listed(deps[d[1]][d[2]])
        /\ d[2] \notin mentioned}

\* Only where there is a manifest: otherwise the code may be a collection of scripts.
_phantom(deps, counted, imports) ==
    {d \in {<<i[1], i[2].target>> : i \in {<<e, j>> : e \in counted, j \in Range(imports)}} :
        /\ \E i \in Of(imports, d[1]) : i.target = d[2] /\ i.method = "undeclared"
        /\ ~(d[1] = PYPI /\ CandidatesOf(imports, d[2]) \intersect DOMAIN deps[PYPI] # {})}
Share(part, whole) == IF whole = 0 THEN NoValue ELSE 1000 - (1000 * part) \div whole
unused_component(deps, imports, templates, mentioned) ==
    Share(Cardinality(_unused(deps, imports, templates, mentioned)),
          Cardinality(DOMAIN deps[PYPI]) + Cardinality(DOMAIN deps[NPM]))
phantom_component(deps, counted, imports) ==
    LET external == MapThenSumSet(LAMBDA e : Cardinality(External(imports, e)), counted)
    IN IF counted = {} THEN NoValue
       ELSE 1000 - (1000 * Cardinality(_phantom(deps, counted, imports))) \div Max({1, external})

_direct_counts(deps, counted, baseline) ==
    LET value(e) == (1000 * baseline[e]) \div Max({Cardinality(DOMAIN deps[e]), baseline[e]})
        each == SetToSeq(counted)
    IN MeanOf([i \in DOMAIN each |-> value(each[i])])

\* With the registry lookups switched off freshness and trivial are unknown, and the mean is over
\* the components there are.
collect(deps, counted, baseline, locks, registry, imports, templates, mentioned) ==
    MeanOf(SelectSeq(<<_direct_counts(deps, counted, baseline), registry.freshness, _transitive(locks),
                       registry.trivial, unused_component(deps, imports, templates, mentioned),
                       phantom_component(deps, counted, imports)>>, LAMBDA v : v # NoValue))

(***************************************************************************)
(* Properties.                                                             *)
(***************************************************************************)
\* A dependency is a runtime one exactly when some manifest that counts says so, whichever of
\* them is read first, and it is recorded under a manifest that declares it with that kind.
RuntimeWins(files, ecosystem) ==
    LET deps == read(files, ecosystem, {})
        declared == UNION {Range(Dependencies(files, f, {})) : f \in Marked(files, ecosystem)}
    IN /\ DOMAIN deps = {d.key : d \in declared}
       /\ \A k \in DOMAIN deps :
            /\ deps[k].kind = RUNTIME <=> \E d \in declared : d.key = k /\ d.kind = RUNTIME
            /\ \E d \in declared : d.key = k /\ d.kind = deps[k].kind /\ d.manifest = deps[k].manifest
            /\ deps[k].spec = NoSpec => \A d \in declared : d.key = k => d.spec = NoSpec

\* Installing a newer release never makes a dependency look staler.
UpgradingNeverHurts(info) ==
    \A v, w \in info.versions :
        Older(v, w) => freshness_of(v, info) <= freshness_of(w, info)

\* The direct dependencies of a lockfile are among its packages and reach no deeper than there
\* are places, whatever the graph, cycles included.
LockCountsFit(entries, roots) ==
    LET lock == parse_package_lock(entries, roots)
    IN /\ lock.direct <= lock.packages
       /\ lock.max_depth <= Cardinality(DOMAIN entries)
       /\ lock.direct > 0 => lock.max_depth > 0

\* A name resolves to the innermost enclosing node_modules that has it, and never sideways.
NearestWins(entries, names) ==
    \A p \in DOMAIN entries, n \in names :
        LET q == _node_resolve(entries, p, n)
            enclosing == {e \in DOMAIN entries : /\ e.mods # <<>> /\ Last(e.mods) = n
                                                 /\ \/ e.dir = p.dir /\ IsPrefix(Front(e.mods), p.mods)
                                                    \/ e.dir = "" /\ Len(e.mods) = 1}
        IN IF enclosing = {} THEN q = NoPlace
           ELSE q \in enclosing /\ \A e \in enclosing : e.dir = p.dir => q.dir = p.dir /\ Len(e.mods) <= Len(q.mods)

\* What is declared and never imported is not also imported and never declared: the two rules
\* read names the same way.
NothingUnusedIsPhantom(deps, counted, imports, templates, mentioned) ==
    _unused(deps, imports, templates, mentioned) \intersect _phantom(deps, counted, imports) = {}
    /\ Cardinality(_phantom(deps, counted, imports)) <=
           MapThenSumSet(LAMBDA e : Cardinality(External(imports, e)), counted)

\* Without a note every dependency of a registry was answered for, whatever the registries do and
\* however the lookups race.
SilenceMeansChecked(deps, limit, answers, racing, infos, locked, pins) ==
    LET client == Lookups(deps, limit, answers, racing)
    IN _registry(deps, limit, answers, racing, infos, locked, pins, 10).notes = {}
           => Range(Candidates(deps)) = client.checked \union client.not_found
=============================================================================
