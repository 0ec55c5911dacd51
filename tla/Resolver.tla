------------------------------ MODULE Resolver ------------------------------
(***************************************************************************)
(* From import statements to modules: which flags an import carries by     *)
(* where it stands in the source, and whether its specifier names a module *)
(* of the repository, an asset, an external package or nothing.            *)
(*                                                                         *)
(* A directory is the sequence of its segments, <<>> the repository root.  *)
(* A file is [dir, name, ext].  A repository is                            *)
(*   [files, packages, options]: the set of its files, the contents of its *)
(* package.json files by directory [name, entry, deps], and the aliases of *)
(* its tsconfig files by directory [paths, base_url, extends].  A dotted   *)
(* name or a specifier is the sequence of its parts.                       *)
(***************************************************************************)
LOCAL INSTANCE Integers
LOCAL INSTANCE Sequences
LOCAL INSTANCE FiniteSets
LOCAL INSTANCE FiniteSetsExt
LOCAL INSTANCE SequencesExt

(***************************************************************************)
(* The parser: flags from the ancestors of an import statement, innermost  *)
(* first.  An ancestor is [type, checks, body]: an if statement says       *)
(* whether its condition is TYPE_CHECKING and whether the import is in its *)
(* consequence, not in its else.                                           *)
(***************************************************************************)
_python_type_checking(ancestors) ==
    \E i \in DOMAIN ancestors : /\ ancestors[i].type = "if_statement"
                                /\ ancestors[i].checks
                                /\ ancestors[i].body
_inside_function(ancestors) ==
    \E i \in DOMAIN ancestors : ancestors[i].type \in {"function_definition", "lambda"}

\* clause: does `import type`; every other form needs all its named specifiers to be types,
\* and no default or namespace import beside them.
_js_type_only_import(statement) ==
    \/ statement.type_keyword
    \/ /\ statement.only_named
       /\ statement.specifiers # <<>>
       /\ \A i \in DOMAIN statement.specifiers : statement.specifiers[i] = "type"

(***************************************************************************)
(* The repository index.                                                   *)
(***************************************************************************)
PythonExtensions == {".py"}
JS_CODE_EXTENSIONS == <<".ts", ".tsx", ".js", ".jsx">>
_JS_TO_TS == [e \in {".js", ".jsx"} |-> IF e = ".js" THEN <<".ts", ".tsx">> ELSE <<".tsx">>]
ASSET_EXTENSIONS == {".css", ".json", ".svg"}

File(dir, name, ext) == [dir |-> dir, name |-> name, ext |-> ext]
modules(repo) == {f \in repo.files : f.ext \in PythonExtensions \union Range(JS_CODE_EXTENSIONS)}
dirs(repo) == {<<>>} \union UNION {Prefixes(f.dir) : f \in repo.files}

NoPath == <<"..">>
\* Normalises; NoPath when the path leaves the repository.
_join(dir, parts) ==
    FoldLeft(LAMBDA stack, part :
                IF stack = NoPath \/ (part = ".." /\ stack = <<>>) THEN NoPath
                ELSE IF part = "." THEN stack
                ELSE IF part = ".." THEN Front(stack)
                ELSE Append(stack, part),
             dir, parts)

\* directory, its parent, ..., the root.
_ancestors(dir) == [k \in 1 .. Len(dir) + 1 |-> SubSeq(dir, 1, Len(dir) + 1 - k)]

(***************************************************************************)
(* Python.  A raw import is [kind, level, parts, names, dynamic].          *)
(***************************************************************************)
NoFile == File(NoPath, "", "")
ResolvedImport(status, targets, package, method) ==
    [status |-> status, targets |-> targets, package |-> package, method |-> method]
Internal(targets, method) == ResolvedImport("internal", targets, "", method)
External(package, method) == ResolvedImport("external", {}, package, method)
Asset(target) == ResolvedImport("asset", {target}, "", "asset")
Unresolved(reason) == ResolvedImport("unresolved", {}, "", reason)
NothingFound == Unresolved("none")
NamespacePackage == Internal({}, "namespace-package")

IsPackage(repo, dir) == File(dir, "__init__", ".py") \in repo.files

source_roots(repo) ==
    LET packages == {d \in dirs(repo) : d # <<>> /\ IsPackage(repo, d)}
        \* the parent of the outermost package of the chain d is in
        Top(d) == Front(SubSeq(d, 1, Min({k \in 1 .. Len(d) :
                            \A l \in k .. Len(d) : SubSeq(d, 1, l) \in packages})))
        marked == {f.dir : f \in {g \in repo.files : g.name \in {"pyproject", "setup"}}}
        named == {d \in dirs(repo) : d # <<>> /\ Last(d) = "src"}
    IN {<<>>} \union {Top(d) : d \in packages} \union marked \union named

\* Deepest first.
RootOrder(roots) == SetToSortSeq(roots, LAMBDA a, b : Len(a) > Len(b))

internal_top_names(repo) ==
    {IF f.dir = root THEN f.name ELSE f.dir[Len(root) + 1] :
        <<root, f>> \in {<<r, g>> \in source_roots(repo) \X repo.files :
                            g.ext = ".py" /\ r \in Prefixes(g.dir)}}

_module_file(repo, dir, dotted) ==
    LET base == dir \o dotted
        candidates ==
            (IF base = <<>> THEN <<>> ELSE <<File(Front(base), Last(base), ".py")>>)
                \o <<File(base, "__init__", ".py")>>
        present == SelectSeq(candidates, LAMBDA f : f \in repo.files)
    IN IF present = <<>> THEN NoFile ELSE present[1]

_is_namespace_package(repo, dir, dotted) ==
    /\ dir \o dotted # <<>>
    /\ \E f \in repo.files : f.ext = ".py" /\ (dir \o dotted) \in Prefixes(f.dir)

\* The nearest roots, then the script's own directory, unless it is a package (a module of a
\* package is not a script), then the other roots.
_candidate_roots(repo, source) ==
    LET nearest == {r \in source_roots(repo) : r \in Prefixes(source.dir)}
        script == IF IsPackage(repo, source.dir) THEN <<>> ELSE <<source.dir>>
    IN RootOrder(nearest) \o script \o RootOrder(source_roots(repo) \ nearest)

\* `from base import names`: a name that is a submodule is an edge to it, any other to base.
_from_targets(repo, source, names, dir, base, method, allow_namespace) ==
    LET submodule(n) == _module_file(repo, dir, Append(base, n))
        isModule(n) == submodule(n) \notin {NoFile, source}
        found == {submodule(n) : n \in {m \in names : isModule(m)}}
        needs_base == names = {} \/ \E n \in names : ~isModule(n)
        base_module == _module_file(repo, dir, base)
        is_package_dir == \/ base = <<>> /\ dir \in dirs(repo)
                          \/ _is_namespace_package(repo, dir, base)
    IN IF ~needs_base THEN Internal(found, method)
       ELSE IF base_module \notin {NoFile, source} THEN Internal(found \union {base_module}, method)
       ELSE IF ~(allow_namespace /\ is_package_dir) THEN NothingFound
       ELSE IF found # {} THEN Internal(found, method)
       ELSE NamespacePackage

package_depth(repo, dir) ==
    Cardinality({k \in 1 .. Len(dir) + 1 :
                    \A l \in 1 .. k : IsPackage(repo, _ancestors(dir)[l])})

_resolve_relative(repo, source, raw) ==
    LET depth == package_depth(repo, source.dir)
        dir == SubSeq(source.dir, 1, Max({0, Len(source.dir) - (raw.level - 1)}))
        found == IF raw.kind = "import"
                 THEN IF _module_file(repo, dir, raw.parts) = NoFile THEN NothingFound
                      ELSE Internal({_module_file(repo, dir, raw.parts)}, "relative")
                 ELSE _from_targets(repo, source, raw.names, dir, raw.parts, "relative", TRUE)
    IN IF raw.level > Max({depth, 1}) THEN Unresolved("beyond the top-level package")
       ELSE IF found = NothingFound THEN Unresolved("relative module not found")
       ELSE found

_resolve_absolute(repo, stdlib, declared, source, raw) ==
    LET top == raw.parts[1]
        internal_name == top \in internal_top_names(repo)
        at(root) ==
            LET target == _module_file(repo, root, raw.parts)
            IN IF raw.kind = "from"
               THEN _from_targets(repo, source, raw.names, root, raw.parts, "absolute", internal_name)
               ELSE IF target \notin {NoFile, source} THEN Internal({target}, "absolute")
               ELSE IF internal_name /\ _is_namespace_package(repo, root, raw.parts)
               THEN NamespacePackage ELSE NothingFound
        found == [k \in DOMAIN _candidate_roots(repo, source) |-> at(_candidate_roots(repo, source)[k])]
        regular == SelectSeq(found, LAMBDA r : r \notin {NothingFound, NamespacePackage})
    IN IF regular # <<>> THEN regular[1]
       \* A regular package takes precedence over a namespace directory of the same name.
       ELSE IF top \in stdlib THEN External(top, "stdlib")
       ELSE IF top \in declared THEN External(top, "declared")
       ELSE IF NamespacePackage \in Range(found) THEN NamespacePackage
       ELSE IF internal_name THEN Unresolved("not found in internal package")
       ELSE External(top, "undeclared")

PythonResolve(repo, stdlib, declared, source, raw) ==
    IF raw.dynamic THEN Unresolved("dynamic import")
    ELSE IF raw.level > 0 THEN _resolve_relative(repo, source, raw)
    ELSE IF raw.parts = <<>> THEN Unresolved("empty module name")
    ELSE _resolve_absolute(repo, stdlib, declared, source, raw)

(***************************************************************************)
(* JavaScript and TypeScript.  A specifier is [form, parts, ext], ext the  *)
(* extension written on its last part.                                     *)
(***************************************************************************)
FirstFound(results) ==
    LET found == SelectSeq(results, LAMBDA r : r # NothingFound)
    IN IF found = <<>> THEN NothingFound ELSE found[1]
FirstFile(repo, files, result(_)) ==
    FirstFound([k \in DOMAIN files |-> IF files[k] \in repo.files THEN result(files[k]) ELSE NothingFound])

Module(f) == Internal({f}, "file")

\* A directory is its package.json entry if that resolves, else its index.
ProbeDirectory(repo, base, entry) ==
    FirstFound(<<entry>> \o
               <<FirstFile(repo, [k \in DOMAIN JS_CODE_EXTENSIONS |->
                                     File(base, "index", JS_CODE_EXTENSIONS[k])], Module)>>)

ProbeFile(repo, base, ext) ==
    LET dir == Front(base)  name == Last(base)
        written == File(dir, name, ext)
        replaced == IF ext \in DOMAIN _JS_TO_TS THEN _JS_TO_TS[ext] ELSE <<>>
        exact == IF written \notin repo.files THEN NothingFound
                 ELSE IF written \in modules(repo) THEN Module(written)
                 ELSE IF ext \in ASSET_EXTENSIONS THEN Asset(written) ELSE NothingFound
        typescript == FirstFile(repo, [k \in DOMAIN replaced |-> File(dir, name, replaced[k])], Module)
        extended == IF ext # "" THEN NothingFound
                    ELSE FirstFile(repo, [k \in DOMAIN JS_CODE_EXTENSIONS |->
                                             File(dir, name, JS_CODE_EXTENSIONS[k])], Module)
    IN FirstFound(<<exact, typescript, extended>>)

\* Exact, extensions, index.  A package's entry may name another package: chain is the path of
\* directories it leads through.  One that leads back to itself never ends in the code; the
\* interpreter's recursion limit turns it into an unresolved import.
RecursionError == Unresolved("resolver error")
MaxChain == 3

_probe(repo, start, ext) ==
    LET entry(base) == IF base \in DOMAIN repo.packages THEN repo.packages[base].entry ELSE <<>>
        chain[k \in 0 .. MaxChain] ==
            IF k = 0 THEN start
            ELSE IF chain[k - 1] = NoPath THEN NoPath
            ELSE _join(chain[k - 1], entry(chain[k - 1]))
        probe[k \in 0 .. MaxChain] ==
            LET base == chain[k]
                own == IF base = <<>> THEN NothingFound ELSE ProbeFile(repo, base, IF k = 0 THEN ext ELSE "")
                behind == IF base = <<>> \/ entry(base) = <<>> \/ chain[k + 1] = NoPath THEN NothingFound
                          ELSE probe[k + 1]
            IN IF k = MaxChain THEN RecursionError
               ELSE IF own # NothingFound \/ base \notin dirs(repo) THEN own
               ELSE ProbeDirectory(repo, base, behind)
    IN IF start = NoPath THEN NothingFound ELSE probe[0]

package_root(repo, dir) ==
    LET roots == SelectSeq(_ancestors(dir), LAMBDA d : d \in DOMAIN repo.packages)
    IN IF roots = <<>> THEN NoPath ELSE roots[1]
ProjectOf(repo, dir) == IF package_root(repo, dir) = NoPath THEN <<>> ELSE package_root(repo, dir)

_declared(repo, dir, package) ==
    \E d \in Prefixes(dir) \intersect DOMAIN repo.packages : package \in repo.packages[d].deps

\* compilerOptions with extends applied: an option of its own overrides the inherited one.
\* Chains of extends are shorter than the limit the code sets on them.
NoAliases == [paths |-> <<>>, base_url |-> NoPath]
_compiler_options(repo, dir) ==
    LET options == repo.options[dir]
        parent == IF options.extends \in DOMAIN repo.options THEN repo.options[options.extends] ELSE NoAliases
    IN [paths |-> IF options.paths # <<>> THEN options.paths ELSE parent.paths,
        base_url |-> IF options.base_url # NoPath THEN options.base_url ELSE parent.base_url]

_aliases_for(repo, dir) ==
    LET configured == SelectSeq(_ancestors(dir), LAMBDA d : d \in DOMAIN repo.options)
    IN IF configured = <<>> THEN NoAliases ELSE _compiler_options(repo, configured[1])

\* An alias is [prefix, target]: the specifiers that start with prefix, looked for under target.
\* Aliases are in the order of their prefixes, longest first; the first that matches decides.
ByAlias(repo, aliases, spec) ==
    LET matching == SelectSeq(aliases.paths, LAMBDA p : IsPrefix(p.prefix, spec.parts))
        rest(p) == SubSeq(spec.parts, Len(p.prefix) + 1, Len(spec.parts))
        found == _probe(repo, _join(matching[1].target, rest(matching[1])), spec.ext)
    IN IF matching = <<>> THEN NothingFound
       ELSE IF found = NothingFound THEN Unresolved("path alias matched but no file found")
       ELSE found

ByWorkspace(repo, dir, package, spec) ==
    LET homes == {d \in DOMAIN repo.packages : repo.packages[d].name = package}
        home == CHOOSE d \in homes : TRUE
        sub == Tail(spec.parts)
    IN IF homes = {} \/ package_root(repo, dir) = home THEN NothingFound
       ELSE FirstFound(<<_probe(repo, home \o sub, spec.ext),
                         _probe(repo, Append(home, "src") \o sub, spec.ext)>>)

\* Bundler aliases without configuration: @/x, and x where the project has a directory x.
ByHeuristic(repo, dir, package, spec) ==
    LET project == ProjectOf(repo, dir)
        rest == Tail(spec.parts)
        alias == FirstFound(<<_probe(repo, Append(project, "src") \o rest, spec.ext),
                              _probe(repo, project \o rest, spec.ext)>>)
    IN IF package = "@" THEN (IF alias = NothingFound THEN Unresolved("alias is not configured") ELSE alias)
       ELSE IF package_root(repo, dir) # NoPath /\ Append(project, package) \in dirs(repo)
       THEN _probe(repo, project \o spec.parts, spec.ext)
       ELSE NothingFound

JsRelative(repo, dir, spec) ==
    LET bases == IF spec.form = "root"
                 THEN <<_join(ProjectOf(repo, dir), spec.parts),
                        _join(Append(ProjectOf(repo, dir), "public"), spec.parts),
                        _join(<<>>, spec.parts)>>
                 ELSE <<_join(dir, spec.parts)>>
        found == FirstFound([k \in DOMAIN bases |-> _probe(repo, bases[k], spec.ext)])
    IN IF found # NothingFound THEN found
       ELSE IF bases[1] = NoPath THEN Unresolved("beyond the repository root")
       ELSE Unresolved("file not found")

JsBare(repo, dir, spec) ==
    LET package == spec.parts[1]
        aliases == _aliases_for(repo, dir)
        declared == _declared(repo, dir, package)
        base_url == IF aliases.base_url = NoPath THEN NothingFound
                    ELSE _probe(repo, _join(aliases.base_url, spec.parts), spec.ext)
        internal == FirstFound(<<ByAlias(repo, aliases, spec), base_url,
                                 ByWorkspace(repo, dir, package, spec),
                                 IF declared THEN NothingFound ELSE ByHeuristic(repo, dir, package, spec)>>)
    IN IF internal # NothingFound THEN internal
       ELSE External(package, IF declared THEN "declared" ELSE "undeclared")

JsResolve(repo, builtins, dir, spec) ==
    CASE spec.form = "dynamic" -> Unresolved("dynamic import")
      [] spec.form = "url" -> External(spec.parts[1], "url")
      [] spec.form = "node" \/ (spec.form = "bare" /\ spec.parts[1] \in builtins)
            -> External(spec.parts[1], "node-builtin")
      [] spec.form \in {"relative", "root"} -> JsRelative(repo, dir, spec)
      [] OTHER -> JsBare(repo, dir, spec)

(***************************************************************************)
(* Statistics: one classification per statement, the worst of its parts.   *)
(***************************************************************************)
resolution_stats(statements) ==
    LET Status(parts) == IF \E p \in parts : p.status = "unresolved" THEN "unresolved"
                         ELSE IF \E p \in parts : p.status = "internal" THEN "internal"
                         ELSE IF \E p \in parts : p.status = "asset" THEN "asset"
                         ELSE "external"
    IN [s \in {"internal", "asset", "external", "unresolved"} |->
            Cardinality({k \in DOMAIN statements : Status(statements[k]) = s})]

(***************************************************************************)
(* Properties, for a repository, a source and an import.                   *)
(***************************************************************************)
\* Whatever is written, an internal target is a module of the repository, an asset one of its
\* other files; nothing outside it is ever named.
TargetsAreFiles(repo, result) ==
    /\ result.status = "internal" => result.targets \subseteq modules(repo)
    /\ result.status = "asset" => result.targets \subseteq repo.files \ modules(repo)

\* Python's own rules, for a module of a package: `import x` never means a sibling of the
\* importing module, unless the package's directory is itself on the search path.
SiblingsAreNotTopLevel(repo, stdlib, declared, source, raw) ==
    /\ raw.level = 0
    /\ Len(raw.parts) = 1
    /\ IsPackage(repo, source.dir)
    /\ source.dir \notin source_roots(repo)
    => \A t \in PythonResolve(repo, stdlib, declared, source, [raw EXCEPT !.kind = "import"]).targets :
          t.dir = source.dir => t.name = "__init__"

\* A relative import that climbs out of the outermost package is never resolved.
RelativeStaysInPackage(repo, stdlib, declared, source, raw) ==
    LET result == PythonResolve(repo, stdlib, declared, source, raw)
        n == package_depth(repo, source.dir)
    IN /\ raw.level > 1
       /\ result.status = "internal"
       => \A t \in result.targets : Len(t.dir) >= Len(source.dir) - n + 1
=============================================================================
