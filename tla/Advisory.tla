------------------------------ MODULE Advisory ------------------------------
(***************************************************************************)
(* The advisory metrics: how names follow their language's convention, one *)
(* letter and generic names, comments and docstrings.  They are measured   *)
(* and shown, and no score is made of them.                                *)
(*                                                                         *)
(* A name is [id, styles, short, generic, private]: styles the conventions *)
(* it fits once its underscores are stripped ("blank" if nothing is left), *)
(* short for one character.  A syntax node is [type, name, bound, value,   *)
(* documented, children]: name what it defines, bound a sequence of        *)
(* patterns for its parameters or targets, each [type, name, children].    *)
(***************************************************************************)
LOCAL INSTANCE Integers
LOCAL INSTANCE Sequences
LOCAL INSTANCE FiniteSets
LOCAL INSTANCE FiniteSetsExt
LOCAL INSTANCE SequencesExt

NoValue == -1

_conforms(language, ident) ==
    LET fits(style) == style \in ident.name.styles
    IN CASE fits("blank") -> TRUE
         [] ident.kind = "class" -> fits("Pascal")
         [] language = "python" -> fits("snake") \/ (ident.kind = "variable" /\ fits("UPPER"))
         [] OTHER -> \/ fits("camel")
                     \/ ident.kind = "function" /\ fits("Pascal")
                     \/ ident.const /\ fits("UPPER")

\* A place is the path of child numbers to a node; the scope of a node is its nearest
\* enclosing function, class or lambda, <<0>> outside all.
NoScope == <<0>>
Ident(name, kind, scope, exempt, const) ==
    [name |-> name, kind |-> kind, scope |-> scope, exempt |-> exempt, const |-> const]

RECURSIVE Names(_, _)
Names(pattern, nesting) ==
    IF pattern.type = "identifier" THEN <<pattern.name>>
    ELSE IF pattern.type \in nesting
    THEN FlattenSeq([i \in DOMAIN pattern.children |-> Names(pattern.children[i], nesting)])
    ELSE <<>>
AllNames(patterns, nesting) == FlattenSeq([i \in DOMAIN patterns |-> Names(patterns[i], nesting)])
PyPatterns == {"pattern_list", "tuple_pattern", "list_pattern", "list_splat_pattern"}
JsPatterns == {"object_pattern", "array_pattern", "rest_pattern", "pair_pattern", "assignment_pattern"}

Each(names, kind, scope, Exempt(_), const) ==
    [i \in DOMAIN names |-> Ident(names[i], kind, scope, Exempt(names[i]), const)]
Always(name) == TRUE
Never(name) == FALSE
IsE(name) == name.id = "e"

(***************************************************************************)
(* What one node defines, in its scope; below is the node itself as scope. *)
(***************************************************************************)
PythonNode(node, scope, below, parent) ==
    LET names == AllNames(node.bound, PyPatterns)
    IN CASE node.type = "function" ->
               <<Ident(node.name, "function", scope, FALSE, FALSE)>>
               \o Each(names, "variable", below, Never, FALSE)
         [] node.type = "lambda" -> Each(names, "variable", below, Always, FALSE)
         [] node.type = "class" -> <<Ident(node.name, "class", scope, FALSE, FALSE)>>
         [] node.type = "assignment" -> Each(names, "variable", scope, Never, FALSE)
         [] node.type = "for" -> Each(names, "variable", scope, Always, FALSE)
         [] node.type = "as" ->
               IF parent = "except" THEN Each(names, "variable", scope, IsE, FALSE)
               ELSE Each(names, "variable", scope, Never, FALSE)
         [] OTHER -> <<>>

FunctionValues == {"arrow", "function_value"}
JsNode(node, scope, below, parent) ==
    LET names == AllNames(node.bound, JsPatterns)
        functions == node.type \in {"function", "method"}
    IN CASE functions \/ node.type \in FunctionValues ->
               (IF functions /\ node.name.id # "constructor"
                THEN <<Ident(node.name, "function", scope, FALSE, FALSE)>> ELSE <<>>)
               \o (IF node.type = "arrow" THEN Each(names, "variable", below, Always, FALSE)
                   ELSE Each(names, "variable", below, Never, FALSE))
         [] node.type = "class" -> <<Ident(node.name, "class", scope, FALSE, FALSE)>>
         [] node.type \in {"var", "const"} ->
               LET kind == IF node.value \in FunctionValues THEN "function" ELSE "variable"
               IN IF parent = "for_statement" THEN Each(names, kind, scope, Always, node.type = "const")
                  ELSE Each(names, kind, scope, Never, node.type = "const")
         [] node.type = "for_in" -> Each(names, "variable", scope, Always, FALSE)
         [] node.type = "catch" -> Each(names, "variable", below, IsE, FALSE)
         [] OTHER -> <<>>

Scopes == {"function", "method", "class", "lambda", "arrow", "function_value"}
Dunder(language, ident) == language = "python" /\ "dunder" \in ident.name.styles

\* The definitions of a tree in the order of a pre-order walk.
RECURSIVE Identifiers(_, _, _, _, _)
Identifiers(language, nodes, place, scope, parent) ==
    FlattenSeq([i \in DOMAIN nodes |->
        LET node == nodes[i]
            here == Append(place, i)
            found == IF language = "python" THEN PythonNode(node, scope, here, parent)
                     ELSE JsNode(node, scope, here, parent)
        IN SelectSeq(found, LAMBDA d : ~Dunder(language, d))
           \o Identifiers(language, node.children, here,
                          IF node.type \in Scopes THEN here ELSE scope, node.type)])
Definitions(tree) == Identifiers(tree.language, tree.nodes, <<>>, NoScope, "module")

(***************************************************************************)
(* The tally: a name counts once per kind and scope, as it is first met.   *)
(***************************************************************************)
SameName(a, b) == a.name.id = b.name.id /\ a.kind = b.kind /\ a.scope = b.scope
First(found) ==
    LET first == SelectSeq([i \in DOMAIN found |-> i], LAMBDA j :
                     ~\E i \in 1..(j - 1) : SameName(found[i], found[j]))
    IN [k \in DOMAIN first |-> found[first[k]]]
IsShort(ident) == ident.kind = "variable" /\ ident.name.short /\ ident.name.id # "_" /\ ~ident.exempt

_tally(tree) ==
    LET counted == First(Definitions(tree))
        having(Test(_)) == Len(SelectSeq(counted, Test))
    IN [identifiers |-> Len(counted),
        naming |-> [kind \in {"function", "class", "variable"} |->
                       [conforming |-> having(LAMBDA d : d.kind = kind /\ _conforms(tree.language, d)),
                        total |-> having(LAMBDA d : d.kind = kind)]],
        single_letter |-> having(IsShort),
        generic |-> having(LAMBDA d : d.name.generic)]

(***************************************************************************)
(* Documentation: Python definitions outside functions, and what a script  *)
(* exports, documented by a comment that ends right above it.              *)
(***************************************************************************)
RECURSIVE PythonPublic(_)
PythonPublic(nodes) ==
    FlattenSeq([i \in DOMAIN nodes |->
        LET node == nodes[i]
        IN (IF node.type \in {"function", "class"} /\ ~node.name.private THEN <<node.documented>> ELSE <<>>)
           \o (IF node.type \in {"function", "lambda"} THEN <<>> ELSE PythonPublic(node.children))])

\* Statements: [type, jsdoc, first, last, public], a comment among them a statement of its own.
_js_documented(statements, i) ==
    i > 1 /\ LET previous == statements[i - 1]
             IN previous.type = "comment" /\ previous.jsdoc /\ previous.last >= statements[i].first - 1
JsPublic(statements) ==
    LET exported == SelectSeq([i \in DOMAIN statements |-> i], LAMBDA i :
                        statements[i].type = "export" /\ statements[i].public)
    IN [k \in DOMAIN exported |-> _js_documented(statements, exported[k])]
docs(tree) ==
    LET public == IF tree.language = "python" THEN PythonPublic(tree.nodes) ELSE JsPublic(tree.statements)
    IN [public |-> Len(public), documented |-> Len(SelectSeq(public, LAMBDA d : d))]

\* Each row counts once however many comments are on it.
_comment_lines(comments) == Cardinality(UNION {c.first..c.last : c \in Range(comments)})

_ratio(part, whole) == IF whole = 0 THEN NoValue ELSE (1000 * part) \div whole
SumOf(trees, Of(_)) == FoldLeft(LAMBDA a, tree : a + Of(tree), 0, trees)

collect(trees) ==
    LET identifiers == SumOf(trees, LAMBDA t : _tally(t).identifiers)
    IN [files_parsed |-> Len(trees), identifiers |-> identifiers,
        single_letter |-> _ratio(SumOf(trees, LAMBDA t : _tally(t).single_letter), identifiers),
        generic |-> _ratio(SumOf(trees, LAMBDA t : _tally(t).generic), identifiers),
        density |-> _ratio(SumOf(trees, LAMBDA t : _comment_lines(t.comments)),
                           SumOf(trees, LAMBDA t : t.nonBlank)),
        docstrings |-> _ratio(SumOf(trees, LAMBDA t : docs(t).documented), SumOf(trees, LAMBDA t : docs(t).public))]
build_report(trees) ==
    [applicable |-> trees # <<>>, score |-> NoValue, metrics |-> collect(trees)]

(***************************************************************************)
(* Properties.                                                             *)
(***************************************************************************)
\* Defining a name again in its scope adds nothing to any count, and which of a Python file's
\* top-level definitions comes first does not change how its names follow the convention.
Again(tree) == [tree EXCEPT !.nodes = @ \o SelectSeq(@, LAMBDA n : n.type \in {"assignment", "for", "var"})]
NamesCountOnce(tree) ==
    /\ _tally(Again(tree)) = _tally(tree)
    /\ tree.language = "python"
           => _tally([tree EXCEPT !.nodes = Reverse(@)]).naming = _tally(tree).naming
    /\ _tally(tree).identifiers
           = MapThenSumSet(LAMBDA kind : _tally(tree).naming[kind].total, {"function", "class", "variable"})

\* A one-letter name that is only ever a loop, lambda or catch variable is never counted, one
\* that never is always is, and no other name is counted as one letter long.
ShortNamesAreCounted(tree) ==
    LET found == Definitions(tree)
        definitionsOf(d) == SelectSeq(found, LAMBDA other : SameName(d, other))
        letter(d) == d.kind = "variable" /\ d.name.short /\ d.name.id # "_"
        distinct == SelectSeq(First(found), letter)
    IN /\ _tally(tree).single_letter
              >= Len(SelectSeq(distinct, LAMBDA d : \A o \in Range(definitionsOf(d)) : ~o.exempt))
       /\ _tally(tree).single_letter
              <= Len(SelectSeq(distinct, LAMBDA d : \E o \in Range(definitionsOf(d)) : ~o.exempt))
=============================================================================
