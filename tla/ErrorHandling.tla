--------------------------- MODULE ErrorHandling ---------------------------
(***************************************************************************)
(* The error-handling signal: which exception handlers drop the error,     *)
(* which I/O calls are guarded, which promises are handled, and the three  *)
(* rates that make the score.                                              *)
(*                                                                         *)
(* A site is a record with its kind and what surrounds it: the sequence of *)
(* its ancestors, innermost first, each [type, body], body for an ancestor *)
(* that is a try statement reached from its body.  Rates are in 1/1000.    *)
(***************************************************************************)
LOCAL INSTANCE Integers
LOCAL INSTANCE Sequences
LOCAL INSTANCE FiniteSets
LOCAL INSTANCE FiniteSetsExt
LOCAL INSTANCE SequencesExt

LARGE_TRY_LINES == 25
NoValue == -1

\* The nearest enclosing function ends the search; a handler or finally block is not the body.
_inside_try_body(ancestors) ==
    LET deciding == SelectSeq(ancestors, LAMBDA a : a.type = "function" \/ (a.type = "try" /\ a.body))
    IN deciding # <<>> /\ deciding[1].type = "try"

(***************************************************************************)
(* Python handlers: [types, alias, body, span], types the exception        *)
(* classes caught, <<>> for a bare except; body a sequence of statements,  *)
(* each [form, calls, uses_alias]: the calls in it and whether it names    *)
(* the exception, outside nested definitions.                              *)
(***************************************************************************)
_PY_BROAD == {"Exception", "BaseException"}
_PY_EXPECTED == {"KeyError", "AttributeError", "FileNotFoundError"}

bare(h) == h.types = <<>>
broad(h) == bare(h) \/ Range(h.types) \intersect _PY_BROAD # {}
_py_trivial_body(h) == \A s \in Range(h.body) : s.form \in {"pass", "ellipsis"}

python_io_call(call) ==
    \/ call.name \in {"open", "urlopen"}
    \/ call.attribute /\ (call.name \in {"execute", "read_text"} \/ call.owner \in {"requests", "os"})

_py_is_log_call(call) ==
    \/ call.name = "print_exc"
    \/ call.attribute /\ call.owner = "logger" /\ call.name \in {"warning", "exception"}

\* Re-raised, logged or looked at.
HandlesError(h) ==
    \E s \in Range(h.body) : \/ s.form = "raise"
                             \/ \E call \in s.calls : _py_is_log_call(call)
                             \/ h.alias /\ s.uses_alias

_python_handler(h) ==
    IF bare(h) THEN {"bare-except"}
    ELSE IF broad(h) /\ _py_trivial_body(h) THEN {"swallowed-broad-except"}
    ELSE IF ~(Range(h.types) \subseteq _PY_EXPECTED) /\ ~HandlesError(h) THEN {"exception-ignored"}
    ELSE {}

large_block(h) == IF broad(h) /\ h.span > LARGE_TRY_LINES THEN {"broad-except-large-block"} ELSE {}

(***************************************************************************)
(* JavaScript.  A chain is the sequence of its calls, innermost first,     *)
(* each [method, args, io], method "" where the call is not of a member.   *)
(***************************************************************************)
js_io_call(call) == call.io

_chain_methods_above(chain, k) == SubSeq(chain, k + 1, Len(chain))
\* Down to the first call that is not of a member.
_chain_methods_below(chain) ==
    LET plain == {k \in DOMAIN chain : chain[k].method = ""}
    IN SubSeq(chain, IF plain = {} THEN 1 ELSE Max(plain) + 1, Len(chain))
_chain_calls_below(chain) ==
    LET plain == {k \in DOMAIN chain : chain[k].method = ""}
    IN SubSeq(chain, IF plain = {} THEN 1 ELSE Max(plain), Len(chain))

_handles_rejection(methods) ==
    \E m \in Range(methods) : m.method = "catch" \/ (m.method = "then" /\ m.args >= 2)

\* What a chain is the whole of: an expression statement, the operand of an await, or neither.
WrappedCall(site, k) ==
    _inside_try_body(site.ancestors) \/ _handles_rejection(_chain_methods_above(site.chain, k))

PromiseStatement(site) ==
    /\ site.role = "statement"
    /\ \E m \in Range(_chain_methods_below(site.chain)) : m.method = "then"
UnhandledPromise(site) ==
    PromiseStatement(site) /\ ~_handles_rejection(_chain_methods_below(site.chain))

enclosing_async(site) ==
    LET functions == SelectSeq(site.ancestors, LAMBDA a : a.type = "function")
    IN functions # <<>> /\ functions[1].body

\* For a function among the ancestors, body says whether it is async.
AwaitedIO(site) ==
    /\ site.role = "await"
    /\ \E c \in Range(_chain_calls_below(site.chain)) : js_io_call(c)
    /\ enclosing_async(site)
AwaitOutsideTry(site) ==
    /\ AwaitedIO(site)
    /\ ~_inside_try_body(site.ancestors)
    /\ ~_handles_rejection(_chain_methods_below(site.chain))

_js_handler(statements) ==
    IF statements = {} THEN {"empty-catch"}
    ELSE IF statements = {"console"} THEN {"catch-only-logs-to-console"}
    ELSE {}

(***************************************************************************)
(* collect() and build_report().  files is a sequence of sites; a file     *)
(* that is a test, too large or unreadable contributes none.               *)
(***************************************************************************)
SWALLOW_RULES == {"bare-except", "swallowed-broad-except", "empty-catch", "exception-ignored",
                  "catch-only-logs-to-console"}

RulesAt(site) ==
    CASE site.kind = "except" -> _python_handler(site.handler) \union large_block(site.handler)
      [] site.kind = "catch" -> _js_handler(site.statements)
      [] site.kind = "chain" -> (IF UnhandledPromise(site) THEN {"unhandled-promise"} ELSE {})
                                \union (IF AwaitOutsideTry(site) THEN {"await-io-outside-try"} ELSE {})
      [] OTHER -> {}

IOCalls(site) ==
    CASE site.kind = "call" -> IF python_io_call(site.call) THEN {0} ELSE {}
      [] site.kind = "chain" -> {k \in DOMAIN site.chain : js_io_call(site.chain[k])}
      [] site.kind = "new" -> IF site.io THEN {0} ELSE {}
      [] OTHER -> {}
\* A constructor's rejection is nobody's: only a try around it counts.
WrappedIO(site) ==
    IF site.kind \in {"call", "new"} THEN {k \in IOCalls(site) : _inside_try_body(site.ancestors)}
    ELSE {k \in IOCalls(site) : WrappedCall(site, k)}

CountOf(sites, f(_)) == MapThenSumSet(LAMBDA i : f(sites[i]), DOMAIN sites)
handlers(sites) == Len(SelectSeq(sites, LAMBDA s : s.kind \in {"except", "catch"}))
swallowed(sites) == CountOf(sites, LAMBDA s : Cardinality(RulesAt(s) \intersect SWALLOW_RULES))
io_sites(sites) == CountOf(sites, LAMBDA s : Cardinality(IOCalls(s)))
io_wrapped(sites) == CountOf(sites, LAMBDA s : Cardinality(WrappedIO(s)))
promise_sites(sites) ==
    Len(SelectSeq(sites, LAMBDA s : s.kind = "chain" /\ (PromiseStatement(s) \/ AwaitedIO(s))))
unhandled(sites) ==
    CountOf(sites, LAMBDA s : Cardinality(RulesAt(s) \intersect {"unhandled-promise", "await-io-outside-try"}))

Missing(part, whole) == IF whole = 0 THEN NoValue ELSE 1000 - (1000 * part) \div whole
components(sites) ==
    <<Missing(swallowed(sites), handlers(sites)),
      IF io_sites(sites) = 0 THEN NoValue ELSE (1000 * io_wrapped(sites)) \div io_sites(sites),
      Missing(unhandled(sites), promise_sites(sites))>>

\* The unweighted mean of the components there are.
mean_score(values) ==
    LET present == SelectSeq(values, LAMBDA v : v # NoValue)
    IN IF present = <<>> THEN NoValue ELSE FoldLeft(LAMBDA x, y : x + y, 0, present) \div Len(present)

build_report(sites) == mean_score(components(sites))

\* Findings are capped per rule, in the order of the files; the counts are not.
parse(sites, rule, cap) ==
    LET reported == SelectSeq([i \in DOMAIN sites |-> i], LAMBDA i : rule \in RulesAt(sites[i]))
    IN SubSeq(reported, 1, Min({cap, Len(reported)}))

(***************************************************************************)
(* Properties, for a sequence of sites.                                    *)
(***************************************************************************)
\* Every rate is a share: no handler is counted as swallowing twice, no call as wrapped that is
\* not a site, no promise as unhandled that is not one.
RatesAreShares(sites) ==
    /\ swallowed(sites) <= handlers(sites)
    /\ unhandled(sites) <= promise_sites(sites)
    /\ \A v \in Range(components(sites)) : v = NoValue \/ v \in 0 .. 1000

\* The two walks along a chain agree: an awaited call that is reported as unguarded is also an
\* unwrapped I/O site.
ReportedAwaitsAreUnwrapped(sites) ==
    \A s \in Range(sites) :
        s.kind = "chain" /\ AwaitOutsideTry(s) => IOCalls(s) \ WrappedIO(s) # {}

\* The same call in a nested function is not guarded by a try around the definition.
DefinitionsAreNotGuarded(sites) ==
    \A s \in Range(sites) :
        s.kind = "call" /\ s.ancestors # <<>> /\ s.ancestors[1].type = "function" => WrappedIO(s) = {}
=============================================================================
