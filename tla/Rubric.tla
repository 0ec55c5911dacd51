------------------------------- MODULE Rubric -------------------------------
(***************************************************************************)
(* The scoring rubric: from findings, experimental signals and the state   *)
(* of the analyzers to category values, an overall score, and the points   *)
(* each finding is worth.                                                  *)
(*                                                                         *)
(* Numbers are integers.  Weights and half-lives are in 1/200, which makes *)
(* every product of a severity weight with the two factors exact; rank     *)
(* multipliers and signal values are in 1/100; values are in 1/1000.  The  *)
(* decay 2^(-penalty/half-life) is exact at whole half-lives and linear in *)
(* between.  A code base of size s has s^6 KLOC, so that the square and    *)
(* cube roots are integers, and 20 s^2 modules.                            *)
(***************************************************************************)
LOCAL INSTANCE Integers
LOCAL INSTANCE Sequences
LOCAL INSTANCE FiniteSets
LOCAL INSTANCE FiniteSetsExt
LOCAL INSTANCE TLC

Severities == <<"info", "warning", "error", "critical">>
DEFAULT_SEVERITY == [info |-> 100, warning |-> 400, error |-> 1000, critical |-> 2000]
LINT_SEVERITY == [info |-> 20, warning |-> 100, error |-> 300, critical |-> 600]

CATEGORIES == [
    security |-> [weight |-> 40, analyzers |-> {"semgrep", "bandit"},
                  severity |-> DEFAULT_SEVERITY, half_life |-> 2400, size |-> "kloc_cbrt"],
    dependencies |-> [weight |-> 20, analyzers |-> {"dependency"},
                      severity |-> DEFAULT_SEVERITY, half_life |-> 5000, size |-> "none"],
    architecture |-> [weight |-> 20, analyzers |-> {"architecture"},
                      severity |-> DEFAULT_SEVERITY, half_life |-> 4000, size |-> "modules"],
    code_health |-> [weight |-> 20, analyzers |-> {"ruff"},
                     severity |-> LINT_SEVERITY, half_life |-> 5000, size |-> "kloc_sqrt"],
    process |-> [weight |-> 15, analyzers |-> {},
                 severity |-> DEFAULT_SEVERITY, half_life |-> 200, size |-> "none"]]

Analyzers == UNION {CATEGORIES[c].analyzers : c \in DOMAIN CATEGORIES}
CategoryOf(analyzer) == CHOOSE c \in DOMAIN CATEGORIES : analyzer \in CATEGORIES[c].analyzers

SumOf(f(_), S) == MapThenSumSet(f, S)

\* The process dimension exists only where it is configured.
SpecNames(config) ==
    IF config.process_dimension THEN DOMAIN CATEGORIES ELSE DOMAIN CATEGORIES \ {"process"}

finding_weight(f) ==
    LET w == CATEGORIES[CategoryOf(f.analyzer)].severity[f.severity]
        corroborated == IF f.corroborated_by # {} THEN (w * 5) \div 4 ELSE w
    IN IF f.test THEN corroborated \div 5 ELSE corroborated

size_factor(c, ctx) ==
    LET s == ctx.size
    IN CASE CATEGORIES[c].size = "kloc_sqrt" -> s * s * s
         [] CATEGORIES[c].size = "kloc_cbrt" -> IF s * s > 6 THEN 6 ELSE s * s
         [] CATEGORIES[c].size = "modules" -> s
         [] OTHER -> 1

rank_multiplier(rank) == <<100, 59, 44, 35, 30>>[rank]

\* weights in descending order; a rule's n-th worst finding counts n^-0.75.
Descending(weights) == SortSeq(weights, >)
rule_penalty(weights) ==
    LET ranked == Descending(weights)
    IN SumOf(LAMBDA i : ranked[i] * rank_multiplier(i), DOMAIN ranked)

(***************************************************************************)
(* Experimental signals.                                                   *)
(***************************************************************************)
NoValue == -1
ComponentsOfHealth == {"direct_count", "freshness", "transitive", "trivial"}
ComponentsOfHygiene == {"unused", "phantom"}

Target(signal, category, components) ==
    [signal |-> signal, category |-> category, components |-> components]

signal_targets(config) ==
    LET organization == IF config.process_dimension THEN "process" ELSE "architecture"
        all == {Target("error_handling", "code_health", {}),
                Target("test_quality", "code_health", {}),
                Target("dep_health", config.dep_health_target, ComponentsOfHealth),
                Target("dep_health", "architecture", ComponentsOfHygiene),
                Target("git_history", organization, {}),
                Target("ci_quality", organization, {})}
    IN {t \in all : t.signal \in config.signals}

\* The score of the signal, or the mean of the components it could measure.
signal_value(signal, components) ==
    LET present == {c \in components : signal.components[c] # NoValue}
    IN IF ~signal.applicable THEN NoValue
       ELSE IF components = {} THEN signal.score
       ELSE IF present = {} THEN NoValue
       ELSE SumOf(LAMBDA c : signal.components[c], present) \div Cardinality(present)

Lines(c, ctx, config) ==
    {t \in signal_targets(config) :
        t.category = c /\ signal_value(ctx.signals[t.signal], t.components) # NoValue}

signal_penalty(c, t, ctx) ==
    (CATEGORIES[c].half_life * (100 - signal_value(ctx.signals[t.signal], t.components)))

(***************************************************************************)
(* score().  findings is a sequence; excluded is a set of its indices.     *)
(***************************************************************************)
Members(findings, excluded, c, rule) ==
    SelectSeq([i \in 1 .. Len(findings) |-> i],
              LAMBDA i : /\ i \notin excluded
                         /\ findings[i].analyzer \in CATEGORIES[c].analyzers
                         /\ <<findings[i].analyzer, findings[i].rule_id>> = rule)
Rules(findings, excluded, c) ==
    {<<findings[i].analyzer, findings[i].rule_id>> :
        i \in {j \in 1 .. Len(findings) \ excluded :
                  findings[j].analyzer \in CATEGORIES[c].analyzers}}
Weights(findings, members) == [i \in 1 .. Len(members) |-> finding_weight(findings[members[i]])]

Failed(c, ctx) == CATEGORIES[c].analyzers \intersect ctx.failed # {}
Scored(c, ctx, config) ==
    /\ ~Failed(c, ctx)
    /\ CATEGORIES[c].analyzers \intersect ctx.run # {} \/ Lines(c, ctx, config) # {}

raw_penalty(findings, excluded, c) ==
    SumOf(LAMBDA rule : rule_penalty(Weights(findings, Members(findings, excluded, c, rule))),
          Rules(findings, excluded, c))

penalty_of(findings, excluded, c, ctx, config) ==
    raw_penalty(findings, excluded, c) \div size_factor(c, ctx)
        + SumOf(LAMBDA t : signal_penalty(c, t, ctx), Lines(c, ctx, config))

\* 100 * exp(-penalty * ln 2 / half_life)
Decayed(penalty, half_life) ==
    LET h == half_life * 100
        whole == 1000 \div (2 ^ (IF penalty \div h > 10 THEN 10 ELSE penalty \div h))
    IN whole - ((whole \div 2) * (penalty % h)) \div h

value_of(findings, excluded, c, ctx, config) ==
    Decayed(penalty_of(findings, excluded, c, ctx, config), CATEGORIES[c].half_life)

TotalWeight(ctx, config) ==
    SumOf(LAMBDA c : CATEGORIES[c].weight, {c \in SpecNames(config) : Scored(c, ctx, config)})

\* The overall score, over the categories that could be scored; NoValue without any.
score(findings, excluded, ctx, config) ==
    IF TotalWeight(ctx, config) = 0 THEN NoValue
    ELSE SumOf(LAMBDA c : value_of(findings, excluded, c, ctx, config) * CATEGORIES[c].weight,
               {c \in SpecNames(config) : Scored(c, ctx, config)})
         \div TotalWeight(ctx, config)

incomplete(ctx, config) ==
    TotalWeight(ctx, config) = 0 \/ \E c \in SpecNames(config) : Failed(c, ctx)

GRADES == <<<<900, "A">>, <<800, "B">>, <<700, "C">>, <<550, "D">>, <<0, "F">>>>
grade_for(value) == GRADES[CHOOSE i \in 1 .. 5 : /\ value >= GRADES[i][1]
                                                 /\ \A j \in 1 .. i - 1 : value < GRADES[j][1]][2]

(***************************************************************************)
(* finding_impacts().  The penalty of a rule without its i-th finding is   *)
(* the whole penalty, less what the finding counts, plus what every later  *)
(* finding gains by moving up one rank.                                    *)
(***************************************************************************)
\* A variant whose gains start at the finding itself, for comparison.
gain_with_self(ranked, position) ==
    SumOf(LAMBDA i : ranked[i] * (rank_multiplier(i - 1) - rank_multiplier(i)),
          {i \in 2 .. Len(ranked) : i >= position})

gain(ranked, position) ==
    SumOf(LAMBDA i : ranked[i] * (rank_multiplier(i - 1) - rank_multiplier(i)),
          {i \in 2 .. Len(ranked) : i > position})

removal_penalty(weights, w) ==
    LET ranked == Descending(weights)
        position == CHOOSE i \in DOMAIN ranked : ranked[i] = w
    IN rule_penalty(weights) - ranked[position] * rank_multiplier(position)
           + gain(ranked, position)

\* The value of its category if finding i alone were fixed.
value_without(findings, i, ctx, config) ==
    LET c == CategoryOf(findings[i].analyzer)
        rule == <<findings[i].analyzer, findings[i].rule_id>>
        weights == Weights(findings, Members(findings, {}, c, rule))
        size == size_factor(c, ctx)
        signals == SumOf(LAMBDA t : signal_penalty(c, t, ctx), Lines(c, ctx, config))
        other == raw_penalty(findings, {}, c) + signals * size - rule_penalty(weights)
        remaining == other + removal_penalty(weights, finding_weight(findings[i]))
    IN Decayed((IF remaining < 0 THEN 0 ELSE remaining) \div size, CATEGORIES[c].half_life)

\* Scaled by the total weight of the scored categories.
impact(findings, i, ctx, config) ==
    LET c == CategoryOf(findings[i].analyzer)
        points == value_without(findings, i, ctx, config) - value_of(findings, {}, c, ctx, config)
    IN IF ~Scored(c, ctx, config) THEN 0
       ELSE (IF points < 0 THEN 0 ELSE points) * CATEGORIES[c].weight

(***************************************************************************)
(* Properties of the rubric, for given findings, context and configuration *)
(***************************************************************************)
Fixing(findings, i, ctx, config) == score(findings, {i}, ctx, config)

\* The O(n log n) impacts are exact: the category value they predict is the one a score
\* without the finding would give.
ImpactsAreExact(findings, ctx, config) ==
    \A i \in 1 .. Len(findings) :
        LET c == CategoryOf(findings[i].analyzer)
        IN Scored(c, ctx, config) =>
              value_without(findings, i, ctx, config) = value_of(findings, {i}, c, ctx, config)

\* "Every fix has a non-negative impact": fixing one more finding never lowers the score,
\* whatever was fixed before.
FixesNeverHurt(findings, ctx, config) ==
    \A fixed \in SUBSET (1 .. Len(findings)) : \A i \in 1 .. Len(findings) :
        score(findings, fixed \union {i}, ctx, config) >= score(findings, fixed, ctx, config)

\* The order of the findings does not matter.
OrderIsIrrelevant(findings, ctx, config) ==
    LET n == Len(findings)
    IN score([i \in 1 .. n |-> findings[n + 1 - i]], {}, ctx, config)
           = score(findings, {}, ctx, config)

\* A failed analyzer is never silently scored, and no score means an incomplete report.
FailuresAreReported(findings, ctx, config) ==
    /\ score(findings, {}, ctx, config) = NoValue => incomplete(ctx, config)
    /\ \A i \in 1 .. Len(findings) :
          findings[i].analyzer \in ctx.failed =>
              /\ incomplete(ctx, config)
              /\ impact(findings, i, ctx, config) = 0
              /\ Fixing(findings, i, ctx, config) = score(findings, {}, ctx, config)
=============================================================================
