---------------------------- MODULE ToolResults ----------------------------
(***************************************************************************)
(* From what the tools print to findings: the parsers of Semgrep, Bandit,  *)
(* Ruff and OSV-Scanner, the caches of rule packs and vulnerability        *)
(* databases they depend on, and what becomes of a tool that fails.        *)
(*                                                                         *)
(* A version is a sequence of numbers.  A result that lacks a field the    *)
(* parsers require has malformed set and is skipped.                       *)
(***************************************************************************)
LOCAL INSTANCE Integers
LOCAL INSTANCE Sequences
LOCAL INSTANCE FiniteSets
LOCAL INSTANCE FiniteSetsExt
LOCAL INSTANCE SequencesExt

Severities == <<"info", "warning", "error", "critical">>
SeverityRank(s) == CHOOSE i \in DOMAIN Severities : Severities[i] = s
Worst(severities) == Severities[Max({SeverityRank(s) : s \in severities})]
None == "none"

WellFormed(results) == SelectSeq(results, LAMBDA r : ~r.malformed)
Finding(analyzer, rule_id, severity, result, end_line) ==
    [analyzer |-> analyzer, rule_id |-> rule_id, severity |-> severity, file_path |-> result.path,
     start_line |-> result.start_line, end_line |-> end_line]

(***************************************************************************)
(* Semgrep, Bandit, Ruff.                                                  *)
(***************************************************************************)
map_severity(value) ==
    CASE value \in {"WARNING", "MEDIUM"} -> "warning"
      [] value \in {"ERROR", "HIGH"} -> "error"
      [] value = "CRITICAL" -> "critical"
      [] OTHER -> "info"

\* Overlapping packs report a rule at a place twice: the first report stays.
PlaceOf(r) == <<r.rule_id, r.path, r.start_line, r.start_col, r.end_line, r.end_col>>
parse_semgrep_output(results) ==
    LET kept == SelectSeq([i \in DOMAIN WellFormed(results) |-> i], LAMBDA i :
                    ~\E k \in 1 .. (i - 1) : PlaceOf(WellFormed(results)[k]) = PlaceOf(WellFormed(results)[i]))
        result(n) == WellFormed(results)[kept[n]]
    IN [n \in DOMAIN kept |-> Finding("semgrep", result(n).rule_id, map_severity(result(n).severity), result(n),
                                      Max({result(n).start_line, result(n).end_line}))]

_DOWNGRADE(severity) == Severities[Max({1, SeverityRank(severity) - 1})]
BanditSeverity(issue_severity, issue_confidence) ==
    LET severity == CASE issue_severity = "MEDIUM" -> "warning"
                      [] issue_severity = "HIGH" -> "error"
                      [] OTHER -> "info"
    IN IF issue_confidence = "LOW" THEN _DOWNGRADE(severity) ELSE severity
parse_bandit_output(results) ==
    [n \in DOMAIN WellFormed(results) |->
        LET r == WellFormed(results)[n]
        IN Finding("bandit", r.rule_id, BanditSeverity(r.severity, r.confidence), r,
                   Max({r.start_line} \union r.line_range))]

\* A code is the sequence of its characters: the first prefix decides, so longer ones come first.
_SEVERITY_PREFIXES ==
    << <<<<"E", "9">>, "error">>, <<<<"F", "5">>, "error">>, <<<<"F", "6", "3">>, "error">>,
       <<<<"F", "7">>, "error">>, <<<<"F", "8", "2">>, "error">>, <<<<"P", "L", "E">>, "error">>,
       <<<<"E", "7", "2", "2">>, "warning">>, <<<<"F", "6">>, "warning">>,
       <<<<"F", "8", "1", "1">>, "warning">>, <<<<"B">>, "warning">> >>
RuffSeverity(code) ==
    LET matching == SelectSeq(_SEVERITY_PREFIXES, LAMBDA p : IsPrefix(p[1], code))
    IN IF code = <<>> THEN "error" ELSE IF matching = <<>> THEN "info" ELSE matching[1][2]
parse_ruff_output(results) ==
    [n \in DOMAIN WellFormed(results) |->
        LET r == WellFormed(results)[n]
        IN Finding("ruff", r.rule_id, RuffSeverity(r.rule_id), r, Max({r.start_line, r.end_line}))]

(***************************************************************************)
(* OSV-Scanner.  An advisory is [id, affected, label], affected a set of   *)
(* [package, git, events], events a sequence of [event, version]; <<0>>    *)
(* introduces "since the beginning".  A group is [ids, aliases, cvss],     *)
(* ids and aliases sequences of [kind, number].                            *)
(***************************************************************************)
RECURSIVE _version_below(_, _)
_version_below(a, b) ==
    \/ a = <<>> /\ b # <<>>
    \/ a # <<>> /\ b # <<>> /\ (a[1] < b[1] \/ (a[1] = b[1] /\ _version_below(Tail(a), Tail(b))))
NotAbove(a, b) == a = b \/ _version_below(a, b)

Lowest(versions) == CHOOSE v \in versions : \A w \in versions : NotAbove(v, w)
Highest(versions) == CHOOSE v \in versions : \A w \in versions : NotAbove(w, v)

\* A score of 0 or none leaves it to the labels of the databases.
normalize_severity(cvss, labels) ==
    CASE cvss >= 9 -> "critical"
      [] cvss >= 7 -> "error"
      [] cvss >= 4 -> "warning"
      [] cvss > 0 -> "info"
      [] OTHER -> IF labels = {} THEN "warning" ELSE Worst(labels)

\* The ranges of events: an introduction is closed by the next fix; one that a later introduction
\* replaces, or that has no fix, states no range.
AffectedRange(events, i) ==
    LET closers == {k \in DOMAIN events : k > i /\ events[k].event \in {"introduced", "fixed"}}
    IN IF events[i].event # "introduced" \/ closers = {} \/ events[Min(closers)].event # "fixed" THEN <<>>
       ELSE <<events[i].version, events[Min(closers)].version>>
Holds(range, version) ==
    range # <<>> /\ (range[1] = <<0>> \/ NotAbove(range[1], version)) /\ _version_below(version, range[2])
Concerns(affected, package) == affected.package = package /\ ~affected.git

fixed_versions(advisory, package, installed) ==
    UNION {{AffectedRange(a.events, i)[2] : i \in {k \in DOMAIN a.events : Holds(AffectedRange(a.events, k), installed)}} :
              a \in {b \in advisory.affected : Concerns(b, package)}}

\* The highest of what each advisory needs least, where every advisory has a fix.
fixed_version(advisories, package, installed) ==
    LET fixes == {fixed_versions(v, package, installed) : v \in advisories}
    IN IF {} \in fixes THEN <<>> ELSE Highest({Lowest(f) : f \in fixes})
\* The most recognisable id: a CVE among the aliases, a GHSA anywhere, the first id.
_advisory_id(group) ==
    LET of(candidates, kind) == {c \in Range(candidates) : c.kind = kind}
        first(found) == CHOOSE c \in found : \A d \in found : c.number <= d.number
    IN IF of(group.aliases, "CVE") # {} THEN first(of(group.aliases, "CVE"))
       ELSE IF of(group.ids \o group.aliases, "GHSA") # {} THEN first(of(group.ids \o group.aliases, "GHSA"))
       ELSE IF group.ids # <<>> THEN group.ids[1] ELSE [kind |-> "unknown", number |-> 0]

\* An entry is [path, package, installed, advisories, groups]; a group whose advisories are not
\* in the entry is left out.
GroupAdvisories(entry, group) == {v \in entry.advisories : v.id \in Range(group.ids)}
parse_osv_output(entries) ==
    FlattenSeq([e \in DOMAIN entries |->
        LET entry == entries[e]
            groups == SelectSeq(entry.groups, LAMBDA g : GroupAdvisories(entry, g) # {})
        IN [g \in DOMAIN groups |->
               LET group == groups[g]
                   vulns == GroupAdvisories(entry, group)
               IN [analyzer |-> "dependencies", rule_id |-> _advisory_id(group),
                   severity |-> normalize_severity(group.cvss, {v.label : v \in vulns} \ {None}),
                   file_path |-> entry.path, start_line |-> 1, end_line |-> 1,
                   fixed_version |-> fixed_version(vulns, entry.package, entry.installed)]]])

\* The line that declares the package, where the manifest is in the repository and has one.
Located(finding, line) == IF line = 0 THEN finding ELSE [finding EXCEPT !.start_line = line, !.end_line = line]

(***************************************************************************)
(* Caches.  A cached file is "missing", "stale" or "fresh"; another worker *)
(* may have refreshed it while this one waited for the lock; the download  *)
(* works or does not.                                                      *)
(***************************************************************************)
_ensure(cached, refreshed_meanwhile, download) ==
    CASE cached = "fresh" \/ refreshed_meanwhile -> "fresh"
      [] download -> "fresh"
      [] OTHER -> IF cached = "stale" THEN "stale" ELSE None

\* A missing rule pack fails the analyzer; a missing database is a warning unless all are missing.
ensure_rule_packs(packs, cached, download) ==
    [failed |-> \E p \in packs : _ensure(cached[p], FALSE, download[p]) = None]
ensure_databases(ecosystems, cached, refreshed, download) ==
    LET missing == {e \in ecosystems : _ensure(cached[e], refreshed[e], download[e]) = None}
    IN [failed |-> ecosystems # {} /\ missing = ecosystems, warnings |-> missing]

BASE_PACKS == <<"security-audit", "secrets">>
LANGUAGE_PACKS(language) ==
    CASE language = "python" -> <<"python", "flask">>
      [] language = "javascript" -> <<"javascript", "nodejs">>
      [] language = "typescript" -> <<"typescript", "nodejs">>
      [] OTHER -> <<>>
select_packs(languages) ==
    LET all == BASE_PACKS \o FlattenSeq([i \in DOMAIN languages |-> LANGUAGE_PACKS(languages[i])])
        first == SelectSeq([i \in DOMAIN all |-> i], LAMBDA i : ~\E k \in 1 .. (i - 1) : all[k] = all[i])
    IN [n \in DOMAIN first |-> all[first[n]]]

(***************************************************************************)
(* A run of an analyzer ends in one of these ways; no exception leaves it. *)
(* A collector runs in a child process, whose exit tells how it ended.     *)
(***************************************************************************)
run_collector(exit) ==
    CASE exit = "killed after the grace" \/ exit = "timeout" -> "AnalyzerTimeoutError"
      [] exit = "signal" \/ exit = "nonzero" \/ exit = "no output" -> "AnalysisError"
      [] OTHER -> "ok"
run_analyzer_safely(analyzer, outcome) ==
    [analyzer |-> analyzer, success |-> outcome = "ok",
     timed_out |-> outcome = "AnalyzerTimeoutError", transient |-> outcome = "TransientInfraError"]

\* What becomes of an ecosystem of the repository: the scanner itself names those whose database
\* it could not load.
DependencyRun(ecosystems, cached, refreshed, download, scanner) ==
    LET databases == ensure_databases(ecosystems, cached, refreshed, download)
        usable == {e \in ecosystems : _ensure(cached[e], refreshed[e], download[e]) # None}
    IN IF databases.failed THEN [success |-> FALSE, checked |-> {}, warned |-> {}]
       ELSE IF scanner # "ok" THEN [success |-> FALSE, checked |-> {}, warned |-> {}]
       ELSE [success |-> TRUE, checked |-> usable, warned |-> databases.warnings \union (ecosystems \ usable)]

\* The run statuses a score is computed from, and whether two scores may be compared.
context_for_scan(runs) ==
    [run |-> {r.analyzer : r \in {s \in runs : s.status = "completed"}},
     failed |-> {r.analyzer : r \in {s \in runs : s.status \in {"failed", "timed_out"}}}]
comparable(base, head) ==
    /\ base.scored /\ head.scored
    /\ base.rubric_version = head.rubric_version
    /\ ~base.incomplete /\ ~head.incomplete

(***************************************************************************)
(* Properties.                                                             *)
(***************************************************************************)
\* The version a finding recommends fixes every advisory of the group, as long as each advisory
\* states one range for the package; it is an upgrade and no smaller one of those named suffices.
Affects(advisory, package, version) ==
    \E a \in advisory.affected : /\ Concerns(a, package)
                                 /\ \E i \in DOMAIN a.events : Holds(AffectedRange(a.events, i), version)
OneRange(advisory) ==
    /\ Cardinality(advisory.affected) <= 1
    /\ \A a \in advisory.affected :
          Cardinality({i \in DOMAIN a.events : a.events[i].event = "introduced"}) <= 1
UpgradeFixesGroup(advisories, package, installed) ==
    LET fixed == fixed_version(advisories, package, installed)
        named == UNION {fixed_versions(v, package, installed) : v \in advisories}
    IN fixed # <<>> =>
           /\ _version_below(installed, fixed)
           /\ (\A v \in advisories : OneRange(v)) =>
                  /\ \A v \in advisories : ~Affects(v, package, fixed)
                  /\ \A other \in named : _version_below(other, fixed)
                         => \E v \in advisories : Affects(v, package, other)

\* An ecosystem of the repository is checked, named in a warning, or the run fails and with it
\* the completeness of the score; a stale database counts as checked.
NothingUncheckedIsSilent(ecosystems, cached, refreshed, download, scanner) ==
    LET run == DependencyRun(ecosystems, cached, refreshed, download, scanner)
    IN /\ run.success => \A e \in ecosystems : (e \in run.checked) # (e \in run.warned)
       /\ ~run.success => run.checked = {}
       /\ (\E e \in ecosystems : cached[e] # "missing") /\ scanner = "ok" => run.success

\* Two reports of one place become one finding, and which of them stays does not depend on
\* anything but their order; nothing else is lost.
OneReportPerPlace(results) ==
    LET findings == parse_semgrep_output(results)
    IN /\ Len(findings) = Cardinality({PlaceOf(r) : r \in Range(WellFormed(results))})
       /\ \A f \in Range(findings) : f.start_line <= f.end_line
=============================================================================
