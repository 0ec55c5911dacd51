----------------------------- MODULE CiQuality -----------------------------
(***************************************************************************)
(* The CI signal: which categories of step the pipelines run, whether they *)
(* run on pull requests, and whether a build or deployment is gated by the *)
(* tests.                                                                  *)
(*                                                                         *)
(* An item is a command line or an action reference: [categories, install],*)
(* the categories whose patterns it matches and whether it only installs   *)
(* or echoes.  Scores are in 1/1000.                                       *)
(***************************************************************************)
LOCAL INSTANCE Integers
LOCAL INSTANCE Sequences
LOCAL INSTANCE FiniteSets
LOCAL INSTANCE FiniteSetsExt
LOCAL INSTANCE SequencesExt
LOCAL INSTANCE TLC

CATEGORIES == {"tests", "lint", "security", "build"}
NoValue == -1
NoStage == 0

classify(item) == IF item.install THEN {} ELSE item.categories
categories(job) == UNION {classify(job.items[i]) : i \in DOMAIN job.items}

(***************************************************************************)
(* Providers.  A parsed job is [name, items, needs, stage]; stages count   *)
(* from 1.  The documents are records of what the parsers look at.         *)
(***************************************************************************)
Job(name, items, needs, stage) == [name |-> name, items |-> items, needs |-> needs, stage |-> stage]

\* doc: [triggers, pr_condition, jobs], a job [name, uses, steps, needs], uses a sequence of at
\* most one reference to a reusable workflow.
_parse_github(doc) ==
    [jobs |-> [i \in DOMAIN doc.jobs |->
                 Job(doc.jobs[i].name, doc.jobs[i].uses \o doc.jobs[i].steps, doc.jobs[i].needs, NoStage)],
     runs_on_pr |-> doc.triggers \intersect {"pull_request", "pull_request_target"} # {},
     pr_condition |-> doc.pr_condition]

\* A value is reached by the keys on the way to it; what is under except or a failed only is not.
_gitlab_pr(values) ==
    \E v \in values :
        /\ "except" \notin Range(v.keys)
        /\ \/ Last(v.keys) = "if" /\ v.value = "merge_request_event" /\ "only" \notin Range(v.keys)
           \/ v.value = "merge_requests"
              /\ (Last(v.keys) = "only" \/ IsSuffix(<<"only", "refs">>, v.keys))

_GITLAB_DEFAULT_STAGES == <<".pre", "build", "test", "deploy", ".post">>
StageIndex(stages, stage) ==
    IF stage \in Range(stages) THEN CHOOSE i \in DOMAIN stages : stages[i] = stage ELSE NoStage
\* doc: [stages, before, values, jobs], a job [name, hidden, runs, script, stage, needs,
\* dependencies], runs whether it has a script, a trigger or something it extends.
_parse_gitlab(doc) ==
    LET stages == IF doc.stages = <<>> THEN _GITLAB_DEFAULT_STAGES ELSE doc.stages
        jobs == SelectSeq(doc.jobs, LAMBDA j : ~j.hidden /\ j.runs)
    IN [jobs |-> [i \in DOMAIN jobs |->
                    Job(jobs[i].name, doc.before \o jobs[i].script, jobs[i].needs \union jobs[i].dependencies,
                        StageIndex(stages, jobs[i].stage))],
        runs_on_pr |-> _gitlab_pr(doc.values), pr_condition |-> FALSE]

\* doc: [jobs, workflow], a workflow entry [name, requires]; what a job requires in several
\* workflows adds up, and an entry without a job is one of an orb, known by its name alone.
_parse_circleci(doc) ==
    LET required(name) == UNION {doc.workflow[i].requires : i \in {k \in DOMAIN doc.workflow : doc.workflow[k].name = name}}
        named == {doc.jobs[i].name : i \in DOMAIN doc.jobs}
        orbs == SetToSeq({doc.workflow[i].name : i \in DOMAIN doc.workflow} \ named)
    IN [jobs |-> [i \in DOMAIN doc.jobs |->
                    Job(doc.jobs[i].name, doc.jobs[i].items, required(doc.jobs[i].name), NoStage)]
                 \o [i \in DOMAIN orbs |-> Job(orbs[i], <<>>, required(orbs[i]), NoStage)],
        runs_on_pr |-> FALSE, pr_condition |-> FALSE]

\* Azure, Travis, Bitbucket and Jenkins: one sequential job.
_parse_single_job(provider, doc) ==
    [jobs |-> <<Job(provider, doc.items, {}, NoStage)>>,
     runs_on_pr |-> CASE provider = "travis" -> TRUE
                      [] provider = "azure" -> doc.pr \notin {"none", "null"}
                      [] OTHER -> doc.pr = "pull-requests",
     pr_condition |-> FALSE]

\* A file that is too large, unreadable or not YAML has no jobs and an error.
Unreadable == [jobs |-> <<>>, runs_on_pr |-> FALSE, pr_condition |-> FALSE]
load_ci_file(file) ==
    CASE ~file.readable -> Unreadable
      [] file.provider = "github" -> _parse_github(file.doc)
      [] file.provider = "gitlab" -> _parse_gitlab(file.doc)
      [] file.provider = "circleci" -> _parse_circleci(file.doc)
      [] OTHER -> _parse_single_job(file.provider, file.doc)

(***************************************************************************)
(* Gating.                                                                 *)
(***************************************************************************)
\* A name that is not a job of the file is an ancestor without needs of its own; a later job of
\* the same name stands for both.
NeedsOf(jobs, name) ==
    LET named == {i \in DOMAIN jobs : jobs[i].name = name}
    IN IF named = {} THEN {} ELSE jobs[Max(named)].needs
RECURSIVE Upstream(_, _, _)
Upstream(jobs, frontier, seen) ==
    IF frontier \subseteq seen THEN seen
    ELSE Upstream(jobs, UNION {NeedsOf(jobs, n) : n \in frontier \ seen}, seen \union frontier)
_ancestors(jobs, job) == Upstream(jobs, job.needs, {})
Having(job, category) == {i \in DOMAIN job.items : category \in classify(job.items[i])}
TestJobs(jobs) == {i \in DOMAIN jobs : "tests" \in categories(jobs[i])}

NeedsTests(jobs, job) == \E i \in TestJobs(jobs) : jobs[i].name \in _ancestors(jobs, job)
AfterTests(job) ==
    Having(job, "tests") # {} /\ Min(Having(job, "tests")) < Max(Having(job, "build"))
LaterStage(jobs, job) ==
    job.stage # NoStage
    /\ \E i \in TestJobs(jobs) : jobs[i].stage # NoStage /\ jobs[i].stage < job.stage

gated_jobs(jobs) ==
    {<<jobs[i].name, IF NeedsTests(jobs, jobs[i]) THEN "needs"
                     ELSE IF AfterTests(jobs[i]) THEN "same job" ELSE "later stage">> :
        i \in {k \in DOMAIN jobs : /\ Having(jobs[k], "build") # {}
                                  /\ \/ NeedsTests(jobs, jobs[k])
                                     \/ AfterTests(jobs[k])
                                     \/ LaterStage(jobs, jobs[k])}}

(***************************************************************************)
(* analyze().  hints says whether a settings file mentions required status *)
(* checks.                                                                 *)
(***************************************************************************)
Discovered(files) == [i \in DOMAIN files |-> load_ci_file(files[i])]
Present(files) ==
    UNION {UNION {categories(Discovered(files)[i].jobs[k]) : k \in DOMAIN Discovered(files)[i].jobs} :
              i \in DOMAIN files}
Gated(files) == UNION {gated_jobs(Discovered(files)[i].jobs) : i \in DOMAIN files}
branch_protection_hint(files, hints) ==
    hints \/ (\E g \in Gated(files) : g[2] = "needs") \/ (\E i \in DOMAIN files : Discovered(files)[i].pr_condition)
components(files, hints) ==
    LET one(condition) == IF condition THEN 1 ELSE 0
    IN [c \in CATEGORIES |-> one(c \in Present(files))]
       @@ [c \in {"pr_trigger"} |-> one(\E i \in DOMAIN files : Discovered(files)[i].runs_on_pr)]
       @@ [c \in {"gating"} |-> IF "build" \in Present(files)
                                THEN one(Gated(files) # {} \/ branch_protection_hint(files, hints))
                                ELSE NoValue]
analyze(files, hints) ==
    LET values == components(files, hints)
        present == {c \in DOMAIN values : values[c] # NoValue}
    IN IF files = <<>> THEN NoValue
       ELSE (1000 * MapThenSumSet(LAMBDA c : values[c], present)) \div Cardinality(present)

(***************************************************************************)
(* Properties, for the jobs of one file.                                   *)
(***************************************************************************)
\* The orders in which the jobs can run when each waits for what it needs.
Schedules(jobs) ==
    {order \in Permutations(DOMAIN jobs) :
        \A i, k \in DOMAIN jobs : jobs[k].name \in jobs[i].needs => order[k] < order[i]}

\* A build is reported as needing the tests exactly when some test job precedes it in every
\* order the needs allow.
NeedsMeanAlwaysAfter(jobs) ==
    \A b \in DOMAIN jobs :
        Having(jobs[b], "build") # {} /\ Schedules(jobs) # {} /\ b \notin TestJobs(jobs)
            => (NeedsTests(jobs, jobs[b])
                    <=> \A order \in Schedules(jobs) : \E t \in TestJobs(jobs) : order[t] < order[b])

\* A step more, in a job of its own, never lowers the score.
AddingAJobNeverHurts(files, hints, more) ==
    \A i \in DOMAIN files :
        files[i].readable /\ files[i].provider \in {"github", "gitlab"}
            => analyze(files, hints) <= analyze([files EXCEPT ![i].doc.jobs = Append(@, more)], hints)
=============================================================================
