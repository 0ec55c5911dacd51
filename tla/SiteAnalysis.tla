---------------------------- MODULE SiteAnalysis ----------------------------
(***************************************************************************)
(* The analyses of one address: the requests that ask for it, the rows     *)
(* they create, share or copy, the analyze_site messages, the tasks that   *)
(* run them and the reaper.                                                *)
(*                                                                         *)
(* Every statement of the code that looks for other analyses filters by    *)
(* the normalized address, so one address is the whole system.  A request  *)
(* creates at most one row; request and row share a name.  The quota of a  *)
(* subject is kept elsewhere: here a request may be refused.               *)
(*                                                                         *)
(* Time is kept as ages in an arbitrary unit that saturate at AgeCap,      *)
(* beyond every limit.                                                     *)
(***************************************************************************)
EXTENDS Integers, FiniteSets

CONSTANTS
    Rows,           \* requests and the analyses they may create
    Earlier,        \* those that were completed before the behaviour begins
    Users, Anonymous,
    InFlightWindow, \* IN_FLIGHT_WINDOW (10 minutes)
    CacheTTL,       \* site_cache_ttl_seconds (6 hours)
    HardLimit,      \* time_limit of analyze_site
    Grace,          \* stale_job_grace_seconds
    QueueLimit,     \* the reaper's hour for a queued analysis
    AgeCap,
    MaxLosses       \* bound: processes and hosts lost in one behaviour

ASSUME SiteDurations ==
    /\ {InFlightWindow, CacheTTL, HardLimit, Grace, QueueLimit, AgeCap, MaxLosses}
           \subseteq Nat
    /\ \A limit \in {InFlightWindow, CacheTTL, HardLimit + Grace, QueueLimit} :
           limit < AgeCap
ASSUME SiteOwners == Anonymous \notin Users

NoRow == 0
ASSUME SiteRows ==
    /\ Rows \subseteq Nat \ {NoRow} /\ Earlier \subseteq Rows
    /\ IsFiniteSet(Rows)

VARIABLES
    \* the request that may create the row
    api, owner, forced,
    looked,     \* the analyses in flight when the request looked for one to share
    \* the site_analyses row
    status, age, runAge, copyOf,
    \* analyze_site messages and tasks
    queue, task, taskAge, losses,
    fetches     \* how often the page was fetched for the row

request == <<api, owner, forced, looked>>
row == <<status, age, runAge, copyOf>>
work == <<queue, task, taskAge, losses, fetches>>
vars == <<request, row, work>>

Owners == Users \union {Anonymous}
InFlight == {"queued", "running"}
Settled == {"completed", "failed"}
Working == {"capturing", "assessing_risk", "extracting_design"}
Ages == 0 .. AgeCap
Older(a) == IF a < AgeCap THEN a + 1 ELSE a

TypeOK ==
    /\ api \in [Rows -> {"idle", "cache", "in_flight", "insert", "publish", "done"}]
    /\ owner \in [Rows -> Owners]
    /\ forced \in [Rows -> BOOLEAN]
    /\ looked \in [Rows -> SUBSET Rows]
    /\ status \in [Rows -> InFlight \union Settled \union {"none"}]
    /\ age \in [Rows -> Ages] /\ runAge \in [Rows -> Ages]
    /\ copyOf \in [Rows -> Rows \union {NoRow}]
    /\ queue \subseteq Rows
    /\ task \in [Rows -> {"none", "check", "claim"} \union Working]
    /\ taskAge \in [Rows -> Ages]
    /\ losses \in 0 .. MaxLosses
    /\ fetches \in [Rows -> Nat]

Init ==
    /\ api = [r \in Rows |-> IF r \in Earlier THEN "done" ELSE "idle"]
    /\ owner \in {o \in [Rows -> Owners] : \A r \in Rows \ Earlier : o[r] = Anonymous}
    /\ forced = [r \in Rows |-> FALSE]
    /\ looked = [r \in Rows |-> {}]
    /\ status = [r \in Rows |-> IF r \in Earlier THEN "completed" ELSE "none"]
    /\ age = [r \in Rows |-> 0]
    /\ runAge = [r \in Rows |-> 0]
    /\ copyOf = [r \in Rows |-> NoRow]
    /\ queue = {}
    /\ task = [r \in Rows |-> "none"]
    /\ taskAge = [r \in Rows |-> 0]
    /\ losses = 0
    /\ fetches = [r \in Rows |-> IF r \in Earlier THEN 1 ELSE 0]

(***************************************************************************)
(* The request.                                                            *)
(***************************************************************************)
ApiGoto(r, label) == api' = [api EXCEPT ![r] = label]

\* A request arrives with a valid address; `force` skips both lookups.  Requests are
\* numbered in the order of their arrival.
Arrive(r) ==
    /\ api[r] = "idle"
    /\ \A q \in Rows : q < r => api[q] # "idle"
    /\ \E o \in Owners, f \in BOOLEAN :
        /\ owner' = [owner EXCEPT ![r] = o]
        /\ forced' = [forced EXCEPT ![r] = f]
        /\ ApiGoto(r, IF f THEN "insert" ELSE "cache")
    /\ UNCHANGED <<looked, row, work>>

\* An owned analysis is visible to its owner, an anonymous one to everybody.
VisibleTo(o, r) == owner[r] \in {Anonymous, o}

\* A variant without the condition on copies, for comparison.
RecentWithCopies(r) == {q \in Rows : /\ status[q] = "completed"
                                     /\ age[q] <= CacheTTL
                                     /\ VisibleTo(owner[r], q)}

\* The first query: a completed original no older than the TTL that the caller may see.
Recent(r) == {q \in Rows : /\ status[q] = "completed"
                           /\ copyOf[q] = NoRow
                           /\ age[q] <= CacheTTL
                           /\ VisibleTo(owner[r], q)}

\* ORDER BY created_at DESC LIMIT 1.
Newest(S) == {q \in S : \A p \in S : age[q] <= age[p]}

ReuseRecent(r) ==
    /\ api[r] = "cache"
    /\ \E q \in Newest(Recent(r)) : copyOf' = [copyOf EXCEPT ![r] = q]
    /\ status' = [status EXCEPT ![r] = "completed"]
    /\ age' = [age EXCEPT ![r] = 0]
    /\ ApiGoto(r, "done")
    /\ UNCHANGED <<owner, forced, looked, runAge, work>>

NothingRecent(r) ==
    /\ api[r] = "cache" /\ Recent(r) = {}
    /\ ApiGoto(r, "in_flight")
    /\ UNCHANGED <<owner, forced, looked, row, work>>

\* A variant that looks for queued analyses only.
ShareableQueued(r) == {q \in Rows : /\ status[q] = "queued"
                                    /\ age[q] <= InFlightWindow
                                    /\ owner[q] = owner[r]}

\* The second query: an analysis of the caller's own that has not ended.
Shareable(r) == {q \in Rows : /\ status[q] \in InFlight
                              /\ age[q] <= InFlightWindow
                              /\ owner[q] = owner[r]}

ShareInFlight(r) ==
    /\ api[r] = "in_flight" /\ Shareable(r) # {}
    /\ ApiGoto(r, "done")
    /\ UNCHANGED <<owner, forced, looked, row, work>>

NothingInFlight(r) ==
    /\ api[r] = "in_flight" /\ Shareable(r) = {}
    /\ looked' = [looked EXCEPT ![r] = {q \in Rows : status[q] \in InFlight}]
    /\ ApiGoto(r, "insert")
    /\ UNCHANGED <<owner, forced, row, work>>

\* The quota of the day is used up.
Refuse(r) ==
    /\ api[r] = "insert"
    /\ ApiGoto(r, "done")
    /\ UNCHANGED <<owner, forced, looked, row, work>>

Insert(r) ==
    /\ api[r] = "insert"
    /\ status' = [status EXCEPT ![r] = "queued"]
    /\ age' = [age EXCEPT ![r] = 0]
    /\ ApiGoto(r, "publish")
    /\ UNCHANGED <<owner, forced, looked, runAge, copyOf, work>>

Publish(r) ==
    /\ api[r] = "publish"
    /\ queue' = queue \union {r}
    /\ ApiGoto(r, "done")
    /\ UNCHANGED <<owner, forced, looked, row, task, taskAge, losses, fetches>>

\* The broker refuses the message: the row is closed.
PublishRefused(r) ==
    /\ api[r] = "publish"
    /\ status' = [status EXCEPT ![r] = "failed"]
    /\ ApiGoto(r, "done")
    /\ UNCHANGED <<owner, forced, looked, age, runAge, copyOf, work>>

\* The API process dies between the commit and the publish.
ApiDies(r) ==
    /\ api[r] = "publish"
    /\ ApiGoto(r, "done")
    /\ UNCHANGED <<owner, forced, looked, row, work>>

(***************************************************************************)
(* The task.  Its message is acknowledged when it ends, whatever the end,  *)
(* and delivered again when its process or its host is lost.  A message    *)
(* may wait for any time, so that of a lost host, which is hidden until    *)
(* the visibility timeout, is a waiting one.                               *)
(***************************************************************************)
TaskGoto(r, label) == task' = [task EXCEPT ![r] = label]
EndTask(r) ==
    /\ TaskGoto(r, "none")
    /\ taskAge' = [taskAge EXCEPT ![r] = 0]

Deliver(r) ==
    /\ r \in queue
    /\ queue' = queue \ {r}
    /\ TaskGoto(r, "check")
    /\ taskAge' = [taskAge EXCEPT ![r] = 0]
    /\ UNCHANGED <<request, row, losses, fetches>>

\* Only a queued analysis is run: a delivery of one that was started is dropped.
Claimable(r) == status[r] = "queued"

Check(r) ==
    /\ task[r] = "check"
    /\ \/ Claimable(r) /\ TaskGoto(r, "claim") /\ UNCHANGED taskAge
       \/ ~Claimable(r) /\ EndTask(r)
    /\ UNCHANGED <<request, row, queue, losses, fetches>>

\* run_site_analysis writes `running` over whatever the row holds by now.
Claim(r) ==
    /\ task[r] = "claim"
    /\ status' = [status EXCEPT ![r] = "running"]
    /\ runAge' = [runAge EXCEPT ![r] = 0]
    /\ fetches' = [fetches EXCEPT ![r] = @ + 1]
    /\ TaskGoto(r, "capturing")
    /\ UNCHANGED <<request, age, copyOf, queue, taskAge, losses>>

\* What a stage found is committed with the name of the next stage.
NextStage(r) ==
    /\ \/ task[r] = "capturing" /\ TaskGoto(r, "assessing_risk")
       \/ task[r] = "assessing_risk" /\ TaskGoto(r, "extracting_design")
    /\ UNCHANGED <<request, row, queue, taskAge, losses, fetches>>

Complete(r) ==
    /\ task[r] = "extracting_design"
    /\ status' = [status EXCEPT ![r] = "completed"]
    /\ EndTask(r)
    /\ UNCHANGED <<request, age, runAge, copyOf, queue, losses, fetches>>

\* A blocked address, a failed capture, the soft limit or any other error: the
\* transaction is rolled back and the row closed.
AnalysisFails(r) ==
    /\ task[r] \in Working \union {"claim"}
    /\ status' = [status EXCEPT ![r] = "failed"]
    /\ EndTask(r)
    /\ UNCHANGED <<request, age, runAge, copyOf, queue, losses, fetches>>

\* The database fails in the check or in the handler: the task ends without a write.
TaskErrors(r) ==
    /\ task[r] # "none"
    /\ EndTask(r)
    /\ UNCHANGED <<request, row, queue, losses, fetches>>

HardTimeout(r) ==
    /\ task[r] # "none" /\ taskAge[r] = HardLimit
    /\ EndTask(r)
    /\ UNCHANGED <<request, row, queue, losses, fetches>>

WorkerLost(r) ==
    /\ task[r] # "none" /\ losses < MaxLosses
    /\ losses' = losses + 1
    /\ EndTask(r)
    /\ queue' = queue \union {r}
    /\ UNCHANGED <<request, row, fetches>>

\* Variants: the run counted from the creation of the row, and running rows only.
StaleByCreation(r) ==
    \/ status[r] = "running" /\ age[r] > HardLimit + Grace
    \/ status[r] = "queued" /\ age[r] > QueueLimit

StaleIfRunning(r) == status[r] = "running" /\ runAge[r] > HardLimit + Grace

(***************************************************************************)
(* The reaper and the clock.                                               *)
(***************************************************************************)
Stale(r) ==
    \/ status[r] = "running" /\ runAge[r] > HardLimit + Grace
    \/ status[r] = "queued" /\ age[r] > QueueLimit

Reap ==
    /\ \E r \in Rows : Stale(r)
    /\ status' = [r \in Rows |-> IF Stale(r) THEN "failed" ELSE status[r]]
    /\ UNCHANGED <<request, age, runAge, copyOf, work>>

\* A task at its hard limit is killed before more time passes.
Tick ==
    /\ \A r \in Rows : task[r] # "none" => taskAge[r] < HardLimit
    /\ age' = [r \in Rows |-> CASE status[r] = "none" -> 0
                              [] status[r] = "failed" -> AgeCap  \* not read again
                              [] OTHER -> Older(age[r])]
    /\ runAge' = [r \in Rows |-> IF status[r] = "running" THEN Older(runAge[r]) ELSE 0]
    /\ taskAge' = [r \in Rows |-> IF task[r] = "none" THEN 0 ELSE Older(taskAge[r])]
    /\ UNCHANGED <<request, status, copyOf, queue, task, losses, fetches>>

Lookup(r) == ReuseRecent(r) \/ NothingRecent(r) \/ ShareInFlight(r) \/ NothingInFlight(r)
Respond(r) == Lookup(r) \/ Refuse(r) \/ Insert(r) \/ Publish(r) \/ PublishRefused(r) \/ ApiDies(r)
TaskStep(r) == \/ Check(r) \/ Claim(r) \/ NextStage(r) \/ Complete(r)
               \/ AnalysisFails(r) \/ TaskErrors(r) \/ HardTimeout(r)

Next ==
    \/ \E r \in Rows : \/ Arrive(r) \/ Respond(r)
                       \/ Deliver(r) \/ TaskStep(r)
                       \/ WorkerLost(r)
    \/ Reap
    \/ Tick

Spec == Init /\ [][Next]_vars

\* The clock runs and beat runs the reaper.  Nothing is assumed of workers or messages.
FairSpec == Spec /\ WF_vars(Tick) /\ WF_vars(Reap)
                 /\ WF_vars(\E r \in Rows : HardTimeout(r))

(***************************************************************************)
(* Properties.                                                             *)
(***************************************************************************)
\* The page of an analysis is fetched at most once, whatever is lost and redelivered
\* ("Not retried: a second fetch of a phishing page is not worth the extra exposure"), and
\* the reaper never closes an analysis that a live task is working on: it would be reported
\* failed and then completed.
AnalyzedOnce ==
    \A r \in Rows : /\ fetches[r] <= 1
                     /\ task[r] \in Working => status[r] = "running"

\* The original a row was copied from, through however many copies.
Origins(r) ==
    LET next[n \in Nat] == IF n = 0 THEN r
                           ELSE IF copyOf[next[n - 1]] = NoRow THEN next[n - 1]
                           ELSE copyOf[next[n - 1]]
    IN next[Cardinality(Rows)]

\* A request answered from the cache gets the result of a page asked for no longer
\* than the TTL ago, from an analysis it could have read itself: reuse must not keep a
\* result alive by copying copies, nor show one user's analysis to another.
ReuseIsFreshAndVisible ==
    [][\A r \in Rows : (copyOf[r] = NoRow /\ copyOf'[r] # NoRow) =>
          LET origin == Origins(copyOf'[r])
          IN /\ age[origin] <= CacheTTL
             /\ owner[origin] \in {Anonymous, owner[r]}]_vars

\* Two analyses of one caller that are both in flight within the window and were not
\* forced come from requests that overlapped: the later one looked before the earlier
\* one was inserted.
DuplicatesOverlap ==
    \A r, q \in Rows :
        /\ status[r] \in InFlight /\ status[q] \in InFlight
        /\ ~forced[r] /\ owner[r] = owner[q] /\ r # q
        /\ age[r] < AgeCap /\ age[q] <= InFlightWindow
        => q \notin looked[r]

\* Every analysis that was accepted ends, although its message or its worker may be lost.
EventuallySettled ==
    \A r \in Rows \ Earlier : status[r] \in InFlight ~> status[r] \in Settled
=============================================================================
