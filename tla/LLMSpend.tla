------------------------------ MODULE LLMSpend ------------------------------
(***************************************************************************)
(* The accounting of LLM calls: every call reserves its worst case before  *)
(* it is sent and is settled with what it used.  The rows of llm_calls are *)
(* the only ledger; the scan's token budget, the owner's monthly quota and *)
(* the day's spend are sums over them, read under one advisory lock.       *)
(*                                                                         *)
(* Only calls that were reserved are kept: the rows of refused and of      *)
(* uncounted calls hold no tokens and no cost and enter no sum.  All days  *)
(* of a behaviour lie in one month.                                        *)
(***************************************************************************)
EXTENDS Integers, Sequences, FiniteSetsExt

CONSTANTS
    Callers,            \* tasks making LLM calls
    Subjects,           \* scans and site analyses
    Users,              \* owners; the anonymous pool is one of them
    SubjectOf,          \* the subject each caller works on
    OwnerOf,            \* the owner of each subject
    Budget,             \* token ceiling per subject
    Quota,              \* monthly tokens per owner
    Cap,                \* llm_daily_spend_cap_usd
    AlertAt,            \* the spend at which the threshold alert fires
    Inputs,             \* sizes a prompt may have, in tokens
    MaxOutput,          \* llm_max_output_tokens
    InPrice, OutPrice,  \* per token
    Pricing,            \* how the price table knows the model
    MaxCalls, MaxDay, MaxKills,     \* bounds
    NoOne               \* the advisory lock is free

Pricings == {"priced", "unknown", "local"}

ASSUME TableAssumption ==
    /\ SubjectOf \in [Callers -> Subjects]
    /\ OwnerOf \in [Subjects -> Users]
    /\ Pricing \in Pricings
    /\ NoOne \notin Callers /\ IsFiniteSet(Callers)
ASSUME AmountAssumption ==
    /\ Budget \in [Subjects -> Nat] /\ Quota \in [Users -> Nat]
    /\ Cap \in Nat /\ AlertAt \in Nat
    /\ Inputs \subseteq Nat /\ MaxOutput \in Nat
    /\ InPrice \in Nat /\ OutPrice \in Nat
    /\ MaxCalls \in Nat /\ MaxDay \in Nat /\ MaxKills \in Nat

VARIABLES
    calls,              \* llm_calls, in the order of their ids
    lock,               \* holder of the advisory lock of the daily spend
    killSwitch,         \* the Redis key is set
    alerts,             \* alert keys set in Redis: <<day, level>>
    day,                \* today
    kills,
    pc,
    need,               \* input tokens counted for the call being reserved
    began,              \* the day the reservation's transaction began
    finished,           \* what the first sum of tokens_used returned
    call                \* id of the call in flight, 0 if none

caller == <<pc, need, began, finished, call>>
vars == <<calls, lock, killSwitch, alerts, day, kills, caller>>

Levels == {"threshold", "cap_reached"}
Days == 0 .. MaxDay
Pcs == {"idle", "lock", "sum", "budget", "quota", "cap", "commit", "send", "alert"}
CallRows == [subject : Subjects, pending : BOOLEAN, reserved : Nat,
             input : Nat, output : Nat, cost : Nat, day : Days]

ListPrice(input, output) == input * InPrice + output * OutPrice

\* estimate_cost_usd: a model without a price is priced like the dearest one.
Estimate(input) == IF Pricing = "local" THEN 0 ELSE ListPrice(input, MaxOutput)

\* cost_usd: a model without a price costs nothing.
Cost(input, output) == IF Pricing = "priced" THEN ListPrice(input, output) ELSE 0

Reserve(input) == input + MaxOutput

Ids == DOMAIN calls
CallsOf(s) == {i \in Ids : calls[i].subject = s}
Used == [i \in Ids |-> calls[i].input + calls[i].output]
TokensFinished(s) == SumFunctionOnSet(Used, {i \in CallsOf(s) : ~calls[i].pending})
Reserved == [i \in Ids |-> calls[i].reserved]
TokensReserved(s) == SumFunctionOnSet(Reserved, {i \in CallsOf(s) : calls[i].pending})

\* Used tokens, and the reservation only while the call is in flight.
CallTokens == [i \in Ids |-> Used[i] + (IF calls[i].pending THEN Reserved[i] ELSE 0)]
CallsOfUser(u) == {i \in Ids : OwnerOf[calls[i].subject] = u}
TokensOfUser(u) == SumFunctionOnSet(CallTokens, CallsOfUser(u))

Costs == [i \in Ids |-> calls[i].cost]
SpendSince(d) == SumFunctionOnSet(Costs, {i \in Ids : calls[i].day >= d})
SpendToday == SpendSince(day)

TypeOK ==
    /\ calls \in Seq(CallRows) /\ Len(calls) <= MaxCalls
    /\ lock \in Callers \union {NoOne}
    /\ killSwitch \in BOOLEAN
    /\ alerts \subseteq Days \X Levels
    /\ day \in Days /\ kills \in 0 .. MaxKills
    /\ pc \in [Callers -> Pcs]
    /\ need \in [Callers -> Inputs \union {0}]
    /\ began \in [Callers -> Days]
    /\ finished \in [Callers -> Nat]
    /\ call \in [Callers -> 0 .. MaxCalls]

Init ==
    /\ calls = <<>> /\ lock = NoOne /\ killSwitch = FALSE /\ alerts = {}
    /\ day = 0 /\ kills = 0
    /\ pc = [c \in Callers |-> "idle"]
    /\ need = [c \in Callers |-> 0]
    /\ began = [c \in Callers |-> 0]
    /\ finished = [c \in Callers |-> 0]
    /\ call = [c \in Callers |-> 0]

Goto(c, label) == pc' = [pc EXCEPT ![c] = label]

\* The caller is done with this request; a correction request is a new one.
Forget(c) ==
    /\ Goto(c, "idle")
    /\ need' = [need EXCEPT ![c] = 0]
    /\ began' = [began EXCEPT ![c] = 0]
    /\ finished' = [finished EXCEPT ![c] = 0]
    /\ call' = [call EXCEPT ![c] = 0]

-----------------------------------------------------------------------------
(* _reserve, in one transaction under the advisory lock.                   *)

Reserving == {c \in Callers : pc[c] \in {"lock", "sum", "budget", "quota", "cap", "commit"}}

\* The input is counted, and the transaction begins by asking for the lock.
Begin(c) ==
    /\ pc[c] = "idle" /\ Len(calls) + Cardinality(Reserving) < MaxCalls
    /\ Goto(c, "lock")
    /\ \E i \in Inputs : need' = [need EXCEPT ![c] = i]
    /\ began' = [began EXCEPT ![c] = day]
    /\ UNCHANGED <<calls, lock, killSwitch, alerts, day, kills, finished, call>>

\* Mutant: the reservation does not wait for the lock.
LockDailySpendFree(c) ==
    /\ pc[c] = "lock"
    /\ Goto(c, "sum")
    /\ UNCHANGED <<calls, lock, killSwitch, alerts, day, kills, need, began, finished, call>>

LockDailySpend(c) ==
    /\ pc[c] = "lock" /\ lock = NoOne
    /\ lock' = c
    /\ Goto(c, "sum")
    /\ UNCHANGED <<calls, killSwitch, alerts, day, kills, need, began, finished, call>>

\* tokens_used is two statements, and each sees what is committed by then.
SumFinished(c) ==
    /\ pc[c] = "sum"
    /\ finished' = [finished EXCEPT ![c] = TokensFinished(SubjectOf[c])]
    /\ Goto(c, "budget")
    /\ UNCHANGED <<calls, lock, killSwitch, alerts, day, kills, need, began, call>>

\* The refusal is committed, which releases the lock.
Refuse(c) ==
    /\ lock' = NoOne
    /\ Forget(c)
    /\ UNCHANGED <<calls, killSwitch, alerts, day, kills>>

\* Mutant: what other calls have reserved is not counted.
CheckBudgetFinishedOnly(c) ==
    /\ pc[c] = "budget"
    /\ IF finished[c] + Reserve(need[c]) > Budget[SubjectOf[c]]
       THEN Refuse(c)
       ELSE /\ Goto(c, "quota")
            /\ UNCHANGED <<calls, lock, killSwitch, alerts, day, kills, need, began,
                           finished, call>>

CheckBudget(c) ==
    /\ pc[c] = "budget"
    /\ IF finished[c] + TokensReserved(SubjectOf[c]) + Reserve(need[c])
            > Budget[SubjectOf[c]]
       THEN Refuse(c)
       ELSE /\ Goto(c, "quota")
            /\ UNCHANGED <<calls, lock, killSwitch, alerts, day, kills, need, began,
                           finished, call>>

CheckQuota(c) ==
    /\ pc[c] = "quota"
    /\ LET u == OwnerOf[SubjectOf[c]] IN
       IF TokensOfUser(u) + Reserve(need[c]) > Quota[u]
       THEN Refuse(c)
       ELSE /\ Goto(c, "cap")
            /\ UNCHANGED <<calls, lock, killSwitch, alerts, day, kills, need, began,
                           finished, call>>

\* costs.blocked_reason: local models are stopped by the kill switch alone.
Blocked(c) ==
    \/ killSwitch
    \/ Pricing # "local" /\ (Cap = 0 \/ SpendToday + Estimate(need[c]) > Cap)

CheckCap(c) ==
    /\ pc[c] = "cap"
    /\ IF Blocked(c)
       THEN Refuse(c)
       ELSE /\ Goto(c, "commit")
            /\ UNCHANGED <<calls, lock, killSwitch, alerts, day, kills, need, began,
                           finished, call>>

\* The row bears the time its transaction began; the lock goes with the
\* transaction.
CommitCall(c) ==
    /\ pc[c] = "commit"
    /\ calls' = Append(calls, [subject |-> SubjectOf[c], pending |-> TRUE,
                               reserved |-> Reserve(need[c]), input |-> 0, output |-> 0,
                               cost |-> Estimate(need[c]), day |-> began[c]])
    /\ call' = [call EXCEPT ![c] = Len(calls) + 1]
    /\ lock' = NoOne
    /\ Goto(c, "send")
    /\ UNCHANGED <<killSwitch, alerts, day, kills, need, began, finished>>

-----------------------------------------------------------------------------
(* The request and _finish, which takes no lock.                           *)

Settle(i, input, output) ==
    calls' = [calls EXCEPT ![i].pending = FALSE, ![i].input = input,
                           ![i].output = output, ![i].cost = Cost(input, output)]

\* A response: refused, truncated or complete, it is billed for what it used.
Respond(c) ==
    /\ pc[c] = "send"
    /\ \E output \in 0 .. MaxOutput : Settle(call[c], need[c], output)
    /\ Goto(c, "alert")
    /\ UNCHANGED <<lock, killSwitch, alerts, day, kills, need, began, finished, call>>

\* The retries are used up: the call is recorded as free.
RequestFails(c) ==
    /\ pc[c] = "send"
    /\ Settle(call[c], 0, 0)
    /\ Goto(c, "alert")
    /\ UNCHANGED <<lock, killSwitch, alerts, day, kills, need, began, finished, call>>

\* Mutant: the lock belongs to the session, and a pooled one lives on.
KilledWithLock(c) ==
    /\ pc[c] # "idle" /\ kills < MaxKills
    /\ kills' = kills + 1
    /\ Forget(c)
    /\ UNCHANGED <<calls, lock, killSwitch, alerts, day>>

\* The task dies, is stopped by its time limit, or cannot store the outcome.
Killed(c) ==
    /\ pc[c] # "idle" /\ kills < MaxKills
    /\ kills' = kills + 1
    /\ lock' = IF lock = c THEN NoOne ELSE lock
    /\ Forget(c)
    /\ UNCHANGED <<calls, killSwitch, alerts, day>>

-----------------------------------------------------------------------------
(* check_spend_alerts, after every finished call and from beat.            *)

AlertLevel == IF SpendToday >= Cap THEN "cap_reached" ELSE "threshold"
AlertDue == Cap > 0 /\ (SpendToday >= Cap \/ SpendToday >= AlertAt)

\* Mutant: one key per day instead of one per day and level.
RaiseAlertOnceADay ==
    alerts' = IF AlertDue /\ ~\E l \in Levels : <<day, l>> \in alerts
              THEN alerts \union {<<day, AlertLevel>>} ELSE alerts

RaiseAlert ==
    alerts' = IF AlertDue THEN alerts \union {<<day, AlertLevel>>} ELSE alerts

CheckSpendAlerts(c) ==
    /\ pc[c] = "alert"
    /\ RaiseAlert
    /\ Forget(c)
    /\ UNCHANGED <<calls, lock, killSwitch, day, kills>>

BeatSpendAlerts ==
    /\ RaiseAlert
    /\ UNCHANGED <<calls, lock, killSwitch, day, kills, caller>>

-----------------------------------------------------------------------------

\* set_kill_switch and clear_kill_switch.
ToggleKillSwitch ==
    /\ killSwitch' = ~killSwitch
    /\ UNCHANGED <<calls, lock, alerts, day, kills, caller>>

Midnight ==
    /\ day < MaxDay
    /\ day' = day + 1
    /\ UNCHANGED <<calls, lock, killSwitch, alerts, kills, caller>>

Reservation(c) ==
    \/ LockDailySpend(c) \/ SumFinished(c) \/ CheckBudget(c) \/ CheckQuota(c)
    \/ CheckCap(c) \/ CommitCall(c)
Outcome(c) == Respond(c) \/ RequestFails(c) \/ CheckSpendAlerts(c)

Next ==
    \/ \E c \in Callers : Begin(c) \/ Reservation(c) \/ Outcome(c) \/ Killed(c)
    \/ BeatSpendAlerts
    \/ ToggleKillSwitch
    \/ Midnight

Spec == Init /\ [][Next]_vars

\* The database answers a live transaction, grants the lock in turn, and beat
\* keeps running.  No answer of the model is assumed.
Fairness ==
    /\ \A c \in Callers :
          /\ SF_vars(LockDailySpend(c))
          /\ WF_vars(\/ SumFinished(c) \/ CheckBudget(c) \/ CheckQuota(c)
                     \/ CheckCap(c) \/ CommitCall(c))
    /\ WF_vars(BeatSpendAlerts)

FairSpec == Spec /\ Fairness

-----------------------------------------------------------------------------
(* Properties.                                                             *)

\* The day's spend, with the calls in flight at their worst case, never passes
\* the cap, however many tasks reserve, settle and die at the same time.
SpendWithinCap == Pricing # "local" => SpendToday <= Cap

\* An owner's tokens of the month never pass the quota, also when several of
\* the owner's scans and sites are worked on at once.
QuotaHolds == \A u \in Users : TokensOfUser(u) <= Quota[u]

\* A subject's tokens never pass its ceiling: true while one task at a time
\* works on the subject, false for two (a call that settles between the two sums
\* of the other task's reservation is in neither).
BudgetHolds ==
    \A s \in Subjects : TokensFinished(s) + TokensReserved(s) <= Budget[s]

\* Neither ceiling of tokens is passed: the owner's of the month, which is checked for every call,
\* and the subject's, which is checked for the subject alone.
TokensWithinLimits == QuotaHolds /\ BudgetHolds

\* Nobody waits for the spend lock forever: a task that is killed with it
\* releases it, and every reservation is granted or refused.
ReservationIsDecided ==
    \A c \in Callers : pc[c] = "lock" ~> pc[c] \in {"idle", "send"}

\* A spend that stays at the cap is reported as such the same day, also when
\* the threshold was reported earlier that day.
CapReachedIsAlerted ==
    \A d \in Days :
        (day = d /\ Cap > 0 /\ SpendToday >= Cap)
            ~> (<<d, "cap_reached">> \in alerts \/ day # d \/ SpendToday < Cap)

-----------------------------------------------------------------------------
(* What the code's comments and documents say and the model refutes.       *)

\* quotas._call_tokens: "its worst-case reservation only while it is still in
\* flight."
PendingIsInFlight ==
    \A i \in Ids : calls[i].pending => \E c \in Callers : call[c] = i

\* costs: "today's spend (finished calls + in-flight estimates) can't be
\* overshot by concurrent calls": no day's calls cost more than the cap.
DailyTotalWithinCap ==
    \A d \in Days :
        SumFunctionOnSet(Costs, {i \in Ids : calls[i].day = d}) <= Cap

\* estimate_cost_usd: "so the daily cap can't be bypassed by a new model name":
\* today's calls stay within the cap when settled at the rate they were
\* reserved at.
CapHoldsForNewModels ==
    SumFunctionOnSet([i \in Ids |-> IF calls[i].pending THEN calls[i].cost
                                    ELSE ListPrice(calls[i].input, calls[i].output)],
                     {i \in Ids : calls[i].day >= day}) <= Cap
=============================================================================
