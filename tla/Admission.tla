----------------------------- MODULE Admission -----------------------------
(***************************************************************************)
(* Who asks and whether the request is let in: the principal of a request, *)
(* the limits that apply to it, and the sliding windows in Redis.          *)
(*                                                                         *)
(* Time is in ticks, SECOND of them to a second.  A call of the script     *)
(* runs when Redis' clock says `at`; the API process read the time it      *)
(* passes `lag` ticks before.                                              *)
(***************************************************************************)
LOCAL INSTANCE Integers
LOCAL INSTANCE Sequences
LOCAL INSTANCE FiniteSets
LOCAL INSTANCE FiniteSetsExt
LOCAL INSTANCE SequencesExt
LOCAL INSTANCE Functions

CONSTANTS SECOND,   \* ticks per second
          WINDOWS,  \* limit name -> seconds
          QUOTAS,   \* tier -> limit name -> events
          HOPS      \* trusted_proxy_hops

NoUser == [id |-> 0, tier |-> "", overrides |-> [n \in {} |-> 0]]
Invalid == [NoUser EXCEPT !.id = -1]
NotForAnonymous == {"pull_requests", "pr_previews"}
tier_defaults(tier) == [n \in DOMAIN WINDOWS |-> IF tier = "anonymous" /\ n \in NotForAnonymous THEN 0 ELSE QUOTAS[tier][n]]
limit_for(subject, name) ==
    IF name \in DOMAIN subject.user.overrides THEN subject.user.overrides[name]
    ELSE tier_defaults(subject.tier)[name]

client_ip(request) ==
    IF HOPS > 0 /\ Len(request.forwarded) >= HOPS
    THEN request.forwarded[Len(request.forwarded) - HOPS + 1] ELSE request.host
subject_for(user, ip) ==
    IF user = NoUser THEN [tier |-> "anonymous", key |-> <<"ip", ip>>, user |-> NoUser]
    ELSE [tier |-> IF user.tier \in {"free", "pro"} THEN user.tier ELSE "free", key |-> <<"user", user.id>>, user |-> user]

(***************************************************************************)
(* A request is [bearer, cookie, safe, csrf, forwarded, host, exempt,      *)
(* consumes, cost, gap, lag]: bearer and cookie name a user, NoUser where  *)
(* there is none and Invalid where it is not a valid one; safe and csrf    *)
(* tell a safe method and the session's token echoed.                      *)
(***************************************************************************)
Principal(user, refusal) == [user |-> user, refusal |-> refusal]
get_principal(request) ==
    CASE request.bearer = Invalid -> Principal(NoUser, "invalid_token")
      [] request.bearer # NoUser -> Principal(request.bearer, "none")
      [] request.cookie \in {NoUser, Invalid} -> Principal(NoUser, "none")
      [] ~request.safe /\ ~request.csrf -> Principal(NoUser, "csrf_failed")
      [] OTHER -> Principal(request.cookie, "none")

(***************************************************************************)
(* The script.  A key holds the scores of its members and the time it      *)
(* expires at.                                                             *)
(***************************************************************************)
Absent == [scores |-> <<>>, expires |-> 0]
Held(key, at) == IF at < key.expires THEN key.scores ELSE <<>>
\* The events of a fixed window, which starts with its first event, for comparison.
FixedWindow(scores, now, window, limit, cost) ==
    LET recent == IF scores # <<>> /\ scores[1] > now - window THEN scores ELSE <<>>
        allowed == IF cost = 0 THEN Len(recent) < limit ELSE Len(recent) + cost <= limit
        kept == IF allowed THEN recent \o [i \in 1 .. cost |-> now] ELSE recent
    IN [scores |-> kept, allowed |-> allowed, oldest |-> IF kept = <<>> THEN now ELSE Min(Range(kept))]

SLIDING_WINDOW_LUA(scores, now, window, limit, cost) ==
    LET recent == SelectSeq(scores, LAMBDA s : s > now - window)
        allowed == IF cost = 0 THEN Len(recent) < limit ELSE Len(recent) + cost <= limit
        kept == IF allowed THEN recent \o [i \in 1 .. cost |-> now] ELSE recent
    IN [scores |-> kept, allowed |-> allowed, oldest |-> IF kept = <<>> THEN now ELSE Min(Range(kept))]

_window(key, at, lag, name, limit, cost) ==
    LET now == at - lag
        window == WINDOWS[name] * SECOND
        result == SLIDING_WINDOW_LUA(Held(key, at), now, window, limit, cost)
        count == Len(result.scores)
    IN [key |-> IF count = 0 THEN Absent ELSE [scores |-> result.scores, expires |-> at + window],
        state |-> [name |-> name, limit |-> limit, used |-> count, allowed |-> result.allowed,
                   reset_seconds |-> IF count = 0 THEN 0
                                     ELSE Max({1, (result.oldest + window - now) \div SECOND + 1})]]
remaining(state) == Max({0, state.limit - state.used})

(***************************************************************************)
(* A request consumes its limits in order and stops at the first refusal.  *)
(* The state is [keys, at, log], log the calls made so far.                *)
(***************************************************************************)
KeyOf(keys, name, subject) ==
    LET id == <<name, subject.key>> IN IF id \in DOMAIN keys THEN keys[id] ELSE Absent
consume(run, request, subject, name, cost) ==
    LET id == <<name, subject.key>>
        result == _window(KeyOf(run.keys, name, subject), run.at, request.lag, name, limit_for(subject, name), cost)
        keys == [k \in DOMAIN run.keys \union {id} |-> IF k = id THEN result.key ELSE run.keys[k]]
    IN [run EXCEPT !.keys = keys,
                   !.log = Append(@, [id |-> id, subject |-> subject, at |-> run.at, lag |-> request.lag,
                                      cost |-> cost, state |-> result.state, after |-> result.key])]

\* Every API call counts, even one whose credentials are refused, which then counts for its address.
request_rate_limit(run, request) ==
    IF request.exempt THEN run
    ELSE consume(run, request, subject_for(get_principal(request).user, client_ip(request)), "requests", 1)
Refused(run, before) == Len(run.log) > Len(before.log) /\ ~Last(run.log).state.allowed

handle(before, request) ==
    LET arrived == [before EXCEPT !.at = @ + request.gap]
        rated == request_rate_limit(arrived, request)
        principal == get_principal(request)
    IN IF \/ Refused(rated, before)
          \/ principal.refusal # "none"
          \/ request.consumes = "nothing"
       THEN rated
       ELSE consume(rated, request, subject_for(principal.user, client_ip(request)), request.consumes, request.cost)
Handled(requests) == FoldLeft(handle, [keys |-> <<>>, at |-> WINDOWS["requests"] * SECOND, log |-> <<>>], requests)

\* The X-RateLimit headers are those of the most constrained limit; peeking at a limit shows none.
rate_limit_headers(consumed) ==
    LET tighter(s, t) == \/ remaining(s) * Max({1, t.limit}) < remaining(t) * Max({1, s.limit})
                         \/ /\ remaining(s) * Max({1, t.limit}) = remaining(t) * Max({1, s.limit})
                            /\ s.reset_seconds < t.reset_seconds
    IN CHOOSE s \in consumed : \A t \in consumed : ~tighter(t, s)

(***************************************************************************)
(* Properties.                                                             *)
(***************************************************************************)
Admitted(log, id) == {i \in DOMAIN log : log[i].id = id /\ log[i].cost = 1 /\ log[i].state.allowed}
Now(call) == call.at - call.lag

\* No window, wherever it starts, holds more events than the limit, also when calls reach Redis out
\* of the order their times were read in; what the lag between these takes off a window is lost.
WindowHolds(requests, max_lag) ==
    LET log == Handled(requests).log
    IN \A i \in DOMAIN log :
          LET window == WINDOWS[log[i].id[1]] * SECOND - max_lag
          IN Cardinality({j \in Admitted(log, log[i].id) : Now(log[j]) >= Now(log[i]) /\ Now(log[j]) < Now(log[i]) + window})
                 <= log[i].state.limit

\* Who is refused and waits as long as Retry-After says is let in, unless the limit is none at all
\* or somebody else took the place.
RetryAfterSuffices(requests) ==
    LET log == Handled(requests).log
    IN \A i \in DOMAIN log :
          LET call == log[i]
              again == _window(call.after, call.at + call.state.reset_seconds * SECOND, call.lag, call.state.name,
                               call.state.limit, 1)
          IN ~call.state.allowed /\ call.state.limit > 0 => again.state.allowed

\* A refused answer says that nothing remains, whichever of the request's limits refused it.
RefusalIsAdvertised(requests) ==
    \A n \in DOMAIN requests :
        LET before == Handled(SubSeq(requests, 1, n - 1))
            after == Handled(SubSeq(requests, 1, n))
            consumed == {after.log[i].state : i \in {j \in DOMAIN after.log : j > Len(before.log) /\ after.log[j].cost = 1}}
        IN (\E s \in consumed : ~s.allowed) => remaining(rate_limit_headers(consumed)) = 0
=============================================================================
