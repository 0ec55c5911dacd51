---------------------------- MODULE GitHubTokens ----------------------------
(***************************************************************************)
(* One user's GitHub identity: the stored token pair, the requests that    *)
(* use, refresh, replace and revoke it, and what GitHub holds valid.       *)
(*                                                                         *)
(* A token pair (access token and refresh token) is a number, given out by *)
(* GitHub in order; 0 is none.  Requests decide on the row as their own    *)
(* session loaded it, call GitHub without holding any lock and write the   *)
(* row afterwards.  GitHub rotates: a refresh makes the pair that was      *)
(* refreshed unusable.  Sign-in states live in Redis.                      *)
(***************************************************************************)
EXTENDS Integers, FiniteSets

CONSTANTS
    Requests,           \* API requests and worker tasks of this user
    States,             \* OAuth states handed out by /auth/github/login
    MaxTokens           \* bound: pairs GitHub gives out

ASSUME TokensAssumption == MaxTokens \in Nat

VARIABLES
    row,                \* github_identities: the stored pair and its expiries
    valid,              \* pairs GitHub accepts
    issued,             \* pairs GitHub has given out
    unheard,            \* pairs given out in an answer that was lost
    voided,             \* pairs up to this one went with a deleted grant
    states,             \* OAuth states waiting in Redis
    logins,             \* callbacks that got past consume_state, per state
    pc,
    seen,               \* the row as the request loaded it
    got,                \* the pair GitHub answered with
    revoked             \* GitHub confirmed that this request's token is gone

local == <<pc, seen, got, revoked>>
github == <<valid, issued, unheard, voided>>
vars == <<row, github, states, logins, local>>

Pairs == 0 .. MaxTokens
Rows == [pair : Pairs, fresh : BOOLEAN, refreshable : BOOLEAN]
Disconnected == [pair |-> 0, fresh |-> FALSE, refreshable |-> FALSE]
Stored(p) == [pair |-> p, fresh |-> TRUE, refreshable |-> TRUE]
Pcs == {"idle", "exchange", "use", "refresh", "store", "drop", "revoke", "forget"}

TypeOK ==
    /\ row \in Rows
    /\ issued \in Pairs /\ valid \subseteq 1 .. issued
    /\ unheard \subseteq 1 .. issued /\ voided \in 0 .. issued
    /\ states \subseteq States /\ logins \in [States -> Nat]
    /\ pc \in [Requests -> Pcs] /\ seen \in [Requests -> Rows]
    /\ got \in [Requests -> Pairs] /\ revoked \in [Requests -> BOOLEAN]

Init ==
    /\ row = Disconnected /\ valid = {} /\ issued = 0
    /\ unheard = {} /\ voided = 0
    /\ states = {} /\ logins = [s \in States |-> 0]
    /\ pc = [r \in Requests |-> "idle"]
    /\ seen = [r \in Requests |-> Disconnected]
    /\ got = [r \in Requests |-> 0]
    /\ revoked = [r \in Requests |-> FALSE]

Goto(r, label) == pc' = [pc EXCEPT ![r] = label]

Done(r) ==
    /\ Goto(r, "idle")
    /\ seen' = [seen EXCEPT ![r] = Disconnected]
    /\ got' = [got EXCEPT ![r] = 0]
    /\ revoked' = [revoked EXCEPT ![r] = FALSE]

\* The request's session loads the identity.
Load(r, label) ==
    /\ pc[r] = "idle" /\ row.pair # 0
    /\ Goto(r, label)
    /\ seen' = [seen EXCEPT ![r] = row]
    /\ UNCHANGED <<row, github, states, logins, got, revoked>>

-----------------------------------------------------------------------------
(* Signing in.                                                             *)

StartAuthorization(s) ==
    /\ s \notin states /\ logins[s] = 0
    /\ states' = states \union {s}
    /\ UNCHANGED <<row, github, logins, local>>

\* Mutant: the state is read and not deleted.
ConsumeStateTwice(r, s) ==
    /\ pc[r] = "idle" /\ s \in states
    /\ logins' = [logins EXCEPT ![s] = @ + 1]
    /\ Goto(r, "exchange")
    /\ UNCHANGED <<row, github, states, seen, got, revoked>>

\* GETDEL: only one callback gets past it.
ConsumeState(r, s) ==
    /\ pc[r] = "idle" /\ s \in states
    /\ states' = states \ {s}
    /\ logins' = [logins EXCEPT ![s] = @ + 1]
    /\ Goto(r, "exchange")
    /\ UNCHANGED <<row, github, seen, got, revoked>>

\* The state expired in Redis.
StateExpires(s) ==
    /\ s \in states
    /\ states' = states \ {s}
    /\ UNCHANGED <<row, github, logins, local>>

\* GitHub gives out a pair; the pairs of earlier sign-ins stay valid.
ExchangeCode(r) ==
    /\ pc[r] = "exchange" /\ issued < MaxTokens
    /\ issued' = issued + 1
    /\ valid' = valid \union {issued + 1}
    /\ got' = [got EXCEPT ![r] = issued + 1]
    /\ Goto(r, "store")
    /\ UNCHANGED <<row, unheard, voided, states, logins, seen, revoked>>

ExchangeFails(r) ==
    /\ pc[r] = "exchange"
    /\ Done(r)
    /\ UNCHANGED <<row, github, states, logins>>

-----------------------------------------------------------------------------
(* access_token                                                            *)

Use(r) == Load(r, "use")

\* Not connected any more when loaded, or not near its expiry.
UsableAsIs(r) ==
    /\ pc[r] = "use" /\ seen[r].fresh
    /\ Done(r)
    /\ UNCHANGED <<row, github, states, logins>>

NeedsRefresh(r) ==
    /\ pc[r] = "use" /\ ~seen[r].fresh
    /\ Goto(r, IF seen[r].refreshable THEN "refresh" ELSE "drop")
    /\ UNCHANGED <<row, github, states, logins, seen, got, revoked>>

Rotate(p) ==
    /\ issued < MaxTokens
    /\ issued' = issued + 1
    /\ valid' = (valid \ {p}) \union {issued + 1}

RefreshAccepted(r) ==
    /\ pc[r] = "refresh" /\ seen[r].pair \in valid
    /\ Rotate(seen[r].pair)
    /\ got' = [got EXCEPT ![r] = issued + 1]
    /\ Goto(r, "store")
    /\ UNCHANGED <<row, unheard, voided, states, logins, seen, revoked>>

\* Any answer without a token counts as a refusal, also one of a GitHub that is
\* in trouble (5xx, rate limit).
RefreshRejected(r) ==
    /\ pc[r] = "refresh"
    /\ Goto(r, "drop")
    /\ UNCHANGED <<row, github, states, logins, seen, got, revoked>>

\* GitHub rotated the pair, and its answer does not arrive in time.
RefreshAnswerLost(r) ==
    /\ pc[r] = "refresh" /\ seen[r].pair \in valid
    /\ Rotate(seen[r].pair)
    /\ unheard' = unheard \union {issued + 1}
    /\ Done(r)
    /\ UNCHANGED <<row, voided, states, logins>>

\* GitHub cannot be reached: the row stays as it is.
RefreshUnavailable(r) ==
    /\ pc[r] = "refresh"
    /\ Done(r)
    /\ UNCHANGED <<row, github, states, logins>>

\* Mutant: the new refresh token is kept only by the first sign-in.
StoreAccessOnly(r) ==
    /\ pc[r] = "store"
    /\ row' = IF row.pair = 0 THEN Stored(got[r]) ELSE [row EXCEPT !.fresh = TRUE]
    /\ Done(r)
    /\ UNCHANGED <<github, states, logins>>

\* _store_tokens and commit, after a sign-in or a refresh.
StoreTokens(r) ==
    /\ pc[r] = "store"
    /\ row' = Stored(got[r])
    /\ Done(r)
    /\ UNCHANGED <<github, states, logins>>

\* disconnect_locally, after a rejected refresh or on request: every column that
\* the loaded row had set is cleared.
DisconnectLocally(r) ==
    /\ pc[r] \in {"drop", "forget"}
    /\ row' = Disconnected
    /\ Done(r)
    /\ UNCHANGED <<github, states, logins>>

-----------------------------------------------------------------------------
(* revoke_and_disconnect                                                   *)

Disconnect(r) == Load(r, "revoke")

\* Deleting the grant takes every pair with it.
RevokeGrant(r) ==
    /\ pc[r] = "revoke" /\ seen[r].pair \in valid
    /\ valid' = {} /\ voided' = issued
    /\ revoked' = [revoked EXCEPT ![r] = TRUE]
    /\ Goto(r, "forget")
    /\ UNCHANGED <<row, issued, unheard, states, logins, seen, got>>

\* 404 counts as "already revoked".
RevokeNotFound(r) ==
    /\ pc[r] = "revoke" /\ seen[r].pair \notin valid
    /\ revoked' = [revoked EXCEPT ![r] = TRUE]
    /\ Goto(r, "forget")
    /\ UNCHANGED <<row, github, states, logins, seen, got>>

\* Mutant: any answer counts as a confirmation.
RevokeFailsConfirmed(r) ==
    /\ pc[r] = "revoke"
    /\ revoked' = [revoked EXCEPT ![r] = TRUE]
    /\ Goto(r, "forget")
    /\ UNCHANGED <<row, github, states, logins, seen, got>>

\* Unreachable, or an answer of another kind.
RevokeFails(r) ==
    /\ pc[r] = "revoke"
    /\ Goto(r, "forget")
    /\ UNCHANGED <<row, github, states, logins, seen, got, revoked>>

-----------------------------------------------------------------------------

\* The access token comes within REFRESH_MARGIN of its expiry.
AccessExpires ==
    /\ row.pair # 0 /\ row.fresh
    /\ row' = [row EXCEPT !.fresh = FALSE]
    /\ UNCHANGED <<github, states, logins, local>>

RefreshExpires ==
    /\ row.pair # 0 /\ row.refreshable /\ ~row.fresh
    /\ row' = [row EXCEPT !.refreshable = FALSE]
    /\ UNCHANGED <<github, states, logins, local>>

SignIn(r) ==
    (\E s \in States : ConsumeState(r, s)) \/ ExchangeCode(r) \/ ExchangeFails(r)
AccessToken(r) ==
    \/ Use(r) \/ UsableAsIs(r) \/ NeedsRefresh(r)
    \/ RefreshAccepted(r) \/ RefreshRejected(r) \/ RefreshUnavailable(r)
    \/ RefreshAnswerLost(r)
RevokeAndDisconnect(r) ==
    Disconnect(r) \/ RevokeGrant(r) \/ RevokeNotFound(r) \/ RevokeFails(r)

Next ==
    \/ \E s \in States : StartAuthorization(s) \/ StateExpires(s)
    \/ \E r \in Requests :
          SignIn(r) \/ AccessToken(r) \/ StoreTokens(r) \/ RevokeAndDisconnect(r)
          \/ DisconnectLocally(r)
    \/ AccessExpires \/ RefreshExpires

Spec == Init /\ [][Next]_vars

-----------------------------------------------------------------------------
(* Properties.                                                             *)

Quiet == \A r \in Requests : pc[r] = "idle"

\* When no request is under way a connected identity holds a pair GitHub
\* accepts, whatever order refreshes and sign-ins came in: unless the user took
\* the grant back meanwhile, or an answer of GitHub got lost.
StoredPairIsUsable ==
    Quiet /\ row.pair > voided => row.pair \in valid \/ unheard # {}

\* A state completes at most one sign-in, however many callbacks bring it.
StateIsSingleUse == \A s \in States : logins[s] <= 1

\* No other request can still store or rotate a pair, and this one's is current.
Alone(r) == seen[r] = row /\ \A q \in Requests \ {r} : pc[q] = "idle"

\* A revocation is reported as confirmed only when GitHub accepts none of the
\* user's tokens any more ("Returns whether GitHub confirmed the revocation"),
\* unless GitHub gave out a pair that never arrived, or the row holds a pair that
\* an earlier revocation took back: a sign-in or refresh under way at that time
\* stores it afterwards, over a newer pair, and 404 then counts for both.
ConfirmedMeansRevoked ==
    [][\A r \in Requests :
          /\ ~revoked[r] /\ revoked'[r]
          /\ Alone(r) /\ unheard = {} /\ row.pair > voided
          => valid' = {}]_vars

-----------------------------------------------------------------------------
(* What the code's comments say and the model refutes.                     *)

\* revoke_and_disconnect: "tokens are deleted either way": after it only a
\* new sign-in connects the identity again.
OnlySignInReconnects ==
    [][row.pair = 0 /\ row'.pair # 0
          => \E r \in Requests : pc[r] = "store" /\ pc'[r] = "idle" /\ seen[r].pair = 0]_vars

\* access_token: "A usable access token, refreshing an expiring one": a stored
\* pair that GitHub accepts is not deleted because a request used an older one.
RefreshKeepsUsablePair ==
    [][row.pair \in valid /\ row'.pair = 0
          => \E r \in Requests :
                /\ pc[r] \in {"drop", "forget"} /\ pc'[r] = "idle"
                /\ pc[r] = "drop" => seen[r].pair = row.pair]_vars
=============================================================================
