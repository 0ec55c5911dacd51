------------------------- MODULE GitHubTokensProofs -------------------------
(***************************************************************************)
(* Theorems about GitHubTokens, for any number of requests, of sign-in     *)
(* states and of pairs GitHub gives out.                                   *)
(***************************************************************************)
EXTENDS GitHubTokens, TLAPS

(***************************************************************************)
(* No lock protects the stored pair: requests decide on the row they       *)
(* loaded and write it after GitHub has answered.  What keeps it usable is *)
(* that a pair on its way to the row is known to one request only, so that *)
(* nobody else can have it rotated, and that whoever had the stored pair   *)
(* rotated is still to store the new one.                                  *)
(***************************************************************************)
Storing(r) == pc[r] = "store"

\* A request carries a pair that nobody has seen and GitHub accepts, unless a
\* revocation has taken it since.
Carried(r) ==
    /\ got[r] \in 1 .. issued
    /\ got[r] > voided => got[r] \in valid
    /\ row.pair # got[r]
    /\ \A q \in Requests : /\ seen[q].pair # got[r]
                           /\ Storing(q) /\ q # r => got[q] # got[r]

\* Every pair on the way is known to one request only.
PairsInv ==
    /\ row.pair <= issued
    /\ \A r \in Requests : seen[r].pair <= issued
    /\ \A r \in Requests : Storing(r) => Carried(r)

\* A stored pair that GitHub does not accept is about to be replaced.
ReplacementDue ==
    row.pair > voided /\ row.pair \notin valid /\ unheard = {}
        => \E r \in Requests : Storing(r)

\* A sign-in state is waiting or was used, once.
StatesInv == \A s \in States : logins[s] <= 1 /\ (s \in states => logins[s] = 0)

TokenInv == TypeOK /\ PairsInv /\ ReplacementDue /\ StatesInv

LEMMA TokenTypes ==
    /\ 0 \in Pairs /\ Pairs \subseteq Int
    /\ Disconnected \in Rows /\ Disconnected.pair = 0
    /\ \A p \in Pairs : Stored(p) \in Rows /\ Stored(p).pair = p
  BY TokensAssumption DEF Pairs, Disconnected, Rows, Stored

\* The next pair keeps a set of pairs in range.
LEMMA NextPair ==
    ASSUME NEW i \in Nat, NEW A, A \subseteq 1 .. i, NEW B, B \subseteq A \union {i + 1}
    PROVE  B \subseteq 1 .. (i + 1)
  <1> SUFFICES ASSUME NEW b \in B PROVE b \in 1 .. (i + 1)
    OBVIOUS
  <1>1. b \in 1 .. i \/ b = i + 1
    OBVIOUS
  <1> QED
    BY <1>1

LEMMA TokenInit == Init => TokenInv
  <1> SUFFICES ASSUME Init PROVE TokenInv
    OBVIOUS
  <1>1. TypeOK
    BY TokenTypes, TokensAssumption DEF Init, TypeOK, Pcs, Pairs
  <1>2. PairsInv /\ ReplacementDue /\ StatesInv
    BY TokenTypes DEF Init, PairsInv, ReplacementDue, StatesInv, Storing
  <1> QED
    BY <1>1, <1>2 DEF TokenInv

-----------------------------------------------------------------------------
(* Steps by what they do to the pairs.                                     *)

\* A request that is done with nothing stored forgets what it loaded.
LEMMA DoneStep ==
    ASSUME TokenInv, NEW r \in Requests, ~Storing(r), Done(r),
           UNCHANGED <<github, states, logins>>,
           row' = row \/ row' = Disconnected
    PROVE  TokenInv'
  <1> USE DEF TokenInv, github
  <1>1. TypeOK'
    BY TokenTypes DEF TypeOK, Done, Goto, Pcs
  <1>2. /\ pc'[r] = "idle" /\ seen'[r].pair = 0
        /\ \A q \in Requests \ {r} :
             pc'[q] = pc[q] /\ seen'[q] = seen[q] /\ got'[q] = got[q]
    BY TokenTypes DEF TypeOK, Done, Goto
  <1>3. \A q \in Requests : Storing(q)' <=> Storing(q)
    BY <1>2 DEF Storing
  <1>4. row'.pair \in {row.pair, 0} /\ issued \in Nat /\ voided \in Nat
    BY TokenTypes, TokensAssumption DEF TypeOK, Pairs
  <1>5. PairsInv'
    BY <1>2, <1>3, <1>4 DEF PairsInv, Carried, Storing
  <1>6. ReplacementDue'
    BY <1>3, <1>4 DEF ReplacementDue
  <1>7. StatesInv'
    BY DEF StatesInv
  <1> QED
    BY <1>1, <1>5, <1>6, <1>7

\* A request that goes on, or loads the row, and changes nothing outside.
LEMMA GoesOn ==
    ASSUME TokenInv, NEW r \in Requests, NEW label \in Pcs, label # "store",
           ~Storing(r), Goto(r, label), got' = got,
           seen' = seen \/ seen' = [seen EXCEPT ![r] = row],
           revoked' \in [Requests -> BOOLEAN],
           UNCHANGED <<row, issued, unheard, states, logins>>,
           \/ UNCHANGED <<valid, voided>>
           \/ valid' = {} /\ voided' = issued
    PROVE  TokenInv'
  <1> USE DEF TokenInv
  <1>0. issued \in Nat /\ voided \in Nat /\ row.pair \in Nat
    BY TokensAssumption DEF TypeOK, Pairs, Rows
  <1>1. TypeOK'
    <2>0. /\ valid \subseteq 1 .. issued /\ voided \in 0 .. issued
          /\ {} \subseteq 1 .. issued /\ issued \in 0 .. issued
      BY <1>0 DEF TypeOK
    <2>1. valid' \subseteq 1 .. issued' /\ voided' \in 0 .. issued'
      BY <2>0
    <2>2. pc' \in [Requests -> Pcs] /\ seen' \in [Requests -> Rows]
      BY DEF TypeOK, Goto
    <2> QED
      BY <2>1, <2>2 DEF TypeOK
  <1>2. /\ \A q \in Requests : Storing(q)' <=> Storing(q)
        /\ \A q \in Requests : seen'[q].pair \in {seen[q].pair, row.pair}
    BY DEF TypeOK, Goto, Storing
  <1>3. PairsInv'
    BY <1>0, <1>2 DEF PairsInv, Carried
  <1>4. ReplacementDue'
    BY <1>0, <1>2 DEF ReplacementDue, PairsInv
  <1>5. StatesInv'
    BY DEF StatesInv
  <1> QED
    BY <1>1, <1>3, <1>4, <1>5

\* GitHub gives out a pair, and its answer arrives.
LEMMA PairArrives ==
    ASSUME TokenInv, NEW r \in Requests, ~Storing(r), issued < MaxTokens,
           issued' = issued + 1,
           \/ valid' = valid \union {issued + 1}
           \/ valid' = (valid \ {seen[r].pair}) \union {issued + 1},
           got' = [got EXCEPT ![r] = issued + 1], Goto(r, "store"),
           UNCHANGED <<row, unheard, voided, states, logins, seen, revoked>>
    PROVE  TokenInv'
  <1> USE DEF TokenInv
  <1>0. issued \in Nat /\ voided \in 0 .. issued /\ valid \subseteq 1 .. issued
    BY TokensAssumption DEF TypeOK, Pairs
  <1>1. TypeOK'
    <2>0. issued' \in Pairs /\ voided' \in 0 .. issued' /\ issued + 1 \in 1 .. issued'
      BY <1>0, TokensAssumption DEF Pairs
    <2>1. valid' \subseteq 1 .. issued'
      <3>1. valid' \subseteq valid \union {issued + 1}
        OBVIOUS
      <3> QED
        BY <1>0, <3>1, NextPair
    <2>2. unheard' \subseteq 1 .. issued'
      BY <1>0 DEF TypeOK
    <2>3. got' \in [Requests -> Pairs]
      BY <2>0 DEF TypeOK
    <2> QED
      BY <2>0, <2>1, <2>2, <2>3 DEF TypeOK, Goto, Pcs
  <1>2. /\ \A q \in Requests : Storing(q)' <=> Storing(q) \/ q = r
        /\ got'[r] = issued + 1 /\ issued + 1 \in valid'
        /\ \A q \in Requests \ {r} : got'[q] = got[q]
    BY DEF TypeOK, Goto, Storing
  <1>3. \A q \in Requests : seen[q].pair \in Int /\ seen[q].pair <= issued
    BY TokenTypes DEF TypeOK, PairsInv, Rows
  <1>4. row.pair \in Int /\ row.pair <= issued
    BY TokenTypes DEF TypeOK, PairsInv, Rows
  <1>5. Carried(r)'
    BY <1>0, <1>2, <1>3, <1>4 DEF Carried, PairsInv
  <1>6. ASSUME NEW q \in Requests, q # r, Storing(q)
        PROVE  Carried(q)'
    <2>1. Carried(q) /\ got'[q] = got[q]
      BY <1>2, <1>6 DEF PairsInv
    <2>2. got[q] > voided => got[q] \in valid'
      BY <2>1 DEF Carried
    <2> QED
      BY <1>0, <1>2, <2>1, <2>2 DEF Carried
  <1>7. PairsInv'
    BY <1>0, <1>2, <1>3, <1>4, <1>5, <1>6 DEF PairsInv
  <1>8. ReplacementDue' /\ StatesInv'
    BY <1>2 DEF ReplacementDue, StatesInv
  <1> QED
    BY <1>1, <1>7, <1>8

\* GitHub has rotated the pair, and nobody hears of the new one.
LEMMA AnswerLostStep ==
    ASSUME TokenInv, NEW r \in Requests, RefreshAnswerLost(r)
    PROVE  TokenInv'
  <1> USE DEF TokenInv
  <1>0. issued \in Nat /\ voided \in 0 .. issued /\ valid \subseteq 1 .. issued
    BY TokensAssumption DEF TypeOK, Pairs
  <1>1. /\ issued' = issued + 1 /\ issued < MaxTokens
        /\ valid' = (valid \ {seen[r].pair}) \union {issued + 1}
        /\ unheard' = unheard \union {issued + 1}
        /\ Done(r) /\ pc[r] = "refresh"
        /\ UNCHANGED <<row, voided, states, logins>>
    BY DEF RefreshAnswerLost, Rotate
  <1>2. TypeOK'
    <2>1. issued' \in Pairs /\ voided' \in 0 .. issued' /\ issued + 1 \in 1 .. issued'
      BY <1>0, <1>1, TokensAssumption DEF Pairs
    <2>2. unheard \subseteq 1 .. issued
      BY DEF TypeOK
    <2>3. valid' \subseteq valid \union {issued + 1}
      BY <1>1
    <2>4. valid' \subseteq 1 .. issued'
      BY <1>0, <1>1, <2>3, NextPair
    <2>5. unheard' \subseteq 1 .. issued'
      BY <1>0, <1>1, <2>2, NextPair
    <2> QED
      BY <1>1, <2>1, <2>4, <2>5, TokenTypes DEF TypeOK, Done, Goto, Pcs
  <1>3. /\ pc'[r] = "idle" /\ seen'[r].pair = 0
        /\ \A q \in Requests \ {r} :
             pc'[q] = pc[q] /\ seen'[q] = seen[q] /\ got'[q] = got[q]
    BY <1>1, TokenTypes DEF TypeOK, Done, Goto
  <1>4. ASSUME NEW q \in Requests, Storing(q)'
        PROVE  Carried(q)'
    <2>1. q # r /\ Carried(q)
      BY <1>3, <1>4 DEF PairsInv, Storing
    <2>2. got[q] > voided => got[q] \in valid'
      BY <1>1, <2>1 DEF Carried
    <2> QED
      BY <1>0, <1>1, <1>3, <2>1, <2>2 DEF Carried, Storing
  <1>5. PairsInv'
    <2>1. row.pair \in Int /\ \A q \in Requests : seen[q].pair \in Int
      BY TokenTypes DEF TypeOK, Rows
    <2> QED
      BY <1>0, <1>1, <1>3, <1>4, <2>1 DEF PairsInv
  <1>6. ReplacementDue' /\ StatesInv'
    BY <1>1 DEF ReplacementDue, StatesInv
  <1> QED
    BY <1>2, <1>5, <1>6

\* The pair on its way becomes the stored one: from then on others may see it.
LEMMA StoreStep ==
    ASSUME TokenInv, NEW r \in Requests, StoreTokens(r)
    PROVE  TokenInv'
  <1> USE DEF TokenInv, github
  <1>0. issued \in Nat /\ voided \in Nat /\ Carried(r) /\ got[r] \in Pairs
    BY TokensAssumption DEF TypeOK, Pairs, StoreTokens, PairsInv, Storing
  <1>1. /\ row' = Stored(got[r]) /\ row'.pair = got[r]
        /\ Done(r) /\ UNCHANGED <<github, states, logins>>
    BY <1>0, TokenTypes DEF StoreTokens
  <1>2. TypeOK'
    BY <1>0, <1>1, TokenTypes DEF TypeOK, Done, Goto, Pcs
  <1>3. /\ pc'[r] = "idle" /\ seen'[r].pair = 0
        /\ \A q \in Requests \ {r} :
             pc'[q] = pc[q] /\ seen'[q] = seen[q] /\ got'[q] = got[q]
    BY <1>1, TokenTypes DEF TypeOK, Done, Goto
  <1>4. \A q \in Requests : Storing(q)' => q # r /\ Storing(q) /\ Carried(q)
    BY <1>3 DEF Storing, PairsInv
  <1>5. PairsInv'
    BY <1>0, <1>1, <1>3, <1>4 DEF PairsInv, Carried, Storing
  <1>6. ReplacementDue' /\ StatesInv'
    BY <1>0, <1>1 DEF ReplacementDue, StatesInv, Carried
  <1> QED
    BY <1>2, <1>5, <1>6

-----------------------------------------------------------------------------
(* The sign-in states and the expiry of the stored pair.                   *)

LEMMA StateStep ==
    ASSUME TokenInv, NEW s \in States,
           \/ StartAuthorization(s) \/ StateExpires(s)
           \/ \E r \in Requests : ConsumeState(r, s)
    PROVE  TokenInv'
  <1> USE DEF TokenInv, github, local
  <1>1. UNCHANGED <<row, github, seen, got, revoked>>
    BY DEF StartAuthorization, StateExpires, ConsumeState
  <1>2. TypeOK'
    <2>1. states' \subseteq States
      BY DEF TypeOK, StartAuthorization, StateExpires, ConsumeState
    <2>2. logins' \in [States -> Nat]
      BY DEF TypeOK, StartAuthorization, StateExpires, ConsumeState
    <2>3. pc' \in [Requests -> Pcs]
      BY DEF TypeOK, StartAuthorization, StateExpires, ConsumeState, Goto, Pcs
    <2> QED
      BY <1>1, <2>1, <2>2, <2>3 DEF TypeOK
  <1>3. \A r \in Requests : Storing(r)' <=> Storing(r)
    BY DEF TypeOK, StartAuthorization, StateExpires, ConsumeState, Goto, Storing
  <1>4. PairsInv' /\ ReplacementDue'
    BY <1>1, <1>3 DEF PairsInv, ReplacementDue, Carried
  <1>5. StatesInv'
    BY DEF TypeOK, StatesInv, StartAuthorization, StateExpires, ConsumeState
  <1> QED
    BY <1>2, <1>4, <1>5

LEMMA ExpiryStep ==
    ASSUME TokenInv, AccessExpires \/ RefreshExpires
    PROVE  TokenInv'
  <1> USE DEF TokenInv, github, local
  <1>1. /\ UNCHANGED <<github, states, logins, local>>
        /\ row' \in Rows /\ row'.pair = row.pair
    BY DEF TypeOK, Rows, AccessExpires, RefreshExpires
  <1>2. TypeOK'
    BY <1>1 DEF TypeOK
  <1>3. PairsInv' /\ ReplacementDue' /\ StatesInv'
    BY <1>1 DEF PairsInv, ReplacementDue, StatesInv, Carried, Storing
  <1> QED
    BY <1>2, <1>3

LEMMA TokenStep == TokenInv /\ [Next]_vars => TokenInv'
  <1> SUFFICES ASSUME TokenInv, [Next]_vars PROVE TokenInv'
    OBVIOUS
  <1> USE DEF github
  <1>1. ASSUME NEW r \in Requests, SignIn(r) PROVE TokenInv'
    <2>1. CASE \E s \in States : ConsumeState(r, s)
      BY <2>1, StateStep
    <2>2. CASE ExchangeCode(r)
      BY <2>2, PairArrives DEF ExchangeCode, Storing
    <2>3. CASE ExchangeFails(r)
      BY <2>3, DoneStep DEF ExchangeFails, Storing
    <2> QED
      BY <1>1, <2>1, <2>2, <2>3 DEF SignIn
  <1>2. ASSUME NEW r \in Requests, AccessToken(r) PROVE TokenInv'
    <2>0. revoked \in [Requests -> BOOLEAN]
      BY DEF TokenInv, TypeOK
    <2>1. CASE Use(r)
      BY <2>0, <2>1, GoesOn DEF Use, Load, Storing, Pcs
    <2>2. CASE UsableAsIs(r) \/ RefreshUnavailable(r)
      BY <2>2, DoneStep DEF UsableAsIs, RefreshUnavailable, Storing
    <2>3. CASE NeedsRefresh(r)
      BY <2>0, <2>3, GoesOn DEF NeedsRefresh, Storing, Pcs
    <2>4. CASE RefreshAccepted(r)
      BY <2>4, PairArrives DEF RefreshAccepted, Rotate, Storing
    <2>5. CASE RefreshRejected(r)
      BY <2>0, <2>5, GoesOn DEF RefreshRejected, Storing, Pcs
    <2>6. CASE RefreshAnswerLost(r)
      BY <2>6, AnswerLostStep
    <2> QED
      BY <1>2, <2>1, <2>2, <2>3, <2>4, <2>5, <2>6 DEF AccessToken
  <1>3. ASSUME NEW r \in Requests, RevokeAndDisconnect(r) PROVE TokenInv'
    <2>0. /\ revoked \in [Requests -> BOOLEAN]
          /\ [revoked EXCEPT ![r] = TRUE] \in [Requests -> BOOLEAN]
      BY DEF TokenInv, TypeOK
    <2>1. CASE Disconnect(r)
      BY <2>0, <2>1, GoesOn DEF Disconnect, Load, Storing, Pcs
    <2>2. CASE RevokeGrant(r)
      BY <2>0, <2>2, GoesOn DEF RevokeGrant, Storing, Pcs
    <2>3. CASE RevokeNotFound(r) \/ RevokeFails(r)
      BY <2>0, <2>3, GoesOn DEF RevokeNotFound, RevokeFails, Storing, Pcs
    <2> QED
      BY <1>3, <2>1, <2>2, <2>3 DEF RevokeAndDisconnect
  <1>4. ASSUME NEW r \in Requests, DisconnectLocally(r) PROVE TokenInv'
    BY <1>4, DoneStep DEF DisconnectLocally, Storing
  <1>5. CASE UNCHANGED vars
    <2>1. UNCHANGED <<row, github, states, logins, pc, seen, got, revoked>>
      BY <1>5 DEF vars, local
    <2> QED
      BY <2>1 DEF TokenInv, TypeOK, PairsInv, ReplacementDue, StatesInv, Carried, Storing
  <1> QED
    BY <1>1, <1>2, <1>3, <1>4, <1>5, StoreStep, StateStep, ExpiryStep DEF Next

LEMMA TokenInvariant == Spec => []TokenInv
  BY TokenInit, TokenStep, PTL DEF Spec

-----------------------------------------------------------------------------
(* Theorems.                                                               *)

\* Every variable keeps its type.
THEOREM TokensTyped == Spec => []TypeOK
  BY TokenInvariant, PTL DEF TokenInv

\* When nothing is under way a connected identity holds a pair GitHub accepts,
\* although every request decides on a row that others may have replaced.
THEOREM StoredPairStaysUsable == Spec => []StoredPairIsUsable
  <1>1. TokenInv => StoredPairIsUsable
    BY DEF TokenInv, ReplacementDue, StoredPairIsUsable, Quiet, Storing
  <1> QED
    BY <1>1, TokenInvariant, PTL

\* However many callbacks bring a state, one of them signs in.
THEOREM StateUsedOnce == Spec => []StateIsSingleUse
  <1>1. TokenInv => StateIsSingleUse
    BY DEF TokenInv, StatesInv, StateIsSingleUse
  <1> QED
    BY <1>1, TokenInvariant, PTL

\* A confirmed revocation left GitHub with no token of the user, unless another
\* request was under way or a pair was lost or stored too late: in a quiet moment
\* the stored pair is one GitHub accepts, so its deletion takes the whole grant.
THEOREM ConfirmationIsTrue == Spec => ConfirmedMeansRevoked
  <1>1. TokenInv /\ [Next]_vars
          => \A r \in Requests :
               /\ ~revoked[r] /\ revoked'[r]
               /\ Alone(r) /\ unheard = {} /\ row.pair > voided
               => valid' = {}
    <2> SUFFICES ASSUME TokenInv, [Next]_vars, NEW r \in Requests,
                        ~revoked[r], revoked'[r], Alone(r), unheard = {},
                        row.pair > voided
                 PROVE  valid' = {}
      OBVIOUS
    <2>0. revoked \in [Requests -> BOOLEAN]
      BY DEF TokenInv, TypeOK
    <2>1. RevokeGrant(r) \/ RevokeNotFound(r)
      <3>1. \A q \in Requests : Done(q) => revoked'[r] = FALSE \/ revoked'[r] = revoked[r]
        BY <2>0 DEF Done
      <3>2. /\ ~AccessExpires /\ ~RefreshExpires
            /\ \A s \in States : ~StartAuthorization(s) /\ ~StateExpires(s)
            /\ \A q \in Requests, s \in States : ~ConsumeState(q, s)
        BY DEF StartAuthorization, StateExpires, ConsumeState, AccessExpires,
               RefreshExpires, local
      <3>3. \A q \in Requests :
              /\ ~ExchangeCode(q) /\ ~ExchangeFails(q) /\ ~AccessToken(q)
              /\ ~StoreTokens(q) /\ ~Disconnect(q) /\ ~RevokeFails(q)
              /\ ~DisconnectLocally(q)
        BY <3>1 DEF ExchangeCode, ExchangeFails, AccessToken, Use, Load, UsableAsIs,
               NeedsRefresh, RefreshAccepted, RefreshRejected, RefreshUnavailable,
               RefreshAnswerLost, StoreTokens, Disconnect, RevokeFails,
               DisconnectLocally
      <3>4. ASSUME NEW q \in Requests, RevokeGrant(q) \/ RevokeNotFound(q)
            PROVE  q = r
        BY <2>0, <3>4 DEF RevokeGrant, RevokeNotFound
      <3>5. Next
        BY DEF vars, local
      <3>6. \E q \in Requests : RevokeGrant(q) \/ RevokeNotFound(q)
        BY <3>2, <3>3, <3>5 DEF Next, SignIn, RevokeAndDisconnect
      <3> QED
        BY <3>4, <3>6
    <2>2. CASE RevokeGrant(r)
      BY <2>2 DEF RevokeGrant
    <2>3. CASE RevokeNotFound(r)
      <3>1. \A q \in Requests : ~Storing(q)
        BY <2>3 DEF RevokeNotFound, Alone, Storing
      <3>2. row.pair \in valid
        BY <3>1 DEF TokenInv, ReplacementDue
      <3> QED
        BY <2>3, <3>2 DEF RevokeNotFound, Alone
    <2> QED
      BY <2>1, <2>2, <2>3
  <1> QED
    BY <1>1, TokenInvariant, PTL DEF Spec, ConfirmedMeansRevoked
=============================================================================
