--------------------------- MODULE LLMSpendProofs ---------------------------
(***************************************************************************)
(* Theorems about LLMSpend, for any callers, owners and subjects, any      *)
(* prices and limits, any number of calls, of days and of killed tasks.    *)
(*                                                                         *)
(* Every limit is a sum over the ledger, so the first part proves what a   *)
(* sum is: the fold of the library picks the elements in an order of its   *)
(* own, and only an induction over the finite set shows that the order     *)
(* does not matter.  The library's induction theorems have an operator as  *)
(* a parameter; the two lemmas below say the same of a set.                *)
(***************************************************************************)
EXTENDS LLMSpend, SequenceTheorems, FiniteSetTheorems, TLAPS

(***************************************************************************)
(* Induction without an operator as a parameter: over the subsets of a     *)
(* finite set, and over the numbers, of a property given as a set.         *)
(***************************************************************************)
LEMMA MinimalSubset ==
    ASSUME NEW S, IsFiniteSet(S), NEW Bad, Bad \subseteq SUBSET S, Bad # {}
    PROVE  \E T \in Bad : \A x \in T : T \ {x} \notin Bad
  <1>1. Bad \subseteq FiniteSubsetsOf(S)
    BY FS_Subset DEF FiniteSubsetsOf
  <1>2. PICK T \in Bad : \A U \in Bad : <<U, T>> \notin StrictSubsetOrdering(S)
    BY <1>1, FS_StrictSubsetOrderingWellFounded, WFMin
  <1>3. \A x \in T : <<T \ {x}, T>> \in StrictSubsetOrdering(S)
    BY DEF StrictSubsetOrdering
  <1> QED
    BY <1>2, <1>3

LEMMA NumberInduction ==
    ASSUME NEW P, 0 \in P, \A n \in Nat : n \in P => n + 1 \in P
    PROVE  \A n \in Nat : n \in P
  <1> DEFINE Bad == {n \in Nat : n \notin P}
  <1> SUFFICES ASSUME Bad # {} PROVE FALSE
    OBVIOUS
  <1>1. PICK n \in Bad : \A m \in Bad : <<m, n>> \notin OpToRel(<, Nat)
    <2>1. Bad \subseteq Nat
      OBVIOUS
    <2> HIDE DEF Bad
    <2> QED
      BY <2>1, NatLessThanWellFounded, WFMin
  <1>2. n # 0 /\ n - 1 \in Nat /\ n - 1 < n
    OBVIOUS
  <1>3. n - 1 \in P
    BY <1>1, <1>2 DEF OpToRel
  <1>4. (n - 1) + 1 = n
    BY <1>2
  <1> QED
    BY <1>2, <1>3, <1>4

(***************************************************************************)
(* The table of the partial sums of w, as the fold builds it: over some    *)
(* subsets of S that are closed under the removal of an element.           *)
(***************************************************************************)
Pick(s) == CHOOSE x \in s : TRUE
IsTable(t, w, F) ==
    t = [s \in F |-> IF s = {} THEN 0 ELSE w[Pick(s)] + t[s \ {Pick(s)}]]

Level(S, n) == {s \in SUBSET S : Cardinality(s) <= n}

LEMMA LevelDown ==
    ASSUME NEW S, IsFiniteSet(S), NEW n \in Nat, NEW s \in Level(S, n + 1), s # {}
    PROVE  Pick(s) \in S /\ s \ {Pick(s)} \in Level(S, n)
  <1>1. Pick(s) \in s
    BY DEF Pick
  <1>2. s \in SUBSET S /\ IsFiniteSet(s) /\ Cardinality(s) \in Nat /\ Cardinality(s) <= n + 1
    BY FS_Subset, FS_CardinalityType DEF Level
  <1>3. Cardinality(s \ {Pick(s)}) = Cardinality(s) - 1
    BY <1>1, <1>2, FS_RemoveElement
  <1> QED
    BY <1>1, <1>2, <1>3 DEF Level

LEMMA TableExists ==
    ASSUME NEW S, IsFiniteSet(S), NEW w
    PROVE  \E t : IsTable(t, w, SUBSET S)
  <1> DEFINE Has(n) == \E t : IsTable(t, w, Level(S, n))
             P == {n \in Nat : Has(n)}
  <1>1. Has(0)
    <2>1. Level(S, 0) = {{}}
      <3>1. ASSUME NEW s \in SUBSET S PROVE s \in Level(S, 0) <=> s = {}
        BY FS_EmptySet, FS_Subset, FS_CardinalityType DEF Level
      <3> QED
        BY <3>1 DEF Level
    <2>2. IsTable([s \in {{}} |-> 0], w, Level(S, 0))
      BY <2>1 DEF IsTable
    <2> QED
      BY <2>2
  <1>2. ASSUME NEW n \in Nat, Has(n) PROVE Has(n + 1)
    <2>1. PICK t : IsTable(t, w, Level(S, n))
      BY <1>2
    <2> DEFINE u == [s \in Level(S, n + 1) |->
                        IF s = {} THEN 0 ELSE w[Pick(s)] + t[s \ {Pick(s)}]]
    <2>2. \A s \in Level(S, n) : u[s] = t[s]
      <3>1. TAKE s \in Level(S, n)
      <3>2. s \in Level(S, n + 1)
        BY FS_Subset, FS_CardinalityType DEF Level
      <3> QED
        BY <2>1, <3>2 DEF IsTable
    <2>3. u = [s \in Level(S, n + 1) |->
                        IF s = {} THEN 0 ELSE w[Pick(s)] + u[s \ {Pick(s)}]]
      <3>1. \A s \in Level(S, n + 1) : s # {} => u[s \ {Pick(s)}] = t[s \ {Pick(s)}]
        BY <2>2, LevelDown
      <3> QED
        BY <3>1
    <2> QED
      BY <2>3 DEF IsTable
  <1>3. \A n \in Nat : Has(n)
    <2> HIDE DEF Has
    <2>1. 0 \in P /\ \A n \in Nat : n \in P => n + 1 \in P
      BY <1>1, <1>2
    <2> HIDE DEF P
    <2>2. \A n \in Nat : n \in P
      BY <2>1, NumberInduction
    <2> QED
      BY <2>2 DEF P
  <1>4. Cardinality(S) \in Nat /\ Level(S, Cardinality(S)) = SUBSET S
    BY FS_CardinalityType, FS_Subset DEF Level
  <1> QED
    BY <1>3, <1>4

Table(w, S) == CHOOSE t : IsTable(t, w, SUBSET S)

LEMMA TableRows ==
    ASSUME NEW S, IsFiniteSet(S), NEW w
    PROVE  /\ Table(w, S)[{}] = 0
           /\ \A s \in SUBSET S : s # {} =>
                 Table(w, S)[s] = w[Pick(s)] + Table(w, S)[s \ {Pick(s)}]
  <1>1. IsTable(Table(w, S), w, SUBSET S)
    BY TableExists DEF Table
  <1> QED
    BY <1>1 DEF IsTable

\* What the fold of the library returns is the last entry of the table.
LEMMA SumIsEntry ==
    ASSUME NEW S, NEW w
    PROVE  SumFunctionOnSet(w, S) = Table(w, S)[S]
  BY DEF SumFunctionOnSet, FoldFunctionOnSet, MapThenFoldSet, Table, IsTable, Pick

LEMMA EntryIsSum ==
    ASSUME NEW S, IsFiniteSet(S), NEW w, NEW R \in SUBSET S
    PROVE  Table(w, S)[R] = SumFunctionOnSet(w, R)
  <1> DEFINE Bad == {s \in SUBSET R : Table(w, S)[s] # Table(w, R)[s]}
  <1>1. IsFiniteSet(R)
    BY FS_Subset
  <1>2. ASSUME Bad # {} PROVE FALSE
    <2>1. PICK s \in Bad : \A x \in s : s \ {x} \notin Bad
      <3>1. Bad \subseteq SUBSET R
        OBVIOUS
      <3> HIDE DEF Bad
      <3> QED
        BY <1>1, <1>2, <3>1, MinimalSubset
    <2>2. s # {}
      BY <1>1, <2>1, TableRows
    <2>3. Pick(s) \in s
      BY <2>2 DEF Pick
    <2>4. Table(w, S)[s \ {Pick(s)}] = Table(w, R)[s \ {Pick(s)}]
      BY <2>1, <2>3
    <2>5. /\ Table(w, S)[s] = w[Pick(s)] + Table(w, S)[s \ {Pick(s)}]
          /\ Table(w, R)[s] = w[Pick(s)] + Table(w, R)[s \ {Pick(s)}]
      <3>1. s \in SUBSET S /\ s \in SUBSET R
        BY <2>1
      <3> QED
        BY <1>1, <2>2, <3>1, TableRows
    <2> QED
      BY <2>1, <2>4, <2>5
  <1>3. Table(w, S)[R] = Table(w, R)[R]
    BY <1>2
  <1> QED
    BY <1>3, SumIsEntry

(***************************************************************************)
(* Sums over finite sets.                                                  *)
(***************************************************************************)
LEMMA SumOfNone == \A w : SumFunctionOnSet(w, {}) = 0
  BY SumIsEntry, TableRows, FS_EmptySet

LEMMA SumTakesPick ==
    ASSUME NEW S, IsFiniteSet(S), S # {}, NEW w
    PROVE  /\ Pick(S) \in S
           /\ SumFunctionOnSet(w, S) = w[Pick(S)] + SumFunctionOnSet(w, S \ {Pick(S)})
  <1>1. Pick(S) \in S
    BY DEF Pick
  <1>2. Table(w, S)[S] = w[Pick(S)] + Table(w, S)[S \ {Pick(S)}]
    BY TableRows
  <1>3. Table(w, S)[S] = SumFunctionOnSet(w, S)
    BY SumIsEntry
  <1>4. Table(w, S)[S \ {Pick(S)}] = SumFunctionOnSet(w, S \ {Pick(S)})
    BY EntryIsSum
  <1> QED
    BY <1>1, <1>2, <1>3, <1>4

Amounts(w, S) == \A x \in S : w[x] \in Int
SameOn(w, v, S) == \A x \in S : v[x] = w[x]

LEMMA SumType ==
    ASSUME NEW S, IsFiniteSet(S), NEW w, Amounts(w, S)
    PROVE  \A T \in SUBSET S : SumFunctionOnSet(w, T) \in Int
  <1> DEFINE Bad == {T \in SUBSET S : SumFunctionOnSet(w, T) \notin Int}
  <1> SUFFICES ASSUME Bad # {} PROVE FALSE
    OBVIOUS
  <1>1. PICK T \in Bad : \A x \in T : T \ {x} \notin Bad
    <2>1. Bad \subseteq SUBSET S
      OBVIOUS
    <2> HIDE DEF Bad
    <2> QED
      BY <2>1, MinimalSubset
  <1>2. T # {} /\ IsFiniteSet(T)
    <2>1. T # {}
      BY <1>1, SumOfNone
    <2>2. T \in SUBSET S
      BY <1>1
    <2> QED
      BY <2>1, <2>2, FS_Subset
  <1>3. Pick(T) \in T /\ SumFunctionOnSet(w, T) = w[Pick(T)] + SumFunctionOnSet(w, T \ {Pick(T)})
    BY <1>2, SumTakesPick
  <1>4. SumFunctionOnSet(w, T \ {Pick(T)}) \in Int /\ w[Pick(T)] \in Int
    BY <1>1, <1>3 DEF Amounts
  <1> QED
    BY <1>1, <1>3, <1>4

\* The order in which the fold takes the elements does not matter.
LEMMA SumTakesOut ==
    ASSUME NEW S, IsFiniteSet(S), NEW w, Amounts(w, S), NEW y, y \in S
    PROVE  SumFunctionOnSet(w, S) = SumFunctionOnSet(w, S \ {y}) + w[y]
  <1> DEFINE Sum(T) == SumFunctionOnSet(w, T)
             Bad == {U \in SUBSET S : \E z \in U : Sum(U) # Sum(U \ {z}) + w[z]}
  <1>1. \A T \in SUBSET S : Sum(T) \in Int
    BY SumType
  <1>2. ASSUME NEW T \in SUBSET S, T # {}
        PROVE  Pick(T) \in T /\ Sum(T) = w[Pick(T)] + Sum(T \ {Pick(T)})
    <2>1. IsFiniteSet(T)
      BY FS_Subset
    <2> QED
      BY <1>2, <2>1, SumTakesPick
  <1> HIDE DEF Sum
  <1>3. ASSUME Bad # {} PROVE FALSE
    <2>1. PICK U \in Bad : \A x \in U : U \ {x} \notin Bad
      <3>1. Bad \subseteq SUBSET S
        OBVIOUS
      <3> HIDE DEF Bad
      <3> QED
        BY <1>3, <3>1, MinimalSubset
    <2>2. PICK z \in U : Sum(U) # Sum(U \ {z}) + w[z]
      BY <2>1
    <2>3. PICK p \in U : Sum(U) = w[p] + Sum(U \ {p})
      BY <1>2, <2>1, <2>2
    <2>4. /\ w[p] \in Int /\ w[z] \in Int /\ U \ {p} \in SUBSET S /\ U \ {z} \in SUBSET S
          /\ U \ {p, z} \in SUBSET S
      BY <2>1, <2>2, <2>3 DEF Amounts
    <2>5. Sum(U \ {p}) \in Int /\ Sum(U \ {z}) \in Int /\ Sum(U \ {p, z}) \in Int
      BY <1>1, <2>4
    <2>6. CASE p = z
      <3>1. Sum(U \ {p}) = Sum(U \ {z}) /\ w[p] = w[z]
        BY <2>6
      <3> QED
        BY <2>2, <2>3, <2>4, <2>5, <3>1
    <2>7. CASE p # z
      <3>1. U \ {p} \notin Bad /\ U \ {z} \notin Bad
        BY <2>1, <2>2, <2>3
      <3>2. z \in U \ {p} /\ p \in U \ {z}
        BY <2>2, <2>3, <2>7
      <3>3. Sum(U \ {p}) = Sum((U \ {p}) \ {z}) + w[z] /\ Sum(U \ {z}) = Sum((U \ {z}) \ {p}) + w[p]
        BY <2>4, <3>1, <3>2
      <3>4. (U \ {p}) \ {z} = U \ {p, z} /\ (U \ {z}) \ {p} = U \ {p, z}
        OBVIOUS
      <3>5. Sum(U \ {p}) = Sum(U \ {p, z}) + w[z] /\ Sum(U \ {z}) = Sum(U \ {p, z}) + w[p]
        BY <3>3, <3>4
      <3> QED
        BY <2>2, <2>3, <2>4, <2>5, <3>5
    <2> QED
      BY <2>6, <2>7
  <1> QED
    BY <1>3 DEF Sum

LEMMA SumsAgree ==
    ASSUME NEW S, IsFiniteSet(S), NEW w, Amounts(w, S), NEW v, SameOn(w, v, S)
    PROVE  SumFunctionOnSet(v, S) = SumFunctionOnSet(w, S)
  <1> DEFINE Bad == {T \in SUBSET S : SumFunctionOnSet(v, T) # SumFunctionOnSet(w, T)}
  <1> SUFFICES ASSUME Bad # {} PROVE FALSE
    OBVIOUS
  <1>1. PICK T \in Bad : \A x \in T : T \ {x} \notin Bad
    <2>1. Bad \subseteq SUBSET S
      OBVIOUS
    <2> HIDE DEF Bad
    <2> QED
      BY <2>1, MinimalSubset
  <1>2. T # {}
    BY <1>1, SumOfNone
  <1>3. PICK x \in T : TRUE
    BY <1>2
  <1>4. SumFunctionOnSet(v, T \ {x}) = SumFunctionOnSet(w, T \ {x})
    BY <1>1, <1>3
  <1>5. IsFiniteSet(T) /\ Amounts(w, T) /\ Amounts(v, T)
    BY <1>1, FS_Subset DEF Amounts, SameOn
  <1>6. /\ SumFunctionOnSet(v, T) = SumFunctionOnSet(v, T \ {x}) + v[x]
        /\ SumFunctionOnSet(w, T) = SumFunctionOnSet(w, T \ {x}) + w[x]
    BY <1>3, <1>5, SumTakesOut
  <1>7. v[x] = w[x]
    BY <1>1, <1>3 DEF SameOn
  <1> QED
    BY <1>1, <1>4, <1>6, <1>7

\* A sum of amounts is one, and that of a part is no greater.
LEMMA SumOfPart ==
    ASSUME NEW S, IsFiniteSet(S), NEW w, \A x \in S : w[x] \in Nat, NEW R \in SUBSET S
    PROVE  /\ SumFunctionOnSet(w, R) \in Nat /\ SumFunctionOnSet(w, S) \in Nat
           /\ SumFunctionOnSet(w, R) <= SumFunctionOnSet(w, S)
  <1> DEFINE Bad == {T \in SUBSET S : ~ (/\ SumFunctionOnSet(w, T \intersect R) \in Nat
                       /\ SumFunctionOnSet(w, T) \in Nat
                       /\ SumFunctionOnSet(w, T \intersect R) <= SumFunctionOnSet(w, T))}
  <1>1. ASSUME Bad # {} PROVE FALSE
    <2>1. PICK T \in Bad : \A x \in T : T \ {x} \notin Bad
      <3>1. Bad \subseteq SUBSET S
        OBVIOUS
      <3> HIDE DEF Bad
      <3> QED
        BY <1>1, <3>1, MinimalSubset
    <2>2. T # {}
      BY <2>1, SumOfNone
    <2>3. PICK x \in T : TRUE
      BY <2>2
    <2>4. /\ SumFunctionOnSet(w, (T \ {x}) \intersect R) \in Nat
          /\ SumFunctionOnSet(w, T \ {x}) \in Nat
          /\ SumFunctionOnSet(w, (T \ {x}) \intersect R) <= SumFunctionOnSet(w, T \ {x})
      BY <2>1, <2>3
    <2>5. /\ IsFiniteSet(T) /\ IsFiniteSet(T \intersect R)
          /\ Amounts(w, T) /\ Amounts(w, T \intersect R)
      BY <2>1, FS_Subset DEF Amounts
    <2>6. SumFunctionOnSet(w, T) = SumFunctionOnSet(w, T \ {x}) + w[x]
      BY <2>3, <2>5, SumTakesOut
    <2>7. CASE x \in R
      <3>1. (T \intersect R) \ {x} = (T \ {x}) \intersect R /\ x \in T \intersect R
        BY <2>3, <2>7
      <3>2. SumFunctionOnSet(w, T \intersect R)
                = SumFunctionOnSet(w, (T \ {x}) \intersect R) + w[x]
        BY <2>5, <3>1, SumTakesOut
      <3>3. w[x] \in Nat
        BY <2>1, <2>3
      <3> QED
        BY <2>1, <2>4, <2>6, <3>2, <3>3
    <2>8. CASE x \notin R
      <3>1. T \intersect R = (T \ {x}) \intersect R
        BY <2>8
      <3>2. SumFunctionOnSet(w, T \intersect R) = SumFunctionOnSet(w, (T \ {x}) \intersect R)
        BY <3>1
      <3>3. w[x] \in Nat
        BY <2>1, <2>3
      <3> QED
        BY <2>1, <2>4, <2>6, <3>2, <3>3
    <2> QED
      BY <2>7, <2>8
  <1>2. S \intersect R = R /\ S \in SUBSET S
    OBVIOUS
  <1> QED
    BY <1>1, <1>2

\* One amount is added.
LEMMA SumGrows ==
    ASSUME NEW S, IsFiniteSet(S), NEW i, i \notin S, NEW w, Amounts(w, S),
           NEW v, v[i] \in Int, SameOn(w, v, S)
    PROVE  SumFunctionOnSet(v, S \union {i}) = SumFunctionOnSet(w, S) + v[i]
  <1>1. /\ IsFiniteSet(S \union {i}) /\ (S \union {i}) \ {i} = S
        /\ Amounts(v, S \union {i}) /\ i \in S \union {i}
    BY FS_AddElement DEF Amounts, SameOn
  <1>2. SumFunctionOnSet(v, S \union {i}) = SumFunctionOnSet(v, S) + v[i]
    BY <1>1, SumTakesOut
  <1>3. SumFunctionOnSet(v, S) = SumFunctionOnSet(w, S)
    BY SumsAgree
  <1> QED
    BY <1>2, <1>3

-----------------------------------------------------------------------------
(* Prices, and the ledger before and after a step.                         *)

LEMMA Products ==
    /\ \A a, b \in Nat : a * b \in Nat
    /\ \A a, b, p \in Nat : a <= b => a * p <= b * p
  OBVIOUS

\* A call never costs more than it was reserved at.
LEMMA CostWithinEstimate ==
    ASSUME NEW input \in Nat, NEW output \in 0 .. MaxOutput
    PROVE  /\ Estimate(input) \in Nat
           /\ Cost(input, output) \in Nat /\ Cost(0, 0) = 0
           /\ Pricing # "local" => Cost(input, output) <= Estimate(input)
  <1>1. /\ input * InPrice \in Nat /\ output * OutPrice \in Nat /\ MaxOutput * OutPrice \in Nat
        /\ output * OutPrice <= MaxOutput * OutPrice
    BY AmountAssumption, Products
  <1>2. 0 * InPrice = 0 /\ 0 * OutPrice = 0
    BY AmountAssumption
  <1> QED
    BY <1>1, <1>2 DEF Estimate, Cost, ListPrice

LEMMA Ledger ==
    ASSUME calls \in Seq(CallRows)
    PROVE  /\ Len(calls) \in Nat /\ Ids = 1 .. Len(calls) /\ IsFiniteSet(Ids)
           /\ \A i \in Ids : calls[i] \in CallRows
           /\ \A i \in Ids : /\ Used[i] \in Nat /\ Reserved[i] \in Nat
                             /\ CallTokens[i] \in Nat /\ Costs[i] \in Nat
  <1>1. Len(calls) \in Nat /\ Ids = 1 .. Len(calls) /\ IsFiniteSet(Ids)
    BY FS_Interval DEF Ids
  <1>2. \A i \in Ids : calls[i] \in CallRows
    BY <1>1
  <1>3. \A i \in Ids : /\ calls[i].input \in Nat /\ calls[i].output \in Nat
                      /\ calls[i].reserved \in Nat /\ calls[i].cost \in Nat
    BY <1>2 DEF CallRows
  <1>4. \A i \in Ids : Used[i] \in Nat
    BY <1>3 DEF Used
  <1>5. \A i \in Ids : Reserved[i] \in Nat /\ Costs[i] \in Nat
    BY <1>3 DEF Reserved, Costs
  <1>6. \A i \in Ids : CallTokens[i] \in Nat
    BY <1>4, <1>5 DEF CallTokens
  <1> QED
    BY <1>1, <1>2, <1>4, <1>5, <1>6

LEMMA LedgerSums ==
    ASSUME calls \in Seq(CallRows)
    PROVE  /\ \A d : SpendSince(d) \in Nat
           /\ \A u : TokensOfUser(u) \in Nat
           /\ \A s : TokensFinished(s) \in Nat /\ TokensReserved(s) \in Nat
  BY Ledger, SumOfPart DEF SpendSince, TokensOfUser, CallsOfUser, TokensFinished, TokensReserved,
                           CallsOf

LEMMA LedgerSame ==
    ASSUME UNCHANGED calls
    PROVE  /\ \A d : SpendSince(d)' = SpendSince(d)
           /\ \A u : TokensOfUser(u)' = TokensOfUser(u)
           /\ \A s : TokensFinished(s)' = TokensFinished(s)
                     /\ TokensReserved(s)' = TokensReserved(s)
  BY DEF SpendSince, TokensOfUser, CallsOfUser, TokensFinished, TokensReserved, CallsOf,
         Ids, Used, Reserved, CallTokens, Costs

LEMMA ReservationAdds ==
    ASSUME calls \in Seq(CallRows), NEW row \in CallRows, calls' = Append(calls, row),
           row.pending, row.input = 0, row.output = 0
    PROVE  /\ calls' \in Seq(CallRows) /\ Len(calls') = Len(calls) + 1
           /\ \A i \in 1 .. Len(calls) : calls'[i] = calls[i]
           /\ calls'[Len(calls) + 1] = row
           /\ \A d : SpendSince(d)' \in {SpendSince(d), SpendSince(d) + row.cost}
           /\ \A u \in Users : TokensOfUser(u)' =
                 TokensOfUser(u) + (IF u = OwnerOf[row.subject] THEN row.reserved ELSE 0)
           /\ \A s \in Subjects :
                 /\ TokensFinished(s)' = TokensFinished(s)
                 /\ TokensReserved(s)' =
                       TokensReserved(s) + (IF s = row.subject THEN row.reserved ELSE 0)
  <1> DEFINE n == Len(calls) + 1
  <1>1. /\ calls' \in Seq(CallRows) /\ Len(calls') = n /\ calls'[n] = row
        /\ \A i \in 1 .. Len(calls) : calls'[i] = calls[i]
    OBVIOUS
  <1>2. Ids = 1 .. Len(calls) /\ IsFiniteSet(Ids) /\ n \notin Ids /\ Ids' = Ids \union {n}
        /\ \A i \in Ids : calls'[i] = calls[i]
    BY <1>1, Ledger DEF Ids
  <1>3. /\ row.cost \in Nat /\ row.reserved \in Nat
        /\ Costs'[n] = row.cost /\ Used'[n] = 0 /\ Reserved'[n] = row.reserved
        /\ CallTokens'[n] = row.reserved
    BY <1>1, <1>2 DEF CallRows, Costs, Used, Reserved, CallTokens
  <1>4. ASSUME NEW T \in SUBSET Ids
        PROVE  /\ IsFiniteSet(T) /\ n \notin T
               /\ Amounts(Costs, T) /\ SameOn(Costs, Costs', T)
               /\ Amounts(Used, T) /\ SameOn(Used, Used', T)
               /\ Amounts(Reserved, T) /\ SameOn(Reserved, Reserved', T)
               /\ Amounts(CallTokens, T) /\ SameOn(CallTokens, CallTokens', T)
    <2>1. \A i \in Ids : /\ Costs'[i] = Costs[i] /\ Used'[i] = Used[i]
                         /\ Reserved'[i] = Reserved[i] /\ CallTokens'[i] = CallTokens[i]
      BY <1>2 DEF Costs, Used, Reserved, CallTokens
    <2>2. \A i \in Ids : /\ Costs[i] \in Int /\ Used[i] \in Int
                         /\ Reserved[i] \in Int /\ CallTokens[i] \in Int
      BY Ledger
    <2>3. IsFiniteSet(T) /\ n \notin T /\ \A i \in T : i \in Ids
      BY <1>2, FS_Subset
    <2> QED
      BY <2>1, <2>2, <2>3 DEF Amounts, SameOn
  <1> HIDE DEF n
  <1>6. ASSUME NEW T \in SUBSET Ids
        PROVE  /\ SumFunctionOnSet(Costs', T) = SumFunctionOnSet(Costs, T)
               /\ SumFunctionOnSet(Used', T) = SumFunctionOnSet(Used, T)
               /\ SumFunctionOnSet(Reserved', T) = SumFunctionOnSet(Reserved, T)
               /\ SumFunctionOnSet(CallTokens', T) = SumFunctionOnSet(CallTokens, T)
    BY <1>4, SumsAgree
  <1>7. ASSUME NEW T \in SUBSET Ids
        PROVE  /\ SumFunctionOnSet(Costs', T \union {n}) = SumFunctionOnSet(Costs, T) + row.cost
               /\ SumFunctionOnSet(Reserved', T \union {n})
                      = SumFunctionOnSet(Reserved, T) + row.reserved
               /\ SumFunctionOnSet(CallTokens', T \union {n})
                      = SumFunctionOnSet(CallTokens, T) + row.reserved
    <2>1. Costs'[n] \in Int /\ Reserved'[n] \in Int /\ CallTokens'[n] \in Int
      BY <1>3
    <2>2. /\ IsFiniteSet(T) /\ n \notin T
          /\ Amounts(Costs, T) /\ SameOn(Costs, Costs', T)
          /\ Amounts(Reserved, T) /\ SameOn(Reserved, Reserved', T)
          /\ Amounts(CallTokens, T) /\ SameOn(CallTokens, CallTokens', T)
      BY <1>4
    <2>3. SumFunctionOnSet(Costs', T \union {n}) = SumFunctionOnSet(Costs, T) + Costs'[n]
      BY <2>1, <2>2, SumGrows
    <2>4. SumFunctionOnSet(Reserved', T \union {n}) = SumFunctionOnSet(Reserved, T) + Reserved'[n]
      BY <2>1, <2>2, SumGrows
    <2>5. SumFunctionOnSet(CallTokens', T \union {n})
              = SumFunctionOnSet(CallTokens, T) + CallTokens'[n]
      BY <2>1, <2>2, SumGrows
    <2> QED
      BY <1>3, <2>3, <2>4, <2>5
  <1>8. ASSUME NEW d PROVE SpendSince(d)' \in {SpendSince(d), SpendSince(d) + row.cost}
    <2> DEFINE T == {i \in Ids : calls[i].day >= d}
    <2>1. {i \in Ids : calls[i].day >= d}' = IF row.day >= d THEN T \union {n} ELSE T
      BY <1>1, <1>2
    <2> QED
      BY <1>6, <1>7, <2>1 DEF SpendSince
  <1>9. ASSUME NEW u \in Users
        PROVE  TokensOfUser(u)' =
                   TokensOfUser(u) + (IF u = OwnerOf[row.subject] THEN row.reserved ELSE 0)
    <2>1. CallsOfUser(u)' = IF u = OwnerOf[row.subject] THEN CallsOfUser(u) \union {n}
                            ELSE CallsOfUser(u)
      BY <1>1, <1>2 DEF CallsOfUser
    <2>2. CallsOfUser(u) \in SUBSET Ids /\ TokensOfUser(u) \in Nat
      BY LedgerSums DEF CallsOfUser
    <2>3. CASE u = OwnerOf[row.subject]
      BY <1>7, <2>1, <2>2, <2>3 DEF TokensOfUser
    <2>4. CASE u # OwnerOf[row.subject]
      BY <1>6, <2>1, <2>2, <2>4 DEF TokensOfUser
    <2> QED
      BY <2>3, <2>4
  <1>10. ASSUME NEW s \in Subjects
         PROVE  /\ TokensFinished(s)' = TokensFinished(s)
                /\ TokensReserved(s)' =
                       TokensReserved(s) + (IF s = row.subject THEN row.reserved ELSE 0)
    <2> DEFINE F == {i \in CallsOf(s) : ~calls[i].pending}
               R == {i \in CallsOf(s) : calls[i].pending}
    <2>1. /\ {i \in CallsOf(s) : ~calls[i].pending}' = F
          /\ {i \in CallsOf(s) : calls[i].pending}' =
                 IF s = row.subject THEN R \union {n} ELSE R
      BY <1>1, <1>2 DEF CallsOf
    <2>2. F \in SUBSET Ids /\ R \in SUBSET Ids /\ TokensReserved(s) \in Nat
      BY LedgerSums DEF CallsOf
    <2>3. TokensFinished(s) = SumFunctionOnSet(Used, F)
          /\ TokensReserved(s) = SumFunctionOnSet(Reserved, R)
      BY DEF TokensFinished, TokensReserved
    <2>4. TokensFinished(s)' = SumFunctionOnSet(Used', F)
          /\ TokensReserved(s)' =
                 SumFunctionOnSet(Reserved', IF s = row.subject THEN R \union {n} ELSE R)
      BY <2>1 DEF TokensFinished, TokensReserved
    <2> HIDE DEF F, R
    <2>5. TokensFinished(s)' = TokensFinished(s)
      BY <1>6, <2>2, <2>3, <2>4
    <2>6. CASE s = row.subject
      BY <1>7, <2>2, <2>3, <2>4, <2>5, <2>6
    <2>7. CASE s # row.subject
      BY <1>6, <2>2, <2>3, <2>4, <2>5, <2>7
    <2> QED
      BY <2>6, <2>7
  <1> QED
    BY <1>1, <1>8, <1>9, <1>10 DEF n

LEMMA SettlingSubtracts ==
    ASSUME calls \in Seq(CallRows), NEW i \in Ids,
           NEW input \in Nat, NEW output \in Nat, Settle(i, input, output),
           calls[i].pending, calls[i].input = 0, calls[i].output = 0,
           input + output <= calls[i].reserved,
           Cost(input, output) \in Nat
    PROVE  /\ calls' \in Seq(CallRows) /\ Len(calls') = Len(calls)
           /\ \A j \in Ids \ {i} : calls'[j] = calls[j]
           /\ Cost(input, output) <= calls[i].cost => \A d : SpendSince(d)' <= SpendSince(d)
           /\ \A u : TokensOfUser(u)' <= TokensOfUser(u)
           /\ \A s : TokensFinished(s)' + TokensReserved(s)' <= TokensFinished(s) + TokensReserved(s)
           /\ \A s : s # calls[i].subject => /\ TokensFinished(s)' = TokensFinished(s)
                                             /\ TokensReserved(s)' = TokensReserved(s)
  <1> DEFINE new == [calls[i] EXCEPT !.pending = FALSE, !.input = input, !.output = output,
                                     !.cost = Cost(input, output)]
  <1>1. calls[i] \in CallRows /\ i \in 1 .. Len(calls) /\ Len(calls) \in Nat /\ IsFiniteSet(Ids)
    BY Ledger
  <1>2. /\ new \in CallRows /\ new.subject = calls[i].subject /\ new.day = calls[i].day
        /\ ~new.pending /\ new.input = input /\ new.output = output
        /\ new.cost = Cost(input, output)
    BY <1>1 DEF CallRows
  <1>3. calls' = [calls EXCEPT ![i] = new]
    BY DEF Settle
  <1> HIDE DEF new
  <1>4. /\ calls' \in Seq(CallRows) /\ Len(calls') = Len(calls) /\ Ids' = Ids
        /\ calls'[i] = new /\ \A j \in Ids \ {i} : calls'[j] = calls[j]
    BY <1>1, <1>2, <1>3, Ledger DEF Ids
  <1>5. /\ Costs'[i] = Cost(input, output) /\ Used'[i] = input + output /\ Used[i] = 0
        /\ CallTokens'[i] = input + output /\ CallTokens[i] = calls[i].reserved
        /\ Reserved[i] = calls[i].reserved /\ Costs[i] = calls[i].cost
        /\ calls[i].reserved \in Nat /\ calls[i].cost \in Nat
    <2>1. /\ Costs'[i] = new.cost /\ Used'[i] = new.input + new.output
          /\ CallTokens'[i] = Used'[i] + (IF new.pending THEN Reserved'[i] ELSE 0)
          /\ Costs[i] = calls[i].cost /\ Used[i] = calls[i].input + calls[i].output
          /\ Reserved[i] = calls[i].reserved
          /\ CallTokens[i] = Used[i] + (IF calls[i].pending THEN Reserved[i] ELSE 0)
      BY <1>4 DEF Costs, Used, CallTokens, Reserved
    <2>2. calls[i].reserved \in Nat /\ calls[i].cost \in Nat
      BY <1>1 DEF CallRows
    <2> QED
      BY <1>2, <2>1, <2>2
  <1>6. ASSUME NEW T \in SUBSET Ids
        PROVE  /\ IsFiniteSet(T) /\ Amounts(Costs, T) /\ Amounts(Used, T)
               /\ Amounts(Reserved, T) /\ Amounts(CallTokens, T)
    <2>1. IsFiniteSet(T) /\ \A j \in T : j \in Ids
      BY <1>1, FS_Subset
    <2>2. \A j \in Ids : /\ Costs[j] \in Int /\ Used[j] \in Int
                         /\ Reserved[j] \in Int /\ CallTokens[j] \in Int
      BY Ledger
    <2> QED
      BY <2>1, <2>2 DEF Amounts
  <1>7. ASSUME NEW T \in SUBSET Ids
        PROVE  /\ SameOn(Costs, Costs', T \ {i}) /\ SameOn(Used, Used', T \ {i})
               /\ SameOn(Reserved, Reserved', T \ {i})
               /\ SameOn(CallTokens, CallTokens', T \ {i})
    BY <1>4 DEF SameOn, Costs, Used, Reserved, CallTokens
  <1>8. ASSUME NEW T \in SUBSET Ids, i \notin T
        PROVE  /\ SumFunctionOnSet(Costs', T) = SumFunctionOnSet(Costs, T)
               /\ SumFunctionOnSet(Used', T) = SumFunctionOnSet(Used, T)
               /\ SumFunctionOnSet(Reserved', T) = SumFunctionOnSet(Reserved, T)
               /\ SumFunctionOnSet(CallTokens', T) = SumFunctionOnSet(CallTokens, T)
    <2>1. T \ {i} = T
      BY <1>8
    <2>2. /\ SameOn(Costs, Costs', T) /\ SameOn(Used, Used', T)
          /\ SameOn(Reserved, Reserved', T) /\ SameOn(CallTokens, CallTokens', T)
      BY <1>7, <2>1
    <2> QED
      BY <1>6, <2>2, SumsAgree
  <1>9. ASSUME NEW T \in SUBSET Ids, i \in T
        PROVE  /\ SumFunctionOnSet(Costs', T)
                      = (SumFunctionOnSet(Costs, T) - Costs[i]) + Costs'[i]
               /\ SumFunctionOnSet(CallTokens', T)
                      = (SumFunctionOnSet(CallTokens, T) - CallTokens[i]) + CallTokens'[i]
    <2> DEFINE U == T \ {i}
    <2>1. /\ IsFiniteSet(T) /\ Amounts(Costs, T) /\ Amounts(CallTokens, T)
          /\ Amounts(Costs', T) /\ Amounts(CallTokens', T)
      <3>1. IsFiniteSet(T) /\ Amounts(Costs, T) /\ Amounts(CallTokens, T)
        BY <1>6
      <3>2. SameOn(Costs, Costs', T \ {i}) /\ SameOn(CallTokens, CallTokens', T \ {i})
        BY <1>7
      <3>3. Costs'[i] \in Int /\ CallTokens'[i] \in Int
        BY <1>5
      <3>4. \A x \in T : Costs'[x] \in Int /\ CallTokens'[x] \in Int
        BY <3>1, <3>2, <3>3 DEF Amounts, SameOn
      <3> QED
        BY <3>1, <3>4 DEF Amounts
    <2>2. /\ SumFunctionOnSet(Costs, T) = SumFunctionOnSet(Costs, U) + Costs[i]
          /\ SumFunctionOnSet(CallTokens, T) = SumFunctionOnSet(CallTokens, U) + CallTokens[i]
          /\ SumFunctionOnSet(Costs', T) = SumFunctionOnSet(Costs', U) + Costs'[i]
          /\ SumFunctionOnSet(CallTokens', T) = SumFunctionOnSet(CallTokens', U) + CallTokens'[i]
      BY <1>9, <2>1, SumTakesOut
    <2>3. U \in SUBSET Ids /\ i \notin U
      OBVIOUS
    <2> HIDE DEF U
    <2>4. /\ SumFunctionOnSet(Costs', U) = SumFunctionOnSet(Costs, U)
          /\ SumFunctionOnSet(CallTokens', U) = SumFunctionOnSet(CallTokens, U)
      BY <1>8, <2>3
    <2>5. SumFunctionOnSet(Costs, U) \in Int /\ SumFunctionOnSet(CallTokens, U) \in Int
      BY <1>6, <2>3, SumType
    <2> QED
      BY <1>5, <2>2, <2>4, <2>5
  <1>10. ASSUME NEW T \in SUBSET Ids
         PROVE  SumFunctionOnSet(Costs, T) \in Int /\ SumFunctionOnSet(CallTokens, T) \in Int
    BY <1>6, SumType
  <1>11. ASSUME NEW d, Cost(input, output) <= calls[i].cost
         PROVE  SpendSince(d)' <= SpendSince(d)
    <2> DEFINE T == {j \in Ids : calls[j].day >= d}
    <2>1. T \in SUBSET Ids /\ SpendSince(d) = SumFunctionOnSet(Costs, T)
      BY DEF SpendSince
    <2>2. SpendSince(d)' = SumFunctionOnSet(Costs', T)
      <3>1. {j \in Ids : calls[j].day >= d}' = T
        BY <1>2, <1>4
      <3> QED
        BY <3>1 DEF SpendSince
    <2> HIDE DEF T
    <2>3. CASE i \in T
      <3>1. SumFunctionOnSet(Costs', T) = (SumFunctionOnSet(Costs, T) - Costs[i]) + Costs'[i]
        BY <1>9, <2>1, <2>3
      <3>2. SumFunctionOnSet(Costs, T) \in Int
        BY <1>10, <2>1
      <3> QED
        BY <1>5, <1>11, <2>1, <2>2, <3>1, <3>2
    <2>4. CASE i \notin T
      BY <1>8, <1>10, <2>1, <2>2, <2>4
    <2> QED
      BY <2>3, <2>4
  <1>12. ASSUME NEW u PROVE TokensOfUser(u)' <= TokensOfUser(u)
    <2> DEFINE T == CallsOfUser(u)
    <2>1. T \in SUBSET Ids /\ TokensOfUser(u) = SumFunctionOnSet(CallTokens, T)
      BY DEF TokensOfUser, CallsOfUser
    <2>2. TokensOfUser(u)' = SumFunctionOnSet(CallTokens', T)
      <3>1. CallsOfUser(u)' = T
        BY <1>2, <1>4 DEF CallsOfUser
      <3> QED
        BY <3>1 DEF TokensOfUser
    <2> HIDE DEF T
    <2>3. CASE i \in T
      <3>1. SumFunctionOnSet(CallTokens', T)
                = (SumFunctionOnSet(CallTokens, T) - CallTokens[i]) + CallTokens'[i]
        BY <1>9, <2>1, <2>3
      <3>2. SumFunctionOnSet(CallTokens, T) \in Int
        BY <1>10, <2>1
      <3> QED
        BY <1>5, <2>1, <2>2, <3>1, <3>2
    <2>4. CASE i \notin T
      BY <1>8, <1>10, <2>1, <2>2, <2>4
    <2> QED
      BY <2>3, <2>4
  <1>13. ASSUME NEW s
         PROVE  IF s = calls[i].subject
                THEN /\ TokensFinished(s)' = TokensFinished(s) + (input + output)
                     /\ TokensReserved(s)' = TokensReserved(s) - calls[i].reserved
                ELSE /\ TokensFinished(s)' = TokensFinished(s)
                     /\ TokensReserved(s)' = TokensReserved(s)
    <2> DEFINE F == {j \in CallsOf(s) : ~calls[j].pending}
               R == {j \in CallsOf(s) : calls[j].pending}
    <2>1. /\ F \in SUBSET Ids /\ R \in SUBSET Ids /\ i \notin F
          /\ i \in R <=> s = calls[i].subject
          /\ TokensFinished(s) = SumFunctionOnSet(Used, F)
          /\ TokensReserved(s) = SumFunctionOnSet(Reserved, R)
      BY DEF CallsOf, TokensFinished, TokensReserved
    <2>2. CASE s = calls[i].subject
      <3>1. /\ {j \in CallsOf(s) : ~calls[j].pending}' = F \union {i}
            /\ {j \in CallsOf(s) : calls[j].pending}' = R \ {i}
        BY <1>2, <1>4, <2>2 DEF CallsOf
      <3>2. /\ TokensFinished(s)' = SumFunctionOnSet(Used', F \union {i})
            /\ TokensReserved(s)' = SumFunctionOnSet(Reserved', R \ {i})
        BY <3>1 DEF TokensFinished, TokensReserved
      <3> HIDE DEF F, R
      <3>3. SumFunctionOnSet(Used', F \union {i}) = SumFunctionOnSet(Used, F) + Used'[i]
        <4>1. F \ {i} = F /\ Used'[i] \in Int
          BY <1>5, <2>1
        <4>2. IsFiniteSet(F) /\ Amounts(Used, F) /\ SameOn(Used, Used', F)
          BY <1>6, <1>7, <2>1, <4>1
        <4> QED
          BY <2>1, <4>1, <4>2, SumGrows
      <3>4. SumFunctionOnSet(Reserved', R \ {i}) = SumFunctionOnSet(Reserved, R \ {i})
        BY <1>8, <2>1
      <3>5. /\ SumFunctionOnSet(Reserved, R) = SumFunctionOnSet(Reserved, R \ {i}) + Reserved[i]
            /\ SumFunctionOnSet(Reserved, R \ {i}) \in Int
        <4>1. IsFiniteSet(R) /\ Amounts(Reserved, R)
          BY <1>6, <2>1
        <4>2. SumFunctionOnSet(Reserved, R \ {i}) \in Int
          BY <4>1, SumType
        <4> QED
          BY <2>1, <2>2, <4>1, <4>2, SumTakesOut
      <3> QED
        BY <1>5, <2>1, <2>2, <3>2, <3>3, <3>4, <3>5
    <2>3. CASE s # calls[i].subject
      <3>1. /\ {j \in CallsOf(s) : ~calls[j].pending}' = F
            /\ {j \in CallsOf(s) : calls[j].pending}' = R
        BY <1>2, <1>4, <2>3 DEF CallsOf
      <3>2. /\ TokensFinished(s)' = SumFunctionOnSet(Used', F)
            /\ TokensReserved(s)' = SumFunctionOnSet(Reserved', R)
        BY <3>1 DEF TokensFinished, TokensReserved
      <3> HIDE DEF F, R
      <3> QED
        BY <1>8, <2>1, <2>3, <3>2
    <2> QED
      BY <2>2, <2>3
  <1>14. \A s : TokensFinished(s) \in Nat /\ TokensReserved(s) \in Nat
    BY LedgerSums
  <1>15. \A s : TokensFinished(s)' + TokensReserved(s)' <= TokensFinished(s) + TokensReserved(s)
    BY <1>5, <1>13, <1>14
  <1> QED
    BY <1>4, <1>11, <1>12, <1>13, <1>15

LEMMA Midnights ==
    ASSUME calls \in Seq(CallRows), day \in Nat, Midnight
    PROVE  SpendToday' <= SpendToday
  <1> DEFINE R == {i \in Ids : calls[i].day >= day + 1}
             S == {i \in Ids : calls[i].day >= day}
  <1>1. SpendToday' = SumFunctionOnSet(Costs, R)
    <2>1. day' = day + 1 /\ UNCHANGED calls
      BY DEF Midnight
    <2> QED
      BY <2>1 DEF SpendToday, SpendSince, Ids, Costs
  <1>2. SpendToday = SumFunctionOnSet(Costs, S)
    BY DEF SpendToday, SpendSince
  <1>3. R \in SUBSET S /\ IsFiniteSet(S) /\ \A x \in S : Costs[x] \in Nat
    <2>1. \A i \in Ids : calls[i].day \in Nat
      BY Ledger DEF CallRows, Days
    <2>2. IsFiniteSet(Ids) /\ S \in SUBSET Ids
      BY Ledger
    <2>3. IsFiniteSet(S)
      BY <2>2, FS_Subset
    <2> QED
      BY <2>1, <2>3, Ledger
  <1> HIDE DEF R, S
  <1> QED
    BY <1>1, <1>2, <1>3, SumOfPart

-----------------------------------------------------------------------------
(***************************************************************************)
(* The invariant.  Between taking the lock and the commit a caller is      *)
(* alone; what it has checked stays true until it commits, because all the *)
(* others can do meanwhile is to settle, which only lowers the sums: a     *)
(* call in flight stands in them with its worst case.                      *)
(***************************************************************************)
UnderLock == {"sum", "budget", "quota", "cap", "commit"}
LockInv == \A c \in Callers : pc[c] \in UnderLock => lock = c

\* A call in flight is the row of its caller alone, at what it was reserved at.
SendInv(c) ==
    pc[c] = "send" =>
        /\ call[c] \in Ids
        /\ calls[call[c]].pending /\ calls[call[c]].subject = SubjectOf[c]
        /\ calls[call[c]].input = 0 /\ calls[call[c]].output = 0
        /\ calls[call[c]].reserved = Reserve(need[c])
        /\ calls[call[c]].cost = Estimate(need[c])
        /\ \A d \in Callers : pc[d] = "send" /\ call[d] = call[c] => d = c

SpendInv ==
    Pricing # "local" =>
        /\ SpendToday <= Cap
        /\ \A c \in Callers : pc[c] = "commit" => SpendToday + Estimate(need[c]) <= Cap

QuotaInv ==
    /\ QuotaHolds
    /\ \A c \in Callers : pc[c] \in {"cap", "commit"} =>
          TokensOfUser(OwnerOf[SubjectOf[c]]) + Reserve(need[c])
              <= Quota[OwnerOf[SubjectOf[c]]]

\* Only one task works on the subject.
Alone(s) == \A c, d \in Callers : SubjectOf[c] = s /\ SubjectOf[d] = s => c = d

BudgetInv(s) ==
    Alone(s) =>
        /\ TokensFinished(s) + TokensReserved(s) <= Budget[s]
        /\ \A c \in Callers : SubjectOf[c] = s =>
             /\ pc[c] = "budget" => finished[c] = TokensFinished(s)
             /\ pc[c] \in {"quota", "cap", "commit"} =>
                   TokensFinished(s) + TokensReserved(s) + Reserve(need[c]) <= Budget[s]

SpendTypeInv == TypeOK /\ Len(calls) + Cardinality(Reserving) <= MaxCalls

LedgerInv ==
    /\ SpendTypeInv
    /\ LockInv
    /\ \A c \in Callers : SendInv(c)
    /\ SpendInv
    /\ QuotaInv
    /\ \A s \in Subjects : BudgetInv(s)

LEMMA LedgerInit == Init => LedgerInv
  <1> SUFFICES ASSUME Init PROVE LedgerInv
    OBVIOUS
  <1>1. SpendTypeInv
    <2>1. Reserving = {}
      BY DEF Init, Reserving
    <2>2. /\ calls \in Seq(CallRows) /\ Len(calls) = 0 /\ lock \in Callers \union {NoOne}
          /\ killSwitch \in BOOLEAN /\ alerts \subseteq Days \X Levels
          /\ pc \in [Callers -> Pcs] /\ need \in [Callers -> Inputs \union {0}]
          /\ finished \in [Callers -> Nat]
      BY EmptySeq DEF Init, Pcs
    <2>3. 0 \in Days /\ 0 \in 0 .. MaxKills /\ 0 \in 0 .. MaxCalls
      BY AmountAssumption DEF Days
    <2>4. TypeOK
      BY <2>2, <2>3, AmountAssumption DEF Init, TypeOK
    <2> QED
      BY <2>1, <2>2, <2>4, FS_EmptySet, AmountAssumption DEF SpendTypeInv
  <1>2. Ids = {}
    BY DEF Init, Ids
  <1>3. /\ \A d : SpendSince(d) = 0
        /\ \A u : TokensOfUser(u) = 0
        /\ \A s : TokensFinished(s) = 0 /\ TokensReserved(s) = 0
    <2>1. /\ \A d : {i \in Ids : calls[i].day >= d} = {}
          /\ \A u : CallsOfUser(u) = {}
          /\ \A s : {i \in CallsOf(s) : ~calls[i].pending} = {}
                     /\ {i \in CallsOf(s) : calls[i].pending} = {}
      BY <1>2 DEF CallsOfUser, CallsOf
    <2> QED
      BY <2>1, SumOfNone DEF SpendSince, TokensOfUser, TokensFinished, TokensReserved
  <1>4. \A c \in Callers : pc[c] = "idle"
    BY DEF Init
  <1>5. SpendInv
    BY <1>3, <1>4, AmountAssumption DEF SpendInv, SpendToday
  <1>6. QuotaInv
    BY <1>3, <1>4, AmountAssumption DEF QuotaInv, QuotaHolds
  <1>7. \A s \in Subjects : BudgetInv(s)
    BY <1>3, <1>4, AmountAssumption DEF BudgetInv
  <1>8. LockInv /\ \A c \in Callers : SendInv(c)
    BY <1>4 DEF LockInv, SendInv, UnderLock
  <1> QED
    BY <1>1, <1>5, <1>6, <1>7, <1>8 DEF LedgerInv

-----------------------------------------------------------------------------
(* Type correctness, and room for the rows of the reservations.            *)

ReservingPcs == {"lock"} \union UnderLock

LEMMA ReservingCount == IsFiniteSet(Reserving) /\ Cardinality(Reserving) \in Nat
  <1>1. Reserving \in SUBSET Callers
    BY DEF Reserving
  <1>2. IsFiniteSet(Reserving)
    BY <1>1, TableAssumption, FS_Subset
  <1> QED
    BY <1>2, FS_CardinalityType

LEMMA ReservingMoves ==
    ASSUME TypeOK, NEW c \in Callers, NEW l \in Pcs, Goto(c, l)
    PROVE  /\ pc' \in [Callers -> Pcs]
           /\ Cardinality(Reserving)' \in Nat
           /\ Cardinality(Reserving)' =
                 IF l \in ReservingPcs
                 THEN IF pc[c] \in ReservingPcs THEN Cardinality(Reserving)
                                               ELSE Cardinality(Reserving) + 1
                 ELSE IF pc[c] \in ReservingPcs THEN Cardinality(Reserving) - 1
                                               ELSE Cardinality(Reserving)
  <1> USE DEF ReservingPcs, UnderLock
  <1>1. pc' = [pc EXCEPT ![c] = l] /\ pc' \in [Callers -> Pcs]
    BY DEF Goto, TypeOK
  <1>2. c \in Reserving <=> pc[c] \in ReservingPcs
    BY DEF Reserving
  <1>3. Reserving' = IF l \in ReservingPcs THEN Reserving \union {c} ELSE Reserving \ {c}
    BY <1>1 DEF Reserving, TypeOK
  <1>4. IsFiniteSet(Reserving) /\ Cardinality(Reserving) \in Nat
    BY ReservingCount
  <1>5. /\ IsFiniteSet(Reserving \union {c}) /\ IsFiniteSet(Reserving \ {c})
        /\ Cardinality(Reserving \union {c}) =
              IF c \in Reserving THEN Cardinality(Reserving) ELSE Cardinality(Reserving) + 1
        /\ Cardinality(Reserving \ {c}) =
              IF c \in Reserving THEN Cardinality(Reserving) - 1 ELSE Cardinality(Reserving)
    BY <1>4, FS_AddElement, FS_RemoveElement
  <1>6. Cardinality(Reserving \union {c}) \in Nat /\ Cardinality(Reserving \ {c}) \in Nat
    BY <1>5, FS_CardinalityType
  <1> QED
    BY <1>1, <1>2, <1>3, <1>5, <1>6

LEMMA ForgetKeepsTypes ==
    ASSUME TypeOK, NEW c \in Callers, Forget(c)
    PROVE  /\ Goto(c, "idle") /\ need' \in [Callers -> Inputs \union {0}]
           /\ began' \in [Callers -> Days] /\ finished' \in [Callers -> Nat]
           /\ call' \in [Callers -> 0 .. MaxCalls]
  BY AmountAssumption DEF Forget, TypeOK, Days

\* The row a reservation commits.
NewCall(c) == [subject |-> SubjectOf[c], pending |-> TRUE, reserved |-> Reserve(need[c]),
               input |-> 0, output |-> 0, cost |-> Estimate(need[c]), day |-> began[c]]

LEMMA NewCallType ==
    ASSUME TypeOK, NEW c \in Callers
    PROVE  NewCall(c) \in CallRows /\ need[c] \in Nat /\ Reserve(need[c]) \in Nat
  <1>1. need[c] \in Nat
    <2>1. need[c] \in Inputs \union {0}
      BY DEF TypeOK
    <2>2. \A i \in Inputs : i \in Nat
      BY AmountAssumption
    <2> QED
      BY <2>1, <2>2
  <1>2. Reserve(need[c]) \in Nat /\ Estimate(need[c]) \in Nat
    <2>1. 0 \in 0 .. MaxOutput
      BY AmountAssumption
    <2> QED
      BY <1>1, <2>1, CostWithinEstimate, AmountAssumption DEF Reserve
  <1>3. SubjectOf[c] \in Subjects /\ began[c] \in Days
    BY TableAssumption DEF TypeOK
  <1> QED
    BY <1>1, <1>2, <1>3 DEF NewCall, CallRows

\* What settling a call does to the ledger.
LEMMA CallSettles ==
    ASSUME calls \in Seq(CallRows), NEW c \in Callers, need[c] \in Nat, call[c] \in Ids,
           calls[call[c]].pending, calls[call[c]].input = 0, calls[call[c]].output = 0,
           calls[call[c]].reserved = Reserve(need[c]), calls[call[c]].cost = Estimate(need[c]),
           Respond(c) \/ RequestFails(c)
    PROVE  /\ calls' \in Seq(CallRows) /\ Len(calls') = Len(calls)
           /\ \A j \in Ids \ {call[c]} : calls'[j] = calls[j]
           /\ Pricing # "local" => \A d : SpendSince(d)' <= SpendSince(d)
           /\ \A u : TokensOfUser(u)' <= TokensOfUser(u)
           /\ \A s : TokensFinished(s)' + TokensReserved(s)'
                        <= TokensFinished(s) + TokensReserved(s)
           /\ \A s : s # calls[call[c]].subject =>
                 TokensFinished(s)' = TokensFinished(s) /\ TokensReserved(s)' = TokensReserved(s)
  <1>1. PICK input \in Nat, output \in Nat :
            /\ Settle(call[c], input, output)
            /\ input + output <= Reserve(need[c])
            /\ Cost(input, output) \in Nat
            /\ Pricing # "local" => Cost(input, output) <= Estimate(need[c])
    <2>1. CASE Respond(c)
      <3>1. PICK output \in 0 .. MaxOutput : Settle(call[c], need[c], output)
        BY <2>1 DEF Respond
      <3>2. output \in Nat /\ need[c] + output <= Reserve(need[c])
        BY AmountAssumption DEF Reserve
      <3> QED
        BY <3>1, <3>2, CostWithinEstimate
    <2>2. CASE RequestFails(c)
      <3>1. Settle(call[c], 0, 0)
        BY <2>2 DEF RequestFails
      <3>2. Reserve(need[c]) \in Nat /\ 0 \in 0 .. MaxOutput
        BY AmountAssumption DEF Reserve
      <3>3. Cost(0, 0) = 0 /\ Estimate(need[c]) \in Nat
        BY <3>2, CostWithinEstimate
      <3> QED
        BY <3>1, <3>2, <3>3
    <2> QED
      BY <2>1, <2>2
  <1> QED
    BY <1>1, SettlingSubtracts

LEMMA AlertTypes ==
    ASSUME TypeOK, RaiseAlert
    PROVE  alerts' \subseteq Days \X Levels
  BY DEF TypeOK, RaiseAlert, AlertLevel, Levels

LEMMA ReservationTypes ==
    ASSUME SpendTypeInv, NEW c \in Callers, Begin(c) \/ Reservation(c)
    PROVE  SpendTypeInv'
  <1> USE DEF SpendTypeInv, Pcs
  <1>1. TypeOK /\ Cardinality(Reserving) \in Nat /\ Len(calls) \in Nat
    BY ReservingCount, Ledger DEF TypeOK
  <1>2. CASE Begin(c)
    <2>1. Goto(c, "lock") /\ pc[c] = "idle"
      BY <1>2 DEF Begin
    <2>2. TypeOK'
      BY <1>1, <1>2, <2>1, ReservingMoves DEF Begin, TypeOK
    <2> QED
      BY <1>1, <1>2, <2>1, <2>2, ReservingMoves, AmountAssumption
         DEF Begin, ReservingPcs, UnderLock
  <1>3. ASSUME NEW l \in UnderLock, Goto(c, l), pc[c] \in ReservingPcs,
               UNCHANGED <<calls, killSwitch, alerts, day, kills, need, began, call>>,
               lock' \in {lock, c}, finished' \in [Callers -> Nat]
        PROVE  SpendTypeInv'
    <2>1. pc' \in [Callers -> Pcs] /\ Cardinality(Reserving)' = Cardinality(Reserving)
      BY <1>1, <1>3, ReservingMoves DEF ReservingPcs, UnderLock
    <2> QED
      BY <1>1, <1>3, <2>1 DEF TypeOK
  <1>4. ASSUME pc[c] \in UnderLock, Refuse(c) PROVE SpendTypeInv'
    <2>1. Forget(c) /\ UNCHANGED <<calls, killSwitch, alerts, day, kills>> /\ lock' = NoOne
      BY <1>4 DEF Refuse
    <2>2. /\ pc' \in [Callers -> Pcs] /\ Cardinality(Reserving)' \in Nat
          /\ Cardinality(Reserving)' = Cardinality(Reserving) - 1
      BY <1>1, <1>4, <2>1, ForgetKeepsTypes, ReservingMoves DEF ReservingPcs, UnderLock
    <2>3. TypeOK'
      BY <1>1, <2>1, <2>2, ForgetKeepsTypes DEF TypeOK
    <2> QED
      BY <1>1, <2>1, <2>2, <2>3, AmountAssumption
  <1>5. CASE LockDailySpend(c)
    BY <1>1, <1>3, <1>5 DEF LockDailySpend, UnderLock, ReservingPcs, TypeOK
  <1>6. CASE SumFinished(c)
    <2>1. finished' \in [Callers -> Nat]
      BY <1>1, <1>6, LedgerSums DEF SumFinished, TypeOK
    <2> QED
      BY <1>3, <1>6, <2>1 DEF SumFinished, UnderLock, ReservingPcs
  <1>7. CASE CheckBudget(c)
    BY <1>1, <1>3, <1>4, <1>7 DEF CheckBudget, UnderLock, ReservingPcs, TypeOK
  <1>8. CASE CheckQuota(c)
    BY <1>1, <1>3, <1>4, <1>8 DEF CheckQuota, UnderLock, ReservingPcs, TypeOK
  <1>9. CASE CheckCap(c)
    BY <1>1, <1>3, <1>4, <1>9 DEF CheckCap, UnderLock, ReservingPcs, TypeOK
  <1>10. CASE CommitCall(c)
    <2>1. Goto(c, "send") /\ pc[c] = "commit"
      BY <1>10 DEF CommitCall
    <2>2. /\ pc' \in [Callers -> Pcs] /\ Cardinality(Reserving)' \in Nat
          /\ Cardinality(Reserving)' = Cardinality(Reserving) - 1
      BY <1>1, <2>1, ReservingMoves DEF ReservingPcs, UnderLock
    <2>3. NewCall(c) \in CallRows
      BY <1>1, NewCallType
    <2>4. calls' \in Seq(CallRows) /\ Len(calls') = Len(calls) + 1
      BY <1>1, <1>10, <2>3 DEF CommitCall, NewCall, TypeOK
    <2>5. Len(calls') \in 0 .. MaxCalls
      BY <1>1, <2>2, <2>4, AmountAssumption
    <2>6. call' \in [Callers -> 0 .. MaxCalls]
      BY <1>1, <1>10, <2>4, <2>5 DEF CommitCall, TypeOK
    <2>7. TypeOK'
      BY <1>1, <1>10, <2>2, <2>4, <2>5, <2>6 DEF CommitCall, TypeOK
    <2> QED
      BY <1>1, <2>2, <2>4, <2>7, AmountAssumption
  <1> QED
    BY <1>2, <1>5, <1>6, <1>7, <1>8, <1>9, <1>10 DEF Reservation

LEMMA OutcomeTypes ==
    ASSUME SpendTypeInv, NEW c \in Callers, Outcome(c) \/ Killed(c), SendInv(c)
    PROVE  SpendTypeInv'
  <1> USE DEF SpendTypeInv, Pcs
  <1>1. /\ TypeOK /\ Cardinality(Reserving) \in Nat /\ Len(calls) \in Nat
        /\ Ids = 1 .. Len(calls) /\ need[c] \in Nat
    BY ReservingCount, Ledger, NewCallType DEF TypeOK
  <1>2. CASE Respond(c) \/ RequestFails(c)
    <2>1. /\ Goto(c, "alert") /\ pc[c] = "send"
          /\ UNCHANGED <<lock, killSwitch, alerts, day, kills, need, began, finished, call>>
      BY <1>2 DEF Respond, RequestFails
    <2>2. calls' \in Seq(CallRows) /\ Len(calls') = Len(calls)
      <3>1. calls \in Seq(CallRows) /\ need[c] \in Nat
        BY <1>1 DEF TypeOK
      <3>2. /\ call[c] \in Ids
            /\ calls[call[c]].pending /\ calls[call[c]].input = 0 /\ calls[call[c]].output = 0
            /\ calls[call[c]].reserved = Reserve(need[c])
            /\ calls[call[c]].cost = Estimate(need[c])
        BY <2>1 DEF SendInv
      <3> QED
        BY <1>2, <3>1, <3>2, CallSettles
    <2>3. pc' \in [Callers -> Pcs] /\ Cardinality(Reserving)' = Cardinality(Reserving)
      BY <1>1, <2>1, ReservingMoves DEF ReservingPcs, UnderLock
    <2> QED
      BY <1>1, <2>1, <2>2, <2>3 DEF TypeOK
  <1>3. CASE CheckSpendAlerts(c)
    <2>1. /\ pc[c] = "alert" /\ Forget(c) /\ RaiseAlert
          /\ UNCHANGED <<calls, lock, killSwitch, day, kills>>
      BY <1>3 DEF CheckSpendAlerts
    <2>2. /\ pc' \in [Callers -> Pcs] /\ Cardinality(Reserving)' = Cardinality(Reserving)
      BY <1>1, <2>1, ForgetKeepsTypes, ReservingMoves DEF ReservingPcs, UnderLock
    <2>3. alerts' \subseteq Days \X Levels
      BY <1>1, <2>1, AlertTypes
    <2>4. TypeOK'
      BY <1>1, <2>1, <2>2, <2>3, ForgetKeepsTypes DEF TypeOK
    <2> QED
      BY <1>1, <2>1, <2>2, <2>4
  <1>4. CASE Killed(c)
    <2>1. /\ Forget(c) /\ kills' = kills + 1 /\ kills < MaxKills
          /\ lock' = (IF lock = c THEN NoOne ELSE lock)
          /\ UNCHANGED <<calls, killSwitch, alerts, day>>
      BY <1>4 DEF Killed
    <2>2. /\ pc' \in [Callers -> Pcs] /\ Cardinality(Reserving)' \in Nat
          /\ Cardinality(Reserving)' <= Cardinality(Reserving)
      BY <1>1, <2>1, ForgetKeepsTypes, ReservingMoves DEF ReservingPcs, UnderLock
    <2>3. kills' \in 0 .. MaxKills /\ lock' \in Callers \union {NoOne}
      BY <1>1, <2>1, AmountAssumption DEF TypeOK
    <2>4. TypeOK'
      BY <1>1, <2>1, <2>2, <2>3, ForgetKeepsTypes DEF TypeOK
    <2> QED
      BY <1>1, <2>1, <2>2, <2>4, AmountAssumption
  <1> QED
    BY <1>2, <1>3, <1>4 DEF Outcome

LEMMA OtherTypes ==
    ASSUME SpendTypeInv, BeatSpendAlerts \/ ToggleKillSwitch \/ Midnight \/ UNCHANGED vars
    PROVE  SpendTypeInv'
  <1> USE DEF SpendTypeInv, caller
  <1>1. UNCHANGED <<calls, pc>>
    BY DEF BeatSpendAlerts, ToggleKillSwitch, Midnight, vars
  <1>2. Reserving' = Reserving /\ Len(calls') = Len(calls)
    BY <1>1 DEF Reserving
  <1>3. CASE BeatSpendAlerts
    BY <1>2, <1>3, AlertTypes DEF BeatSpendAlerts, TypeOK
  <1>4. CASE ToggleKillSwitch
    BY <1>2, <1>4 DEF ToggleKillSwitch, TypeOK
  <1>5. CASE Midnight
    <2>1. day' \in Days
      BY <1>5, AmountAssumption DEF Midnight, TypeOK, Days
    <2> QED
      BY <1>2, <1>5, <2>1 DEF Midnight, TypeOK
  <1>6. CASE UNCHANGED vars
    BY <1>2, <1>6 DEF vars, TypeOK
  <1> QED
    BY <1>3, <1>4, <1>5, <1>6

-----------------------------------------------------------------------------
(* What a step of one caller leaves to the others, and what it has checked *)
(* when it moves on.                                                       *)

\* A step that leaves the ledger and the day alone.
Quiet(c) ==
    \/ Begin(c) \/ LockDailySpend(c) \/ SumFinished(c) \/ CheckBudget(c) \/ CheckQuota(c)
    \/ CheckCap(c) \/ CheckSpendAlerts(c) \/ Killed(c)
Settles(c) == Respond(c) \/ RequestFails(c)
Elsewhere == BeatSpendAlerts \/ ToggleKillSwitch \/ UNCHANGED vars

LEMMA StepKinds ==
    ASSUME [Next]_vars
    PROVE  \/ \E c \in Callers : Quiet(c) \/ CommitCall(c) \/ Settles(c)
           \/ Elsewhere \/ Midnight
  BY DEF Next, Reservation, Outcome, Quiet, Settles, Elsewhere

SameCaller(d) ==
    pc'[d] = pc[d] /\ need'[d] = need[d] /\ finished'[d] = finished[d] /\ call'[d] = call[d]

LEMMA OthersStay ==
    ASSUME TypeOK, NEW c \in Callers, Quiet(c) \/ CommitCall(c) \/ Settles(c),
           NEW d \in Callers, d # c
    PROVE  SameCaller(d)
  <1> USE DEF SameCaller, Goto, TypeOK
  <1>1. ASSUME Forget(c) PROVE SameCaller(d)
    BY <1>1 DEF Forget
  <1>2. CASE Quiet(c)
    <2>1. CASE Begin(c)
      BY <2>1 DEF Begin
    <2>2. CASE LockDailySpend(c)
      BY <2>2 DEF LockDailySpend
    <2>3. CASE SumFinished(c)
      BY <2>3 DEF SumFinished
    <2>4. CASE CheckBudget(c)
      BY <1>1, <2>4 DEF CheckBudget, Refuse
    <2>5. CASE CheckQuota(c)
      BY <1>1, <2>5 DEF CheckQuota, Refuse
    <2>6. CASE CheckCap(c)
      BY <1>1, <2>6 DEF CheckCap, Refuse
    <2>7. CASE CheckSpendAlerts(c)
      BY <1>1, <2>7 DEF CheckSpendAlerts
    <2>8. CASE Killed(c)
      BY <1>1, <2>8 DEF Killed
    <2> QED
      BY <1>2, <2>1, <2>2, <2>3, <2>4, <2>5, <2>6, <2>7, <2>8 DEF Quiet
  <1>3. CASE CommitCall(c)
    BY <1>3 DEF CommitCall
  <1>4. CASE Settles(c)
    BY <1>4 DEF Settles, Respond, RequestFails
  <1> QED
    BY <1>2, <1>3, <1>4

LEMMA QuietSteps ==
    ASSUME TypeOK, NEW c \in Callers, Quiet(c)
    PROVE  /\ UNCHANGED <<calls, day>> /\ pc'[c] # "send"
           /\ pc'[c] = "budget" => finished'[c] = TokensFinished(SubjectOf[c])
           /\ pc'[c] = "quota" =>
                 /\ pc[c] = "budget" /\ need'[c] = need[c]
                 /\ finished[c] + TokensReserved(SubjectOf[c]) + Reserve(need[c])
                        <= Budget[SubjectOf[c]]
           /\ pc'[c] = "cap" =>
                 /\ pc[c] = "quota" /\ need'[c] = need[c]
                 /\ TokensOfUser(OwnerOf[SubjectOf[c]]) + Reserve(need[c])
                        <= Quota[OwnerOf[SubjectOf[c]]]
           /\ pc'[c] = "commit" => pc[c] = "cap" /\ need'[c] = need[c] /\ ~Blocked(c)
           /\ pc'[c] \in UnderLock => (pc[c] \in UnderLock /\ lock' = lock) \/ lock' = c
  <1> DEFINE Goal ==
           /\ UNCHANGED <<calls, day>> /\ pc'[c] # "send"
           /\ pc'[c] = "budget" => finished'[c] = TokensFinished(SubjectOf[c])
           /\ pc'[c] = "quota" =>
                 /\ pc[c] = "budget" /\ need'[c] = need[c]
                 /\ finished[c] + TokensReserved(SubjectOf[c]) + Reserve(need[c])
                        <= Budget[SubjectOf[c]]
           /\ pc'[c] = "cap" =>
                 /\ pc[c] = "quota" /\ need'[c] = need[c]
                 /\ TokensOfUser(OwnerOf[SubjectOf[c]]) + Reserve(need[c])
                        <= Quota[OwnerOf[SubjectOf[c]]]
           /\ pc'[c] = "commit" => pc[c] = "cap" /\ need'[c] = need[c] /\ ~Blocked(c)
           /\ pc'[c] \in UnderLock => (pc[c] \in UnderLock /\ lock' = lock) \/ lock' = c
  <1> USE DEF UnderLock
  <1>1. pc \in [Callers -> Pcs] /\ need \in [Callers -> Inputs \union {0}]
        /\ finished \in [Callers -> Nat]
    BY DEF TypeOK
  <1>2. ASSUME Forget(c), UNCHANGED <<calls, day>> PROVE Goal
    BY <1>1, <1>2 DEF Forget, Goto
  <1>3. CASE Begin(c)
    BY <1>1, <1>3 DEF Begin, Goto
  <1>4. CASE LockDailySpend(c)
    BY <1>1, <1>4 DEF LockDailySpend, Goto
  <1>5. CASE SumFinished(c)
    BY <1>1, <1>5 DEF SumFinished, Goto
  <1>6. CASE CheckBudget(c)
    <2>1. CASE Refuse(c)
      BY <1>2, <2>1 DEF Refuse
    <2>2. CASE ~Refuse(c)
      <3>1. /\ Goto(c, "quota") /\ pc[c] = "budget"
            /\ UNCHANGED <<calls, lock, day, need>>
            /\ ~(finished[c] + TokensReserved(SubjectOf[c]) + Reserve(need[c])
                    > Budget[SubjectOf[c]])
        BY <1>6, <2>2 DEF CheckBudget
      <3>2. finished[c] + TokensReserved(SubjectOf[c]) + Reserve(need[c]) <= Budget[SubjectOf[c]]
        <4>1. /\ finished[c] \in Nat /\ TokensReserved(SubjectOf[c]) \in Nat
              /\ Reserve(need[c]) \in Nat /\ Budget[SubjectOf[c]] \in Nat
          BY <1>1, NewCallType, LedgerSums, TableAssumption, AmountAssumption DEF TypeOK
        <4> QED
          BY <3>1, <4>1
      <3> QED
        BY <1>1, <3>1, <3>2 DEF Goto
    <2> QED
      BY <2>1, <2>2
  <1>7. CASE CheckQuota(c)
    <2>1. CASE Refuse(c)
      BY <1>2, <2>1 DEF Refuse
    <2>2. CASE ~Refuse(c)
      <3>1. /\ Goto(c, "cap") /\ pc[c] = "quota"
            /\ UNCHANGED <<calls, lock, day, need>>
            /\ ~(TokensOfUser(OwnerOf[SubjectOf[c]]) + Reserve(need[c])
                    > Quota[OwnerOf[SubjectOf[c]]])
        BY <1>7, <2>2 DEF CheckQuota
      <3>2. TokensOfUser(OwnerOf[SubjectOf[c]]) + Reserve(need[c])
                <= Quota[OwnerOf[SubjectOf[c]]]
        <4>1. /\ TokensOfUser(OwnerOf[SubjectOf[c]]) \in Nat
              /\ Reserve(need[c]) \in Nat /\ Quota[OwnerOf[SubjectOf[c]]] \in Nat
          BY NewCallType, LedgerSums, TableAssumption, AmountAssumption DEF TypeOK
        <4> QED
          BY <3>1, <4>1
      <3> QED
        BY <1>1, <3>1, <3>2 DEF Goto
    <2> QED
      BY <2>1, <2>2
  <1>8. CASE CheckCap(c)
    <2>1. CASE Refuse(c)
      BY <1>2, <2>1 DEF Refuse
    <2>2. CASE ~Refuse(c)
      <3>1. /\ Goto(c, "commit") /\ pc[c] = "cap" /\ ~Blocked(c)
            /\ UNCHANGED <<calls, lock, day, need>>
        BY <1>8, <2>2 DEF CheckCap
      <3> QED
        BY <1>1, <3>1 DEF Goto
    <2> QED
      BY <2>1, <2>2
  <1>9. CASE CheckSpendAlerts(c)
    BY <1>2, <1>9 DEF CheckSpendAlerts
  <1>10. CASE Killed(c)
    BY <1>2, <1>10 DEF Killed
  <1>11. Goal
    BY <1>3, <1>4, <1>5, <1>6, <1>7, <1>8, <1>9, <1>10 DEF Quiet
  <1> QED
    BY <1>11

\* What the ledger and the caller are after a reservation, and after a call.
LEMMA CommitStep ==
    ASSUME TypeOK, NEW c \in Callers, CommitCall(c)
    PROVE  /\ pc[c] = "commit" /\ pc'[c] = "send" /\ need'[c] = need[c]
           /\ call'[c] = Len(calls) + 1 /\ day' = day
           /\ Len(calls') = Len(calls) + 1 /\ calls'[Len(calls) + 1] = NewCall(c)
           /\ \A i \in Ids : calls'[i] = calls[i]
           /\ SpendToday' \in {SpendToday, SpendToday + Estimate(need[c])}
           /\ \A u \in Users : TokensOfUser(u)' =
                 TokensOfUser(u) + (IF u = OwnerOf[SubjectOf[c]] THEN Reserve(need[c]) ELSE 0)
           /\ \A s \in Subjects :
                 /\ TokensFinished(s)' = TokensFinished(s)
                 /\ TokensReserved(s)' =
                       TokensReserved(s) + (IF s = SubjectOf[c] THEN Reserve(need[c]) ELSE 0)
  <1>1. calls \in Seq(CallRows) /\ NewCall(c) \in CallRows
    BY NewCallType DEF TypeOK
  <1>2. calls' = Append(calls, NewCall(c))
    BY DEF CommitCall, NewCall
  <1>3. /\ NewCall(c).pending /\ NewCall(c).input = 0 /\ NewCall(c).output = 0
        /\ NewCall(c).subject = SubjectOf[c] /\ NewCall(c).cost = Estimate(need[c])
        /\ NewCall(c).reserved = Reserve(need[c])
    BY DEF NewCall
  <1>4. /\ Len(calls') = Len(calls) + 1 /\ calls'[Len(calls) + 1] = NewCall(c)
        /\ \A i \in 1 .. Len(calls) : calls'[i] = calls[i]
        /\ \A d : SpendSince(d)' \in {SpendSince(d), SpendSince(d) + Estimate(need[c])}
        /\ \A u \in Users : TokensOfUser(u)' =
                 TokensOfUser(u) + (IF u = OwnerOf[SubjectOf[c]] THEN Reserve(need[c]) ELSE 0)
        /\ \A s \in Subjects :
                 /\ TokensFinished(s)' = TokensFinished(s)
                 /\ TokensReserved(s)' =
                       TokensReserved(s) + (IF s = SubjectOf[c] THEN Reserve(need[c]) ELSE 0)
    <2> HIDE DEF NewCall
    <2> QED
      BY <1>1, <1>2, <1>3, ReservationAdds
  <1>5. /\ pc[c] = "commit" /\ pc'[c] = "send" /\ need' = need /\ day' = day
        /\ call'[c] = Len(calls) + 1
    BY DEF CommitCall, Goto, TypeOK
  <1>6. SpendToday' \in {SpendToday, SpendToday + Estimate(need[c])}
    <2>1. SpendToday' = SpendSince(day)'
      BY DEF SpendToday
    <2>2. SpendSince(day)' \in {SpendSince(day), SpendSince(day) + Estimate(need[c])}
      <3>1. PICK d : d = day
        OBVIOUS
      <3>2. SpendSince(d)' = SpendSince(day)'
        BY <1>5, <3>1 DEF SpendSince
      <3> QED
        BY <1>4, <3>1, <3>2
    <2> QED
      BY <2>1, <2>2 DEF SpendToday
  <1>7. \A i \in Ids : calls'[i] = calls[i]
    BY <1>1, <1>4, Ledger
  <1> QED
    BY <1>4, <1>5, <1>6, <1>7

LEMMA SettleStep ==
    ASSUME TypeOK, NEW c \in Callers, SendInv(c), Settles(c)
    PROVE  /\ pc[c] = "send" /\ pc'[c] = "alert" /\ day' = day
           /\ Len(calls') = Len(calls)
           /\ \A j \in Ids \ {call[c]} : calls'[j] = calls[j]
           /\ Pricing # "local" => SpendToday' <= SpendToday
           /\ \A u : TokensOfUser(u)' <= TokensOfUser(u)
           /\ \A s : TokensFinished(s)' + TokensReserved(s)'
                        <= TokensFinished(s) + TokensReserved(s)
           /\ \A s : s # SubjectOf[c] =>
                 TokensFinished(s)' = TokensFinished(s) /\ TokensReserved(s)' = TokensReserved(s)
  <1>1. pc[c] = "send" /\ pc'[c] = "alert" /\ day' = day
    BY DEF Settles, Respond, RequestFails, Goto, TypeOK
  <1>2. calls \in Seq(CallRows) /\ need[c] \in Nat
    BY NewCallType DEF TypeOK
  <1>3. /\ call[c] \in Ids /\ calls[call[c]].subject = SubjectOf[c]
        /\ calls[call[c]].pending /\ calls[call[c]].input = 0 /\ calls[call[c]].output = 0
        /\ calls[call[c]].reserved = Reserve(need[c])
        /\ calls[call[c]].cost = Estimate(need[c])
    BY <1>1 DEF SendInv
  <1>4. /\ Len(calls') = Len(calls)
        /\ \A j \in Ids \ {call[c]} : calls'[j] = calls[j]
        /\ Pricing # "local" => \A d : SpendSince(d)' <= SpendSince(d)
        /\ \A u : TokensOfUser(u)' <= TokensOfUser(u)
        /\ \A s : TokensFinished(s)' + TokensReserved(s)'
                        <= TokensFinished(s) + TokensReserved(s)
        /\ \A s : s # SubjectOf[c] =>
                 TokensFinished(s)' = TokensFinished(s) /\ TokensReserved(s)' = TokensReserved(s)
    BY <1>2, <1>3, CallSettles DEF Settles
  <1>5. ASSUME Pricing # "local" PROVE SpendToday' <= SpendToday
    <2>1. PICK d : d = day
      OBVIOUS
    <2>2. SpendSince(d)' = SpendToday' /\ SpendSince(d) = SpendToday
      BY <1>1, <2>1 DEF SpendSince, SpendToday
    <2> QED
      BY <1>4, <1>5, <2>2
  <1> QED
    BY <1>1, <1>4, <1>5

\* The steps that leave the ledger and the day alone leave the sums alone.
LEMMA QuietSums ==
    ASSUME UNCHANGED calls
    PROVE  /\ UNCHANGED day => SpendToday' = SpendToday
           /\ \A u : TokensOfUser(u)' = TokensOfUser(u)
           /\ \A s : TokensFinished(s)' = TokensFinished(s)
                     /\ TokensReserved(s)' = TokensReserved(s)
  <1>1. ASSUME UNCHANGED day PROVE SpendToday' = SpendToday
    BY <1>1 DEF SpendToday, SpendSince, Ids, Costs
  <1> QED
    BY <1>1, LedgerSame

LEMMA ElsewhereSteps ==
    ASSUME Elsewhere \/ Midnight
    PROVE  /\ UNCHANGED <<calls, lock, pc, need, finished, call>>
           /\ Elsewhere => UNCHANGED day
  BY DEF Elsewhere, BeatSpendAlerts, ToggleKillSwitch, Midnight, vars, caller

-----------------------------------------------------------------------------
(* Each part of the invariant is kept.                                     *)

LEMMA TypesKept ==
    ASSUME LedgerInv, [Next]_vars
    PROVE  SpendTypeInv'
  <1>1. SpendTypeInv /\ \A c \in Callers : SendInv(c)
    BY DEF LedgerInv
  <1>2. CASE \E c \in Callers : Begin(c) \/ Reservation(c)
    BY <1>1, <1>2, ReservationTypes
  <1>3. CASE \E c \in Callers : Outcome(c) \/ Killed(c)
    BY <1>1, <1>3, OutcomeTypes
  <1>4. CASE BeatSpendAlerts \/ ToggleKillSwitch \/ Midnight \/ UNCHANGED vars
    BY <1>1, <1>4, OtherTypes
  <1> QED
    BY <1>2, <1>3, <1>4 DEF Next

LEMMA LockKept ==
    ASSUME TypeOK, LockInv, [Next]_vars
    PROVE  LockInv'
  <1> SUFFICES ASSUME NEW d \in Callers, pc'[d] \in UnderLock
               PROVE  lock' = d
    BY DEF LockInv
  <1>1. NoOne \notin Callers /\ (pc[d] \in UnderLock => lock = d)
    BY TableAssumption DEF LockInv
  <1>2. ASSUME NEW c \in Callers, Quiet(c), d # c
        PROVE  pc[d] \in UnderLock /\ lock' = lock
    <2>1. pc[d] \in UnderLock
      BY <1>2, OthersStay DEF SameCaller
    <2>2. lock = d /\ lock # NoOne
      BY <1>1, <2>1
    <2>3. pc[c] \in UnderLock => FALSE
      BY <1>2, <2>2 DEF LockInv
    <2>4. UNCHANGED lock
      BY <1>2, <2>2, <2>3 DEF Quiet, Begin, LockDailySpend, SumFinished, CheckBudget, CheckQuota,
                              CheckCap, CheckSpendAlerts, Killed, Refuse, UnderLock
    <2> QED
      BY <2>1, <2>4
  <1>3. ASSUME NEW c \in Callers, Quiet(c), d = c PROVE lock' = d
    <2>1. (pc[c] \in UnderLock /\ lock' = lock) \/ lock' = c
      BY <1>3, QuietSteps
    <2> QED
      BY <1>1, <1>3, <2>1
  <1>4. ASSUME NEW c \in Callers, CommitCall(c) PROVE FALSE
    <2>1. d # c
      BY <1>4, CommitStep DEF UnderLock
    <2>2. pc[d] \in UnderLock
      BY <1>4, <2>1, OthersStay DEF SameCaller
    <2>3. lock = d /\ lock = c
      BY <1>1, <1>4, <2>2, CommitStep DEF LockInv, UnderLock
    <2> QED
      BY <2>1, <2>3
  <1>5. ASSUME NEW c \in Callers, Settles(c) PROVE pc[d] \in UnderLock /\ lock' = lock
    <2>1. pc'[c] = "alert" /\ lock' = lock
      BY <1>5 DEF Settles, Respond, RequestFails, Goto, TypeOK
    <2>2. d # c
      BY <2>1 DEF UnderLock
    <2> QED
      BY <1>5, <2>1, <2>2, OthersStay DEF SameCaller
  <1>6. CASE Elsewhere \/ Midnight
    BY <1>1, <1>6, ElsewhereSteps
  <1> QED
    BY <1>1, <1>2, <1>3, <1>4, <1>5, <1>6, StepKinds

LEMMA SendKept ==
    ASSUME TypeOK, \A c \in Callers : SendInv(c), [Next]_vars
    PROVE  \A c \in Callers : SendInv(c)'
  <1> SUFFICES ASSUME NEW e \in Callers, pc'[e] = "send" PROVE SendInv(e)'
    BY DEF SendInv
  <1>1. Len(calls) \in Nat /\ Ids = 1 .. Len(calls)
    BY Ledger DEF TypeOK
  <1>2. Ids' = 1 .. Len(calls')
    BY DEF Ids, TypeOK
  <1>3. ASSUME NEW d \in Callers, pc[d] = "send"
        PROVE  /\ call[d] \in Ids
               /\ calls[call[d]].pending /\ calls[call[d]].subject = SubjectOf[d]
               /\ calls[call[d]].input = 0 /\ calls[call[d]].output = 0
               /\ calls[call[d]].reserved = Reserve(need[d])
               /\ calls[call[d]].cost = Estimate(need[d])
               /\ \A f \in Callers : pc[f] = "send" /\ call[f] = call[d] => f = d
    BY <1>3 DEF SendInv
  \* A caller that was sending, whose row is as it was, and that no one joins.
  <1>4. ASSUME SameCaller(e), calls'[call[e]] = calls[call[e]], call[e] \in Ids',
               \A f \in Callers : pc'[f] = "send" => SameCaller(f)
        PROVE  SendInv(e)'
    <2>1. pc[e] = "send" /\ need'[e] = need[e] /\ call'[e] = call[e]
      BY <1>4 DEF SameCaller
    <2>2. \A f \in Callers : pc'[f] = "send" /\ call'[f] = call'[e] => f = e
      BY <1>3, <1>4, <2>1 DEF SameCaller
    <2> QED
      BY <1>3, <1>4, <2>1, <2>2 DEF SendInv
  <1>5. ASSUME NEW c \in Callers, Quiet(c) PROVE SendInv(e)'
    <2>1. pc'[c] # "send" /\ calls' = calls
      BY <1>5, QuietSteps
    <2>2. \A f \in Callers : pc'[f] = "send" => SameCaller(f)
      BY <1>5, <2>1, OthersStay
    <2>3. SameCaller(e) /\ call[e] \in Ids' /\ calls'[call[e]] = calls[call[e]]
      BY <1>1, <1>2, <1>3, <2>1, <2>2 DEF SameCaller
    <2> QED
      BY <1>4, <2>2, <2>3
  <1>6. ASSUME NEW c \in Callers, CommitCall(c) PROVE SendInv(e)'
    <2>1. /\ need'[c] = need[c] /\ call'[c] = Len(calls) + 1
          /\ Len(calls') = Len(calls) + 1 /\ calls'[Len(calls) + 1] = NewCall(c)
          /\ \A i \in Ids : calls'[i] = calls[i]
      BY <1>6, CommitStep
    <2>2. \A f \in Callers : f # c => SameCaller(f)
      BY <1>6, OthersStay
    <2>3. ASSUME NEW f \in Callers, f # c, pc'[f] = "send"
          PROVE  pc[f] = "send" /\ call'[f] = call[f] /\ call'[f] \in Ids /\ call'[f] # call'[c]
      <3>1. pc[f] = "send" /\ call'[f] = call[f]
        BY <2>2, <2>3 DEF SameCaller
      <3>2. call[f] \in Ids
        BY <1>3, <3>1
      <3> QED
        BY <1>1, <2>1, <3>1, <3>2
    <2>4. CASE e = c
      <3>1. /\ call'[e] \in Ids' /\ calls'[call'[e]] = NewCall(e)
            /\ need'[e] = need[e]
        BY <1>1, <1>2, <2>1, <2>4
      <3>2. \A f \in Callers : pc'[f] = "send" /\ call'[f] = call'[e] => f = e
        BY <2>3, <2>4
      <3>3. /\ NewCall(e).pending /\ NewCall(e).subject = SubjectOf[e]
            /\ NewCall(e).input = 0 /\ NewCall(e).output = 0
            /\ NewCall(e).reserved = Reserve(need[e]) /\ NewCall(e).cost = Estimate(need[e])
        BY DEF NewCall
      <3> HIDE DEF NewCall
      <3> QED
        BY <3>1, <3>2, <3>3 DEF SendInv
    <2>5. CASE e # c
      <3>1. /\ pc[e] = "send" /\ call'[e] = call[e] /\ call[e] \in Ids /\ call'[e] # call'[c]
            /\ need'[e] = need[e]
        BY <2>2, <2>3, <2>5 DEF SameCaller
      <3>2. call'[e] \in Ids' /\ calls'[call'[e]] = calls[call[e]]
        BY <1>1, <1>2, <2>1, <3>1
      <3>3. \A f \in Callers : pc'[f] = "send" /\ call'[f] = call'[e] => f = e
        BY <1>3, <2>3, <3>1
      <3> QED
        BY <1>3, <3>1, <3>2, <3>3 DEF SendInv
    <2> QED
      BY <2>4, <2>5
  <1>7. ASSUME NEW c \in Callers, Settles(c) PROVE SendInv(e)'
    <2>1. /\ pc[c] = "send" /\ pc'[c] = "alert" /\ Len(calls') = Len(calls)
          /\ \A j \in Ids \ {call[c]} : calls'[j] = calls[j]
      BY <1>7, SettleStep
    <2>2. \A f \in Callers : pc'[f] = "send" => SameCaller(f) /\ f # c
      BY <1>7, <2>1, OthersStay
    <2>3. pc[e] = "send" /\ call[e] \in Ids /\ call[e] # call[c]
      BY <1>3, <2>1, <2>2 DEF SameCaller
    <2> QED
      BY <1>1, <1>2, <1>4, <2>1, <2>2, <2>3
  <1>8. CASE Elsewhere \/ Midnight
    <2>1. UNCHANGED <<calls, pc, need, finished, call>>
      BY <1>8, ElsewhereSteps
    <2>2. \A f \in Callers : SameCaller(f)
      BY <2>1 DEF SameCaller
    <2> QED
      BY <1>1, <1>2, <1>3, <1>4, <2>1, <2>2
  <1> QED
    BY <1>5, <1>6, <1>7, <1>8, StepKinds

\* The sums after a call is settled are amounts.
SumsAreAmounts ==
    /\ \A d : SpendSince(d) \in Nat
    /\ \A u : TokensOfUser(u) \in Nat
    /\ \A s : TokensFinished(s) \in Nat /\ TokensReserved(s) \in Nat

LEMMA AmountsAlways == calls \in Seq(CallRows) => SumsAreAmounts
  BY LedgerSums DEF SumsAreAmounts

LEMMA SettledSpend ==
    ASSUME TypeOK, NEW c \in Callers, SendInv(c), Settles(c)
    PROVE  /\ SpendToday' \in Nat /\ \A u : TokensOfUser(u)' \in Nat
           /\ \A s : TokensFinished(s)' \in Nat /\ TokensReserved(s)' \in Nat
  <1>1. (calls \in Seq(CallRows))'
    <2>1. pc[c] = "send"
      BY DEF Settles, Respond, RequestFails
    <2>2. calls \in Seq(CallRows) /\ need[c] \in Nat
      BY NewCallType DEF TypeOK
    <2>3. /\ call[c] \in Ids
          /\ calls[call[c]].pending /\ calls[call[c]].input = 0 /\ calls[call[c]].output = 0
          /\ calls[call[c]].reserved = Reserve(need[c])
          /\ calls[call[c]].cost = Estimate(need[c])
      BY <2>1 DEF SendInv
    <2>4. calls' \in Seq(CallRows)
      BY <2>2, <2>3, CallSettles DEF Settles
    <2> QED
      BY <2>4 DEF CallRows, Days
  <1>2. SumsAreAmounts'
    BY <1>1, AmountsAlways, PTL
  <1>3. PICK d : d = day'
    OBVIOUS
  <1>4. SpendSince(d)' = SpendToday'
    BY <1>3 DEF SpendSince, SpendToday
  <1> QED
    BY <1>2, <1>4 DEF SumsAreAmounts

LEMMA SpendKept ==
    ASSUME TypeOK, LockInv, \A c \in Callers : SendInv(c), SpendInv, [Next]_vars
    PROVE  SpendInv'
  <1> SUFFICES ASSUME Pricing # "local"
               PROVE  /\ SpendToday' <= Cap
                      /\ \A e \in Callers : pc'[e] = "commit" =>
                            SpendToday' + Estimate(need'[e]) <= Cap
    BY DEF SpendInv, Estimate
  <1>1. /\ SpendToday \in Nat /\ SpendToday <= Cap /\ Cap \in Nat
        /\ \A e \in Callers : Estimate(need[e]) \in Nat
        /\ \A e \in Callers : pc[e] = "commit" => SpendToday + Estimate(need[e]) <= Cap
    <2>1. 0 \in 0 .. MaxOutput /\ Cap \in Nat
      BY AmountAssumption
    <2>2. \A e \in Callers : Estimate(need[e]) \in Nat
      BY <2>1, NewCallType, CostWithinEstimate
    <2>3. SpendToday \in Nat
      BY LedgerSums DEF SpendToday, TypeOK
    <2> QED
      BY <2>1, <2>2, <2>3 DEF SpendInv
  \* A lower sum, with nobody new at the commit.
  <1>2. ASSUME SpendToday' <= SpendToday, SpendToday' \in Nat,
               \A e \in Callers : pc'[e] = "commit" => pc[e] = "commit" /\ need'[e] = need[e]
        PROVE  /\ SpendToday' <= Cap
               /\ \A e \in Callers : pc'[e] = "commit" => SpendToday' + Estimate(need'[e]) <= Cap
    BY <1>1, <1>2
  <1>3. ASSUME NEW c \in Callers, Quiet(c)
        PROVE  /\ SpendToday' <= Cap
               /\ \A e \in Callers : pc'[e] = "commit" => SpendToday' + Estimate(need'[e]) <= Cap
    <2>1. SpendToday' = SpendToday
      BY <1>3, QuietSteps, QuietSums
    <2>2. ASSUME pc'[c] = "commit" PROVE SpendToday + Estimate(need'[c]) <= Cap
      <3>1. ~Blocked(c) /\ need'[c] = need[c]
        BY <1>3, <2>2, QuietSteps
      <3>2. ~(SpendToday + Estimate(need[c]) > Cap)
        BY <3>1 DEF Blocked
      <3> QED
        BY <1>1, <3>1, <3>2
    <2>3. ASSUME NEW e \in Callers, e # c, pc'[e] = "commit"
          PROVE  SpendToday + Estimate(need'[e]) <= Cap
      <3>1. pc[e] = "commit" /\ need'[e] = need[e]
        BY <1>3, <2>3, OthersStay DEF SameCaller
      <3> QED
        BY <1>1, <3>1
    <2> QED
      BY <1>1, <2>1, <2>2, <2>3
  <1>4. ASSUME NEW c \in Callers, CommitCall(c)
        PROVE  /\ SpendToday' <= Cap
               /\ \A e \in Callers : pc'[e] = "commit" => SpendToday' + Estimate(need'[e]) <= Cap
    <2>1. /\ pc[c] = "commit" /\ pc'[c] = "send"
          /\ SpendToday' \in {SpendToday, SpendToday + Estimate(need[c])}
      BY <1>4, CommitStep
    <2>2. SpendToday' <= Cap
      BY <1>1, <2>1
    <2>3. \A e \in Callers : pc'[e] # "commit"
      <3>1. ASSUME NEW e \in Callers, pc'[e] = "commit" PROVE FALSE
        <4>1. e # c
          BY <2>1, <3>1
        <4>2. pc[e] = "commit"
          BY <1>4, <3>1, <4>1, OthersStay DEF SameCaller
        <4> QED
          BY <2>1, <4>1, <4>2 DEF LockInv, UnderLock
      <3> QED
        BY <3>1
    <2> QED
      BY <2>2, <2>3
  <1>5. ASSUME NEW c \in Callers, Settles(c)
        PROVE  /\ SpendToday' <= Cap
               /\ \A e \in Callers : pc'[e] = "commit" => SpendToday' + Estimate(need'[e]) <= Cap
    <2>1. pc'[c] = "alert" /\ SpendToday' <= SpendToday
      BY <1>5, SettleStep
    <2>2. \A e \in Callers : pc'[e] = "commit" => pc[e] = "commit" /\ need'[e] = need[e]
      BY <1>5, <2>1, OthersStay DEF SameCaller
    <2>3. SpendToday' \in Nat
      BY <1>5, SettledSpend
    <2> QED
      BY <1>2, <2>1, <2>2, <2>3
  <1>6. CASE Elsewhere \/ Midnight
    <2>1. UNCHANGED <<calls, pc, need>>
      BY <1>6, ElsewhereSteps
    <2>2. SpendToday' <= SpendToday /\ SpendToday' \in Nat
      <3>1. CASE Elsewhere
        BY <1>1, <3>1, ElsewhereSteps, QuietSums
      <3>2. CASE Midnight
        <4>1. SpendToday' <= SpendToday
          BY <3>2, Midnights DEF TypeOK, Days
        <4>2. SpendToday' = SpendSince(day + 1)
          BY <2>1, <3>2 DEF SpendToday, SpendSince, Midnight, Ids, Costs
        <4> QED
          BY <4>1, <4>2, LedgerSums DEF TypeOK
      <3> QED
        BY <1>6, <3>1, <3>2
    <2> QED
      BY <1>2, <2>1, <2>2
  <1> QED
    BY <1>3, <1>4, <1>5, <1>6, StepKinds

LEMMA QuotaKept ==
    ASSUME TypeOK, LockInv, \A c \in Callers : SendInv(c), QuotaInv, [Next]_vars
    PROVE  QuotaInv'
  <1> DEFINE Owner(c) == OwnerOf[SubjectOf[c]]
             Checked == {"cap", "commit"}
             Kept == /\ \A u \in Users : TokensOfUser(u)' <= Quota[u]
                     /\ \A e \in Callers : pc'[e] \in Checked =>
                           TokensOfUser(Owner(e))' + Reserve(need'[e]) <= Quota[Owner(e)]
  <1> SUFFICES Kept
    BY DEF QuotaInv, QuotaHolds, Reserve
  <1>1. /\ \A u \in Users : TokensOfUser(u) \in Nat /\ TokensOfUser(u) <= Quota[u]
                           /\ Quota[u] \in Nat
        /\ \A e \in Callers : Reserve(need[e]) \in Nat /\ Owner(e) \in Users
        /\ \A e \in Callers : pc[e] \in Checked =>
              TokensOfUser(Owner(e)) + Reserve(need[e]) <= Quota[Owner(e)]
    BY NewCallType, LedgerSums, TableAssumption, AmountAssumption DEF QuotaInv, QuotaHolds, TypeOK
  <1> HIDE DEF Owner, Checked
  <1>2. ASSUME \A u \in Users : TokensOfUser(u)' <= TokensOfUser(u) /\ TokensOfUser(u)' \in Nat,
               \A e \in Callers : pc'[e] \in Checked => pc[e] \in Checked /\ need'[e] = need[e]
        PROVE  Kept
    <2>1. \A u \in Users : TokensOfUser(u)' <= Quota[u]
      BY <1>1, <1>2
    <2>2. ASSUME NEW e \in Callers, pc'[e] \in Checked
          PROVE  TokensOfUser(Owner(e))' + Reserve(need'[e]) <= Quota[Owner(e)]
      <3>1. TokensOfUser(Owner(e)) + Reserve(need[e]) <= Quota[Owner(e)] /\ need'[e] = need[e]
        BY <1>1, <1>2, <2>2
      <3>2. TokensOfUser(Owner(e))' <= TokensOfUser(Owner(e)) /\ TokensOfUser(Owner(e))' \in Nat
            /\ TokensOfUser(Owner(e)) \in Nat /\ Quota[Owner(e)] \in Nat
            /\ Reserve(need[e]) \in Nat
        BY <1>1, <1>2
      <3> QED
        BY <3>1, <3>2
    <2> QED
      BY <2>1, <2>2
  <1>3. ASSUME NEW c \in Callers, Quiet(c) PROVE Kept
    <2>1. \A u : TokensOfUser(u)' = TokensOfUser(u)
      BY <1>3, QuietSteps, QuietSums
    <2>2. ASSUME pc'[c] \in Checked
          PROVE  TokensOfUser(Owner(c))' + Reserve(need'[c]) <= Quota[Owner(c)]
      <3>1. CASE pc'[c] = "cap"
        BY <1>3, <2>1, <3>1, QuietSteps DEF Owner
      <3>2. CASE pc'[c] = "commit"
        BY <1>1, <1>3, <2>1, <3>2, QuietSteps DEF Checked
      <3> QED
        BY <2>2, <3>1, <3>2 DEF Checked
    <2>3. ASSUME NEW e \in Callers, e # c, pc'[e] \in Checked
          PROVE  TokensOfUser(Owner(e))' + Reserve(need'[e]) <= Quota[Owner(e)]
      <3>1. pc[e] \in Checked /\ need'[e] = need[e]
        BY <1>3, <2>3, OthersStay DEF SameCaller
      <3> QED
        BY <1>1, <2>1, <3>1
    <2> QED
      BY <1>1, <2>1, <2>2, <2>3
  <1>4. ASSUME NEW c \in Callers, CommitCall(c) PROVE Kept
    <2>1. /\ pc[c] = "commit" /\ pc'[c] = "send"
          /\ \A u \in Users : TokensOfUser(u)' =
                TokensOfUser(u) + (IF u = Owner(c) THEN Reserve(need[c]) ELSE 0)
      BY <1>4, CommitStep DEF Owner
    <2>2. TokensOfUser(Owner(c)) + Reserve(need[c]) <= Quota[Owner(c)]
      BY <1>1, <2>1 DEF Checked
    <2>3. ASSUME NEW u \in Users PROVE TokensOfUser(u)' <= Quota[u]
      <3>1. CASE u = Owner(c)
        BY <2>1, <2>2, <3>1
      <3>2. CASE u # Owner(c)
        BY <1>1, <2>1, <3>2
      <3> QED
        BY <3>1, <3>2
    <2>4. \A e \in Callers : pc'[e] \notin Checked
      <3>1. ASSUME NEW e \in Callers, pc'[e] \in Checked PROVE FALSE
        <4>1. e # c
          BY <2>1, <3>1 DEF Checked
        <4>2. pc[e] \in Checked
          BY <1>4, <3>1, <4>1, OthersStay DEF SameCaller
        <4> QED
          BY <2>1, <4>1, <4>2 DEF LockInv, UnderLock, Checked
      <3> QED
        BY <3>1
    <2> QED
      BY <2>3, <2>4
  <1>5. ASSUME NEW c \in Callers, Settles(c) PROVE Kept
    <2>1. pc'[c] = "alert" /\ \A u : TokensOfUser(u)' <= TokensOfUser(u)
      BY <1>5, SettleStep
    <2>2. \A e \in Callers : pc'[e] \in Checked => pc[e] \in Checked /\ need'[e] = need[e]
      BY <1>5, <2>1, OthersStay DEF SameCaller, Checked
    <2>3. \A u \in Users : TokensOfUser(u)' \in Nat
      BY <1>5, SettledSpend
    <2> QED
      BY <1>2, <2>1, <2>2, <2>3
  <1>6. CASE Elsewhere \/ Midnight
    <2>1. UNCHANGED <<calls, pc, need>>
      BY <1>6, ElsewhereSteps
    <2> QED
      BY <1>1, <1>2, <2>1, QuietSums
  <1> QED
    BY <1>3, <1>4, <1>5, <1>6, StepKinds

\* Only the subject's own task changes its sums, and it has checked them.
LEMMA BudgetKept ==
    ASSUME TypeOK, LockInv, \A c \in Callers : SendInv(c), NEW s \in Subjects, BudgetInv(s),
           [Next]_vars
    PROVE  BudgetInv(s)'
  <1> DEFINE Tokens == TokensFinished(s) + TokensReserved(s)
             Checked == {"quota", "cap", "commit"}
             Kept == /\ Tokens' <= Budget[s]
                     /\ \A e \in Callers : SubjectOf[e] = s =>
                          /\ pc'[e] = "budget" => finished'[e] = TokensFinished(s)'
                          /\ pc'[e] \in Checked => Tokens' + Reserve(need'[e]) <= Budget[s]
  <1> SUFFICES ASSUME Alone(s) PROVE Kept
    BY DEF BudgetInv, Alone, Reserve
  <1>1. /\ Tokens \in Nat /\ TokensFinished(s) \in Nat /\ TokensReserved(s) \in Nat
        /\ Tokens <= Budget[s] /\ Budget[s] \in Nat
        /\ \A e \in Callers : Reserve(need[e]) \in Nat
        /\ \A e \in Callers : SubjectOf[e] = s =>
             /\ pc[e] = "budget" => finished[e] = TokensFinished(s)
             /\ pc[e] \in Checked => Tokens + Reserve(need[e]) <= Budget[s]
    BY NewCallType, LedgerSums, AmountAssumption DEF BudgetInv, TypeOK
  <1>2. \A c, e \in Callers : SubjectOf[c] = s /\ SubjectOf[e] = s => c = e
    BY DEF Alone
  \* The sums stay, and so does the subject's task.
  <1>3. ASSUME TokensFinished(s)' = TokensFinished(s), TokensReserved(s)' = TokensReserved(s),
               \A e \in Callers : SubjectOf[e] = s => SameCaller(e)
        PROVE  Kept
    BY <1>1, <1>3 DEF SameCaller
  <1>4. ASSUME NEW c \in Callers, Quiet(c) PROVE Kept
    <2>1. TokensFinished(s)' = TokensFinished(s) /\ TokensReserved(s)' = TokensReserved(s)
      BY <1>4, QuietSteps, QuietSums
    <2>2. CASE SubjectOf[c] # s
      <3>1. \A e \in Callers : SubjectOf[e] = s => SameCaller(e)
        BY <1>4, <2>2, OthersStay
      <3> QED
        BY <1>3, <2>1, <3>1
    <2>3. CASE SubjectOf[c] = s
      <3>1. pc'[c] = "budget" => finished'[c] = TokensFinished(s)
        BY <1>4, <2>3, QuietSteps
      <3>2. ASSUME pc'[c] \in Checked PROVE Tokens + Reserve(need'[c]) <= Budget[s]
        <4>1. CASE pc'[c] = "quota"
          <5>1. /\ pc[c] = "budget" /\ need'[c] = need[c]
                /\ finished[c] + TokensReserved(s) + Reserve(need[c]) <= Budget[s]
            BY <1>4, <2>3, <4>1, QuietSteps
          <5>2. finished[c] = TokensFinished(s)
            BY <1>1, <2>3, <5>1
          <5> QED
            BY <1>1, <5>1, <5>2
        <4>2. CASE pc'[c] \in {"cap", "commit"}
          <5>1. pc[c] \in {"quota", "cap"} /\ need'[c] = need[c]
            BY <1>4, <4>2, QuietSteps
          <5> QED
            BY <1>1, <2>3, <5>1
        <4> QED
          BY <3>2, <4>1, <4>2
      <3> QED
        BY <1>1, <1>2, <2>1, <2>3, <3>1, <3>2
    <2> QED
      BY <2>2, <2>3
  <1>5. ASSUME NEW c \in Callers, CommitCall(c) PROVE Kept
    <2>1. /\ pc[c] = "commit" /\ pc'[c] = "send" /\ TokensFinished(s)' = TokensFinished(s)
          /\ TokensReserved(s)' =
                TokensReserved(s) + (IF s = SubjectOf[c] THEN Reserve(need[c]) ELSE 0)
      BY <1>5, CommitStep
    <2>2. CASE SubjectOf[c] # s
      <3>1. \A e \in Callers : SubjectOf[e] = s => SameCaller(e)
        BY <1>5, <2>2, OthersStay
      <3> QED
        BY <1>1, <1>3, <2>1, <2>2, <3>1
    <2>3. CASE SubjectOf[c] = s
      <3>1. Tokens + Reserve(need[c]) <= Budget[s]
        BY <1>1, <2>1, <2>3
      <3>2. Tokens' = Tokens + Reserve(need[c])
        BY <1>1, <2>1, <2>3
      <3> QED
        BY <1>2, <2>1, <2>3, <3>1, <3>2
    <2> QED
      BY <2>2, <2>3
  <1>6. ASSUME NEW c \in Callers, Settles(c) PROVE Kept
    <2>1. /\ pc'[c] = "alert" /\ Tokens' <= Tokens
          /\ s # SubjectOf[c] =>
                TokensFinished(s)' = TokensFinished(s) /\ TokensReserved(s)' = TokensReserved(s)
      BY <1>6, SettleStep
    <2>2. CASE SubjectOf[c] # s
      <3>1. \A e \in Callers : SubjectOf[e] = s => SameCaller(e)
        BY <1>6, <2>2, OthersStay
      <3> QED
        BY <1>3, <2>1, <2>2, <3>1
    <2>3. CASE SubjectOf[c] = s
      <3>1. Tokens' \in Nat
        BY <1>6, SettledSpend
      <3>2. Tokens' <= Budget[s]
        BY <1>1, <2>1, <3>1
      <3> QED
        BY <1>2, <2>1, <2>3, <3>2
    <2> QED
      BY <2>2, <2>3
  <1>7. CASE Elsewhere \/ Midnight
    <2>1. UNCHANGED <<calls, pc, need, finished, call>>
      BY <1>7, ElsewhereSteps
    <2>2. \A e \in Callers : SameCaller(e)
      BY <2>1 DEF SameCaller
    <2> QED
      BY <1>3, <2>1, <2>2, QuietSums
  <1> QED
    BY <1>4, <1>5, <1>6, <1>7, StepKinds

LEMMA LedgerKept ==
    ASSUME LedgerInv, [Next]_vars
    PROVE  LedgerInv'
  <1>1. /\ TypeOK /\ LockInv /\ SpendInv /\ QuotaInv
        /\ \A c \in Callers : SendInv(c)
        /\ \A s \in Subjects : BudgetInv(s)
    BY DEF LedgerInv, SpendTypeInv
  <1>2. SpendTypeInv'
    BY TypesKept
  <1>3. LockInv'
    BY <1>1, LockKept
  <1>4. \A c \in Callers : SendInv(c)'
    BY <1>1, SendKept
  <1>5. SpendInv'
    BY <1>1, SpendKept
  <1>6. QuotaInv'
    BY <1>1, QuotaKept
  <1>7. \A s \in Subjects : BudgetInv(s)'
    BY <1>1, BudgetKept
  <1> QED
    BY <1>2, <1>3, <1>4, <1>5, <1>6, <1>7 DEF LedgerInv

LEMMA LedgerAlways == Spec => []LedgerInv
  BY LedgerInit, LedgerKept, PTL DEF Spec

-----------------------------------------------------------------------------
(* The theorems.                                                           *)

\* Types, at any number of callers, calls and days.
THEOREM SpendTyped == Spec => []TypeOK
  <1>1. LedgerInv => TypeOK
    BY DEF LedgerInv, SpendTypeInv
  <1> QED
    BY <1>1, LedgerAlways, PTL

\* What may be spent in a day is never overspent, for any number of tasks that reserve, settle and
\* die at the same time and at any prices: the sum is read and the row committed under the lock,
\* and a call costs no more than it was reserved at.
THEOREM CapIsKept == Spec => []SpendWithinCap
  <1>1. LedgerInv => SpendWithinCap
    BY DEF LedgerInv, SpendInv, SpendWithinCap
  <1> QED
    BY <1>1, LedgerAlways, PTL

\* An owner's tokens of the month stay within the quota, however many scans and site analyses of
\* the owner run at once.
THEOREM QuotaIsKept == Spec => []QuotaHolds
  <1>1. LedgerInv => QuotaHolds
    BY DEF LedgerInv, QuotaInv
  <1> QED
    BY <1>1, LedgerAlways, PTL

\* The tokens of a scan or site stay within its ceiling while one task makes its calls, whatever the
\* tasks of other subjects do.  Two tasks of one subject, as two suggestions of a scan that are
\* regenerated at once, may pass it: a call that settles between the two sums of the other task's
\* reservation is in neither.
THEOREM SubjectKeepsItsCeiling ==
    ASSUME NEW s \in Subjects, Alone(s)
    PROVE  Spec => [](TokensFinished(s) + TokensReserved(s) <= Budget[s])
  <1>1. LedgerInv => TokensFinished(s) + TokensReserved(s) <= Budget[s]
    BY DEF LedgerInv, BudgetInv
  <1> QED
    BY <1>1, LedgerAlways, PTL

\* The owner's quota and every subject's ceiling, when each subject has one task.
THEOREM LimitsAreKept ==
    ASSUME \A s \in Subjects : Alone(s)
    PROVE  Spec => []TokensWithinLimits
  <1>1. LedgerInv => TokensWithinLimits
    BY DEF LedgerInv, QuotaInv, BudgetInv, BudgetHolds, TokensWithinLimits
  <1> QED
    BY <1>1, LedgerAlways, PTL
=============================================================================
