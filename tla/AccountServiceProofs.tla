------------------------ MODULE AccountServiceProofs ------------------------
(***************************************************************************)
(* The write path of the Account Service is correct for any payloads,      *)
(* accounts, currencies and any rounding of amounts, and the balance that  *)
(* its reads fold over the table is the net of the events applied.         *)
(***************************************************************************)
EXTENDS AccountService, FiniteSetTheorems, TLAPS

\* The table invariant.  It is inductive as it stands: the lookup by event id
\* keeps EventAppliedOnce, and the lookup of one arbitrary row of the account
\* keeps SingleCurrency because SingleCurrency already holds of all its rows.
AccountInv == AccountTypeOK /\ EventAppliedOnce /\ SingleCurrency

-----------------------------------------------------------------------------
\* Appending to a sequence adds one element, at the end.
LEMMA AppendFacts ==
    ASSUME NEW S, NEW s \in Seq(S), NEW e \in S
    PROVE  /\ Append(s, e) \in Seq(S)
           /\ DOMAIN s = 1 .. Len(s)
           /\ DOMAIN Append(s, e) = 1 .. Len(s) + 1
           /\ Len(s) \in Nat
           /\ \A i \in 1 .. Len(s) : Append(s, e)[i] = s[i]
           /\ Append(s, e)[Len(s) + 1] = e
           /\ ToSet(Append(s, e)) = ToSet(s) \cup {e}
<1>1. /\ Append(s, e) \in Seq(S)
      /\ DOMAIN s = 1 .. Len(s)
      /\ Len(s) \in Nat
      /\ DOMAIN Append(s, e) = 1 .. Len(s) + 1
      /\ \A i \in 1 .. Len(s) : Append(s, e)[i] = s[i]
      /\ Append(s, e)[Len(s) + 1] = e
  OBVIOUS
<1>2. ToSet(Append(s, e)) = ToSet(s) \cup {e}
  BY <1>1 DEF ToSet
<1> QED
  BY <1>1, <1>2

\* A sequence of records with pairwise different event ids stays one when a
\* record with a fresh event id is appended.
LEMMA AppendFresh ==
    ASSUME NEW S, NEW s \in Seq(S), NEW e \in S,
           \A i, j \in DOMAIN s : s[i].eventId = s[j].eventId => i = j,
           \A x \in ToSet(s) : x.eventId # e.eventId
    PROVE  \A i, j \in DOMAIN Append(s, e) :
              Append(s, e)[i].eventId = Append(s, e)[j].eventId => i = j
<1> DEFINE n == Len(s)
           a == Append(s, e)
<1>1. /\ DOMAIN s = 1 .. n /\ DOMAIN a = 1 .. n + 1 /\ n \in Nat
      /\ \A i \in 1 .. n : a[i] = s[i]
      /\ a[n + 1] = e
  BY AppendFacts
<1>2. \A i \in 1 .. n : s[i].eventId # e.eventId
  BY <1>1 DEF ToSet
<1> HIDE DEF n, a
<1>3. ASSUME NEW i \in DOMAIN a, NEW j \in DOMAIN a, a[i].eventId = a[j].eventId
      PROVE  i = j
  <2>1. CASE i \in 1 .. n /\ j \in 1 .. n
    BY <1>1, <1>3, <2>1
  <2>2. CASE i = n + 1 \/ j = n + 1
    BY <1>1, <1>2, <1>3, <2>2
  <2> QED
    BY <1>1, <2>1, <2>2
<1> QED
  BY <1>3 DEF n, a

\* Every disjunct of the handler either leaves the table alone or performs an
\* insertion under InsertTransaction's guard.
LEMMA InsertOrStutter ==
    ASSUME NEW path, NEW p, NEW status,
           ApplyTransaction(path, p, status) \/ StorageFault(path, p, status)
    PROVE  UNCHANGED transactions \/ InsertTransaction(path, p, "201")
BY DEF ApplyTransaction, StorageFault, Unprocessable, PathMismatch,
       ReplayTransaction, DuplicateConflict, CurrencyMismatch, InsertTransaction

\* An insertion preserves the table invariant.
LEMMA InsertKeepsInv ==
    ASSUME AccountInv, NEW path, NEW p \in WirePayload,
           InsertTransaction(path, p, "201")
    PROVE  AccountInv'
<1> DEFINE Row == {q \in WirePayload : Valid(q)}
<1>1. transactions \in Seq(Row) /\ p \in Row
  BY DEF AccountInv, AccountTypeOK, InsertTransaction, Reached
<1>2. transactions' = Append(transactions, p)
  BY DEF InsertTransaction
<1>3. transactions' \in Seq(Row) /\ ToSet(transactions') = ToSet(transactions) \cup {p}
  <2> HIDE DEF Row
  <2> QED  BY <1>1, <1>2, AppendFacts
<1>4. EventAppliedOnce'
  <2>1. \A t \in ToSet(transactions) : t.eventId # p.eventId
    BY DEF InsertTransaction, GetTransaction
  <2>2. \A i, j \in DOMAIN transactions :
            transactions[i].eventId = transactions[j].eventId => i = j
    BY DEF AccountInv, EventAppliedOnce
  <2> HIDE DEF Row
  <2> QED
    BY <1>1, <1>2, <2>1, <2>2, AppendFresh DEF EventAppliedOnce
<1>5. SingleCurrency'
  <2>1. \A t, u \in ToSet(transactions) :
            t.accountId = u.accountId => t.currency = u.currency
    BY DEF AccountInv, SingleCurrency
  <2>2. \A t \in ToSet(transactions) :
            t.accountId = p.accountId => t.currency = p.currency
    BY <2>1 DEF InsertTransaction, AccountCurrencyAllows, AccountRows
  <2> QED
    BY <1>3, <2>1, <2>2 DEF SingleCurrency
<1> QED
  BY <1>3, <1>4, <1>5 DEF AccountInv, AccountTypeOK

\* One request, whatever its outcome, preserves the table invariant.
LEMMA RequestKeepsInv ==
    ASSUME AccountInv, NEW path, NEW p \in WirePayload, NEW status,
           ApplyTransaction(path, p, status) \/ StorageFault(path, p, status)
    PROVE  AccountInv'
<1>1. CASE UNCHANGED transactions
  BY <1>1 DEF AccountInv, AccountTypeOK, EventAppliedOnce, SingleCurrency
<1>2. CASE InsertTransaction(path, p, "201")
  BY <1>2, InsertKeepsInv
<1> QED
  BY <1>1, <1>2, InsertOrStutter

\* The empty table satisfies the table invariant.
LEMMA AccountInitInv == AccountInit => AccountInv
BY DEF AccountInit, AccountInv, AccountTypeOK, EventAppliedOnce, SingleCurrency,
       ToSet

\* The table invariant holds of every reachable table.
THEOREM AccountInvariant == AccountSpec => []AccountInv
<1>1. AccountInv /\ [AccountNext]_accountVars => AccountInv'
  <2> SUFFICES ASSUME AccountInv, [AccountNext]_accountVars
               PROVE  AccountInv'
    OBVIOUS
  <2>1. CASE AccountNext
    <3>1. PICK path \in AccountId, p \in WirePayload, status \in AccountStatus :
              ApplyTransaction(path, p, status) \/ StorageFault(path, p, status)
      BY <2>1 DEF AccountNext
    <3> QED
      BY <3>1, RequestKeepsInv
  <2>2. CASE UNCHANGED accountVars
    BY <2>2 DEF accountVars, AccountInv, AccountTypeOK, EventAppliedOnce,
                SingleCurrency
  <2> QED
    BY <2>1, <2>2
<1> QED
  BY <1>1, AccountInitInv, PTL DEF AccountSpec

\* The rows of the table are valid payloads.
THEOREM AccountTypeCorrect == AccountSpec => []AccountTypeOK
BY AccountInvariant, PTL DEF AccountInv

\* No event id is ever applied twice: the INSERT cannot meet the primary key.
THEOREM AppliedOnce == AccountSpec => []EventAppliedOnce
BY AccountInvariant, PTL DEF AccountInv

\* No account ever holds transactions in two currencies.
THEOREM OneCurrencyPerAccount == AccountSpec => []SingleCurrency
BY AccountInvariant, PTL DEF AccountInv

-----------------------------------------------------------------------------
(* Sums.  The folds of the community modules are recursive functions on    *)
(* the subsets of what they fold.  g is one that adds up v[x] for the x of *)
(* T that are in `on', in the order in which ch chooses them.              *)

Sums(g, T, on, v, ch) ==
    g = [s \in SUBSET T |->
            IF s = {} THEN 0
            ELSE IF ch[s] \in on THEN v[ch[s]] + g[s \ {ch[s]}]
                                 ELSE g[s \ {ch[s]}]]

Summable(T, on, v, ch) ==
    /\ IsFiniteSet(T)
    /\ \A x \in T \cap on : v[x] \in Int
    /\ \A s \in SUBSET T : s # {} => ch[s] \in s

\* A set of subsets of a finite set has a minimal one.
LEMMA LeastSubset ==
    ASSUME NEW T, IsFiniteSet(T), NEW D, D \subseteq SUBSET T, D # {}
    PROVE  \E s \in D : \A r \in SUBSET s : r # s => r \notin D
<1> DEFINE R == StrictSubsetOrdering(T)
<1>1. IsWellFoundedOn(R, SUBSET T)
  BY FS_StrictSubsetOrderingWellFounded, FS_FiniteSubsetsOfFinite
<1>2. \A r, s \in SUBSET T : r \subseteq s /\ r # s => <<r, s>> \in R
  BY DEF StrictSubsetOrdering
<1> HIDE DEF R
<1>3. PICK s \in D : \A r \in D : <<r, s>> \notin R
  BY <1>1, WFMin
<1> QED
  BY <1>2, <1>3

LEMMA SumIsInt ==
    ASSUME NEW T, NEW on, NEW v, NEW ch, Summable(T, on, v, ch),
           NEW g, Sums(g, T, on, v, ch)
    PROVE  \A s \in SUBSET T : g[s] \in Int
<1> DEFINE D == {s \in SUBSET T : g[s] \notin Int}
<1>1. ASSUME D # {}
      PROVE  FALSE
  <2>1. PICK s \in D : \A r \in SUBSET s : r # s => r \notin D
    <3>1. D \subseteq SUBSET T /\ IsFiniteSet(T)
      BY DEF Summable
    <3> HIDE DEF D
    <3> QED
      BY <1>1, <3>1, LeastSubset
  <2>2. CASE s = {}
    BY <2>2 DEF Sums
  <2>3. CASE s # {}
    <3>1. ch[s] \in s
      BY <2>3 DEF Summable
    <3>2. g[s \ {ch[s]}] \in Int
      BY <2>1, <3>1
    <3>3. g[s] = IF ch[s] \in on THEN v[ch[s]] + g[s \ {ch[s]}]
                                 ELSE g[s \ {ch[s]}]
      BY <2>3 DEF Sums
    <3> QED
      BY <3>1, <3>2, <3>3 DEF Summable
  <2> QED
    BY <2>2, <2>3
<1> QED
  BY <1>1

\* Whatever the order: one more element is one more summand.
LEMMA SumAdds ==
    ASSUME NEW T, NEW on, NEW v, NEW ch, Summable(T, on, v, ch),
           NEW g, Sums(g, T, on, v, ch)
    PROVE  \A s \in SUBSET T : \A x \in T \ s :
              g[s \cup {x}] = IF x \in on THEN v[x] + g[s] ELSE g[s]
<1> DEFINE w(x) == IF x \in on THEN v[x] ELSE 0
           D == {s \in SUBSET T : \E x \in T \ s : g[s \cup {x}] # w(x) + g[s]}
<1>1. \A x \in T : w(x) \in Int
  BY DEF Summable
<1>2. \A s \in SUBSET T : g[s] \in Int
  BY SumIsInt
<1>3. \A s \in SUBSET T : s # {} => /\ ch[s] \in s
                                   /\ g[s] = w(ch[s]) + g[s \ {ch[s]}]
  <2> SUFFICES ASSUME NEW s \in SUBSET T, s # {}
               PROVE  /\ ch[s] \in s
                      /\ g[s] = w(ch[s]) + g[s \ {ch[s]}]
    OBVIOUS
  <2>1. ch[s] \in s /\ s \ {ch[s]} \in SUBSET T
    BY DEF Summable
  <2>2. g[s] = IF ch[s] \in on THEN v[ch[s]] + g[s \ {ch[s]}]
                               ELSE g[s \ {ch[s]}]
    BY DEF Sums
  <2> QED
    BY <1>2, <2>1, <2>2
<1> HIDE DEF w
<1>4. ASSUME D # {}
      PROVE  FALSE
  <2>1. PICK s \in D : \A r \in SUBSET s : r # s => r \notin D
    <3>1. D \subseteq SUBSET T /\ IsFiniteSet(T)
      BY DEF Summable
    <3> HIDE DEF D
    <3> QED
      BY <1>4, <3>1, LeastSubset
  <2>2. PICK x \in T \ s : g[s \cup {x}] # w(x) + g[s]
    OBVIOUS
  <2> DEFINE c == ch[s \cup {x}]
  <2>3. c \in s \cup {x} /\ g[s \cup {x}] = w(c) + g[(s \cup {x}) \ {c}]
    BY <1>3
  <2>4. CASE c = x
    <3>1. (s \cup {x}) \ {c} = s
      BY <2>4
    <3> QED
      BY <2>2, <2>3, <2>4, <3>1
  <2>5. CASE c # x
    <3> DEFINE r == s \ {c}
    <3>1. /\ c \in s /\ r \in SUBSET T /\ r # s /\ r \in SUBSET s
          /\ (s \cup {x}) \ {c} = r \cup {x} /\ r \cup {c} = s
          /\ x \in T \ r /\ c \in T \ r
      BY <2>3, <2>5
    <3>2. g[r \cup {x}] = w(x) + g[r] /\ g[r \cup {c}] = w(c) + g[r]
      BY <2>1, <3>1
    <3> HIDE DEF r
    <3>3. w(x) \in Int /\ w(c) \in Int /\ g[r] \in Int
      BY <1>1, <1>2, <3>1
    <3>4. g[s \cup {x}] = w(c) + (w(x) + g[r]) /\ g[s] = w(c) + g[r]
      BY <2>3, <3>1, <3>2
    <3> QED
      BY <2>2, <3>3, <3>4
  <2> QED
    BY <2>4, <2>5
<1>5. ASSUME NEW s \in SUBSET T, NEW x \in T \ s
      PROVE  g[s \cup {x}] = IF x \in on THEN v[x] + g[s] ELSE g[s]
  <2>1. g[s \cup {x}] = w(x) + g[s]
    BY <1>4
  <2> QED
    BY <1>2, <2>1 DEF w
<1> QED
  BY <1>5

\* There is such a function: that of all the elements but x, and x added.
LEMMA SumExists ==
    ASSUME NEW T, NEW on, NEW v, NEW ch, Summable(T, on, v, ch)
    PROVE  \E g : Sums(g, T, on, v, ch)
<1> DEFINE D == {U \in SUBSET T : ~ \E g : Sums(g, U, on, v, ch)}
<1>1. ASSUME D # {}
      PROVE  FALSE
  <2>1. PICK U \in D : \A r \in SUBSET U : r # U => r \notin D
    <3>1. D \subseteq SUBSET T /\ IsFiniteSet(T)
      BY DEF Summable
    <3> HIDE DEF D
    <3> QED
      BY <1>1, <3>1, LeastSubset
  <2>2. CASE U = {}
    <3>1. Sums([s \in SUBSET U |-> 0], U, on, v, ch)
      BY <2>2 DEF Sums
    <3> QED
      BY <3>1
  <2>3. CASE U # {}
    <3>1. PICK x \in U : TRUE
      BY <2>3
    <3> DEFINE W == U \ {x}
    <3>2. PICK g : Sums(g, W, on, v, ch)
      BY <2>1, <3>1
    <3>3. Summable(W, on, v, ch)
      BY <3>1, FS_Subset DEF Summable
    <3> DEFINE h == [s \in SUBSET U |->
                      IF x \in s
                          THEN IF x \in on THEN v[x] + g[s \ {x}] ELSE g[s \ {x}]
                          ELSE g[s]]
               step(s) == IF s = {} THEN 0
                          ELSE IF ch[s] \in on THEN v[ch[s]] + h[s \ {ch[s]}]
                                               ELSE h[s \ {ch[s]}]
    <3>4. ASSUME NEW s \in SUBSET U
          PROVE  h[s] = step(s)
      <4>1. CASE x \notin s
        <5>1. s \in SUBSET W /\ h[s] = g[s] /\ s \ {ch[s]} \in SUBSET W
          BY <4>1
        <5>2. h[s \ {ch[s]}] = g[s \ {ch[s]}]
          BY <5>1, <4>1
        <5>3. g[s] = IF s = {} THEN 0
                     ELSE IF ch[s] \in on THEN v[ch[s]] + g[s \ {ch[s]}]
                                          ELSE g[s \ {ch[s]}]
          BY <3>2, <5>1 DEF Sums
        <5> QED
          BY <5>1, <5>2, <5>3
      <4>2. CASE x \in s
        <5> DEFINE c == ch[s]
                   r == (s \ {x}) \ {c}
        <5>1. c \in s /\ s # {} /\ s \ {x} \in SUBSET W /\ r \in SUBSET W
          BY <4>2 DEF Summable
        <5>2. h[s] = IF x \in on THEN v[x] + g[s \ {x}] ELSE g[s \ {x}]
          BY <4>2
        <5>3. CASE c = x
          <6>1. h[s \ {c}] = g[s \ {x}]
            BY <5>3
          <6> QED
            BY <5>1, <5>2, <5>3, <6>1
        <5>4. CASE c # x
          <6>1. /\ r \cup {c} = s \ {x} /\ c \in W \ r
                /\ x \in s \ {c} /\ (s \ {c}) \ {x} = r
            BY <4>2, <5>1, <5>4
          <6>2. g[s \ {x}] = IF c \in on THEN v[c] + g[r] ELSE g[r]
            BY <3>2, <3>3, <5>1, <6>1, SumAdds
          <6>3. h[s \ {c}] = IF x \in on THEN v[x] + g[r] ELSE g[r]
            BY <6>1
          <6>4. g[r] \in Int
            BY <3>2, <3>3, <5>1, SumIsInt
          <6>5. (x \in on => v[x] \in Int) /\ (c \in on => v[c] \in Int)
            BY <3>1, <6>1 DEF Summable
          <6>6. h[s] = IF c \in on THEN v[c] + h[s \ {c}] ELSE h[s \ {c}]
            <7> HIDE DEF h, c, r
            <7> QED
              BY <5>2, <6>2, <6>3, <6>4, <6>5
          <6> QED
            BY <5>1, <6>6
        <5> QED
          BY <5>3, <5>4
      <4> QED
        BY <4>1, <4>2
    <3>5. h = [s \in SUBSET U |-> step(s)]
      <4>1. h = [s \in SUBSET U |-> h[s]]
        OBVIOUS
      <4> HIDE DEF h
      <4> QED
        BY <3>4, <4>1
    <3>6. Sums(h, U, on, v, ch)
      <4> HIDE DEF h
      <4> QED
        BY <3>5 DEF Sums
    <3> QED
      BY <3>6
  <2> QED
    BY <2>2, <2>3
<1> QED
  BY <1>1

-----------------------------------------------------------------------------
(* The balance.                                                            *)

LEMMA LeastIndex ==
    ASSUME NEW S, S \subseteq Nat, S # {}
    PROVE  Min(S) \in S
<1> DEFINE R == OpToRel(<, Nat)
<1>1. \A i, k \in Nat : i < k => <<i, k>> \in R
  BY DEF OpToRel
<1>2. IsWellFoundedOn(R, Nat)
  BY NatLessThanWellFounded
<1> HIDE DEF R
<1>3. PICK k \in S : \A i \in S : <<i, k>> \notin R
  BY <1>2, WFMin
<1>4. ASSUME NEW i \in S
      PROVE  k <= i
  <2>1. i \in Nat /\ k \in Nat /\ ~(i < k)
    BY <1>1, <1>3
  <2> QED
    BY <2>1
<1> QED
  BY <1>4 DEF Min

\* What get_balance adds up: the rows of the account, each with its sign.
Positions == DOMAIN transactions

PositionsOf(a) == {i \in Positions : transactions[i].accountId = a}

Worth == [i \in Positions |->
            IF transactions[i].type = "CREDIT" THEN transactions[i].amount
                                               ELSE 0 - transactions[i].amount]

FirstOf == [s \in SUBSET Positions |-> Min(s)]

\* What BalanceIsNetOfEvents adds up: the events of one type.
TypeRows(a, k) == {t \in AccountRows(a) : t.type = k}

TypeIds(a, k) == {t.eventId : t \in TypeRows(a, k)}

AmountOf(a, k) == [id \in TypeIds(a, k) |->
                     (CHOOSE t \in TypeRows(a, k) : t.eventId = id).amount]

Total(a, k) == LET Of(id) == (CHOOSE t \in TypeRows(a, k) : t.eventId = id).amount
               IN  MapThenSumSet(Of, TypeIds(a, k))

AnyOf(T) == [s \in SUBSET T |-> CHOOSE x \in s : TRUE]

LEMMA RowFacts ==
    ASSUME AccountInv
    PROVE  /\ Positions = 1 .. Len(transactions) /\ Len(transactions) \in Nat
           /\ \A i \in Positions : /\ transactions[i].amount \in Nat
                                   /\ transactions[i].type \in {"CREDIT", "DEBIT"}
           /\ \A i, j \in Positions :
                 transactions[i].eventId = transactions[j].eventId => i = j
           /\ ToSet(transactions) = {transactions[i] : i \in Positions}
<1> DEFINE Row == {p \in WirePayload : Valid(p)}
<1>1. transactions \in Seq(Row)
  BY DEF AccountInv, AccountTypeOK
<1>2. \A r \in Row : r.amount \in Nat /\ r.type \in {"CREDIT", "DEBIT"}
  BY PayloadAssumption, AmountAssumption
     DEF WirePayload, OnWire, EventPayload, TransactionType
<1> HIDE DEF Row
<1>3. /\ Positions = 1 .. Len(transactions) /\ Len(transactions) \in Nat
      /\ \A i \in Positions : transactions[i] \in Row
  BY <1>1 DEF Positions
<1> QED
  BY <1>2, <1>3 DEF ToSet, AccountInv, EventAppliedOnce, Positions

LEMMA BalanceSummable ==
    ASSUME AccountInv, NEW a
    PROVE  Summable(Positions, PositionsOf(a), Worth, FirstOf)
<1>1. IsFiniteSet(Positions)
  BY RowFacts, FS_Interval
<1>2. \A i \in Positions : Worth[i] \in Int
  BY RowFacts DEF Worth
<1>3. ASSUME NEW s \in SUBSET Positions, s # {}
      PROVE  FirstOf[s] \in s
  <2>1. s \subseteq Nat
    BY RowFacts
  <2> QED
    BY <1>3, <2>1, LeastIndex DEF FirstOf
<1> QED
  BY <1>1, <1>2, <1>3 DEF Summable

LEMMA BalanceSums ==
    ASSUME AccountInv, NEW a
    PROVE  \E g : /\ Sums(g, Positions, PositionsOf(a), Worth, FirstOf)
                  /\ Balance(a) = g[Positions]
<1> DEFINE Eq(g) ==
      g = [s \in SUBSET Positions |->
            IF s = {} THEN 0
            ELSE IF transactions[Min(s)].accountId = a
                 THEN (IF transactions[Min(s)].type = "CREDIT"
                           THEN transactions[Min(s)].amount
                           ELSE 0 - transactions[Min(s)].amount) + g[s \ {Min(s)}]
                 ELSE g[s \ {Min(s)}]]
<1>1. Balance(a) = (CHOOSE g : Eq(g))[Positions]
  BY Zenon DEF Balance, FoldRight, MapThenFoldSet, Positions
<1>2. ASSUME NEW g
      PROVE  Sums(g, Positions, PositionsOf(a), Worth, FirstOf) <=> Eq(g)
  <2>1. \A s \in SUBSET Positions : s # {} => /\ FirstOf[s] = Min(s)
                                            /\ Min(s) \in Positions
    BY BalanceSummable DEF Summable, FirstOf
  <2>2. \A i \in Positions :
            /\ i \in PositionsOf(a) <=> transactions[i].accountId = a
            /\ Worth[i] = IF transactions[i].type = "CREDIT"
                              THEN transactions[i].amount
                              ELSE 0 - transactions[i].amount
    BY DEF PositionsOf, Worth
  <2> QED
    BY <2>1, <2>2 DEF Sums
<1>3. \E g : Eq(g)
  BY <1>2, BalanceSummable, SumExists
<1>4. Eq(CHOOSE g : Eq(g))
  <2> HIDE DEF Eq
  <2> QED
    BY <1>3, Zenon
<1> DEFINE b == CHOOSE g : Eq(g)
<1>5. Eq(b) /\ Balance(a) = b[Positions]
  BY <1>1, <1>4, Zenon
<1> HIDE DEF b, Eq
<1> QED
  BY <1>2, <1>5

LEMMA TotalSummable ==
    ASSUME AccountInv, NEW a, NEW k
    PROVE  Summable(TypeIds(a, k), TypeIds(a, k), AmountOf(a, k), AnyOf(TypeIds(a, k)))
<1> DEFINE T == TypeIds(a, k)
<1>1. IsFiniteSet(T)
  <2>1. IsFiniteSet(Positions)
    BY RowFacts, FS_Interval
  <2>2. IsFiniteSet({transactions[i].eventId : i \in Positions})
    <3> DEFINE U == {transactions[i].eventId : i \in Positions}
               f == [i \in Positions |-> transactions[i].eventId]
    <3>1. f \in Surjection(Positions, U)
      BY DEF Surjection
    <3> QED
      BY <2>1, <3>1, FS_Surjection
  <2>3. T \subseteq {transactions[i].eventId : i \in Positions}
    BY RowFacts DEF TypeIds, TypeRows, AccountRows
  <2> QED
    BY <2>2, <2>3, FS_Subset
<1>2. ASSUME NEW id \in T
      PROVE  AmountOf(a, k)[id] \in Int
  <2>1. \E t \in TypeRows(a, k) : t.eventId = id
    BY DEF TypeIds
  <2>2. \A t \in TypeRows(a, k) : t.amount \in Int
    BY RowFacts DEF TypeRows, AccountRows
  <2> QED
    BY <2>1, <2>2 DEF AmountOf
<1>3. \A s \in SUBSET T : s # {} => AnyOf(T)[s] \in s
  BY DEF AnyOf
<1> QED
  BY <1>1, <1>2, <1>3 DEF Summable

LEMMA TotalSums ==
    ASSUME AccountInv, NEW a, NEW k
    PROVE  \E g : /\ Sums(g, TypeIds(a, k), TypeIds(a, k), AmountOf(a, k),
                          AnyOf(TypeIds(a, k)))
                  /\ Total(a, k) = g[TypeIds(a, k)]
<1> DEFINE T == TypeIds(a, k)
           any(s) == CHOOSE x \in s : TRUE
           of(id) == (CHOOSE t \in TypeRows(a, k) : t.eventId = id).amount
           Eq(g) ==
             g = [s \in SUBSET T |->
                   IF s = {} THEN 0 ELSE of(any(s)) + g[s \ {any(s)}]]
<1>1. Total(a, k) = (CHOOSE g : Eq(g))[T]
  BY Zenon DEF Total, MapThenSumSet, MapThenFoldSet
<1>2. ASSUME NEW g
      PROVE  Sums(g, T, T, AmountOf(a, k), AnyOf(T)) <=> Eq(g)
  <2>1. \A s \in SUBSET T : s # {} => AnyOf(T)[s] = any(s) /\ any(s) \in T
    BY DEF AnyOf
  <2>2. \A id \in T : AmountOf(a, k)[id] = of(id)
    BY DEF AmountOf
  <2> HIDE DEF T, any, of
  <2> QED
    BY <2>1, <2>2 DEF Sums
<1>3. \E g : Eq(g)
  BY <1>2, TotalSummable, SumExists
<1>4. Eq(CHOOSE g : Eq(g))
  <2> HIDE DEF Eq
  <2> QED
    BY <1>3, Zenon
<1> DEFINE b == CHOOSE g : Eq(g)
<1>5. Eq(b) /\ Total(a, k) = b[T]
  BY <1>1, <1>4, Zenon
<1> HIDE DEF b, Eq
<1> QED
  BY <1>2, <1>5

\* The events of one type among the rows at some positions.
IdsAt(a, k, s) ==
    {transactions[i].eventId :
        i \in {j \in s \cap PositionsOf(a) : transactions[j].type = k}}

LEMMA IdsOfRow ==
    ASSUME AccountInv, NEW a, NEW k, NEW s \in SUBSET Positions, NEW x \in Positions \ s
    PROVE  /\ IdsAt(a, k, s) \in SUBSET TypeIds(a, k)
           /\ IF x \in PositionsOf(a) /\ transactions[x].type = k
                  THEN /\ IdsAt(a, k, s \cup {x})
                             = IdsAt(a, k, s) \cup {transactions[x].eventId}
                       /\ transactions[x].eventId \in TypeIds(a, k) \ IdsAt(a, k, s)
                       /\ AmountOf(a, k)[transactions[x].eventId]
                             = transactions[x].amount
                  ELSE IdsAt(a, k, s \cup {x}) = IdsAt(a, k, s)
<1>1. \A i \in PositionsOf(a) : transactions[i].type = k =>
          transactions[i] \in TypeRows(a, k)
  BY RowFacts DEF TypeRows, AccountRows, PositionsOf
<1>2. IdsAt(a, k, s) \in SUBSET TypeIds(a, k)
  BY <1>1 DEF IdsAt, TypeIds
<1>3. CASE x \in PositionsOf(a) /\ transactions[x].type = k
  <2>1. IdsAt(a, k, s \cup {x}) = IdsAt(a, k, s) \cup {transactions[x].eventId}
    BY <1>3 DEF IdsAt
  <2>2. transactions[x].eventId \notin IdsAt(a, k, s)
    BY RowFacts DEF IdsAt, PositionsOf
  <2>3. transactions[x] \in TypeRows(a, k)
    BY <1>1, <1>3
  <2>4. transactions[x].eventId \in TypeIds(a, k)
    BY <2>3 DEF TypeIds
  <2>5. \A t \in TypeRows(a, k) :
            t.eventId = transactions[x].eventId => t = transactions[x]
    BY RowFacts DEF TypeRows, AccountRows
  <2>6. (CHOOSE t \in TypeRows(a, k) : t.eventId = transactions[x].eventId)
            = transactions[x]
    BY <2>3, <2>5
  <2>7. AmountOf(a, k)[transactions[x].eventId] = transactions[x].amount
    BY <2>4, <2>6 DEF AmountOf
  <2> QED
    BY <1>2, <1>3, <2>1, <2>2, <2>4, <2>7
<1>4. CASE ~(x \in PositionsOf(a) /\ transactions[x].type = k)
  <2>1. IdsAt(a, k, s \cup {x}) = IdsAt(a, k, s)
    BY <1>4 DEF IdsAt
  <2> QED
    BY <1>2, <1>4, <2>1
<1> QED
  BY <1>3, <1>4

\* So one more position is one more summand of the total of its type.
LEMMA TotalAdds ==
    ASSUME AccountInv, NEW a, NEW k,
           NEW g, Sums(g, TypeIds(a, k), TypeIds(a, k), AmountOf(a, k),
                       AnyOf(TypeIds(a, k))),
           NEW s \in SUBSET Positions, NEW x \in Positions \ s
    PROVE  /\ g[IdsAt(a, k, s)] \in Int
           /\ g[IdsAt(a, k, s \cup {x})] =
                 IF x \in PositionsOf(a) /\ transactions[x].type = k
                     THEN transactions[x].amount + g[IdsAt(a, k, s)]
                     ELSE g[IdsAt(a, k, s)]
<1> DEFINE T == TypeIds(a, k)
           id == transactions[x].eventId
           ids == IdsAt(a, k, s)
<1>1. ids \in SUBSET T
  BY IdsOfRow
<1>2. CASE x \in PositionsOf(a) /\ transactions[x].type = k
  <2>1. /\ IdsAt(a, k, s \cup {x}) = ids \cup {id}
        /\ id \in T \ ids
        /\ AmountOf(a, k)[id] = transactions[x].amount
    BY <1>2, IdsOfRow
  <2> HIDE DEF id, ids, T
  <2>2. g[ids \cup {id}] = AmountOf(a, k)[id] + g[ids]
    BY <1>1, <2>1, TotalSummable, SumAdds DEF T
  <2> QED
    BY <1>1, <1>2, <2>1, <2>2, TotalSummable, SumIsInt DEF ids, T
<1>3. CASE ~(x \in PositionsOf(a) /\ transactions[x].type = k)
  <2>1. IdsAt(a, k, s \cup {x}) = ids
    BY <1>3, IdsOfRow
  <2> QED
    BY <1>1, <1>3, <2>1, TotalSummable, SumIsInt
<1> QED
  BY <1>2, <1>3

\* Adding up the rows is adding up the credits and taking off the debits.
LEMMA BalanceIsNet ==
    ASSUME AccountInv, NEW a
    PROVE  Balance(a) = Total(a, "CREDIT") - Total(a, "DEBIT")
<1>1. PICK g : /\ Sums(g, Positions, PositionsOf(a), Worth, FirstOf)
               /\ Balance(a) = g[Positions]
  BY BalanceSums
<1> DEFINE C == TypeIds(a, "CREDIT")
           D == TypeIds(a, "DEBIT")
<1>2. PICK credits : /\ Sums(credits, C, C, AmountOf(a, "CREDIT"), AnyOf(C))
                     /\ Total(a, "CREDIT") = credits[C]
  BY TotalSums
<1>3. PICK debits : /\ Sums(debits, D, D, AmountOf(a, "DEBIT"), AnyOf(D))
                    /\ Total(a, "DEBIT") = debits[D]
  BY TotalSums
<1> HIDE DEF C, D
<1> DEFINE Net(s) == credits[IdsAt(a, "CREDIT", s)] - debits[IdsAt(a, "DEBIT", s)]
           Wrong == {s \in SUBSET Positions : g[s] # Net(s)}
<1>4. ASSUME Wrong # {}
      PROVE  FALSE
  <2>1. PICK s \in Wrong : \A r \in SUBSET s : r # s => r \notin Wrong
    <3>1. Wrong \subseteq SUBSET Positions /\ IsFiniteSet(Positions)
      BY RowFacts, FS_Interval
    <3> HIDE DEF Wrong
    <3> QED
      BY <1>4, <3>1, LeastSubset
  <2>2. CASE s = {}
    <3>1. IdsAt(a, "CREDIT", s) = {} /\ IdsAt(a, "DEBIT", s) = {}
      BY <2>2 DEF IdsAt
    <3>2. credits[{}] = 0 /\ debits[{}] = 0 /\ g[{}] = 0
      BY <1>1, <1>2, <1>3 DEF Sums
    <3> QED
      BY <2>2, <3>1, <3>2
  <2>3. CASE s # {}
    <3>1. PICK x \in s : TRUE
      BY <2>3
    <3> DEFINE r == s \ {x}
               amount == transactions[x].amount
    <3>2. /\ r \in SUBSET s /\ r # s /\ r \in SUBSET Positions
          /\ s = r \cup {x} /\ x \in Positions \ r
      BY <3>1
    <3>3. g[r] = Net(r)
      BY <2>1, <3>2
    <3>4. g[s] = IF x \in PositionsOf(a) THEN Worth[x] + g[r] ELSE g[r]
      BY <1>1, <3>2, BalanceSummable, SumAdds
    <3>5. /\ transactions[x].type \in {"CREDIT", "DEBIT"} /\ amount \in Nat
          /\ Worth[x] = IF transactions[x].type = "CREDIT" THEN amount ELSE 0 - amount
      BY <3>2, RowFacts DEF Worth
    <3> HIDE DEF r
    <3>6. /\ credits[IdsAt(a, "CREDIT", r)] \in Int
          /\ credits[IdsAt(a, "CREDIT", s)] =
                IF x \in PositionsOf(a) /\ transactions[x].type = "CREDIT"
                    THEN amount + credits[IdsAt(a, "CREDIT", r)]
                    ELSE credits[IdsAt(a, "CREDIT", r)]
      BY <1>2, <3>2, TotalAdds DEF C
    <3>7. /\ debits[IdsAt(a, "DEBIT", r)] \in Int
          /\ debits[IdsAt(a, "DEBIT", s)] =
                IF x \in PositionsOf(a) /\ transactions[x].type = "DEBIT"
                    THEN amount + debits[IdsAt(a, "DEBIT", r)]
                    ELSE debits[IdsAt(a, "DEBIT", r)]
      BY <1>3, <3>2, TotalAdds DEF D
    <3>8. g[s] = Net(s)
      <4> HIDE DEF amount
      <4> QED
        BY <3>3, <3>4, <3>5, <3>6, <3>7
    <3> QED
      BY <3>8
  <2> QED
    BY <2>2, <2>3
<1>5. g[Positions] = Net(Positions)
  BY <1>4
<1>6. \A k : IdsAt(a, k, Positions) = TypeIds(a, k)
  BY RowFacts DEF IdsAt, TypeIds, TypeRows, AccountRows, PositionsOf
<1> QED
  BY <1>1, <1>2, <1>3, <1>5, <1>6 DEF C, D

\* The balance of an account is the sum of the credits less the sum of the
\* debits of the distinct events applied to it, whatever was retried, replayed,
\* refused or half failed.
THEOREM BalanceCorrect == AccountSpec => []BalanceIsNetOfEvents
<1>1. AccountInv => BalanceIsNetOfEvents
  <2> SUFFICES ASSUME AccountInv
               PROVE  \A a \in AccountId :
                         Balance(a) = Total(a, "CREDIT") - Total(a, "DEBIT")
    BY Zenon DEF BalanceIsNetOfEvents, Total, TypeIds, TypeRows
  <2> QED
    BY BalanceIsNet
<1> QED
  BY <1>1, AccountInvariant, PTL
=============================================================================
