------------------------- MODULE EventHistoryProofs -------------------------
(***************************************************************************)
(* The listing is a function of the set of events, whatever order they     *)
(* arrived in.  The text order of the timestamps, with ties broken by the  *)
(* event id, is a strict total order on the rows; a sorted arrangement of  *)
(* the rows exists because each new row has a place in the previous one,   *)
(* and there is only one.                                                  *)
(***************************************************************************)
EXTENDS EventHistory, FiniteSetTheorems, TLAPS

Row == [eventId : EventId, timestamp : Timestamp]

\* Rows with different ids: the tables, and the listings of them.
Table(t) ==
    /\ t \in Seq(Row)
    /\ \A i, j \in DOMAIN t : t[i].eventId = t[j].eventId => i = j

Sortable(t) == \E p \in Permutation(Len(t)) : InOrder(Arranged(t, p))

HistoryInv == HistoryTypeOK /\ Sortable(rows)

-----------------------------------------------------------------------------
(* The order of the rows.                                                  *)

\* The text of one instant sorts before that of another: seconds first, and
\* within a second those with a fraction before those without.
Precedes(t, u) ==
    \/ t.sec < u.sec
    \/ t.sec = u.sec /\ t.micro # 0 /\ (u.micro = 0 \/ t.micro < u.micro)

LEMMA InstantFields ==
    /\ \A t \in Timestamp : t.sec \in Nat /\ t.micro \in Nat
    /\ \A t, u \in Timestamp : t = u <=> t.sec = u.sec /\ t.micro = u.micro
BY HistoryAssumption

LEMMA RowFields ==
    \A r \in Row : /\ r.timestamp \in Timestamp
                   /\ r.timestamp.sec \in Nat /\ r.timestamp.micro \in Nat
                   /\ r.eventId \in Nat
<1>1. EventId \subseteq Nat
  BY HistoryAssumption
<1> QED
  BY <1>1, InstantFields DEF Row

\* Two texts of the same length.
LEMMA FirstDifference ==
    ASSUME NEW a \in Nat, NEW b \in Nat, NEW i \in Nat, NEW j \in Nat
    PROVE  /\ TextBefore(<<a, Zulu>>, <<i, Zulu>>) <=> a < i
           /\ TextBefore(<<a, Dot, b, Zulu>>, <<i, Dot, j, Zulu>>) <=>
                  a < i \/ (a = i /\ b < j)
<1>1. /\ 1 .. (1 - 1) = {} /\ 1 .. (2 - 1) = {1}
      /\ 1 .. (3 - 1) = {1, 2} /\ 1 .. (4 - 1) = {1, 2, 3}
  OBVIOUS
<1>2. TextBefore(<<a, Zulu>>, <<i, Zulu>>) <=> a < i
  <2>1. DOMAIN <<a, Zulu>> = {1, 2} /\ DOMAIN <<i, Zulu>> = {1, 2}
    OBVIOUS
  <2> QED
    BY <1>1, <2>1 DEF TextBefore, Zulu
<1>3. TextBefore(<<a, Dot, b, Zulu>>, <<i, Dot, j, Zulu>>) <=>
          a < i \/ (a = i /\ b < j)
  <2>1. /\ DOMAIN <<a, Dot, b, Zulu>> = {1, 2, 3, 4}
        /\ DOMAIN <<i, Dot, j, Zulu>> = {1, 2, 3, 4}
    OBVIOUS
  <2> QED
    BY <1>1, <2>1 DEF TextBefore, Zulu, Dot
<1> QED
  BY <1>2, <1>3

\* What comparing two texts byte by byte amounts to, and that no two instants
\* have the same text.
LEMMA TextOrder ==
    ASSUME NEW t \in Timestamp, NEW u \in Timestamp
    PROVE  /\ TextBefore(FormatTimestamp(t), FormatTimestamp(u)) <=> Precedes(t, u)
           /\ FormatTimestamp(t) = FormatTimestamp(u) <=> t = u
<1>1. /\ t.sec \in Nat /\ t.micro \in Nat
      /\ u.sec \in Nat /\ u.micro \in Nat
      /\ t = u <=> t.sec = u.sec /\ t.micro = u.micro
  BY InstantFields
<1>2. CASE t.micro = 0 /\ u.micro = 0
  <2>1. FormatTimestamp(t) = << t.sec, Zulu >> /\ FormatTimestamp(u) = << u.sec, Zulu >>
    BY <1>2 DEF FormatTimestamp
  <2>2. TextBefore(<< t.sec, Zulu >>, << u.sec, Zulu >>) <=> t.sec < u.sec
    BY <1>1, FirstDifference
  <2>3. << t.sec, Zulu >> = << u.sec, Zulu >> <=> t.sec = u.sec
    OBVIOUS
  <2>4. /\ TextBefore(FormatTimestamp(t), FormatTimestamp(u)) <=> t.sec < u.sec
        /\ FormatTimestamp(t) = FormatTimestamp(u) <=> t.sec = u.sec
    BY <2>1, <2>2, <2>3, Zenon
  <2> QED
    BY <1>1, <1>2, <2>4 DEF Precedes
<1>3. CASE t.micro = 0 /\ u.micro # 0
  <2>1. /\ FormatTimestamp(t) = << t.sec, Zulu >>
        /\ FormatTimestamp(u) = << u.sec, Dot, u.micro, Zulu >>
    BY <1>3 DEF FormatTimestamp
  <2> QED
    BY <1>1, <1>3, <2>1 DEF TextBefore, Precedes, Zulu, Dot
<1>4. CASE t.micro # 0 /\ u.micro = 0
  <2>1. /\ FormatTimestamp(t) = << t.sec, Dot, t.micro, Zulu >>
        /\ FormatTimestamp(u) = << u.sec, Zulu >>
    BY <1>4 DEF FormatTimestamp
  <2> QED
    BY <1>1, <1>4, <2>1 DEF TextBefore, Precedes, Zulu, Dot
<1>5. CASE t.micro # 0 /\ u.micro # 0
  <2>1. /\ FormatTimestamp(t) = << t.sec, Dot, t.micro, Zulu >>
        /\ FormatTimestamp(u) = << u.sec, Dot, u.micro, Zulu >>
    BY <1>5 DEF FormatTimestamp
  <2>2. TextBefore(<< t.sec, Dot, t.micro, Zulu >>, << u.sec, Dot, u.micro, Zulu >>)
            <=> t.sec < u.sec \/ (t.sec = u.sec /\ t.micro < u.micro)
    BY <1>1, FirstDifference
  <2>3. << t.sec, Dot, t.micro, Zulu >> = << u.sec, Dot, u.micro, Zulu >>
            <=> t.sec = u.sec /\ t.micro = u.micro
    OBVIOUS
  <2>4. /\ TextBefore(FormatTimestamp(t), FormatTimestamp(u))
               <=> t.sec < u.sec \/ (t.sec = u.sec /\ t.micro < u.micro)
        /\ FormatTimestamp(t) = FormatTimestamp(u)
               <=> t.sec = u.sec /\ t.micro = u.micro
    BY <2>1, <2>2, <2>3, Zenon
  <2> QED
    BY <1>1, <1>5, <2>4 DEF Precedes
<1> QED
  BY <1>1, <1>2, <1>3, <1>4, <1>5

LEMMA RowOrder ==
    ASSUME NEW q \in Row, NEW r \in Row
    PROVE  StoredBefore(q, r) <=> \/ Precedes(q.timestamp, r.timestamp)
                                  \/ q.timestamp = r.timestamp /\ q.eventId < r.eventId
BY TextOrder DEF StoredBefore, Row

\* Of two different rows exactly one comes first, and so on down the list.
LEMMA StrictOrder ==
    ASSUME NEW q \in Row, NEW r \in Row
    PROVE  /\ ~(StoredBefore(q, r) /\ StoredBefore(r, q))
           /\ q.eventId # r.eventId => StoredBefore(q, r) \/ StoredBefore(r, q)
<1>1. StoredBefore(q, r) <=>
          \/ Precedes(q.timestamp, r.timestamp)
          \/ q.timestamp = r.timestamp /\ q.eventId < r.eventId
  BY RowOrder
<1>2. StoredBefore(r, q) <=>
          \/ Precedes(r.timestamp, q.timestamp)
          \/ r.timestamp = q.timestamp /\ r.eventId < q.eventId
  BY RowOrder
<1>3. q.timestamp = r.timestamp <=> /\ q.timestamp.sec = r.timestamp.sec
                                    /\ q.timestamp.micro = r.timestamp.micro
  BY RowFields, InstantFields
<1> QED
  BY <1>1, <1>2, <1>3, RowFields DEF Precedes

LEMMA OrderIsTransitive ==
    ASSUME NEW q \in Row, NEW r \in Row, NEW s \in Row,
           StoredBefore(q, r), StoredBefore(r, s)
    PROVE  StoredBefore(q, s)
BY RowFields, RowOrder DEF Precedes

LEMMA TableInOrder ==
    ASSUME NEW t, Table(t), InOrder(t),
           NEW i \in 1 .. Len(t), NEW j \in 1 .. Len(t), i < j
    PROVE  StoredBefore(t[i], t[j])
<1>1. t[i] \in Row /\ t[j] \in Row /\ t[i].eventId # t[j].eventId
  BY DEF Table
<1> QED
  BY <1>1, StrictOrder DEF InOrder

-----------------------------------------------------------------------------
(* Arrangements.                                                           *)

LEMMA LeastNat ==
    ASSUME NEW S, S \subseteq Nat, S # {}
    PROVE  \E k \in S : \A i \in S : k <= i
<1> DEFINE R == OpToRel(<, Nat)
<1>1. \A i, k \in Nat : i < k => <<i, k>> \in R
  BY DEF OpToRel
<1>2. IsWellFoundedOn(R, Nat)
  BY NatLessThanWellFounded
<1> HIDE DEF R
<1>3. PICK k \in S : \A i \in S : <<i, k>> \notin R
  BY <1>2, WFMin
<1>4. ASSUME NEW i \in S
      PROVE  k <= i
  <2>1. i \in Nat /\ k \in Nat /\ ~(i < k)
    BY <1>1, <1>3
  <2> QED
    BY <2>1
<1> QED
  BY <1>4

\* A permutation reaches every position.
LEMMA PermutationIsOnto ==
    ASSUME NEW n \in Nat, NEW p \in Permutation(n), NEW j \in 1 .. n
    PROVE  \E i \in 1 .. n : p[i] = j
<1>1. IsFiniteSet(1 .. n)
  BY FS_Interval
<1>2. p \in Injection(1 .. n, 1 .. n)
  BY DEF Permutation, Injection, IsInjective
<1>3. p \in Surjection(1 .. n, 1 .. n)
  BY <1>1, <1>2, FS_Injection
<1> QED
  BY <1>3 DEF Surjection

\* Rearranging loses no row and doubles none.
LEMMA ArrangedIsTable ==
    ASSUME NEW t, Table(t), NEW p \in Permutation(Len(t))
    PROVE  /\ Table(Arranged(t, p))
           /\ Len(Arranged(t, p)) = Len(t)
           /\ ToSet(Arranged(t, p)) = ToSet(t)
<1> DEFINE s == Arranged(t, p)
<1>1. /\ Len(t) \in Nat
      /\ DOMAIN t = 1 .. Len(t)
      /\ \A i \in 1 .. Len(t) : t[i] \in Row
  BY DEF Table
<1>2. \A i \in 1 .. Len(t) : p[i] \in 1 .. Len(t)
  BY DEF Permutation
<1>3. s \in Seq(Row) /\ Len(s) = Len(t) /\ DOMAIN s = 1 .. Len(t)
  BY <1>1, <1>2 DEF Arranged
<1>4. \A i \in 1 .. Len(t) : s[i] = t[p[i]]
  BY DEF Arranged
<1>5. Table(s)
  <2> SUFFICES ASSUME NEW i \in 1 .. Len(t), NEW j \in 1 .. Len(t),
                      s[i].eventId = s[j].eventId
               PROVE  i = j
    BY <1>3 DEF Table
  <2>1. p[i] = p[j]
    BY <1>1, <1>2, <1>4 DEF Table
  <2> QED
    BY <2>1 DEF Permutation, IsInjective
<1>6. ToSet(s) = ToSet(t)
  <2>1. ToSet(s) \subseteq ToSet(t)
    BY <1>1, <1>2, <1>3, <1>4 DEF ToSet
  <2>2. ASSUME NEW j \in 1 .. Len(t)
        PROVE  t[j] \in ToSet(s)
    <3>1. PICK i \in 1 .. Len(t) : p[i] = j
      BY <1>1, PermutationIsOnto
    <3> QED
      BY <1>3, <1>4, <3>1 DEF ToSet
  <2> QED
    BY <1>1, <2>1, <2>2 DEF ToSet
<1> QED
  BY <1>3, <1>5, <1>6

\* There is one sorted listing of a set of rows.
LEMMA SortedIsUnique ==
    ASSUME NEW s, NEW t, Table(s), Table(t), InOrder(s), InOrder(t),
           Len(s) = Len(t), ToSet(s) = ToSet(t)
    PROVE  s = t
<1> DEFINE D == {i \in 1 .. Len(t) : s[i] # t[i]}
<1>1. /\ Len(t) \in Nat
      /\ DOMAIN t = 1 .. Len(t) /\ DOMAIN s = 1 .. Len(t)
      /\ \A i \in 1 .. Len(t) : t[i] \in Row /\ s[i] \in Row
  BY DEF Table
<1>2. ASSUME D # {}
      PROVE  FALSE
  <2>0. D \subseteq Nat
    BY <1>1
  <2> HIDE DEF D
  <2>1. PICK k \in D : \A i \in D : k <= i
    BY <1>2, <2>0, LeastNat
  <2> USE DEF D
  <2>2. PICK i \in 1 .. Len(t) : s[i] = t[k]
    BY <1>1 DEF ToSet
  <2>3. PICK j \in 1 .. Len(t) : t[j] = s[k]
    BY <1>1 DEF ToSet
  <2>4. \A m \in 1 .. Len(t) : m < k => s[m] = t[m]
    BY <1>1, <2>1
  <2>5. k < i
    BY <1>1, <2>1, <2>2, <2>4 DEF Table
  <2>6. k < j
    BY <1>1, <2>1, <2>3, <2>4 DEF Table
  <2>7. StoredBefore(s[k], s[i]) /\ StoredBefore(t[k], t[j])
    BY <1>1, <2>5, <2>6, TableInOrder
  <2> QED
    BY <1>1, <2>2, <2>3, <2>7, StrictOrder
<1>3. \A i \in 1 .. Len(t) : s[i] = t[i]
  BY <1>2
<1> QED
  BY <1>1, <1>3 DEF Table

\* What ORDER BY returns, when there is something for it to return.
LEMMA OrderedIsSorted ==
    ASSUME NEW t, Table(t), Sortable(t)
    PROVE  /\ Table(Ordered(t))
           /\ InOrder(Ordered(t))
           /\ Len(Ordered(t)) = Len(t)
           /\ ToSet(Ordered(t)) = ToSet(t)
<1> DEFINE p == CHOOSE q \in Permutation(Len(t)) : InOrder(Arranged(t, q))
<1>1. p \in Permutation(Len(t)) /\ InOrder(Arranged(t, p))
  BY DEF Sortable
<1>2. Ordered(t) = Arranged(t, p)
  BY DEF Ordered
<1> HIDE DEF p
<1> QED
  BY <1>1, <1>2, ArrangedIsTable

\* A sorted listing of the same rows, however it was found, is the one that
\* ORDER BY returns.
LEMMA SortedIsOrdered ==
    ASSUME NEW s, NEW t, Table(s), Table(t), InOrder(s),
           Len(s) = Len(t), ToSet(s) = ToSet(t)
    PROVE  Sortable(t) /\ Ordered(t) = s
<1> DEFINE p == [i \in 1 .. Len(t) |-> CHOOSE j \in 1 .. Len(t) : t[j] = s[i]]
<1>1. /\ Len(t) \in Nat
      /\ DOMAIN t = 1 .. Len(t) /\ DOMAIN s = 1 .. Len(t)
  BY DEF Table
<1>2. \A i \in 1 .. Len(t) : \E j \in 1 .. Len(t) : t[j] = s[i]
  BY <1>1 DEF ToSet
<1>3. \A i \in 1 .. Len(t) : p[i] \in 1 .. Len(t) /\ t[p[i]] = s[i]
  BY <1>2
<1>4. p \in [1 .. Len(t) -> 1 .. Len(t)]
  BY <1>3
<1> HIDE DEF p
<1>5. p \in Permutation(Len(t))
  <2>1. \A i, j \in 1 .. Len(t) : p[i] = p[j] => i = j
    BY <1>1, <1>3 DEF Table
  <2> QED
    BY <1>4, <2>1 DEF Permutation, IsInjective
<1>6. Arranged(t, p) = s
  BY <1>1, <1>3 DEF Arranged, Table
<1>7. Sortable(t)
  BY <1>5, <1>6 DEF Sortable
<1> QED
  BY <1>7, OrderedIsSorted, SortedIsUnique

-----------------------------------------------------------------------------
(* A new row.                                                              *)

\* r, put at position k of a listing.
Inserted(s, k, r) ==
    [i \in 1 .. Len(s) + 1 |->
        IF i < k THEN s[i] ELSE IF i = k THEN r ELSE s[i - 1]]

LEMMA InsertedIsTable ==
    ASSUME NEW s, Table(s), NEW r \in Row, NEW k \in 1 .. Len(s) + 1,
           \A i \in 1 .. Len(s) : s[i].eventId # r.eventId
    PROVE  /\ Table(Inserted(s, k, r))
           /\ Len(Inserted(s, k, r)) = Len(s) + 1
           /\ ToSet(Inserted(s, k, r)) = ToSet(s) \cup {r}
<1> DEFINE t == Inserted(s, k, r)
<1>1. /\ Len(s) \in Nat
      /\ DOMAIN s = 1 .. Len(s)
      /\ \A i \in 1 .. Len(s) : s[i] \in Row
  BY DEF Table
<1>2. \A i \in 1 .. Len(s) + 1 :
          /\ i < k => t[i] = s[i] /\ i \in 1 .. Len(s)
          /\ i = k => t[i] = r
          /\ i > k => t[i] = s[i - 1] /\ i - 1 \in 1 .. Len(s)
  BY <1>1 DEF Inserted
<1>3. t \in Seq(Row) /\ Len(t) = Len(s) + 1 /\ DOMAIN t = 1 .. Len(s) + 1
  <2>1. \A i \in 1 .. Len(s) + 1 : t[i] \in Row
    BY <1>1, <1>2
  <2> QED
    BY <1>1, <2>1 DEF Inserted
<1> HIDE DEF t
<1>4. Table(t)
  <2> SUFFICES ASSUME NEW i \in 1 .. Len(s) + 1, NEW j \in 1 .. Len(s) + 1,
                      t[i].eventId = t[j].eventId
               PROVE  i = j
    BY <1>3 DEF Table
  <2>1. \A a, b \in 1 .. Len(s) : s[a].eventId = s[b].eventId => a = b
    BY <1>1 DEF Table
  <2>2. CASE i < k
    BY <1>1, <1>2, <2>1, <2>2
  <2>3. CASE i = k
    BY <1>1, <1>2, <2>1, <2>3
  <2>4. CASE i > k
    <3>1. t[i] = s[i - 1] /\ i - 1 \in 1 .. Len(s)
      BY <1>2, <2>4
    <3> QED
      BY <1>1, <1>2, <2>1, <2>4, <3>1
  <2> QED
    BY <2>2, <2>3, <2>4
<1>5. ToSet(t) = ToSet(s) \cup {r}
  <2>1. ToSet(t) \subseteq ToSet(s) \cup {r}
    BY <1>1, <1>2, <1>3 DEF ToSet
  <2>2. r \in ToSet(t)
    BY <1>2, <1>3 DEF ToSet
  <2>3. ASSUME NEW i \in 1 .. Len(s)
        PROVE  s[i] \in ToSet(t)
    <3>1. CASE i < k
      BY <1>1, <1>2, <1>3, <3>1 DEF ToSet
    <3>2. CASE i >= k
      <4>1. i + 1 \in 1 .. Len(s) + 1 /\ t[i + 1] = s[i]
        BY <1>1, <1>2, <3>2
      <4> QED
        BY <1>3, <4>1 DEF ToSet
    <3> QED
      BY <1>1, <3>1, <3>2
  <2> QED
    BY <1>1, <2>1, <2>2, <2>3 DEF ToSet
<1> QED
  BY <1>3, <1>4, <1>5 DEF t

\* A new row has a place in a sorted listing: before the first row that it
\* sorts before.
LEMMA PlaceForRow ==
    ASSUME NEW s, Table(s), InOrder(s), NEW r \in Row,
           \A i \in 1 .. Len(s) : s[i].eventId # r.eventId
    PROVE  \E k \in 1 .. Len(s) + 1 : InOrder(Inserted(s, k, r))
<1> DEFINE After == {k \in 1 .. Len(s) + 1 :
                       k = Len(s) + 1 \/ StoredBefore(r, s[k])}
<1>1. /\ Len(s) \in Nat
      /\ \A i \in 1 .. Len(s) : s[i] \in Row
  BY DEF Table
<1>2. After \subseteq Nat /\ After # {}
  <2>1. Len(s) + 1 \in After
    BY <1>1
  <2> QED
    BY <1>1, <2>1
<1>3. PICK k \in After : \A i \in After : k <= i
  <2> HIDE DEF After
  <2> QED
    BY <1>2, LeastNat
<1>4. k \in 1 .. Len(s) + 1
  OBVIOUS
<1>5. ASSUME NEW i \in 1 .. Len(s), i < k
      PROVE  StoredBefore(s[i], r)
  <2>1. ~StoredBefore(r, s[i])
    BY <1>1, <1>3, <1>5
  <2> QED
    BY <1>1, <2>1, StrictOrder
<1>6. ASSUME NEW i \in 1 .. Len(s), i >= k
      PROVE  StoredBefore(r, s[i])
  <2>1. k \in 1 .. Len(s) /\ StoredBefore(r, s[k])
    BY <1>1, <1>4, <1>6
  <2>2. CASE i = k
    BY <2>1, <2>2
  <2>3. CASE k < i
    <3>1. StoredBefore(s[k], s[i])
      BY <2>1, <2>3, TableInOrder
    <3> QED
      BY <1>1, <2>1, <3>1, OrderIsTransitive
  <2> QED
    BY <1>1, <1>4, <1>6, <2>2, <2>3
<1> DEFINE t == Inserted(s, k, r)
<1>7. /\ Table(t) /\ Len(t) = Len(s) + 1
      /\ \A i \in 1 .. Len(s) + 1 :
            /\ i < k => t[i] = s[i] /\ i \in 1 .. Len(s)
            /\ i = k => t[i] = r
            /\ i > k => t[i] = s[i - 1] /\ i - 1 \in 1 .. Len(s)
  BY <1>1, <1>4, InsertedIsTable DEF Inserted
<1>8. ASSUME NEW i \in 1 .. Len(s) + 1, NEW j \in 1 .. Len(s) + 1, i < j
      PROVE  StoredBefore(t[i], t[j])
  <2> HIDE DEF t
  <2>1. CASE j < k
    BY <1>1, <1>4, <1>7, <1>8, <2>1, TableInOrder
  <2>2. CASE j = k
    BY <1>1, <1>4, <1>5, <1>7, <1>8, <2>2
  <2>3. CASE j > k
    <3>1. t[j] = s[j - 1] /\ j - 1 \in 1 .. Len(s)
      BY <1>7, <2>3
    <3>2. CASE i < k
      <4>1. i < j - 1 /\ t[i] = s[i] /\ i \in 1 .. Len(s)
        BY <1>1, <1>4, <1>7, <2>3, <3>2
      <4> QED
        BY <3>1, <4>1, TableInOrder
    <3>3. CASE i = k
      BY <1>1, <1>4, <1>6, <1>7, <2>3, <3>1, <3>3
    <3>4. CASE i > k
      <4>1. i - 1 < j - 1 /\ t[i] = s[i - 1] /\ i - 1 \in 1 .. Len(s)
        BY <1>1, <1>4, <1>7, <1>8, <3>4
      <4> QED
        BY <3>1, <4>1, TableInOrder
    <3> QED
      BY <1>4, <3>2, <3>3, <3>4
  <2> QED
    BY <1>4, <2>1, <2>2, <2>3
<1>9. InOrder(t)
  <2>1. \A i \in 1 .. Len(s) + 1 : t[i] \in Row
    BY <1>7 DEF Table
  <2> HIDE DEF t
  <2> QED
    BY <1>7, <1>8, <2>1, StrictOrder DEF InOrder
<1> QED
  BY <1>4, <1>9

-----------------------------------------------------------------------------
(* The invariant.                                                          *)

LEMMA HistoryIsTable == HistoryTypeOK <=> Table(rows)
BY DEF HistoryTypeOK, Table, Row

LEMMA HistoryInitInv == HistoryInit => HistoryInv
<1> SUFFICES ASSUME HistoryInit
             PROVE  HistoryInv
  OBVIOUS
<1>1. Table(rows) /\ Len(rows) = 0
  BY DEF HistoryInit, Table
<1>2. InOrder(rows)
  BY <1>1 DEF InOrder
<1> QED
  BY <1>1, <1>2, HistoryIsTable, SortedIsOrdered DEF HistoryInv

\* The next listing is the last one with the new row at its place.
LEMMA NextListing ==
    ASSUME HistoryInv, NEW id \in EventId, NEW t \in Timestamp, Record(id, t)
    PROVE  LET r == [eventId |-> id, timestamp |-> t]
           IN  /\ HistoryInv'
               /\ \E k \in 1 .. Len(rows) + 1 : Listing' = Inserted(Listing, k, r)
               /\ Table(Listing') /\ InOrder(Listing')
               /\ Len(Listing') = Len(rows) + 1
<1> DEFINE r == [eventId |-> id, timestamp |-> t]
<1>1. Table(rows) /\ Sortable(rows)
  BY HistoryIsTable DEF HistoryInv
<1>2. /\ Table(Listing) /\ InOrder(Listing)
      /\ Len(Listing) = Len(rows) /\ ToSet(Listing) = ToSet(rows)
  BY <1>1, OrderedIsSorted DEF Listing
<1>3. r \in Row /\ r.eventId = id
  BY DEF Row
<1> HIDE DEF r
<1>4. rows' = Append(rows, r) /\ \A q \in ToSet(rows) : q.eventId # r.eventId
  BY <1>3 DEF Record, r
<1>5. /\ Len(rows) \in Nat
      /\ DOMAIN rows = 1 .. Len(rows)
      /\ \A i \in 1 .. Len(rows) : rows[i] \in Row /\ rows[i].eventId # r.eventId
  BY <1>1, <1>4 DEF Table, ToSet
<1>6. \A i \in 1 .. Len(Listing) : Listing[i].eventId # r.eventId
  <2>1. \A i \in 1 .. Len(Listing) : Listing[i] \in ToSet(Listing)
    BY <1>2 DEF Table, ToSet
  <2> QED
    BY <1>2, <1>4, <2>1
<1>7. /\ rows' \in Seq(Row) /\ Len(rows') = Len(rows) + 1
      /\ \A i \in 1 .. Len(rows) : rows'[i] = rows[i]
      /\ rows'[Len(rows) + 1] = r
      /\ DOMAIN rows' = 1 .. Len(rows) + 1
  BY <1>1, <1>3, <1>4 DEF Table
<1>8. Table(rows')
  <2> SUFFICES ASSUME NEW i \in 1 .. Len(rows) + 1, NEW j \in 1 .. Len(rows) + 1,
                      rows'[i].eventId = rows'[j].eventId
               PROVE  i = j
    BY <1>7 DEF Table
  <2> QED
    BY <1>1, <1>5, <1>7 DEF Table
<1>9. ToSet(rows') = ToSet(rows) \cup {r}
  BY <1>5, <1>7 DEF ToSet
<1>10. PICK k \in 1 .. Len(rows) + 1 : InOrder(Inserted(Listing, k, r))
  BY <1>2, <1>3, <1>6, PlaceForRow
<1> DEFINE s == Inserted(Listing, k, r)
<1>11. Table(s) /\ Len(s) = Len(rows) + 1 /\ ToSet(s) = ToSet(rows')
  BY <1>2, <1>3, <1>6, <1>9, InsertedIsTable
<1> HIDE DEF s
<1>12. Sortable(rows') /\ Ordered(rows') = s
  BY <1>7, <1>8, <1>10, <1>11, SortedIsOrdered DEF s
<1>13. Listing' = s
  BY <1>12 DEF Listing
<1>14. HistoryInv'
  BY <1>8, <1>12 DEF HistoryInv, HistoryTypeOK, Table, Row, Sortable
<1> QED
  BY <1>10, <1>11, <1>13, <1>14 DEF s, r

THEOREM HistoryInvariant == HistorySpec => []HistoryInv
<1>1. HistoryInv /\ [HistoryNext]_rows => HistoryInv'
  <2>1. CASE HistoryNext
    BY <2>1, NextListing DEF HistoryNext
  <2>2. CASE UNCHANGED rows
    BY <2>2 DEF HistoryInv, HistoryTypeOK, Sortable
  <2> QED
    BY <2>1, <2>2
<1> QED
  BY <1>1, HistoryInitInv, PTL DEF HistorySpec

\* Each event is in the table once: what the primary key is for.
THEOREM HistoryTypeCorrect == HistorySpec => []HistoryTypeOK
<1>1. HistoryInv => HistoryTypeOK
  BY DEF HistoryInv
<1> QED
  BY <1>1, HistoryInvariant, PTL

\* Any other order of arrival of the same events gives the same listing.
THEOREM ArrivalDoesNotShow == HistorySpec => []ListingIgnoresArrival
<1>1. HistoryInv => ListingIgnoresArrival
  <2> SUFFICES ASSUME HistoryInv, NEW p \in Permutation(Len(rows))
               PROVE  Ordered(Arranged(rows, p)) = Listing
    BY DEF ListingIgnoresArrival
  <2>1. Table(rows) /\ Sortable(rows)
    BY HistoryIsTable DEF HistoryInv
  <2>2. /\ Table(Listing) /\ InOrder(Listing)
        /\ Len(Listing) = Len(rows) /\ ToSet(Listing) = ToSet(rows)
    BY <2>1, OrderedIsSorted DEF Listing
  <2> QED
    BY <2>1, <2>2, ArrangedIsTable, SortedIsOrdered
<1> QED
  BY <1>1, HistoryInvariant, PTL

LEMMA ListingInOrder ==
    ASSUME HistoryInv
    PROVE  /\ DOMAIN Listing = 1 .. Len(Listing)
           /\ \A i \in DOMAIN Listing : Listing[i] \in Row
           /\ \A i, j \in DOMAIN Listing :
                 i < j => StoredBefore(Listing[i], Listing[j])
<1>1. Table(Listing) /\ InOrder(Listing)
  BY HistoryIsTable, OrderedIsSorted DEF HistoryInv, Listing
<1>2. DOMAIN Listing = 1 .. Len(Listing) /\ \A i \in DOMAIN Listing : Listing[i] \in Row
  BY <1>1 DEF Table
<1> QED
  BY <1>1, <1>2, TableInOrder

\* The listing never goes back by a whole second.
THEOREM SecondsInOrder == HistorySpec => []ChronologicalToTheSecond
<1>1. HistoryInv => ChronologicalToTheSecond
  <2> SUFFICES ASSUME HistoryInv, NEW i \in DOMAIN Listing, NEW j \in DOMAIN Listing,
                      i < j
               PROVE  Listing[i].timestamp.sec <= Listing[j].timestamp.sec
    BY DEF ChronologicalToTheSecond
  <2>1. /\ Listing[i] \in Row /\ Listing[j] \in Row
        /\ StoredBefore(Listing[i], Listing[j])
    BY ListingInOrder
  <2>2. \/ Precedes(Listing[i].timestamp, Listing[j].timestamp)
        \/ Listing[i].timestamp = Listing[j].timestamp
    BY <2>1, RowOrder
  <2> QED
    BY <2>1, <2>2, RowFields DEF Precedes
<1> QED
  BY <1>1, HistoryInvariant, PTL

\* Within a second it never goes back among the events that all have, or all
\* lack, a fraction.
THEOREM UniformInOrder == HistorySpec => []ChronologicalWhenUniform
<1>1. HistoryInv => ChronologicalWhenUniform
  <2> SUFFICES ASSUME HistoryInv, NEW i \in DOMAIN Listing, NEW j \in DOMAIN Listing,
                      i < j,
                      Listing[i].timestamp.micro = 0 <=> Listing[j].timestamp.micro = 0
               PROVE  ~Earlier(Listing[j].timestamp, Listing[i].timestamp)
    BY DEF ChronologicalWhenUniform
  <2>1. /\ Listing[i] \in Row /\ Listing[j] \in Row
        /\ StoredBefore(Listing[i], Listing[j])
    BY ListingInOrder
  <2>2. \/ Precedes(Listing[i].timestamp, Listing[j].timestamp)
        \/ Listing[i].timestamp = Listing[j].timestamp
    BY <2>1, RowOrder
  <2> QED
    BY <2>1, <2>2, RowFields DEF Precedes, Earlier
<1> QED
  BY <1>1, HistoryInvariant, PTL

-----------------------------------------------------------------------------
(* The bounded listing.                                                    *)

LEMMA RecentRows ==
    ASSUME Table(Listing), Len(Listing) = Len(rows), Len(rows) >= RecentLimit
    PROVE  ToSet(RecentTransactions) = {Listing[i] : i \in 1 .. RecentLimit}
<1>1. /\ Len(Listing) \in Nat /\ RecentLimit \in Nat
      /\ Listing \in Seq(Row)
  BY HistoryAssumption DEF Table
<1>2. RecentTransactions = SubSeq(Listing, 1, RecentLimit)
  <2>1. CASE Len(rows) = RecentLimit
    BY <2>1 DEF RecentTransactions
  <2>2. CASE Len(rows) > RecentLimit
    BY <1>1, <2>2 DEF RecentTransactions
  <2> QED
    BY <1>1, <2>1, <2>2
<1>3. /\ DOMAIN SubSeq(Listing, 1, RecentLimit) = 1 .. RecentLimit
      /\ \A i \in 1 .. RecentLimit : SubSeq(Listing, 1, RecentLimit)[i] = Listing[i]
  BY <1>1
<1> QED
  BY <1>2, <1>3 DEF ToSet

\* An account has more events than the page holds, in more than one second.
PageOverflows ==
    /\ RecentLimit > 0 /\ Len(rows) > RecentLimit
    /\ Listing[1].timestamp.sec < Listing[Len(rows)].timestamp.sec

LEMMA OverflowMisses ==
    ASSUME HistoryInv, PageOverflows
    PROVE  ~RecentAreLatest
<1> DEFINE n     == Len(rows)
           first == Listing[1]
           last  == Listing[n]
           page  == ToSet(RecentTransactions)
<1>1. Table(rows) /\ Sortable(rows)
  BY HistoryIsTable DEF HistoryInv
<1>2. Table(Listing) /\ Len(Listing) = n /\ ToSet(Listing) = ToSet(rows)
  BY <1>1, OrderedIsSorted DEF Listing
<1>3. /\ n \in Nat /\ RecentLimit \in Nat /\ RecentLimit > 0 /\ n > RecentLimit
      /\ DOMAIN Listing = 1 .. n
  BY <1>1, <1>2, HistoryAssumption DEF Table, PageOverflows
<1>4. page = {Listing[i] : i \in 1 .. RecentLimit}
  BY <1>2, <1>3, RecentRows
<1>5. Earlier(first.timestamp, last.timestamp)
  BY DEF PageOverflows, Earlier
<1>6. \A i \in 1 .. n : Listing[i] = Listing[n] => i = n
  <2>1. n \in DOMAIN Listing /\ DOMAIN Listing = 1 .. n
    BY <1>3
  <2>2. \A i \in DOMAIN Listing : Listing[i].eventId = Listing[n].eventId => i = n
    BY <1>2, <2>1 DEF Table
  <2> QED
    BY <2>1, <2>2
<1> HIDE DEF n
<1>7. last \in ToSet(rows)
  <2>1. n \in DOMAIN Listing
    BY <1>3
  <2>2. Listing[n] \in ToSet(Listing)
    BY <2>1, Zenon DEF ToSet
  <2> QED
    BY <1>2, <2>2
<1>8. first \in page
  BY <1>3, <1>4
<1>9. last \notin page
  BY <1>3, <1>4, <1>6
<1> QED
  BY <1>5, <1>7, <1>8, <1>9 DEF RecentAreLatest

\* The page is not one of recent transactions: whatever its size, as soon as an
\* account has more events than it holds, in more than one second, an earlier
\* event is shown and a later one left out.
THEOREM PageMissesTheLatest == HistorySpec => [](PageOverflows => ~RecentAreLatest)
<1>1. HistoryInv => (PageOverflows => ~RecentAreLatest)
  BY OverflowMisses
<1> QED
  BY <1>1, HistoryInvariant, PTL
=============================================================================
