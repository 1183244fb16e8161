---------------------------- MODULE EventHistory ----------------------------
(***************************************************************************)
(* The listings of both services: GET /events?account= of the Gateway and  *)
(* recentTransactions of the Account Service.  Rows are kept in arrival    *)
(* order and sorted by SQLite on the TEXT of their timestamp, the ISO 8601 *)
(* string of format_timestamp (src/src/event_ledger_common/time.py).       *)
(*                                                                         *)
(* Only the rows of one account matter to a listing, so the table holds    *)
(* nothing else here.                                                      *)
(***************************************************************************)
EXTENDS Integers, SequencesExt

CONSTANTS
    EventId,       \* naturals, in the order SQLite sorts the ids as text
    Timestamp,     \* [sec, micro] records, instants in UTC (micro < 1000000)
    RecentLimit    \* the default of get_account_details

ASSUME HistoryAssumption ==
    /\ EventId \subseteq Nat
    /\ Timestamp \subseteq [sec : Nat, micro : Nat]
    /\ RecentLimit \in Nat

VARIABLE rows     \* [eventId, timestamp] records, in order of arrival

HistoryInit == rows = << >>

\* Mutant: no primary key.
MutRecord(id, t) == rows' = Append(rows, [eventId |-> id, timestamp |-> t])

\* The primary key admits an event id once; see OneRecordPerEventId.
Record(id, t) ==
    /\ \A r \in ToSet(rows) : r.eventId # id
    /\ rows' = Append(rows, [eventId |-> id, timestamp |-> t])

HistoryNext == \E id \in EventId, t \in Timestamp : Record(id, t)

HistorySpec == HistoryInit /\ [][HistoryNext]_rows

-----------------------------------------------------------------------------
(* The text of a timestamp, as far as comparing two of them needs it: the  *)
(* seconds (of fixed width), then '.' and six digits unless they are zero, *)
(* then 'Z'.                                                               *)

Dot == 46
Zulu == 90

\* Mutant: isoformat(timespec="seconds").
MutFormatTimestamp(t) == << t.sec, Zulu >>

FormatTimestamp(t) ==
    IF t.micro = 0 THEN << t.sec, Zulu >>
                   ELSE << t.sec, Dot, t.micro, Zulu >>

\* Byte by byte; two different texts differ before the shorter one ends.
TextBefore(s, t) ==
    \E i \in DOMAIN s \cap DOMAIN t :
        /\ s[i] < t[i]
        /\ \A j \in 1 .. i - 1 : s[j] = t[j]

\* Mutants: no tie-break on event_id; sorted by event_id alone.
MutUntied(r1, r2) ==
    TextBefore(FormatTimestamp(r1.timestamp), FormatTimestamp(r2.timestamp))

MutById(r1, r2) == r1.eventId < r2.eventId

\* ORDER BY event_timestamp ASC, event_id ASC.
StoredBefore(r1, r2) ==
    LET s == FormatTimestamp(r1.timestamp)
        t == FormatTimestamp(r2.timestamp)
    IN  TextBefore(s, t) \/ (s = t /\ r1.eventId < r2.eventId)

\* The arrival orders of n rows, and the orders a query may return them in.
Permutation(n) == {p \in [1 .. n -> 1 .. n] : IsInjective(p)}

Arranged(t, p) == [i \in 1 .. Len(t) |-> t[p[i]]]

\* ORDER BY, which leaves the order of rows that compare equal to chance.
InOrder(t) == \A i, j \in 1 .. Len(t) : i < j => ~StoredBefore(t[j], t[i])

Ordered(t) == Arranged(t, CHOOSE p \in Permutation(Len(t)) : InOrder(Arranged(t, p)))

\* list_events_for_account.
Listing == Ordered(rows)

\* get_account_details: the same order, cut off by LIMIT.
RecentTransactions ==
    SubSeq(Listing, 1, IF Len(rows) < RecentLimit THEN Len(rows) ELSE RecentLimit)

-----------------------------------------------------------------------------
(* Properties.                                                             *)

\* An instant is before another one.
Earlier(t, u) == t.sec < u.sec \/ (t.sec = u.sec /\ t.micro < u.micro)

\* Each event once, each with its own timestamp.
HistoryTypeOK ==
    /\ rows \in Seq([eventId : EventId, timestamp : Timestamp])
    /\ \A i, j \in DOMAIN rows : rows[i].eventId = rows[j].eventId => i = j

\* Out-of-order delivery does not show: had the same events arrived in any
\* other order, the listing would be the same.
ListingIgnoresArrival ==
    \A p \in Permutation(Len(rows)) : Ordered(Arranged(rows, p)) = Listing

\* Across seconds the listing is chronological: the text order is wrong at
\* most among events of the same second.
ChronologicalToTheSecond ==
    LET list == Listing
    IN  \A i, j \in DOMAIN list :
            i < j => list[i].timestamp.sec <= list[j].timestamp.sec

\* Within a second it is chronological among the events that all have, or all
\* lack, a fraction of it.
ChronologicalWhenUniform ==
    LET list == Listing
    IN  \A i, j \in DOMAIN list :
            LET t == list[i].timestamp
                u == list[j].timestamp
            IN  (i < j /\ (t.micro = 0 <=> u.micro = 0)) => ~Earlier(u, t)

-----------------------------------------------------------------------------
(* What the repository says of the listings and the code does not do.      *)

\* gateway_service/db.py:183, "account events ordered by original event time",
\* and main.py:218, "in chronological order".
Chronological ==
    LET list == Listing
    IN  \A i, j \in DOMAIN list :
            i < j => ~Earlier(list[j].timestamp, list[i].timestamp)

\* README.md:92, "Get balance and recent transactions" (also
\* account_service/main.py:174 and db.py:223): whatever the bounded listing
\* leaves out is no later than what it shows.
RecentAreLatest ==
    LET page == ToSet(RecentTransactions)
    IN  \A shown \in page, left \in ToSet(rows) \ page :
            ~Earlier(shown.timestamp, left.timestamp)
=============================================================================
