------------------------ MODULE LedgerPromiseProofs ------------------------
(***************************************************************************)
(* What submitters can rely on.  First, that a refusal stands for ever: no *)
(* retry, late request or later submission applies what a caller was told  *)
(* is refused, as long as the amounts survive the hop between the          *)
(* services.  Second, that the two services implement LedgerPromise: under *)
(* the mapping of rows to sets and of statuses to verdicts, every step of  *)
(* EventLedger is one of the promise, or changes nothing a submitter can   *)
(* rely on.  This needs no assumption on amounts or account ids.           *)
(* Third, what that promise amounts to: no two verdicts about one event    *)
(* ever contradict each other.                                             *)
(***************************************************************************)
EXTENDS EventLedgerProofs

\* The payloads whose amounts are exact floats.
ExactAmounts == \A p \in Payload : OnWire(p) = p

\* The reasons why a table with these rows will never take a request.  Each of
\* them lasts.
Blocked(rows, q) ==
    \/ ~Valid(q)
    \/ Target(q) # q.accountId
    \/ \E t \in rows : t.eventId = q.eventId /\ t # q
    \/ \E t \in rows : t.accountId = q.accountId /\ t.currency # q.currency

\* Every row came in by the URL of its own account.
RowsReached == \A t \in ToSet(transactions) : Target(t) = t.accountId

\* A refusal under way, or given, is one of a blocked request.
LinkBlocked ==
    \A c \in Submission : link[c] \in Refused =>
        Blocked(ToSet(transactions), OnWire(payload[c]))

AnswerBlocked ==
    \A c \in Submission : answer[c] \in Refused =>
        Blocked(ToSet(transactions), OnWire(payload[c]))

RefusalInv == LedgerInv /\ RowsReached /\ LinkBlocked /\ AnswerBlocked

-----------------------------------------------------------------------------
\* A blocked request is not in the table.
LEMMA BlockedIsNoRow ==
    ASSUME AccountInv, RowsReached, NEW q, Blocked(ToSet(transactions), q)
    PROVE  q \notin ToSet(transactions)
<1> SUFFICES ASSUME q \in ToSet(transactions)
             PROVE  FALSE
  OBVIOUS
<1>1. transactions \in Seq({p \in WirePayload : Valid(p)})
  BY DEF AccountInv, AccountTypeOK
<1>2. Valid(q) /\ Target(q) = q.accountId
  BY <1>1 DEF ToSet, RowsReached
<1>3. ASSUME NEW t \in ToSet(transactions), t.eventId = q.eventId
      PROVE  t = q
  BY <1>3 DEF ToSet, AccountInv, EventAppliedOnce
<1>4. ASSUME NEW t \in ToSet(transactions), t.accountId = q.accountId
      PROVE  t.currency = q.currency
  BY <1>4 DEF AccountInv, SingleCurrency
<1> QED
  BY <1>2, <1>3, <1>4 DEF Blocked

\* No later row unblocks it.
LEMMA BlockedLasts ==
    ASSUME NEW rows, NEW later, rows \subseteq later, NEW q, Blocked(rows, q)
    PROVE  Blocked(later, q)
BY DEF Blocked

\* The Account Service refuses nothing else.
LEMMA ServeRefuses ==
    ASSUME NEW q \in WirePayload, NEW status \in Refused, Serve(q, status)
    PROVE  Blocked(ToSet(transactions), q)
<1>1. q \in EventPayload
  BY WireTyped
<1>2. CASE Target(q) = NoRoute
  BY <1>1, <1>2, RouteAssumption DEF EventPayload, Nowhere, Blocked
<1>3. CASE ApplyTransaction(Target(q), q, status)
  <2>1. CASE Unprocessable(Target(q), q, status)
    BY <2>1 DEF Unprocessable, Blocked
  <2>2. CASE PathMismatch(Target(q), q, status)
    BY <2>2 DEF PathMismatch, Blocked
  <2>3. CASE DuplicateConflict(Target(q), q, status)
    BY <2>3 DEF DuplicateConflict, GetTransaction, SameEvent, Blocked
  <2>4. CASE CurrencyMismatch(Target(q), q, status)
    BY <2>4 DEF CurrencyMismatch, AccountCurrencyForbids, AccountRows, Blocked
  <2> QED
    BY <1>3, <2>1, <2>2, <2>3, <2>4
       DEF ApplyTransaction, ReplayTransaction, InsertTransaction, Refused
<1> QED
  BY <1>2, <1>3 DEF Serve, Refused

\* Nor does the Gateway: an event id that is recorded for another event is
\* taken in the table too.
LEMMA RecordedBlocks ==
    ASSUME LedgerInv, ExactAmounts, NEW p \in Payload,
           \E e \in Recorded(p.eventId) : ~SameEvent(e, p)
    PROVE  Blocked(ToSet(transactions), OnWire(p))
<1>1. PICK e \in ToSet(events) : e.eventId = p.eventId /\ ~SameEvent(e, p)
  BY DEF Recorded
<1>2. e \in Payload /\ OnWire(e) \in ToSet(transactions)
  <2>1. events \in Seq(Payload)
    BY DEF LedgerInv, GatewayTypeOK
  <2>2. e \in Payload
    BY <2>1 DEF ToSet
  <2> QED
    BY <2>2 DEF LedgerInv, HistoryBacked
<1>3. OnWire(e) = e /\ OnWire(p) = p
  BY <1>2 DEF ExactAmounts
<1>4. e # p
  BY <1>1 DEF SameEvent
<1>5. e \in ToSet(transactions) /\ e.eventId = p.eventId /\ e # p
  BY <1>1, <1>2, <1>3, <1>4
<1>6. Blocked(ToSet(transactions), p)
  BY <1>5 DEF Blocked
<1> QED
  BY <1>3, <1>6

-----------------------------------------------------------------------------
\* Rows keep coming in by their own URL.
LEMMA ReachedKept ==
    ASSUME LedgerInv, RowsReached, [LedgerNext]_ledgerVars
    PROVE  RowsReached'
<1>1. CASE UNCHANGED transactions
  BY <1>1 DEF RowsReached, Target
<1>2. ASSUME NEW q \in WirePayload, InsertTransaction(Target(q), q, "201")
      PROVE  RowsReached'
  <2> DEFINE Row == {p \in WirePayload : Valid(p)}
  <2>1. transactions \in Seq(Row) /\ q \in Row /\ Target(q) = q.accountId
    BY <1>2 DEF LedgerInv, AccountInv, AccountTypeOK, InsertTransaction, Reached
  <2>2. transactions' = Append(transactions, q)
    BY <1>2 DEF InsertTransaction
  <2>3. ToSet(transactions') = ToSet(transactions) \cup {q}
    <3> HIDE DEF Row
    <3> QED  BY <2>1, <2>2, AppendFacts
  <2> QED
    BY <2>1, <2>3 DEF RowsReached, Target
<1> QED
  BY <1>1, <1>2, AtMostOneServed DEF Served

\* A handler that has answered with a refusal had done so before, or passes on
\* that of the Account Service, or has found the event id taken.
LEMMA RefusalStep ==
    ASSUME LedgerInv, [LedgerNext]_ledgerVars, NEW c \in Submission,
           answer'[c] \in Refused
    PROVE  \/ /\ answer[c] \in Refused \/ link[c] \in Refused
              /\ payload'[c] = payload[c]
           \/ /\ payload'[c] \in Payload
              /\ \E e \in Recorded(payload'[c].eventId) :
                    ~SameEvent(e, payload'[c])
<1> DEFINE Kept  == /\ answer[c] \in Refused \/ link[c] \in Refused
                    /\ payload'[c] = payload[c]
           Taken == /\ payload'[c] \in Payload
                    /\ \E e \in Recorded(payload'[c].eventId) :
                          ~SameEvent(e, payload'[c])
<1>1. /\ GatewayTypeOK
      /\ \A a \in {"pending", "503", "500", "lost"} \cup Accepted : a \notin Refused
  BY DEF LedgerInv, Accepted, Refused
<1>2. ASSUME NEW d \in Submission, NEW p \in Payload,
             Submit(d, p) \/ EntryFault(d, p)
      PROVE  Kept \/ Taken
  <2>1. payload' = [payload EXCEPT ![d] = p]
    BY <1>2 DEF Submit, ReplayKnown, ConflictKnown, FailFast, Forward, RaiseUnsent,
                EntryFault, Receive
  <2>2. CASE d # c
    BY <1>1, <1>2, <2>1, <2>2 DEF GatewayTypeOK, Submit, ReplayKnown,
                                  ConflictKnown, FailFast, Forward, RaiseUnsent,
                                  EntryFault, Reply
  <2>3. CASE d = c /\ ConflictKnown(d, p)
    BY <1>1, <2>1, <2>3 DEF GatewayTypeOK, ConflictKnown
  <2>4. CASE /\ d = c
             /\ \/ ReplayKnown(d, p) \/ FailFast(d, p) \/ Forward(d, p)
                \/ RaiseUnsent(d, p) \/ EntryFault(d, p)
    BY <1>1, <2>4 DEF GatewayTypeOK, ReplayKnown, FailFast, Forward, RaiseUnsent,
                      EntryFault, Reply, Accepted
  <2> QED
    BY <1>2, <2>2, <2>3, <2>4 DEF Submit
<1>3. ASSUME NEW d \in Submission,
             \/ InsertAppliedEvent(d) \/ ReplayAppliedEvent(d)
             \/ StoreFault(d) \/ Drop(d) \/ Undecodable(d)
      PROVE  Kept
  <2>1. PICK a \in Accepted \cup {"500"} : Finish(d, a)
    BY <1>3 DEF InsertAppliedEvent, ReplayAppliedEvent, StoreFault, Drop,
                Undecodable, Accepted
  <2> QED
    BY <1>1, <2>1 DEF GatewayTypeOK, Finish, Reply
<1>4. ASSUME NEW d \in Submission, Reject(d)
      PROVE  Kept
  BY <1>1, <1>4 DEF GatewayTypeOK, Reject, Finish, Reply
<1>5. ASSUME NEW d \in Submission, ConflictAppliedEvent(d)
      PROVE  Kept \/ Taken
  <2>1. payload' = payload /\ answer' = [answer EXCEPT ![d] = "409"]
    BY <1>5 DEF ConflictAppliedEvent, Finish, Reply
  <2>2. payload[d] \in Payload
    BY <1>1, <1>5, Statuses DEF GatewayTypeOK, ConflictAppliedEvent, Succeeded,
       Answered, LedgerInv, ClientInv, ClientTypeOK
  <2> QED
    BY <1>1, <1>5, <2>1, <2>2 DEF GatewayTypeOK, ConflictAppliedEvent
<1>6. ASSUME NEW d \in Submission,
             LoseContact(d) \/ ServerError(d) \/ Disconnect(d)
      PROVE  Kept
  BY <1>1, <1>6 DEF GatewayTypeOK, LoseContact, ServerError, AttemptFailed,
                    Disconnect, Reply
<1>7. ASSUME NEW d \in Submission, AccountServes(d) \/ AccountFails(d) \/ Retry(d)
      PROVE  Kept
  BY <1>7 DEF AccountServes, AccountFails, Retry, gatewayVars
<1>8. ASSUME NEW q, OrphanServed(q)
      PROVE  Kept
  BY <1>8 DEF OrphanServed, Unheard, gatewayVars
<1>9. CASE ClockTick \/ AccountRestart \/ UNCHANGED ledgerVars
  BY <1>9 DEF ClockTick, AccountRestart, ledgerVars, gatewayVars
<1>10. CASE GatewayRestart
  BY <1>1, <1>10 DEF GatewayRestart
<1> QED
  BY <1>2, <1>3, <1>4, <1>5, <1>6, <1>7, <1>8, <1>9, <1>10
     DEF LedgerNext, WriteStep, LocalFault, Resolve

\* So a refusal under way stays one of a blocked request, whatever the amounts.
LEMMA LinkKept ==
    ASSUME LedgerInv, LinkBlocked, [LedgerNext]_ledgerVars
    PROVE  LinkBlocked'
<1>1. ToSet(transactions) \subseteq ToSet(transactions')
  BY AccountPart
<1>2. ASSUME NEW c \in Submission, link'[c] \in Refused
      PROVE  Blocked(ToSet(transactions'), OnWire(payload'[c]))
  <2>1. /\ payload'[c] = payload[c]
        /\ \/ link[c] = link'[c]
           \/ /\ OnWire(payload[c]) \in WirePayload
              /\ Serve(OnWire(payload[c]), link'[c])
    BY <1>2, ExchangeStep
  <2>2. Blocked(ToSet(transactions), OnWire(payload[c]))
    BY <1>2, <2>1, ServeRefuses DEF LinkBlocked
  <2> QED
    BY <1>1, <2>1, <2>2, BlockedLasts
<1> QED
  BY <1>2 DEF LinkBlocked

\* And so does a refusal that was given.
LEMMA AnswerKept ==
    ASSUME RefusalInv, ExactAmounts, [LedgerNext]_ledgerVars
    PROVE  AnswerBlocked'
<1>1. /\ LedgerInv /\ LinkBlocked /\ AnswerBlocked
      /\ ToSet(transactions) \subseteq ToSet(transactions')
  BY AccountPart DEF RefusalInv
<1>2. ASSUME NEW c \in Submission, answer'[c] \in Refused
      PROVE  Blocked(ToSet(transactions'), OnWire(payload'[c]))
  <2>1. CASE /\ answer[c] \in Refused \/ link[c] \in Refused
             /\ payload'[c] = payload[c]
    BY <1>1, <2>1, BlockedLasts DEF LinkBlocked, AnswerBlocked
  <2>2. CASE /\ payload'[c] \in Payload
             /\ \E e \in Recorded(payload'[c].eventId) :
                   ~SameEvent(e, payload'[c])
    BY <1>1, <2>2, RecordedBlocks, BlockedLasts
  <2> QED
    BY <1>1, <1>2, <2>1, <2>2, RefusalStep
<1> QED
  BY <1>2 DEF AnswerBlocked

\* Nothing has been refused at the beginning.
LEMMA RefusalInitInv == LedgerInit => RefusalInv
<1> SUFFICES ASSUME LedgerInit
             PROVE  RefusalInv
  OBVIOUS
<1>1. RowsReached
  BY DEF LedgerInit, AccountInit, RowsReached, ToSet
<1>2. LinkBlocked /\ AnswerBlocked
  BY DEF LedgerInit, LinkBlocked, AnswerBlocked, Refused
<1> QED
  BY <1>1, <1>2, LedgerInitInv DEF RefusalInv

\* With amounts that survive the hop, a 4xx stands for ever: no retry, request
\* served late or later submission applies what was refused.
THEOREM RefusalFinal ==
    ASSUME ExactAmounts
    PROVE  LedgerSpec => []RejectionIsFinal
<1>1. RefusalInv /\ [LedgerNext]_ledgerVars => RefusalInv'
  BY LedgerStep, ReachedKept, LinkKept, AnswerKept DEF RefusalInv
<1>2. RefusalInv => RejectionIsFinal
  BY BlockedIsNoRow DEF RefusalInv, LedgerInv, AnswerBlocked,
     RejectionIsFinal
<1> QED
  BY <1>1, <1>2, RefusalInitInv, PTL DEF LedgerSpec

\* Under the same hypothesis both services store the same facts of an event: the
\* disagreement that ledger_amounts shows has no other cause.
THEOREM ExactHistoryMatches ==
    ASSUME ExactAmounts
    PROVE  LedgerSpec => []HistoryMatchesLedger
<1>1. LedgerInv => HistoryMatchesLedger
  BY DEF LedgerInv, GatewayTypeOK, HistoryBacked, HistoryMatchesLedger,
         ExactAmounts, ToSet
<1> QED
  BY <1>1, LedgerInvariant, PTL

-----------------------------------------------------------------------------
\* The verdicts submitters have been given.
Told == [c \in Submission |-> VerdictOf(answer[c])]

\* A refusal under way has a reason, which the promise demands to be permanent.
PromiseInv == LedgerInv /\ LinkBlocked

-----------------------------------------------------------------------------
(* Verdicts.                                                               *)

LEMMA Verdicts ==
    /\ \A a \in Accepted : VerdictOf(a) = "accepted"
    /\ \A a \in Refused : VerdictOf(a) = "refused"
    /\ \A a \in Unresolved : VerdictOf(a) = "unknown"
    /\ VerdictOf("pending") = "pending" /\ VerdictOf("none") = "none"
BY DEF VerdictOf, Accepted, Refused, Unresolved

\* A handler is at work exactly while its submitter has no verdict.
LEMMA PendingTold ==
    ASSUME GatewayTypeOK, NEW c \in Submission
    PROVE  Told[c] = "pending" <=> answer[c] = "pending"
BY Verdicts DEF Told, GatewayTypeOK

\* An answer changes one verdict.
LEMMA ToldOne ==
    ASSUME GatewayTypeOK, NEW c \in Submission, NEW a, Reply(c, a)
    PROVE  Told' = [Told EXCEPT ![c] = VerdictOf(a)]
BY DEF GatewayTypeOK, Reply, Told

LEMMA ToldNothing ==
    ASSUME UNCHANGED answer
    PROVE  UNCHANGED Told
BY DEF Told

-----------------------------------------------------------------------------
(* The parts of the promise, in terms of the tables.                       *)

\* An event that is in the history, or one with its facts, may be confirmed.
LEMMA RecordedJustifies ==
    ASSUME LedgerInv, NEW p \in Payload,
           \E e \in Recorded(p.eventId) : SameEvent(e, p)
    PROVE  Promise!Justified(p, "accepted")
<1>1. PICK e \in ToSet(events) : SameEvent(e, p)
  BY DEF Recorded
<1>2. e \in Payload
  BY DEF LedgerInv, GatewayTypeOK, ToSet
<1>3. e = p
  BY <1>1, <1>2, WireTyped, SameEventIsEqual
<1>4. OnWire(p) \in ToSet(transactions)
  BY <1>1, <1>3 DEF LedgerInv, HistoryBacked
<1> QED
  BY <1>1, <1>3, <1>4 DEF Promise!Justified, Promise!OnWire, OnWire

\* One whose event id is recorded for another event may be refused.
LEMMA ConflictJustifies ==
    ASSUME NEW p \in Payload, \E e \in Recorded(p.eventId) : ~SameEvent(e, p)
    PROVE  Promise!Justified(p, "refused")
<1>1. PICK e \in ToSet(events) : e.eventId = p.eventId /\ ~SameEvent(e, p)
  BY DEF Recorded
<1>2. e # p
  BY <1>1 DEF SameEvent
<1> QED
  BY <1>1, <1>2 DEF Promise!Justified, Promise!Refusable

\* So may one that the Account Service has refused.
LEMMA BlockedJustifies ==
    ASSUME NEW p \in Payload, Blocked(ToSet(transactions), OnWire(p))
    PROVE  Promise!Justified(p, "refused")
<1>1. /\ OnWire(p).eventId = p.eventId
      /\ OnWire(p).accountId = p.accountId
      /\ OnWire(p).currency = p.currency
  BY WireTyped DEF OnWire, EventPayload
<1>2. Promise!Refusable(p)
  BY <1>1 DEF Blocked, Target, Promise!Refusable, Promise!OnWire, OnWire,
              Promise!Valid, Valid
<1> QED
  BY <1>2 DEF Promise!Justified

LEMMA UnknownJustified == \A p : Promise!Justified(p, "unknown")
BY DEF Promise!Justified

-----------------------------------------------------------------------------
(* Each action of the system is one of the promise.                        *)

\* What a step that is invisible to submitters leaves alone.
Unseen == UNCHANGED <<transactions, events, payload, answer>>

LEMMA UnseenStutters == Unseen => UNCHANGED Promise!promiseVars
BY DEF Unseen, Promise!promiseVars, VerdictOf

\* Entering the handler asks, and may be answered at once.
LEMMA SubmitAsks ==
    ASSUME LedgerInv, NEW c \in Submission, NEW p \in Payload,
           Submit(c, p) \/ EntryFault(c, p)
    PROVE  Promise!Ask(c, p)
<1>1. GatewayTypeOK
  BY DEF LedgerInv
<1>2. /\ answer[c] # "pending"
      /\ payload' = [payload EXCEPT ![c] = p]
      /\ UNCHANGED <<transactions, events>>
  BY DEF Submit, ReplayKnown, ConflictKnown, FailFast, Forward, RaiseUnsent,
         EntryFault, Receive, accountVars
<1>3. Told[c] # "pending"
  BY <1>1, <1>2, PendingTold
<1>4. \E v \in {"pending", "unknown", "accepted", "refused"} :
        /\ v = "pending" \/ Promise!Justified(p, v)
        /\ Told' = [Told EXCEPT ![c] = v]
  <2>1. CASE ReplayKnown(c, p)
    <3>1. Told' = [Told EXCEPT ![c] = "accepted"]
      BY <1>1, <2>1, ToldOne, Verdicts DEF ReplayKnown, Accepted
    <3>2. Promise!Justified(p, "accepted")
      BY <2>1, RecordedJustifies DEF ReplayKnown
    <3> QED
      BY <3>1, <3>2
  <2>2. CASE ConflictKnown(c, p)
    <3>1. Told' = [Told EXCEPT ![c] = "refused"]
      BY <1>1, <2>2, ToldOne, Verdicts DEF ConflictKnown, Refused
    <3>2. Promise!Justified(p, "refused")
      BY <2>2, ConflictJustifies DEF ConflictKnown
    <3> QED
      BY <3>1, <3>2
  <2>3. CASE FailFast(c, p)
    <3>1. Told' = [Told EXCEPT ![c] = "unknown"]
      BY <1>1, <2>3, ToldOne, Verdicts DEF FailFast, Unresolved
    <3> QED
      BY <3>1, UnknownJustified
  <2>4. CASE Forward(c, p)
    BY <1>1, <2>4, ToldOne, Verdicts DEF Forward
  <2>5. CASE RaiseUnsent(c, p) \/ EntryFault(c, p)
    <3>1. Told' = [Told EXCEPT ![c] = "unknown"]
      BY <1>1, <2>5, ToldOne, Verdicts DEF RaiseUnsent, EntryFault, Unresolved
    <3> QED
      BY <3>1, UnknownJustified
  <2> QED
    BY <2>1, <2>2, <2>3, <2>4, <2>5 DEF Submit
<1> QED
  BY <1>2, <1>3, <1>4 DEF Told, Promise!Ask

\* A handler that ends without touching the history answers.
LEMMA EndAnswers ==
    ASSUME GatewayTypeOK, NEW c \in Submission, answer[c] = "pending",
           NEW a, Reply(c, a), UNCHANGED <<transactions, events, payload>>,
           VerdictOf(a) \in {"unknown", "accepted", "refused"},
           Promise!Justified(payload[c], VerdictOf(a))
    PROVE  Promise!Answer(c)
<1>1. Told[c] = "pending" /\ Told' = [Told EXCEPT ![c] = VerdictOf(a)]
  BY PendingTold, ToldOne
<1> QED
  BY <1>1 DEF Told, Promise!Answer

\* One that extends the history publishes.
LEMMA EndPublishes ==
    ASSUME LedgerInv, NEW c \in Submission, answer[c] = "pending",
           NEW a, Reply(c, a), VerdictOf(a) \in {"unknown", "accepted"},
           link[c] \in Accepted, Recorded(payload[c].eventId) = {},
           events' = Append(events, payload[c]),
           payload[c] \in Payload,
           UNCHANGED <<transactions, payload>>
    PROVE  Promise!Publish(c)
<1>1. GatewayTypeOK
  BY DEF LedgerInv
<1>2. Told[c] = "pending" /\ Told' = [Told EXCEPT ![c] = VerdictOf(a)]
  BY <1>1, PendingTold, ToldOne
<1>3. OnWire(payload[c]) \in ToSet(transactions)
  BY DEF LedgerInv, SuccessBacked
<1>4. ToSet(events') = ToSet(events) \cup {payload[c]}
  BY <1>1, AppendFacts DEF GatewayTypeOK
<1>5. \A e \in ToSet(events) : e.eventId # payload[c].eventId
  BY DEF Recorded
<1> QED
  BY <1>2, <1>3, <1>4, <1>5 DEF Told, Promise!Publish, Promise!OnWire, OnWire

\* A row is added under a fresh event id, in the currency of its account.
LEMMA ServedApplies ==
    ASSUME AccountInv, NEW q \in WirePayload, Served(q),
           UNCHANGED <<events, payload, answer>>
    PROVE  [Promise!PromiseNext]_(Promise!promiseVars)
<1>1. CASE UNCHANGED transactions
  BY <1>1, UnseenStutters DEF Unseen
<1>2. CASE InsertTransaction(Target(q), q, "201")
  <2> DEFINE Row == {p \in WirePayload : Valid(p)}
  <2>1. transactions \in Seq(Row) /\ q \in Row
    BY <1>2 DEF AccountInv, AccountTypeOK, InsertTransaction, Reached
  <2>2. transactions' = Append(transactions, q)
    BY <1>2 DEF InsertTransaction
  <2>3. ToSet(transactions') = ToSet(transactions) \cup {q}
    <3> HIDE DEF Row
    <3> QED  BY <2>1, <2>2, AppendFacts
  <2>4. \A t \in ToSet(transactions) : t.eventId # q.eventId
    BY <1>2 DEF InsertTransaction, GetTransaction
  <2>5. \A t \in ToSet(transactions) :
            t.accountId = q.accountId => t.currency = q.currency
    BY <1>2 DEF InsertTransaction, AccountCurrencyAllows, AccountRows,
                AccountInv, SingleCurrency
  <2>6. Route[q.accountId] = q.accountId
    BY <1>2 DEF InsertTransaction, Reached, Target
  <2>7. Promise!Apply(q)
    BY <2>1, <2>3, <2>4, <2>5, <2>6, ToldNothing
       DEF Told, Valid, Promise!Apply, Promise!Valid, Promise!Compatible
  <2>8. q \in Promise!WirePayload
    BY DEF WirePayload, OnWire, Promise!WirePayload, Promise!OnWire
  <2> QED
    BY <2>7, <2>8 DEF Promise!PromiseNext
<1> QED
  BY <1>1, <1>2 DEF Served

\* The end of a handler.
LEMMA FinishMapped ==
    ASSUME PromiseInv, NEW c \in Submission,
           \/ Reject(c) \/ InsertAppliedEvent(c) \/ ReplayAppliedEvent(c)
           \/ ConflictAppliedEvent(c) \/ StoreFault(c) \/ Drop(c)
           \/ Disconnect(c) \/ Undecodable(c)
    PROVE  Promise!Publish(c) \/ Promise!Answer(c)
<1>1. /\ LedgerInv /\ LinkBlocked /\ GatewayTypeOK
      /\ phase[c] = "waiting"
  BY DEF PromiseInv, LedgerInv, Reject, InsertAppliedEvent, ReplayAppliedEvent,
         ConflictAppliedEvent, StoreFault, Drop, Disconnect, Undecodable,
         Succeeded, Answered, Escape
<1>2. /\ answer[c] = "pending" /\ payload[c] \in Payload
      /\ UNCHANGED <<transactions, payload>>
  <2>1. answer[c] = "pending" /\ payload[c] # NoPayload
    BY <1>1 DEF GatewayTypeOK
  <2>2. UNCHANGED <<transactions, payload>>
    BY DEF Reject, InsertAppliedEvent, ReplayAppliedEvent, ConflictAppliedEvent,
           StoreFault, Drop, Disconnect, Undecodable, Finish, accountVars
  <2> QED
    BY <1>1, <2>1, <2>2 DEF GatewayTypeOK
<1>3. CASE Reject(c)
  <2>1. /\ link[c] \in Refused /\ Reply(c, link[c]) /\ UNCHANGED events
    BY <1>3 DEF Reject, Finish
  <2>2. VerdictOf(link[c]) = "refused" /\ Promise!Justified(payload[c], "refused")
    BY <1>1, <1>2, <2>1, Verdicts, BlockedJustifies DEF LinkBlocked
  <2> QED
    BY <1>1, <1>2, <2>1, <2>2, EndAnswers
<1>4. CASE InsertAppliedEvent(c)
  <2>1. /\ Reply(c, "201") /\ link[c] \in Accepted
        /\ Recorded(payload[c].eventId) = {}
        /\ events' = Append(events, payload[c])
    BY <1>4 DEF InsertAppliedEvent, Succeeded, Finish
  <2>2. VerdictOf("201") = "accepted"
    BY Verdicts DEF Accepted
  <2> QED
    BY <1>1, <1>2, <2>1, <2>2, EndPublishes
<1>5. CASE ReplayAppliedEvent(c)
  <2>1. /\ Reply(c, "200") /\ UNCHANGED events
        /\ Promise!Justified(payload[c], "accepted")
    BY <1>1, <1>2, <1>5, RecordedJustifies DEF ReplayAppliedEvent, Finish
  <2>2. VerdictOf("200") = "accepted"
    BY Verdicts DEF Accepted
  <2> QED
    BY <1>1, <1>2, <2>1, <2>2, EndAnswers
<1>6. CASE ConflictAppliedEvent(c)
  <2>1. /\ Reply(c, "409") /\ UNCHANGED events
        /\ Promise!Justified(payload[c], "refused")
    BY <1>1, <1>2, <1>6, ConflictJustifies DEF ConflictAppliedEvent, Finish
  <2>2. VerdictOf("409") = "refused"
    BY Verdicts DEF Refused
  <2> QED
    BY <1>1, <1>2, <2>1, <2>2, EndAnswers
<1>7. VerdictOf("500") = "unknown"
  BY Verdicts DEF Unresolved
<1>8. CASE StoreFault(c)
  <2>1. Reply(c, "500") /\ link[c] \in Accepted
    BY <1>8 DEF StoreFault, Succeeded, Finish
  <2>2. CASE UNCHANGED events
    BY <1>1, <1>2, <1>7, <2>1, <2>2, EndAnswers, UnknownJustified
  <2>3. CASE /\ Recorded(payload[c].eventId) = {}
             /\ events' = Append(events, payload[c])
    BY <1>1, <1>2, <1>7, <2>1, <2>3, EndPublishes
  <2> QED
    BY <1>8, <2>2, <2>3 DEF StoreFault
<1>9. CASE Drop(c) \/ Disconnect(c) \/ Undecodable(c)
  <2>1. Reply(c, "500") /\ UNCHANGED events
    BY <1>9 DEF Drop, Disconnect, Undecodable, Finish
  <2> QED
    BY <1>1, <1>2, <1>7, <2>1, EndAnswers, UnknownJustified
<1> QED
  BY <1>3, <1>4, <1>5, <1>6, <1>8, <1>9

\* An attempt that fails is invisible, or ends in a 503 that promises nothing.
LEMMA AttemptMapped ==
    ASSUME LedgerInv, NEW c \in Submission, AttemptFailed(c)
    PROVE  UNCHANGED Promise!promiseVars \/ Promise!Answer(c)
<1>1. UNCHANGED <<transactions, events, payload>>
  BY DEF AttemptFailed, accountVars
<1>2. CASE UNCHANGED answer
  BY <1>1, <1>2, UnseenStutters DEF Unseen
<1>3. CASE Exhaust(c) /\ Reply(c, "503")
  <2>1. GatewayTypeOK /\ phase[c] = "waiting"
    BY <1>3 DEF LedgerInv, Exhaust
  <2>2. answer[c] = "pending"
    BY <2>1 DEF GatewayTypeOK
  <2>3. VerdictOf("503") = "unknown"
    BY Verdicts DEF Unresolved
  <2> QED
    BY <1>1, <1>3, <2>1, <2>2, <2>3, EndAnswers, UnknownJustified
<1> QED
  BY <1>2, <1>3 DEF AttemptFailed

\* A restart of the Gateway cuts off the submissions in progress.
LEMMA RestartForgets ==
    ASSUME GatewayTypeOK, GatewayRestart
    PROVE  Promise!Forget
<1>1. UNCHANGED <<transactions, events, payload>>
  BY DEF GatewayRestart, accountVars
<1>2. \A c \in Submission :
        answer'[c] = IF answer[c] = "pending" THEN "lost" ELSE answer[c]
  BY DEF GatewayRestart
<1>3. VerdictOf("lost") = "unknown"
  BY Verdicts DEF Unresolved
<1>4. Told' = [c \in Submission |->
                  IF Told[c] = "pending" THEN "unknown" ELSE Told[c]]
  <2>1. \A c \in Submission :
            Told'[c] = IF Told[c] = "pending" THEN "unknown" ELSE Told[c]
    BY <1>2, <1>3, PendingTold DEF Told
  <2> QED
    BY <2>1 DEF Told
<1> QED
  BY <1>1, <1>4 DEF Told, Promise!Forget

-----------------------------------------------------------------------------
\* Every step of the system is one of the promise.
LEMMA PromiseStep ==
    ASSUME PromiseInv, [LedgerNext]_ledgerVars
    PROVE  [Promise!PromiseNext]_(Promise!promiseVars)
<1>1. LedgerInv
  BY DEF PromiseInv
<1>2. ASSUME NEW c \in Submission, NEW p \in Payload,
             Submit(c, p) \/ EntryFault(c, p)
      PROVE  Promise!PromiseNext
  BY <1>1, <1>2, SubmitAsks DEF Promise!PromiseNext
<1>3. ASSUME NEW c \in Submission, AccountServes(c) \/ AccountFails(c)
      PROVE  [Promise!PromiseNext]_(Promise!promiseVars)
  <2>1. OnWire(payload[c]) \in WirePayload
    BY <1>1, <1>3, WireTyped DEF AccountServes, AccountFails, LedgerInv,
                                 GatewayTypeOK, ClientInv, ClientTypeOK
  <2>2. Served(OnWire(payload[c])) /\ UNCHANGED <<events, payload, answer>>
    BY <1>3, ServeOrBreak DEF AccountServes, AccountFails, gatewayVars
  <2> QED
    BY <1>1, <2>1, <2>2, ServedApplies DEF LedgerInv
<1>4. ASSUME NEW q \in orphans, OrphanServed(q)
      PROVE  [Promise!PromiseNext]_(Promise!promiseVars)
  <2>1. q \in WirePayload
    BY <1>1 DEF LedgerInv, GatewayTypeOK
  <2>2. Served(q) /\ UNCHANGED <<events, payload, answer>>
    BY <1>4, ServeOrBreak DEF OrphanServed, Unheard, gatewayVars
  <2> QED
    BY <1>1, <2>1, <2>2, ServedApplies DEF LedgerInv
<1>5. ASSUME NEW c \in Submission,
             \/ Reject(c) \/ InsertAppliedEvent(c) \/ ReplayAppliedEvent(c)
             \/ ConflictAppliedEvent(c) \/ StoreFault(c) \/ Drop(c)
             \/ Disconnect(c) \/ Undecodable(c)
      PROVE  Promise!PromiseNext
  BY <1>5, FinishMapped DEF Promise!PromiseNext
<1>6. ASSUME NEW c \in Submission, LoseContact(c) \/ ServerError(c)
      PROVE  [Promise!PromiseNext]_(Promise!promiseVars)
  <2>1. AttemptFailed(c)
    BY <1>6 DEF LoseContact, ServerError
  <2> QED
    BY <1>1, <2>1, AttemptMapped DEF Promise!PromiseNext
<1>7. CASE \/ \E c \in Submission : Retry(c)
           \/ ClockTick \/ AccountRestart \/ UNCHANGED ledgerVars
  <2>1. Unseen
    BY <1>7 DEF Retry, ClockTick, AccountRestart, ledgerVars, gatewayVars,
                accountVars, Unseen
  <2> QED
    BY <2>1, UnseenStutters
<1>8. CASE GatewayRestart
  BY <1>1, <1>8, RestartForgets DEF LedgerInv, Promise!PromiseNext
<1> QED
  BY <1>2, <1>3, <1>4, <1>5, <1>6, <1>7, <1>8
     DEF LedgerNext, WriteStep, LocalFault, Resolve

LEMMA PromiseInitMapped == LedgerInit => Promise!PromiseInit
BY Verdicts DEF LedgerInit, AccountInit, ToSet, Promise!PromiseInit

\* ADR 006 and the README's "safe retries", as one abstract specification: for
\* any payloads, roundings and account ids, and through every loss, retry, late
\* request and restart, a submitter is never told more than what is stored, and
\* no event is applied or published twice.
THEOREM LedgerKeepsPromise == LedgerSpec => KeepsPromise
<1>1. LedgerInit => PromiseInv
  BY LedgerInitInv DEF LedgerInit, PromiseInv, LinkBlocked, Refused
<1>2. PromiseInv /\ [LedgerNext]_ledgerVars => PromiseInv'
  BY LedgerStep, LinkKept DEF PromiseInv
<1> QED
  BY <1>1, <1>2, PromiseStep, PromiseInitMapped, PTL
     DEF LedgerSpec, KeepsPromise, Promise!PromiseSpec
-----------------------------------------------------------------------------
(* What the promise amounts to.                                            *)

\* The inductive invariant of LedgerPromise: a verdict rests on the tables, and
\* the tables only grow.
TruthInv ==
    /\ Promise!PromiseTypeOK
    /\ Promise!TablesAgree
    /\ Promise!VerdictsHold

LEMMA PromiseWire ==
    ASSUME NEW p \in Payload
    PROVE  /\ Promise!OnWire(p) \in Promise!WirePayload
           /\ Promise!OnWire(p).eventId = p.eventId
           /\ Promise!OnWire(p).accountId = p.accountId
           /\ Promise!OnWire(p).currency = p.currency
<1>1. Promise!OnWire(p) \in Promise!WirePayload
  BY DEF Promise!WirePayload
<1> QED
  BY <1>1, WireTyped DEF Promise!OnWire, EventPayload

\* What justifies a verdict lasts as the tables grow.
LEMMA JustifiedLasts ==
    ASSUME ToSet(transactions) \subseteq ToSet(transactions'),
           ToSet(events) \subseteq ToSet(events'),
           NEW p, NEW v, Promise!Justified(p, v)
    PROVE  Promise!Justified(p, v)'
BY DEF Promise!Justified, Promise!Refusable

LEMMA TruthInitInv == Promise!PromiseInit => TruthInv
BY DEF Promise!PromiseInit, TruthInv, Promise!PromiseTypeOK, Promise!TablesAgree,
       Promise!VerdictsHold

\* A step that gives one submission a new verdict, and takes no row away.
LEMMA VerdictGiven ==
    ASSUME Promise!VerdictsHold,
           ToSet(transactions) \subseteq ToSet(transactions'),
           ToSet(events) \subseteq ToSet(events'),
           NEW s \in Submission,
           \A d \in Submission \ {s} : payload'[d] = payload[d] /\ Told'[d] = Told[d],
           Told'[s] \in {"accepted", "refused"} =>
               Promise!Justified(payload[s], Told[s])'
    PROVE  Promise!VerdictsHold'
<1>1. ASSUME NEW d \in Submission, Told'[d] \in {"accepted", "refused"}
      PROVE  Promise!Justified(payload[d], Told[d])'
  <2>1. CASE d = s
    BY <1>1, <2>1
  <2>2. CASE d # s
    <3>1. payload'[d] = payload[d] /\ Told'[d] = Told[d]
      BY <2>2
    <3>2. Promise!Justified(payload[d], Told[d])
      BY <1>1, <3>1 DEF Promise!VerdictsHold, Told
    <3> QED
      BY <3>1, <3>2, JustifiedLasts DEF Promise!Justified, Promise!Refusable
  <2> QED
    BY <2>1, <2>2
<1> QED
  BY <1>1 DEF Promise!VerdictsHold, Told

\* A submission may be answered at once.
LEMMA AskTruth ==
    ASSUME TruthInv, NEW s \in Submission, NEW p \in Payload, Promise!Ask(s, p)
    PROVE  TruthInv'
<1>1. UNCHANGED <<ToSet(transactions), ToSet(events)>>
  BY DEF Promise!Ask
<1>2. PICK v \in {"pending", "unknown", "accepted", "refused"} :
        /\ v = "pending" \/ Promise!Justified(p, v)
        /\ Told' = [Told EXCEPT ![s] = v]
  BY DEF Promise!Ask, Told
<1>3. /\ payload' = [payload EXCEPT ![s] = p]
      /\ DOMAIN payload = Submission /\ DOMAIN Told = Submission
  BY DEF Promise!Ask, TruthInv, Promise!PromiseTypeOK, Told
<1>4. Promise!PromiseTypeOK'
  BY <1>1, <1>2, <1>3 DEF TruthInv, Promise!PromiseTypeOK, Told
<1>5. Promise!TablesAgree'
  BY <1>1 DEF TruthInv, Promise!TablesAgree
<1>6. Told'[s] \in {"accepted", "refused"} => Promise!Justified(payload[s], Told[s])'
  <2>1. payload'[s] = p /\ Told'[s] = v
    BY <1>2, <1>3
  <2> QED
    BY <1>1, <1>2, <2>1 DEF Promise!Justified, Promise!Refusable
<1>7. Promise!VerdictsHold'
  BY <1>1, <1>2, <1>3, <1>6, VerdictGiven DEF TruthInv
<1> QED
  BY <1>4, <1>5, <1>7 DEF TruthInv

\* An answer in the end, whether or not it publishes the event.
LEMMA AnswerTruth ==
    ASSUME TruthInv, NEW s \in Submission, Promise!Answer(s)
    PROVE  TruthInv'
<1>1. UNCHANGED <<ToSet(transactions), ToSet(events), payload>>
  BY DEF Promise!Answer
<1>2. PICK v \in {"unknown", "accepted", "refused"} :
        /\ Promise!Justified(payload[s], v)
        /\ Told' = [Told EXCEPT ![s] = v]
  BY DEF Promise!Answer, Told
<1>3. Told[s] = "pending" /\ DOMAIN Told = Submission
  BY DEF Promise!Answer, Told
<1>4. Promise!PromiseTypeOK'
  BY <1>1, <1>2, <1>3 DEF TruthInv, Promise!PromiseTypeOK, Told
<1>5. Promise!TablesAgree'
  BY <1>1 DEF TruthInv, Promise!TablesAgree
<1>6. Told'[s] \in {"accepted", "refused"} => Promise!Justified(payload[s], Told[s])'
  BY <1>1, <1>2, <1>3 DEF Promise!Justified, Promise!Refusable
<1>7. Promise!VerdictsHold'
  BY <1>1, <1>2, <1>3, <1>6, VerdictGiven DEF TruthInv
<1> QED
  BY <1>4, <1>5, <1>7 DEF TruthInv

LEMMA PublishTruth ==
    ASSUME TruthInv, NEW s \in Submission, Promise!Publish(s)
    PROVE  TruthInv'
<1>1. /\ UNCHANGED <<ToSet(transactions), payload>>
      /\ ToSet(events') = ToSet(events) \cup {payload[s]}
      /\ Promise!OnWire(payload[s]) \in ToSet(transactions)
      /\ \A e \in ToSet(events) : e.eventId # payload[s].eventId
  BY DEF Promise!Publish
<1>2. PICK v \in {"accepted", "unknown"} : Told' = [Told EXCEPT ![s] = v]
  BY DEF Promise!Publish, Told
<1>3. Told[s] = "pending" /\ DOMAIN Told = Submission
  BY DEF Promise!Publish, Told
<1>4. Promise!PromiseTypeOK'
  BY <1>1, <1>2, <1>3 DEF TruthInv, Promise!PromiseTypeOK, Told
<1>5. Promise!TablesAgree'
  BY <1>1 DEF TruthInv, Promise!TablesAgree
<1>6. Told'[s] \in {"accepted", "refused"} => Promise!Justified(payload[s], Told[s])'
  BY <1>1, <1>2, <1>3 DEF Promise!Justified
<1>7. Promise!VerdictsHold'
  BY <1>1, <1>2, <1>3, <1>6, VerdictGiven DEF TruthInv
<1> QED
  BY <1>4, <1>5, <1>7 DEF TruthInv

LEMMA ApplyTruth ==
    ASSUME TruthInv, NEW q \in Promise!WirePayload, Promise!Apply(q)
    PROVE  TruthInv'
<1>1. /\ ToSet(transactions') = ToSet(transactions) \cup {q}
      /\ UNCHANGED <<ToSet(events), payload, Told>>
  BY DEF Promise!Apply, Told
<1>2. Promise!PromiseTypeOK'
  BY <1>1 DEF TruthInv, Promise!PromiseTypeOK, Told
<1>3. Promise!TablesAgree'
  BY <1>1 DEF TruthInv, Promise!TablesAgree, Promise!Apply, Promise!Compatible
<1>4. Promise!VerdictsHold'
  BY <1>1, JustifiedLasts DEF TruthInv, Promise!VerdictsHold, Told
<1> QED
  BY <1>2, <1>3, <1>4 DEF TruthInv

\* A submission cut off has no verdict any more.
LEMMA ForgetTruth ==
    ASSUME TruthInv, Promise!Forget
    PROVE  TruthInv'
<1>1. /\ UNCHANGED <<ToSet(transactions), ToSet(events), payload>>
      /\ Told' = [s \in Submission |->
                    IF Told[s] = "pending" THEN "unknown" ELSE Told[s]]
  BY DEF Promise!Forget, Told
<1>2. Promise!PromiseTypeOK'
  BY <1>1 DEF TruthInv, Promise!PromiseTypeOK, Told
<1>3. Promise!TablesAgree'
  BY <1>1 DEF TruthInv, Promise!TablesAgree
<1>4. Promise!VerdictsHold'
  BY <1>1, JustifiedLasts DEF TruthInv, Promise!VerdictsHold, Told
<1> QED
  BY <1>2, <1>3, <1>4 DEF TruthInv

LEMMA TruthStep ==
    ASSUME TruthInv, [Promise!PromiseNext]_(Promise!promiseVars)
    PROVE  TruthInv'
<1>1. CASE UNCHANGED Promise!promiseVars
  BY <1>1 DEF TruthInv, Promise!promiseVars, Promise!PromiseTypeOK,
     Promise!TablesAgree, Promise!VerdictsHold, Promise!Justified, Promise!Refusable
<1> QED
  BY <1>1, AskTruth, AnswerTruth, PublishTruth, ApplyTruth, ForgetTruth
     DEF Promise!PromiseNext

\* Two submissions of one event cannot be told the opposite: whatever justifies
\* that it is accepted excludes each of the reasons to refuse it.
LEMMA TruthAgrees == TruthInv => Promise!VerdictsAgree
<1> SUFFICES ASSUME TruthInv, NEW r \in Submission, NEW s \in Submission,
                    payload[r] = payload[s],
                    Told[r] = "accepted", Told[s] = "refused"
             PROVE  FALSE
  BY DEF Promise!VerdictsAgree, Told
<1> DEFINE p == payload[s]
           q == Promise!OnWire(p)
<1>1. p \in ToSet(events) /\ q \in ToSet(transactions) /\ Promise!Refusable(p)
  BY DEF TruthInv, Promise!VerdictsHold, Promise!Justified, Told
<1>2. p \in Payload
  BY <1>1 DEF TruthInv, Promise!PromiseTypeOK
<1>3. /\ q.eventId = p.eventId /\ q.accountId = p.accountId
      /\ q.currency = p.currency
  BY <1>2, PromiseWire
<1> HIDE DEF p, q
<1> QED
  BY <1>1, <1>3 DEF TruthInv, Promise!TablesAgree, Promise!Refusable, q

\* The promise is worth having: its tables agree, its verdicts stay true, and
\* no two of them contradict each other.
THEOREM PromiseIsWorthKeeping ==
    KeepsPromise => [](/\ Promise!TablesAgree
                       /\ Promise!VerdictsHold
                       /\ Promise!VerdictsAgree)
<1>1. TruthInv => /\ Promise!TablesAgree
                  /\ Promise!VerdictsHold
                  /\ Promise!VerdictsAgree
  BY TruthAgrees DEF TruthInv
<1> QED
  BY <1>1, TruthInitInv, TruthStep, PTL DEF KeepsPromise, Promise!PromiseSpec

\* So no submitter of an event is told that it is accepted and another one, or
\* the same one later, that it is refused: not while the lookups are stale, not
\* with amounts the hop merges, not across restarts.
THEOREM NoContradiction == LedgerSpec => []AnswersAgree
<1>1. Promise!VerdictsAgree => AnswersAgree
  BY Verdicts DEF Promise!VerdictsAgree, AnswersAgree
<1> QED
  BY <1>1, LedgerKeepsPromise, PromiseIsWorthKeeping, PTL
=============================================================================
