------------------------- MODULE EventLedgerProofs -------------------------
(***************************************************************************)
(* What the write path guarantees for any number of concurrent handlers,   *)
(* any payloads, any rounding of amounts by the hop, any breaker settings, *)
(* and any loss, delay, restart or fault of EventLedger.                   *)
(***************************************************************************)
EXTENDS EventLedger, AccountServiceProofs, AccountClientProofs

\* Handlers are calls of the client, whose invariant ranges over all calls.
USE SubmissionAssumption

\* A response of success under way carries a transaction that is in the table.
\* Without it nothing links the answer of the Account Service, at the time it
\* was given, with what the Gateway later makes of it.
SuccessBacked ==
    \A c \in Submission : link[c] \in Accepted =>
        OnWire(payload[c]) \in ToSet(transactions)

\* The inductive invariant of the write path.
LedgerInv ==
    /\ AccountInv
    /\ ClientInv
    /\ GatewayTypeOK
    /\ SuccessBacked
    /\ OneRecordPerEventId
    /\ HistoryBacked
    /\ AcceptedIsDurable

-----------------------------------------------------------------------------
(* Payloads.                                                               *)

\* Events with the same business facts are the same event: _same_event compares
\* every field there is.
LEMMA SameEventIsEqual ==
    ASSUME NEW x \in EventPayload, NEW y \in EventPayload, SameEvent(x, y)
    PROVE  x = y
BY DEF EventPayload, SameEvent

\* The hop turns payloads into payloads.
LEMMA WireTyped ==
    /\ Payload \subseteq EventPayload
    /\ \A p \in Payload : OnWire(p) \in WirePayload
    /\ WirePayload \subseteq EventPayload
<1>1. Payload \subseteq EventPayload
  BY PayloadAssumption
<1>2. \A p \in Payload : OnWire(p) \in WirePayload
  BY DEF WirePayload
<1>3. \A p \in EventPayload : OnWire(p) \in EventPayload
  BY AmountAssumption DEF OnWire, EventPayload
<1> QED
  BY <1>1, <1>2, <1>3 DEF WirePayload

-----------------------------------------------------------------------------
(* The two components inside the composition.                              *)

\* What a request does to the table of the Account Service.
Served(q) == \/ UNCHANGED transactions
             \/ InsertTransaction(Target(q), q, "201")

LEMMA ServeOrBreak ==
    ASSUME NEW q, NEW status, Serve(q, status) \/ Break(q)
    PROVE  Served(q)
BY InsertOrStutter DEF Serve, Break, Served

\* A served request preserves the table invariant and loses no row.
LEMMA ServedKeepsInv ==
    ASSUME AccountInv, NEW q \in WirePayload, Served(q)
    PROVE  /\ AccountInv'
           /\ ToSet(transactions) \subseteq ToSet(transactions')
<1>1. CASE UNCHANGED transactions
  BY <1>1 DEF AccountInv, AccountTypeOK, EventAppliedOnce, SingleCurrency
<1>2. CASE InsertTransaction(Target(q), q, "201")
  <2> DEFINE Row == {p \in WirePayload : Valid(p)}
  <2>1. transactions \in Seq(Row) /\ q \in Row
    BY <1>2 DEF AccountInv, AccountTypeOK, InsertTransaction, Reached
  <2>2. transactions' = Append(transactions, q)
    BY <1>2 DEF InsertTransaction
  <2>3. ToSet(transactions) \subseteq ToSet(transactions')
    <3> HIDE DEF Row
    <3> QED  BY <2>1, <2>2, AppendFacts
  <2> QED
    BY <1>2, <2>3, InsertKeepsInv
<1> QED
  BY <1>1, <1>2 DEF Served

\* Whatever a step of the system is, it serves at most one request.
LEMMA AtMostOneServed ==
    ASSUME LedgerInv, [LedgerNext]_ledgerVars
    PROVE  UNCHANGED transactions \/ \E q \in WirePayload : Served(q)
<1>1. ASSUME NEW c \in Submission, AccountServes(c) \/ AccountFails(c)
      PROVE  \E q \in WirePayload : Served(q)
  <2>1. OnWire(payload[c]) \in WirePayload
    BY <1>1, WireTyped DEF AccountServes, AccountFails, LedgerInv, GatewayTypeOK,
                           ClientInv, ClientTypeOK
  <2> QED
    BY <1>1, <2>1, ServeOrBreak DEF AccountServes, AccountFails
<1>2. ASSUME NEW q \in orphans, OrphanServed(q)
      PROVE  \E r \in WirePayload : Served(r)
  BY <1>2, ServeOrBreak DEF OrphanServed, Unheard, LedgerInv, GatewayTypeOK
<1>3. ASSUME NEW c \in Submission, NEW p \in Payload,
             Submit(c, p) \/ EntryFault(c, p)
      PROVE  UNCHANGED transactions
  BY <1>3 DEF Submit, ReplayKnown, ConflictKnown, FailFast, Forward, RaiseUnsent, EntryFault, Receive,
              accountVars
<1>4. ASSUME NEW c \in Submission,
             \/ Resolve(c) \/ Retry(c) \/ LoseContact(c) \/ StoreFault(c)
             \/ Disconnect(c)
      PROVE  UNCHANGED transactions
  BY <1>4 DEF Resolve, Retry, LoseContact, StoreFault, ServerError, Reject,
              InsertAppliedEvent, ReplayAppliedEvent, ConflictAppliedEvent, Drop,
              Undecodable, Disconnect, AttemptFailed, Finish, accountVars
<1>5. ClockTick \/ GatewayRestart \/ AccountRestart \/ UNCHANGED ledgerVars
         => UNCHANGED transactions
  BY DEF ClockTick, GatewayRestart, AccountRestart, ledgerVars, accountVars
<1> QED
  BY <1>1, <1>2, <1>3, <1>4, <1>5 DEF LedgerNext, WriteStep, LocalFault

\* So every step keeps the table invariant and every row.
LEMMA AccountPart ==
    ASSUME LedgerInv, [LedgerNext]_ledgerVars
    PROVE  /\ AccountInv'
           /\ ToSet(transactions) \subseteq ToSet(transactions')
<1>1. CASE UNCHANGED transactions
  BY <1>1 DEF LedgerInv, AccountInv, AccountTypeOK, EventAppliedOnce,
              SingleCurrency
<1>2. CASE \E q \in WirePayload : Served(q)
  BY <1>2, ServedKeepsInv DEF LedgerInv
<1> QED
  BY <1>1, <1>2, AtMostOneServed

\* Every step of the system is a step of the client, or leaves it alone.
LEMMA ClientPart ==
    ASSUME [LedgerNext]_ledgerVars
    PROVE  [ClientNext]_clientVars
<1>1. ASSUME NEW c \in Submission, NEW p \in Payload,
             Submit(c, p) \/ EntryFault(c, p)
      PROVE  [ClientNext]_clientVars
  BY <1>1 DEF Submit, ReplayKnown, ConflictKnown, FailFast, Forward, RaiseUnsent,
              EntryFault, ClientNext
<1>2. ASSUME NEW c \in Submission,
             Resolve(c) \/ LoseContact(c) \/ StoreFault(c) \/ Disconnect(c)
      PROVE  EndAttempt(c)
  BY <1>2 DEF Resolve, LoseContact, StoreFault, ServerError, Reject, Succeeded,
              InsertAppliedEvent, ReplayAppliedEvent, ConflictAppliedEvent, Drop,
              Undecodable, Disconnect, AttemptFailed, EndAttempt
<1>3. ASSUME NEW c \in Submission, AccountServes(c) \/ AccountFails(c)
      PROVE  UNCHANGED clientVars
  BY <1>3 DEF AccountServes, AccountFails
<1>4. ASSUME NEW q, OrphanServed(q)
      PROVE  UNCHANGED clientVars
  BY <1>4 DEF OrphanServed, Unheard
<1>5. CASE ClockTick
  BY <1>5 DEF ClockTick, ClientNext
<1>6. CASE GatewayRestart
  BY <1>6 DEF GatewayRestart, ClientNext
<1>7. CASE AccountRestart \/ UNCHANGED ledgerVars
  BY <1>7 DEF AccountRestart, ledgerVars
<1>8. ASSUME NEW c \in Submission, Retry(c)
      PROVE  ClientNext
  BY <1>8 DEF Retry, ClientNext
<1> QED
  BY <1>1, <1>2, <1>3, <1>4, <1>5, <1>6, <1>7, <1>8
     DEF LedgerNext, WriteStep, LocalFault, ClientNext

-----------------------------------------------------------------------------
(* Handlers and connections.                                               *)

\* Exchanges and answers are told apart by their statuses.
LEMMA Statuses ==
    /\ "none" \notin Replied /\ "sent" \notin Replied /\ "reset" \notin Replied
    /\ \A a \in Accepted \cup Refused \cup Unresolved : a \notin {"none", "pending"}
BY DEF Replied, Accepted, Refused, Unresolved

Phase == {"idle", "waiting", "backoff"}

\* Entering a handler keeps GatewayTypeOK.
LEMMA SubmitTyped ==
    ASSUME LedgerInv, NEW c \in Submission, NEW p \in Payload,
           Submit(c, p) \/ EntryFault(c, p)
    PROVE  GatewayTypeOK'
<1> USE NoPayloadAssumption
<1>1. GatewayTypeOK /\ phase[c] = "idle" /\ phase \in [Call -> Phase]
  BY DEF LedgerInv, Phase, ClientInv, ClientTypeOK, GatewayTypeOK, Submit,
         ReplayKnown, ConflictKnown, FailFast, Forward, RaiseUnsent, EntryFault,
         Receive
<1>2. ASSUME Receive(c, p), UNCHANGED <<clientVars, link>>,
             NEW status \in {"200", "409", "500", "503"}, Reply(c, status)
      PROVE  GatewayTypeOK'
  BY <1>1, <1>2 DEF Phase, GatewayTypeOK, Receive, Reply, clientVars, Accepted, Refused,
                    Unresolved
<1>3. CASE Forward(c, p)
  BY <1>1, <1>3 DEF Phase, GatewayTypeOK, Forward, Receive, Admit, Reply, Accepted,
                    Refused, Unresolved, Replied
<1>4. CASE ReplayKnown(c, p) \/ ConflictKnown(c, p)
  BY <1>2, <1>4 DEF ReplayKnown, ConflictKnown
<1>5. CASE FailFast(c, p)
  BY <1>2, <1>5 DEF FailFast, ShortCircuit
<1>6. CASE RaiseUnsent(c, p) \/ EntryFault(c, p)
  BY <1>2, <1>6 DEF RaiseUnsent, EntryFault, Unsent
<1> QED
  BY <1>3, <1>4, <1>5, <1>6 DEF Submit

\* So do the Account Service's response, a late request and a retry.
LEMMA NetworkTyped ==
    ASSUME LedgerInv, NEW c \in Submission,
           AccountServes(c) \/ AccountFails(c) \/ Retry(c)
    PROVE  GatewayTypeOK'
<1>1. GatewayTypeOK /\ phase \in [Call -> Phase]
  BY DEF LedgerInv, Phase, ClientInv, ClientTypeOK
<1>2. CASE AccountServes(c) \/ AccountFails(c)
  <2>1. PICK status \in Replied : link' = [link EXCEPT ![c] = status]
    BY <1>2 DEF AccountServes, AccountFails, Replied
  <2>2. link[c] = "sent" /\ UNCHANGED <<clientVars, gatewayVars, orphans>>
    BY <1>2 DEF AccountServes, AccountFails
  <2> QED
    BY <1>1, <2>1, <2>2, Statuses DEF Phase, GatewayTypeOK, clientVars, gatewayVars
<1>3. CASE Retry(c)
  BY <1>1, <1>3 DEF Phase, GatewayTypeOK, Retry, Resume, gatewayVars
<1> QED
  BY <1>2, <1>3

LEMMA OrphanTyped ==
    ASSUME LedgerInv, NEW q \in orphans, OrphanServed(q)
    PROVE  GatewayTypeOK'
BY DEF LedgerInv, GatewayTypeOK, OrphanServed, Unheard, clientVars, gatewayVars

\* What a broken or abandoned exchange leaves behind is a payload on its way.
LEMMA LeftBehind ==
    ASSUME LedgerInv, NEW c \in Submission, LeaveBehind(c)
    PROVE  orphans' \subseteq orphans \cup WirePayload
<1>1. link[c] = "sent" => OnWire(payload[c]) \in WirePayload
  BY WireTyped DEF LedgerInv, GatewayTypeOK, ClientInv, ClientTypeOK
<1> QED
  BY <1>1 DEF LeaveBehind

\* A handler whose connection breaks has answered and has none.
LEMMA DisconnectTyped ==
    ASSUME LedgerInv, NEW c \in Submission, Disconnect(c)
    PROVE  GatewayTypeOK'
<1>1. GatewayTypeOK /\ phase \in [Call -> Phase]
  BY DEF LedgerInv, Phase, ClientInv, ClientTypeOK
<1>2. orphans' \subseteq WirePayload
  BY <1>1, LeftBehind DEF GatewayTypeOK, Disconnect
<1> QED
  BY <1>1, <1>2 DEF Phase, GatewayTypeOK, Disconnect, Escape, Return, Hang, Reply,
                    Replied, Accepted, Refused, Unresolved

\* An attempt that fails leaves its handler asleep, or answered with 503.
LEMMA AttemptFailedTyped ==
    ASSUME LedgerInv, NEW c \in Submission, AttemptFailed(c),
           orphans' \subseteq orphans \cup WirePayload
    PROVE  GatewayTypeOK'
<1>1. GatewayTypeOK /\ phase \in [Call -> Phase]
  BY DEF LedgerInv, Phase, ClientInv, ClientTypeOK
<1>2. CASE BackOff(c) /\ UNCHANGED answer
  BY <1>1, <1>2 DEF Phase, GatewayTypeOK, AttemptFailed, BackOff, Hang, Replied
<1>3. CASE Exhaust(c) /\ Reply(c, "503")
  BY <1>1, <1>3 DEF Phase, GatewayTypeOK, AttemptFailed, Exhaust, Return, Hang, Reply,
                    Replied, Accepted, Refused, Unresolved
<1> QED
  BY <1>2, <1>3 DEF AttemptFailed

\* A handler that finishes has answered and has no connection.
LEMMA FinishTyped ==
    ASSUME LedgerInv, NEW c \in Submission, phase[c] = "waiting", Return(c),
           NEW status \in Accepted \cup Refused \cup Unresolved, Finish(c, status),
           events' \in Seq(Payload)
    PROVE  GatewayTypeOK'
<1>1. GatewayTypeOK /\ phase \in [Call -> Phase]
  BY DEF LedgerInv, Phase, ClientInv, ClientTypeOK
<1> QED
  BY <1>1, Statuses DEF Phase, GatewayTypeOK, Finish, Return, Hang, Reply

\* The history is left alone or extended with the event of a handler whose
\* call succeeded, under a fresh event id.
HistoryStep ==
    \/ UNCHANGED events
    \/ \E c \in Submission : /\ link[c] \in Accepted
                       /\ Recorded(payload[c].eventId) = {}
                       /\ events' = Append(events, payload[c])

LEMMA HistoryPart ==
    ASSUME [LedgerNext]_ledgerVars
    PROVE  HistoryStep
<1>1. ASSUME NEW c \in Submission, NEW p \in Payload,
             Submit(c, p) \/ EntryFault(c, p)
      PROVE  UNCHANGED events
  BY <1>1 DEF Submit, ReplayKnown, ConflictKnown, FailFast, Forward, RaiseUnsent, EntryFault, Receive
<1>2. ASSUME NEW c \in Submission, InsertAppliedEvent(c) \/ StoreFault(c)
      PROVE  HistoryStep
  BY <1>2 DEF InsertAppliedEvent, StoreFault, Succeeded, HistoryStep
<1>3. ASSUME NEW c \in Submission,
             \/ AccountServes(c) \/ AccountFails(c) \/ Retry(c) \/ LoseContact(c)
             \/ ServerError(c) \/ Reject(c) \/ Drop(c) \/ Undecodable(c) \/ Disconnect(c)
             \/ ReplayAppliedEvent(c) \/ ConflictAppliedEvent(c)
      PROVE  UNCHANGED events
  BY <1>3 DEF AccountServes, AccountFails, Retry, LoseContact, ServerError, Reject,
              Drop, Undecodable, Disconnect, ReplayAppliedEvent,
              ConflictAppliedEvent, AttemptFailed, gatewayVars
<1>4. ASSUME NEW q, OrphanServed(q)
      PROVE  UNCHANGED events
  BY <1>4 DEF OrphanServed, Unheard, gatewayVars
<1>5. ClockTick \/ GatewayRestart \/ AccountRestart \/ UNCHANGED ledgerVars
         => UNCHANGED events
  BY DEF ClockTick, GatewayRestart, AccountRestart, gatewayVars, ledgerVars
<1> QED
  BY <1>1, <1>2, <1>3, <1>4, <1>5 DEF LedgerNext, WriteStep, LocalFault, Resolve, HistoryStep

\* The history stays a history of distinct, backed events, and loses nothing.
LEMMA HistoryKept ==
    ASSUME LedgerInv, HistoryStep,
           ToSet(transactions) \subseteq ToSet(transactions')
    PROVE  /\ events' \in Seq(Payload)
           /\ OneRecordPerEventId'
           /\ HistoryBacked'
           /\ ToSet(events) \subseteq ToSet(events')
<1>1. events \in Seq(Payload) /\ OneRecordPerEventId /\ HistoryBacked
  BY DEF LedgerInv, GatewayTypeOK
<1>2. CASE UNCHANGED events
  BY <1>1, <1>2 DEF OneRecordPerEventId, HistoryBacked
<1>3. ASSUME NEW c \in Submission, link[c] \in Accepted,
             Recorded(payload[c].eventId) = {},
             events' = Append(events, payload[c])
      PROVE  /\ events' \in Seq(Payload)
             /\ OneRecordPerEventId'
             /\ HistoryBacked'
             /\ ToSet(events) \subseteq ToSet(events')
  <2>1. payload[c] \in Payload
    BY <1>3, Statuses DEF LedgerInv, GatewayTypeOK, ClientInv, ClientTypeOK, Replied
  <2>2. OnWire(payload[c]) \in ToSet(transactions)
    BY <1>3 DEF LedgerInv, SuccessBacked
  <2>3. /\ events' \in Seq(Payload)
        /\ ToSet(events') = ToSet(events) \cup {payload[c]}
    BY <1>1, <1>3, <2>1, AppendFacts
  <2>4. \A e \in ToSet(events) : e.eventId # payload[c].eventId
    BY <1>3 DEF Recorded
  <2>5. OneRecordPerEventId'
    BY <1>1, <1>3, <2>1, <2>4, AppendFresh DEF OneRecordPerEventId
  <2>6. HistoryBacked'
    BY <1>1, <2>2, <2>3 DEF HistoryBacked
  <2> QED
    BY <2>3, <2>5, <2>6
<1> QED
  BY <1>2, <1>3 DEF HistoryStep

\* Every step of the system keeps GatewayTypeOK.
LEMMA GatewayPart ==
    ASSUME LedgerInv, [LedgerNext]_ledgerVars, events' \in Seq(Payload)
    PROVE  GatewayTypeOK'
<1>1. ASSUME NEW c \in Submission, LoseContact(c) \/ ServerError(c)
      PROVE  GatewayTypeOK'
  <2>1. AttemptFailed(c)
    BY <1>1 DEF LoseContact, ServerError
  <2> QED
    BY <1>1, <2>1, LeftBehind, AttemptFailedTyped DEF LoseContact, ServerError
<1>2. ASSUME NEW c \in Submission,
             \/ Reject(c) \/ InsertAppliedEvent(c) \/ ReplayAppliedEvent(c)
             \/ ConflictAppliedEvent(c) \/ StoreFault(c) \/ Drop(c) \/ Undecodable(c)
      PROVE  GatewayTypeOK'
  <2>1. phase[c] = "waiting" /\ Return(c)
    BY <1>2 DEF Reject, InsertAppliedEvent, ReplayAppliedEvent, StoreFault,
                ConflictAppliedEvent, Drop, Undecodable, Succeeded, Answered, Escape
  <2>2. \E status \in Accepted \cup Refused \cup Unresolved : Finish(c, status)
    BY <1>2 DEF Reject, InsertAppliedEvent, ReplayAppliedEvent, StoreFault,
                ConflictAppliedEvent, Drop, Undecodable, Accepted, Refused, Unresolved
  <2> QED
    BY <2>1, <2>2, FinishTyped
<1>3. CASE ClockTick
  BY <1>3 DEF LedgerInv, GatewayTypeOK, ClockTick, Tick, gatewayVars, netVars
<1>4. CASE GatewayRestart
  <2>1. \A c \in Submission : link[c] = "sent" => OnWire(payload[c]) \in WirePayload
    BY WireTyped DEF LedgerInv, GatewayTypeOK, ClientInv, ClientTypeOK
  <2>2. orphans' \subseteq WirePayload
    BY <1>4, <2>1 DEF GatewayRestart, LedgerInv, GatewayTypeOK
  <2> QED
    BY <1>4, <2>2, Statuses
       DEF LedgerInv, GatewayTypeOK, GatewayRestart, ClientRestart, Unresolved
<1>5. CASE AccountRestart
  BY <1>5, Statuses
     DEF LedgerInv, GatewayTypeOK, AccountRestart, clientVars, gatewayVars
<1>6. CASE UNCHANGED ledgerVars
  BY <1>6 DEF LedgerInv, GatewayTypeOK, ledgerVars, clientVars, gatewayVars, netVars
<1> QED
  BY <1>1, <1>2, <1>3, <1>4, <1>5, <1>6, SubmitTyped, NetworkTyped, OrphanTyped,
     DisconnectTyped
     DEF LedgerNext, WriteStep, LocalFault, Resolve

-----------------------------------------------------------------------------
(* What a success means while it travels, and for ever after.              *)

\* A request is answered with a success only once its transaction is a row.
LEMMA ServeSucceeds ==
    ASSUME AccountInv, NEW q \in WirePayload, NEW status \in Accepted,
           Serve(q, status)
    PROVE  q \in ToSet(transactions')
<1> DEFINE Row == {p \in WirePayload : Valid(p)}
<1>1. transactions \in Seq(Row)
  BY DEF AccountInv, AccountTypeOK
<1>2. ApplyTransaction(Target(q), q, status)
  BY DEF Serve, Accepted
<1>3. CASE ReplayTransaction(Target(q), q, status)
  <2>1. PICK t \in ToSet(transactions) : SameEvent(t, q)
    BY <1>3 DEF ReplayTransaction, GetTransaction
  <2>2. t \in EventPayload /\ q \in EventPayload
    BY <1>1, <2>1, WireTyped DEF ToSet
  <2> QED
    BY <1>3, <2>1, <2>2, SameEventIsEqual DEF ReplayTransaction
<1>4. CASE InsertTransaction(Target(q), q, status)
  <2>1. q \in Row /\ transactions' = Append(transactions, q)
    BY <1>4 DEF InsertTransaction, Reached
  <2> HIDE DEF Row
  <2> QED
    BY <1>1, <2>1, AppendFacts
<1> QED
  BY <1>2, <1>3, <1>4 DEF ApplyTransaction, Unprocessable, PathMismatch,
                          DuplicateConflict, CurrencyMismatch, Accepted

\* The exchange that carries a success or a refusal now either carried it
\* before, for the same event, or has just been given it by the Account Service.
LEMMA ExchangeStep ==
    ASSUME LedgerInv, [LedgerNext]_ledgerVars, NEW c \in Submission,
           link'[c] \in Accepted \cup Refused
    PROVE  /\ payload'[c] = payload[c]
           /\ \/ link[c] = link'[c]
              \/ /\ OnWire(payload[c]) \in WirePayload
                 /\ Serve(OnWire(payload[c]), link'[c])
<1> DEFINE Kept  == link[c] = link'[c] /\ payload'[c] = payload[c]
           Given == /\ OnWire(payload[c]) \in WirePayload
                    /\ Serve(OnWire(payload[c]), link'[c])
                    /\ payload'[c] = payload[c]
           Final == Accepted \cup Refused
<1>1. /\ GatewayTypeOK
      /\ "none" \notin Final /\ "sent" \notin Final
      /\ "reset" \notin Final /\ "500" \notin Final
  BY DEF LedgerInv, Accepted, Refused
<1>2. ASSUME NEW d \in Submission, NEW p \in Payload,
             Submit(d, p) \/ EntryFault(d, p)
      PROVE  Kept
  <2>1. CASE d = c
    <3>1. phase[c] = "idle" /\ link[c] = "none"
      BY <1>1, <1>2, <2>1 DEF GatewayTypeOK, Submit, ReplayKnown, ConflictKnown,
                              FailFast, Forward, RaiseUnsent, EntryFault, Receive
    <3>2. link'[c] \in {"none", "sent"}
      BY <1>1, <1>2, <2>1, <3>1 DEF GatewayTypeOK, Submit, ReplayKnown,
                                   ConflictKnown, FailFast, Forward, RaiseUnsent,
                                   EntryFault
    <3> QED
      BY <1>1, <3>2
  <2>2. CASE d # c
    BY <1>1, <1>2, <2>2 DEF GatewayTypeOK, Submit, ReplayKnown, ConflictKnown,
                            FailFast, Forward, RaiseUnsent, EntryFault, Receive
  <2> QED
    BY <2>1, <2>2
<1>3. ASSUME NEW d \in Submission, AccountServes(d)
      PROVE  Kept \/ Given
  <2>1. payload' = payload /\ link[d] = "sent"
    BY <1>3 DEF AccountServes, gatewayVars
  <2>2. PICK status \in Replied : /\ Serve(OnWire(payload[d]), status)
                                  /\ link' = [link EXCEPT ![d] = status]
    BY <1>3 DEF AccountServes
  <2>3. CASE d = c
    <3>1. link'[c] = status
      BY <1>1, <2>2, <2>3 DEF GatewayTypeOK
    <3>2. OnWire(payload[c]) \in WirePayload
      BY <2>1, <2>3, WireTyped DEF LedgerInv, GatewayTypeOK, ClientInv, ClientTypeOK
    <3> QED
      BY <2>1, <2>2, <2>3, <3>1, <3>2
  <2>4. CASE d # c
    BY <1>1, <2>1, <2>2, <2>4 DEF GatewayTypeOK
  <2> QED
    BY <2>3, <2>4
<1>4. ASSUME NEW d \in Submission, AccountFails(d) \/ Retry(d)
      PROVE  Kept
  BY <1>1, <1>4 DEF GatewayTypeOK, AccountFails, Retry, gatewayVars
<1>5. ASSUME NEW d \in Submission,
             Resolve(d) \/ LoseContact(d) \/ StoreFault(d) \/ Disconnect(d)
      PROVE  Kept
  <2>1. payload' = payload /\ Hang(d)
    BY <1>5 DEF Resolve, LoseContact, StoreFault, ServerError, Reject, Drop,
                Undecodable, Disconnect,
                InsertAppliedEvent, ReplayAppliedEvent, ConflictAppliedEvent,
                AttemptFailed, Finish
  <2> QED
    BY <1>1, <2>1 DEF GatewayTypeOK, Hang
<1>6. ASSUME NEW q, OrphanServed(q)
      PROVE  Kept
  BY <1>6 DEF OrphanServed, Unheard, gatewayVars
<1>7. CASE ClockTick \/ UNCHANGED ledgerVars
  BY <1>7 DEF ClockTick, ledgerVars, gatewayVars, netVars
<1>8. CASE GatewayRestart \/ AccountRestart
  BY <1>1, <1>8 DEF GatewayRestart, AccountRestart, gatewayVars
<1> QED
  BY <1>2, <1>3, <1>4, <1>5, <1>6, <1>7, <1>8 DEF LedgerNext, WriteStep, LocalFault

\* So a success under way stays backed.
LEMMA SuccessKept ==
    ASSUME LedgerInv, [LedgerNext]_ledgerVars,
           ToSet(transactions) \subseteq ToSet(transactions')
    PROVE  SuccessBacked'
BY ExchangeStep, ServeSucceeds DEF LedgerInv, SuccessBacked

\* A handler that has answered with a success had done so before, or has just
\* found or put its event in the history.
LEMMA AnswerStep ==
    ASSUME LedgerInv, [LedgerNext]_ledgerVars, events' \in Seq(Payload),
           NEW c \in Submission, answer'[c] \in Accepted
    PROVE  \/ answer[c] \in Accepted /\ payload'[c] = payload[c]
           \/ payload'[c] \in ToSet(events')
<1> DEFINE Kept  == answer[c] \in Accepted /\ payload'[c] = payload[c]
           Found == payload'[c] \in ToSet(events')
<1>1. /\ GatewayTypeOK
      /\ \A a \in {"pending", "503", "409", "500", "lost"} : a \notin Accepted
      /\ \A a \in Refused : a \notin Accepted
  BY DEF LedgerInv, Accepted, Refused
<1>2. \A x, y \in Payload : SameEvent(x, y) => x = y
  BY SameEventIsEqual, PayloadAssumption
<1>3. \A e \in ToSet(events) : e \in Payload
  BY <1>1 DEF GatewayTypeOK, ToSet
<1>4. ASSUME NEW d \in Submission, NEW p \in Payload,
             Submit(d, p) \/ EntryFault(d, p)
      PROVE  Kept \/ Found
  <2>1. payload' = [payload EXCEPT ![d] = p] /\ UNCHANGED events
    BY <1>4 DEF Submit, ReplayKnown, ConflictKnown, FailFast, Forward, RaiseUnsent, EntryFault, Receive
  <2>2. CASE d # c
    BY <1>1, <1>4, <2>1, <2>2 DEF GatewayTypeOK, Submit, ReplayKnown,
                                  ConflictKnown, FailFast, Forward, RaiseUnsent,
                                  EntryFault, Reply
  <2>3. CASE d = c /\ ReplayKnown(d, p)
    BY <1>1, <1>2, <1>3, <2>1, <2>3 DEF GatewayTypeOK, ReplayKnown, Recorded
  <2>4. CASE /\ d = c
             /\ \/ ConflictKnown(d, p) \/ FailFast(d, p) \/ Forward(d, p)
                \/ RaiseUnsent(d, p) \/ EntryFault(d, p)
    BY <1>1, <2>4 DEF GatewayTypeOK, ConflictKnown, FailFast, Forward, RaiseUnsent,
                      EntryFault, Reply
  <2> QED
    BY <1>4, <2>2, <2>3, <2>4 DEF Submit
<1>5. ASSUME NEW d \in Submission,
             \/ Reject(d) \/ ConflictAppliedEvent(d) \/ StoreFault(d) \/ Drop(d)
             \/ Undecodable(d)
      PROVE  Kept
  <2>1. PICK a \in Refused \cup {"409", "500"} : Finish(d, a)
    BY <1>5 DEF Reject, ConflictAppliedEvent, StoreFault, Drop, Undecodable
  <2> QED
    BY <1>1, <2>1 DEF GatewayTypeOK, Finish, Reply
<1>6. ASSUME NEW d \in Submission,
             LoseContact(d) \/ ServerError(d) \/ Disconnect(d)
      PROVE  Kept
  BY <1>1, <1>6 DEF GatewayTypeOK, LoseContact, ServerError, AttemptFailed,
                    Disconnect, Reply
<1>7. ASSUME NEW d \in Submission, InsertAppliedEvent(d) \/ ReplayAppliedEvent(d)
      PROVE  Kept \/ Found
  <2>1. \E a \in Accepted : Finish(d, a)
    BY <1>7 DEF InsertAppliedEvent, ReplayAppliedEvent, Accepted
  <2>2. payload[d] \in ToSet(events')
    <3>1. payload[d] \in Payload
      BY <1>1, <1>7, Statuses DEF GatewayTypeOK, InsertAppliedEvent,
         ReplayAppliedEvent, Succeeded, Answered, LedgerInv, ClientInv, ClientTypeOK
    <3>2. CASE InsertAppliedEvent(d)
      BY <1>1, <3>1, <3>2, AppendFacts DEF GatewayTypeOK, InsertAppliedEvent
    <3>3. CASE ReplayAppliedEvent(d)
      BY <1>2, <1>3, <3>1, <3>3 DEF ReplayAppliedEvent, Recorded
    <3> QED
      BY <1>7, <3>2, <3>3
  <2> QED
    BY <1>1, <2>1, <2>2 DEF GatewayTypeOK, Finish, Reply
<1>8. ASSUME NEW d \in Submission, AccountServes(d) \/ AccountFails(d) \/ Retry(d)
      PROVE  Kept
  BY <1>8 DEF AccountServes, AccountFails, Retry, gatewayVars
<1>9. ASSUME NEW q, OrphanServed(q)
      PROVE  Kept
  BY <1>9 DEF OrphanServed, Unheard, gatewayVars
<1>10. CASE ClockTick \/ AccountRestart \/ UNCHANGED ledgerVars
  BY <1>10 DEF ClockTick, AccountRestart, ledgerVars, gatewayVars
<1>11. CASE GatewayRestart
  BY <1>1, <1>11 DEF GatewayRestart
<1> QED
  BY <1>4, <1>5, <1>6, <1>7, <1>8, <1>9, <1>10, <1>11
     DEF LedgerNext, WriteStep, LocalFault, Resolve

\* So an accepted event stays in the history and in the balance.
LEMMA AcceptedKept ==
    ASSUME LedgerInv, [LedgerNext]_ledgerVars, events' \in Seq(Payload),
           ToSet(transactions) \subseteq ToSet(transactions'),
           ToSet(events) \subseteq ToSet(events'), HistoryBacked'
    PROVE  AcceptedIsDurable'
BY AnswerStep DEF LedgerInv, AcceptedIsDurable, HistoryBacked

-----------------------------------------------------------------------------
\* Nothing is stored and nobody has asked.
LEMMA LedgerInitInv == LedgerInit => LedgerInv
<1> SUFFICES ASSUME LedgerInit
             PROVE  LedgerInv
  OBVIOUS
<1>1. AccountInv /\ ClientInv
  BY AccountInitInv, ClientInitInv DEF LedgerInit
<1>2. GatewayTypeOK /\ SuccessBacked /\ AcceptedIsDurable
  BY NoPayloadAssumption
     DEF LedgerInit, ClientInit, GatewayTypeOK, SuccessBacked, AcceptedIsDurable,
         Accepted, Refused, Unresolved, Replied
<1>3. OneRecordPerEventId /\ HistoryBacked
  BY DEF LedgerInit, OneRecordPerEventId, HistoryBacked, ToSet
<1> QED
  BY <1>1, <1>2, <1>3 DEF LedgerInv

\* Every step of the system preserves the invariant.
LEMMA LedgerStep ==
    ASSUME LedgerInv, [LedgerNext]_ledgerVars
    PROVE  LedgerInv'
<1>1. AccountInv' /\ ToSet(transactions) \subseteq ToSet(transactions')
  BY AccountPart
<1>2. ClientInv'
  BY ClientPart, ClientStep DEF LedgerInv
<1>3. /\ events' \in Seq(Payload) /\ OneRecordPerEventId' /\ HistoryBacked'
      /\ ToSet(events) \subseteq ToSet(events')
  BY <1>1, HistoryPart, HistoryKept
<1>4. GatewayTypeOK'
  BY <1>3, GatewayPart
<1>5. SuccessBacked'
  BY <1>1, SuccessKept
<1>6. AcceptedIsDurable'
  BY <1>1, <1>3, AcceptedKept
<1> QED
  BY <1>1, <1>2, <1>3, <1>4, <1>5, <1>6 DEF LedgerInv

\* The invariant holds in every reachable state.
THEOREM LedgerInvariant == LedgerSpec => []LedgerInv
BY LedgerInitInv, LedgerStep, PTL DEF LedgerSpec

\* Handlers, connections and breaker are always where the code can leave them.
THEOREM LedgerTypeCorrect == LedgerSpec => []LedgerTypeOK
<1>1. LedgerInv => LedgerTypeOK
  BY DEF LedgerInv, LedgerTypeOK, AccountInv, ClientInv
<1> QED
  BY <1>1, LedgerInvariant, PTL

\* No interleaving, loss or restart publishes an event whose transaction does
\* not count in the balance.
THEOREM HistoryAlwaysBacked == LedgerSpec => []HistoryBacked
BY LedgerInvariant, PTL DEF LedgerInv

\* The stale lookup of submit_event never leads to a second row.
THEOREM OneRecord == LedgerSpec => []OneRecordPerEventId
BY LedgerInvariant, PTL DEF LedgerInv

\* Whoever was answered 200 or 201 can rely on it for ever.
THEOREM AcceptanceDurable == LedgerSpec => []AcceptedIsDurable
BY LedgerInvariant, PTL DEF LedgerInv

\* The composition does not break what each service guarantees by itself: no
\* event id is applied twice, no account mixes currencies, and the breaker stays
\* consistent.
THEOREM ComponentsPreserved ==
    LedgerSpec => [](EventAppliedOnce /\ SingleCurrency /\ CircuitMatchesFailures)
<1>1. LedgerInv => EventAppliedOnce /\ SingleCurrency /\ CircuitMatchesFailures
  BY DEF LedgerInv, AccountInv, ClientInv
<1> QED
  BY <1>1, LedgerInvariant, PTL
=============================================================================
