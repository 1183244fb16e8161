------------------------- MODULE LedgerReadsProofs -------------------------
(***************************************************************************)
(* What account reads guarantee, and what they cannot disturb, for any     *)
(* number of readers and submissions sharing one circuit breaker.          *)
(***************************************************************************)
EXTENDS LedgerUpstream, LedgerPromiseProofs

USE ReaderAssumption

\* A response under way, or returned, counts the history of its account as it
\* was when the read began: the row of every event known then was committed
\* before the Account Service added the rows up.
ReadBacked(r) ==
    LET a == read[r].account
    IN  (Route[a] = a /\ (read[r].link = "200" \/ read[r].status = "200")) =>
            {OnWire(e) : e \in read[r].known} \subseteq read[r].counted

KnownBacked(r) ==
    \A e \in read[r].known :
        /\ e \in Payload
        /\ e.accountId = read[r].account
        /\ OnWire(e) \in ToSet(transactions)

Suspended(r) ==
    /\ phase[r] # "idle" <=> read[r].status = "pending"
    /\ phase[r] = "waiting" <=> read[r].link # "none"

ReadRecord ==
    [account : AccountId, status : ReadStatus, link : ReadLink,
     counted : SUBSET WirePayload, known : SUBSET Payload]

\* What is true of every single reader.
ReaderInv(r) ==
    /\ read[r] \in ReadRecord
    /\ Suspended(r)
    /\ KnownBacked(r)
    /\ ReadBacked(r)

\* The inductive invariant of the system with its reads.
ReadsInv ==
    /\ LedgerInv
    /\ read \in [Reader -> ReadRecord]
    /\ \A r \in Reader : ReaderInv(r)

-----------------------------------------------------------------------------
(* Who may disturb whom.                                                   *)

\* A step that leaves a reader's record and call alone keeps its invariant,
\* as long as no committed row is lost.
LEMMA ReaderUntouched ==
    ASSUME NEW s \in Reader, ReaderInv(s), read'[s] = read[s],
           phase'[s] = phase[s], ToSet(transactions) \subseteq ToSet(transactions')
    PROVE  ReaderInv(s)'
BY DEF ReaderInv, Suspended, KnownBacked, ReadBacked

\* A step of a read is a step of the client for that call only.
LEMMA ReadPart ==
    ASSUME ClientTypeOK, NEW r \in Reader, ReadStep(r)
    PROVE  /\ [ClientNext]_clientVars
           /\ \A c \in Call \ {r} : phase'[c] = phase[c]
<1>1. \/ UNCHANGED clientVars
      \/ Admit(r) \/ ShortCircuit(r) \/ Unsent(r) \/ EndAttempt(r) \/ Resume(r)
  BY DEF ReadStep, ReadFailFast, ReadForward, ReadRaised, ReadServed, ReadResolve,
         ReadRetry, ReadFault, ReadFails, ReadFailed, ReadAnswered, ReadDropped,
         ReadDisconnect, EndAttempt
<1>2. [ClientNext]_clientVars
  BY <1>1 DEF ClientNext
<1>3. \A c \in Call \ {r} : phase'[c] = phase[c]
  BY <1>1 DEF ClientTypeOK, clientVars, Admit, ShortCircuit, Unsent, EndAttempt,
              Resume, Answered, BackOff, Exhaust, Escape, Return
<1> QED
  BY <1>2, <1>3

\* So reads leave everything the write path relies on as it is: they share the
\* breaker with it and nothing else.
LEMMA ReadKeepsLedger ==
    ASSUME LedgerInv, NEW r \in Reader, ReadStep(r)
    PROVE  LedgerInv'
<1>1. UNCHANGED <<transactions, events, payload, answer, link, orphans>>
  BY DEF ReadStep, accountVars, gatewayVars, netVars
<1>2. [ClientNext]_clientVars /\ \A c \in Submission : phase'[c] = phase[c]
  <2>1. ClientTypeOK
    BY DEF LedgerInv, ClientInv
  <2>2. [ClientNext]_clientVars /\ \A c \in Call \ {r} : phase'[c] = phase[c]
    BY <2>1, ReadPart
  <2>3. \A c \in Submission : c \in Call \ {r}
    BY SubmissionAssumption
  <2> QED
    BY <2>2, <2>3
<1>3. ClientInv'
  BY <1>2, ClientStep DEF LedgerInv
<1>4. AccountInv'
  BY <1>1 DEF LedgerInv, AccountInv, AccountTypeOK, EventAppliedOnce,
              SingleCurrency
<1>5. GatewayTypeOK'
  BY <1>1, <1>2 DEF LedgerInv, GatewayTypeOK
<1>6. (SuccessBacked /\ OneRecordPerEventId /\ HistoryBacked /\ AcceptedIsDurable)'
  BY <1>1 DEF LedgerInv, SuccessBacked, OneRecordPerEventId, HistoryBacked,
              AcceptedIsDurable
<1> QED
  BY <1>3, <1>4, <1>5, <1>6 DEF LedgerInv

\* And no submission touches the call of a reader.
LEMMA WriteLeavesReaders ==
    ASSUME ClientTypeOK, WriteStep, NEW r \in Reader
    PROVE  phase'[r] = phase[r]
<1> USE DEF ClientTypeOK
<1>1. ASSUME NEW c \in Submission, NEW p \in Payload,
             Submit(c, p) \/ EntryFault(c, p)
      PROVE  phase'[r] = phase[r]
  BY <1>1 DEF Submit, ReplayKnown, ConflictKnown, FailFast, Forward, RaiseUnsent,
              EntryFault, clientVars, ShortCircuit, Unsent, Admit
<1>2. ASSUME NEW c \in Submission,
             Resolve(c) \/ LoseContact(c) \/ StoreFault(c) \/ Disconnect(c)
      PROVE  phase'[r] = phase[r]
  <2>1. EndAttempt(c)
    BY <1>2 DEF Resolve, LoseContact, StoreFault, ServerError, Reject, Succeeded,
                InsertAppliedEvent, ReplayAppliedEvent, ConflictAppliedEvent,
                Drop, Disconnect, Undecodable, AttemptFailed, EndAttempt
  <2> QED
    BY <2>1 DEF EndAttempt, Answered, BackOff, Exhaust, Escape, Return
<1>3. ASSUME NEW c \in Submission, AccountServes(c) \/ AccountFails(c) \/ Retry(c)
      PROVE  phase'[r] = phase[r]
  BY <1>3 DEF AccountServes, AccountFails, Retry, Resume, clientVars
<1>4. ASSUME NEW q, OrphanServed(q)
      PROVE  phase'[r] = phase[r]
  BY <1>4 DEF OrphanServed, Unheard, clientVars
<1>5. CASE ClockTick
  BY <1>5 DEF ClockTick, Tick
<1> QED
  BY <1>1, <1>2, <1>3, <1>4, <1>5 DEF WriteStep, LocalFault

-----------------------------------------------------------------------------
(* The steps of a read.                                                    *)

\* The events of an account are backed by rows of the account.
LEMMA HistoryIsBacked ==
    ASSUME LedgerInv, NEW a \in AccountId
    PROVE  /\ History(a) \subseteq Payload
           /\ \A e \in History(a) : /\ e.accountId = a
                                  /\ OnWire(e) \in ToSet(transactions)
<1>1. events \in Seq(Payload) /\ HistoryBacked
  BY DEF LedgerInv, GatewayTypeOK
<1>2. ToSet(events) \subseteq Payload
  BY <1>1 DEF ToSet
<1> QED
  BY <1>1, <1>2 DEF History, HistoryBacked

\* The hop never changes whose event it is.
LEMMA WireKeepsAccount ==
    ASSUME NEW p \in EventPayload
    PROVE  OnWire(p).accountId = p.accountId
BY DEF OnWire, EventPayload

\* The balance the Account Service adds up covers what was known before.
LEMMA CountedCoversKnown ==
    ASSUME NEW r \in Reader, ReaderInv(r), Route[read[r].account] = read[r].account
    PROVE  {OnWire(e) : e \in read[r].known} \subseteq
               Counted(Route[read[r].account])
<1>1. \A e \in read[r].known : /\ OnWire(e) \in ToSet(transactions)
                              /\ OnWire(e).accountId = read[r].account
  BY WireKeepsAccount, PayloadAssumption DEF ReaderInv, KnownBacked
<1> QED
  BY <1>1 DEF Counted, AccountRows

\* Rows are payloads as they arrive.
LEMMA CountedTyped ==
    ASSUME LedgerInv, NEW a
    PROVE  Counted(a) \subseteq WirePayload
<1>1. transactions \in Seq({p \in WirePayload : Valid(p)})
  BY DEF LedgerInv, AccountInv, AccountTypeOK
<1>2. ToSet(transactions) \subseteq WirePayload
  BY <1>1 DEF ToSet
<1> QED
  BY <1>2 DEF Counted, AccountRows

\* A read begins: with its call admitted, or answered at once.
LEMMA BeginStep ==
    ASSUME ReadsInv, NEW r \in Reader, NEW a \in Readable, UNCHANGED transactions,
           ReadFailFast(r, a) \/ ReadForward(r, a) \/ ReadRaised(r, a)
    PROVE  ReaderInv(r)' /\ read' \in [Reader -> ReadRecord]
<1> DEFINE new(status, link_) ==
              [account |-> a, status |-> status, link |-> link_,
               counted |-> {}, known |-> History(a)]
<1>1. /\ a \in AccountId /\ read \in [Reader -> ReadRecord]
      /\ ClientTypeOK /\ r \in Call
  BY DEF Readable, ReadsInv, LedgerInv, ClientInv
<1>2. /\ History(a) \subseteq Payload
      /\ \A e \in History(a) : /\ e.accountId = a
                             /\ OnWire(e) \in ToSet(transactions)
  BY <1>1, HistoryIsBacked DEF ReadsInv
<1>3. CASE ReadFailFast(r, a) \/ ReadRaised(r, a)
  <2>1. PICK status \in {"500", "503"} :
            read' = [read EXCEPT ![r] = new(status, "none")]
    BY <1>3 DEF ReadFailFast, ReadRaised, BeginRead
  <2>2. phase'[r] = "idle" /\ new(status, "none") \in ReadRecord
    BY <1>1, <1>2, <1>3 DEF ReadRecord, ReadStatus, ReadLink, ReadFailFast,
                            ReadRaised, ShortCircuit, Unsent, clientVars
  <2>3. read'[r] = new(status, "none") /\ read' \in [Reader -> ReadRecord]
    BY <1>1, <2>1, <2>2
  <2> QED
    BY <1>2, <2>1, <2>2, <2>3 DEF ReaderInv, Suspended, KnownBacked, ReadBacked
<1>4. CASE ReadForward(r, a)
  <2>1. /\ read' = [read EXCEPT ![r] = new("pending", "sent")]
        /\ phase'[r] = "waiting"
    BY <1>1, <1>4 DEF ReadForward, BeginRead, Admit, ClientTypeOK
  <2>2. new("pending", "sent") \in ReadRecord
    BY <1>1, <1>2 DEF ReadRecord, ReadStatus, ReadLink
  <2>3. read'[r] = new("pending", "sent") /\ read' \in [Reader -> ReadRecord]
    BY <1>1, <2>1, <2>2
  <2> QED
    BY <1>2, <2>1, <2>2, <2>3 DEF ReaderInv, Suspended, KnownBacked, ReadBacked
<1> QED
  BY <1>3, <1>4

\* Whatever else happens to a read keeps its account and what was known; rows
\* come from the Account Service, or are thrown away, or stay.
LEMMA MoveStep ==
    ASSUME ReadsInv, NEW r \in Reader, UNCHANGED transactions,
           NEW status \in ReadStatus, NEW link_ \in ReadLink,
           NEW rows \in SUBSET WirePayload, Move(r, status, link_, rows),
           phase'[r] # "idle" <=> status = "pending",
           phase'[r] = "waiting" <=> link_ # "none",
           (Route[read[r].account] = read[r].account
              /\ (link_ = "200" \/ status = "200")) =>
               {OnWire(e) : e \in read[r].known} \subseteq rows
    PROVE  ReaderInv(r)' /\ read' \in [Reader -> ReadRecord]
<1> DEFINE new == [account |-> read[r].account, status |-> status,
                   link |-> link_, counted |-> rows, known |-> read[r].known]
<1>1. read \in [Reader -> ReadRecord] /\ ReaderInv(r) /\ read[r] \in ReadRecord
  BY DEF ReadsInv, ReaderInv
<1>2. new \in ReadRecord
  BY <1>1 DEF ReadRecord
<1>3. read' = [read EXCEPT ![r] = new]
  BY DEF Move, Moved
<1>4. read'[r] = new /\ read' \in [Reader -> ReadRecord]
  BY <1>1, <1>2, <1>3
<1> QED
  BY <1>1, <1>2, <1>4 DEF ReaderInv, Suspended, KnownBacked, ReadBacked

\* Every step of a read keeps its invariant.
LEMMA ReadStepKeepsReader ==
    ASSUME ReadsInv, NEW r \in Reader, ReadStep(r)
    PROVE  ReaderInv(r)' /\ read' \in [Reader -> ReadRecord]
<1>1. /\ UNCHANGED transactions /\ ClientTypeOK /\ r \in Call
      /\ ReaderInv(r) /\ read[r] \in ReadRecord
      /\ read[r].counted \in SUBSET WirePayload
  BY DEF ReadStep, accountVars, ReadsInv, LedgerInv, ClientInv, ReaderInv, ReadRecord
<1>2. /\ {"pending", "200", "500", "503"} \subseteq ReadStatus
      /\ {"none", "sent", "200", "500"} \subseteq ReadLink
  BY DEF ReadStatus, ReadLink
<1>3. CASE \E a \in Readable :
            ReadFailFast(r, a) \/ ReadForward(r, a) \/ ReadRaised(r, a)
  BY <1>1, <1>3, BeginStep
<1>4. CASE ReadServed(r)
  <2> DEFINE rows == Counted(Route[read[r].account])
  <2>1. rows \in SUBSET WirePayload
    BY CountedTyped DEF ReadsInv
  <2>2. phase'[r] = "waiting"
    BY <1>1, <1>4 DEF ReadServed, ReaderInv, Suspended, clientVars
  <2>3. Route[read[r].account] = read[r].account =>
            {OnWire(e) : e \in read[r].known} \subseteq rows
    BY <1>1, CountedCoversKnown
  <2>4. Move(r, "pending", "200", rows)
    BY <1>4 DEF ReadServed
  <2> HIDE DEF rows
  <2> QED
    BY <1>1, <1>2, <2>1, <2>2, <2>3, <2>4, MoveStep
<1>5. CASE ReadFails(r)
  <2>1. phase'[r] = "waiting" /\ Move(r, "pending", "500", {})
    BY <1>1, <1>5 DEF ReadFails, ReaderInv, Suspended, clientVars
  <2> QED
    BY <1>1, <1>2, <2>1, MoveStep
<1>6. CASE ReadAnswered(r)
  <2>1. phase'[r] = "idle" /\ Move(r, "200", "none", read[r].counted)
    BY <1>1, <1>6 DEF ReadAnswered, Answered, Return, ClientTypeOK
  <2>2. Route[read[r].account] = read[r].account =>
            {OnWire(e) : e \in read[r].known} \subseteq read[r].counted
    BY <1>1, <1>6 DEF ReadAnswered, ReaderInv, ReadBacked
  <2> QED
    BY <1>1, <1>2, <2>1, <2>2, MoveStep
<1>7. CASE ReadFailed(r)
  <2>1. CASE BackOff(r) /\ Move(r, "pending", "none", {})
    <3>1. phase'[r] = "backoff"
      BY <1>1, <2>1 DEF BackOff, ClientTypeOK
    <3> QED
      BY <1>1, <1>2, <2>1, <3>1, MoveStep
  <2>2. CASE Exhaust(r) /\ Move(r, "503", "none", {})
    <3>1. phase'[r] = "idle"
      BY <1>1, <2>2 DEF Exhaust, Return, ClientTypeOK
    <3> QED
      BY <1>1, <1>2, <2>2, <3>1, MoveStep
  <2> QED
    BY <1>7, <2>1, <2>2 DEF ReadFailed
<1>8. CASE ReadRetry(r)
  <2>1. phase'[r] = "waiting" /\ Move(r, "pending", "sent", {})
    BY <1>1, <1>8 DEF ReadRetry, Resume, ClientTypeOK
  <2> QED
    BY <1>1, <1>2, <2>1, MoveStep
<1>9. CASE ReadDropped(r) \/ ReadDisconnect(r)
  <2>1. phase'[r] = "idle" /\ Move(r, "500", "none", {})
    BY <1>1, <1>9 DEF ReadDropped, ReadDisconnect, Escape, Return, ClientTypeOK
  <2> QED
    BY <1>1, <1>2, <2>1, MoveStep
<1> QED
  BY <1>3, <1>4, <1>5, <1>6, <1>7, <1>8, <1>9
     DEF ReadStep, ReadResolve, ReadFault

\* A step of one reader leaves the records of the others alone.
LEMMA ReadLeavesOthers ==
    ASSUME ReadsInv, NEW r \in Reader, ReadStep(r), NEW s \in Reader, s # r
    PROVE  read'[s] = read[s]
<1>1. read \in [Reader -> ReadRecord]
  BY DEF ReadsInv
<1>2. \E x : read' = [read EXCEPT ![r] = x]
  BY DEF ReadStep, ReadFailFast, ReadForward, ReadRaised, BeginRead, ReadServed,
         ReadFails, ReadResolve, ReadFault, ReadFailed, ReadAnswered, ReadRetry,
         ReadDropped, ReadDisconnect, Move
<1> QED
  BY <1>1, <1>2

-----------------------------------------------------------------------------
(* Restarts.                                                               *)

\* A record whose rows are thrown away is a record without obligations.
LEMMA Discarded ==
    ASSUME ReadsInv, NEW r \in Reader, UNCHANGED transactions,
           NEW status \in ReadStatus \ {"200"}, NEW link_ \in ReadLink \ {"200"},
           read'[r] = Moved(r, status, link_, {}),
           phase'[r] # "idle" <=> status = "pending",
           phase'[r] = "waiting" <=> link_ # "none"
    PROVE  ReaderInv(r)'
<1>1. ReaderInv(r) /\ read[r] \in ReadRecord
  BY DEF ReadsInv, ReaderInv
<1>2. read'[r] \in ReadRecord
  BY <1>1 DEF Moved, ReadRecord
<1> QED
  BY <1>1, <1>2 DEF Moved, ReaderInv, Suspended, KnownBacked, ReadBacked

LEMMA GatewayRestartStep ==
    ASSUME ReadsInv, GatewayRestart, CutReads
    PROVE  (read \in [Reader -> ReadRecord] /\ \A r \in Reader : ReaderInv(r))'
<1>1. ASSUME NEW r \in Reader
      PROVE  ReaderInv(r)'
  <2>1. /\ ReaderInv(r) /\ phase'[r] = "idle" /\ UNCHANGED transactions
        /\ "lost" \in ReadStatus \ {"200"} /\ "none" \in ReadLink \ {"200"}
    BY DEF ReadsInv, GatewayRestart, ClientRestart, accountVars, ReadStatus, ReadLink
  <2>2. CASE read[r].status = "pending"
    <3>1. read'[r] = Moved(r, "lost", "none", {})
      BY <2>2 DEF CutReads
    <3> QED
      BY <2>1, <3>1, Discarded
  <2>3. CASE read[r].status # "pending"
    <3>1. read'[r] = read[r] /\ phase'[r] = phase[r]
      BY <2>1, <2>3 DEF CutReads, ReaderInv, Suspended
    <3> QED
      BY <2>1, <3>1, ReaderUntouched
  <2> QED
    BY <2>2, <2>3
<1>2. read' \in [Reader -> ReadRecord]
  BY <1>1 DEF CutReads, ReaderInv
<1> QED
  BY <1>1, <1>2

LEMMA AccountRestartStep ==
    ASSUME ReadsInv, AccountRestart, ResetReads
    PROVE  (read \in [Reader -> ReadRecord] /\ \A r \in Reader : ReaderInv(r))'
<1>1. ASSUME NEW r \in Reader
      PROVE  ReaderInv(r)'
  <2>1. /\ ReaderInv(r) /\ phase'[r] = phase[r] /\ UNCHANGED transactions
        /\ "pending" \in ReadStatus \ {"200"} /\ "reset" \in ReadLink \ {"200"}
    BY DEF ReadsInv, AccountRestart, clientVars, accountVars, ReadStatus, ReadLink
  <2>2. PICK cut \in SUBSET {s \in Reader : read[s].link \in {"200", "500"}} :
            read' = [s \in Reader |->
                IF read[s].link = "sent" \/ s \in cut
                    THEN Moved(s, "pending", "reset", {})
                    ELSE read[s]]
    BY DEF ResetReads
  <2>3. CASE read[r].link = "sent" \/ r \in cut
    <3>1. read'[r] = Moved(r, "pending", "reset", {})
      BY <2>2, <2>3
    <3>2. phase'[r] = "waiting"
      BY <2>1, <2>2, <2>3 DEF ReaderInv, Suspended
    <3> QED
      BY <2>1, <3>1, <3>2, Discarded
  <2>4. CASE ~(read[r].link = "sent" \/ r \in cut)
    <3>1. read'[r] = read[r]
      BY <2>2, <2>4
    <3> QED
      BY <2>1, <3>1, ReaderUntouched
  <2> QED
    BY <2>3, <2>4
<1>2. read' \in [Reader -> ReadRecord]
  BY <1>1 DEF ResetReads, ReaderInv
<1> QED
  BY <1>1, <1>2

-----------------------------------------------------------------------------
\* Nobody has read anything.
LEMMA ReadsInitInv == ReadsInit => ReadsInv
<1> SUFFICES ASSUME ReadsInit
             PROVE  ReadsInv
  OBVIOUS
<1>1. LedgerInv
  BY LedgerInitInv DEF ReadsInit
<1>2. Unread \in ReadRecord /\ read = [r \in Reader |-> Unread]
  BY DEF ReadsInit, Unread, ReadRecord, ReadStatus, ReadLink
<1>3. \A r \in Reader : phase[r] = "idle"
  BY DEF ReadsInit, LedgerInit, ClientInit
<1>4. ASSUME NEW r \in Reader
      PROVE  ReaderInv(r)
  BY <1>2, <1>3 DEF ReaderInv, Suspended, KnownBacked, ReadBacked, Unread
<1> QED
  BY <1>1, <1>2, <1>4 DEF ReadsInv

\* Every step of the system with its reads preserves the invariant.
LEMMA ReadsStep ==
    ASSUME ReadsInv, [ReadsNext]_readsVars
    PROVE  ReadsInv'
<1>1. LedgerInv /\ ClientTypeOK
  BY DEF ReadsInv, LedgerInv, ClientInv
<1>2. CASE (WriteStep /\ UNCHANGED read) \/ UNCHANGED readsVars
  <2>1. [LedgerNext]_ledgerVars /\ read' = read
    BY <1>2 DEF LedgerNext, readsVars
  <2>2. LedgerInv' /\ ToSet(transactions) \subseteq ToSet(transactions')
    BY <1>1, <2>1, LedgerStep, AccountPart
  <2>3. \A r \in Reader : phase'[r] = phase[r]
    BY <1>1, <1>2, WriteLeavesReaders DEF readsVars, ledgerVars, clientVars
  <2>4. \A r \in Reader : ReaderInv(r)'
    BY <2>1, <2>2, <2>3, ReaderUntouched DEF ReadsInv
  <2> QED
    BY <2>1, <2>2, <2>4 DEF ReadsInv
<1>3. ASSUME NEW r \in Reader, ReadStep(r)
      PROVE  ReadsInv'
  <2>1. LedgerInv'
    BY <1>1, <1>3, ReadKeepsLedger
  <2>2. ReaderInv(r)' /\ read' \in [Reader -> ReadRecord]
    BY <1>3, ReadStepKeepsReader
  <2>3. ASSUME NEW s \in Reader, s # r
        PROVE  ReaderInv(s)'
    <3>1. read'[s] = read[s]
      BY <1>3, <2>3, ReadLeavesOthers
    <3>2. s \in Call \ {r}
      BY <2>3
    <3>3. phase'[s] = phase[s]
      BY <1>1, <1>3, <3>2, ReadPart
    <3>4. UNCHANGED transactions
      BY <1>3 DEF ReadStep, accountVars
    <3> QED
      BY <3>1, <3>3, <3>4, ReaderUntouched DEF ReadsInv
  <2> QED
    BY <2>1, <2>2, <2>3 DEF ReadsInv
<1>4. CASE GatewayRestart /\ CutReads
  <2>1. LedgerInv'
    BY <1>1, <1>4, LedgerStep DEF LedgerNext
  <2> QED
    BY <1>4, <2>1, GatewayRestartStep DEF ReadsInv
<1>5. CASE AccountRestart /\ ResetReads
  <2>1. LedgerInv'
    BY <1>1, <1>5, LedgerStep DEF LedgerNext
  <2> QED
    BY <1>5, <2>1, AccountRestartStep DEF ReadsInv
<1> QED
  BY <1>2, <1>3, <1>4, <1>5 DEF ReadsNext

\* The invariant holds in every reachable state.
THEOREM ReadsInvariant == ReadsSpec => []ReadsInv
BY ReadsInitInv, ReadsStep, PTL DEF ReadsSpec

\* Read handlers are always where the code can leave them.
THEOREM ReadsTypeCorrect == ReadsSpec => []ReadsTypeOK
<1>1. ReadsInv => ReadsTypeOK
  BY DEF ReadsInv, ReaderInv, Suspended, ReadsTypeOK, ReadRecord
<1> QED
  BY <1>1, ReadsInvariant, PTL

\* A balance never misses an event that was public before it was asked for.
THEOREM ReadsYourWrites == ReadsSpec => []ReadYourWrites
<1>1. ReadsInv => ReadYourWrites
  BY DEF ReadsInv, ReaderInv, ReadBacked, ReadYourWrites
<1> QED
  BY <1>1, ReadsInvariant, PTL

\* Reads share the circuit breaker with submissions and still take nothing
\* away from what the write path promises.
THEOREM ReadsAreHarmless ==
    ReadsSpec => [](/\ HistoryBacked /\ OneRecordPerEventId
                    /\ AcceptedIsDurable /\ CircuitMatchesFailures)
<1>1. ReadsInv => /\ HistoryBacked /\ OneRecordPerEventId
                  /\ AcceptedIsDurable /\ CircuitMatchesFailures
  BY DEF ReadsInv, LedgerInv, ClientInv
<1> QED
  BY <1>1, ReadsInvariant, PTL

-----------------------------------------------------------------------------
(* Readers are invisible to submitters.                                    *)

\* A step of the system with its reads is a step of the system without them, or
\* one that neither tables nor answers nor requests show.
LEMMA ReadsAreUnseen ==
    ASSUME [ReadsNext]_readsVars
    PROVE  \/ [LedgerNext]_ledgerVars
           \/ UNCHANGED <<transactions, events, payload, answer, link>>
BY DEF ReadsNext, LedgerNext, readsVars, ReadStep, accountVars, gatewayVars, netVars

\* The promise holds with any number of readers on the same breaker.
THEOREM ReadsKeepPromise == ReadsSpec => KeepsPromise
<1>1. ReadsInit => LedgerInit /\ LinkBlocked
  BY DEF ReadsInit, LedgerInit, LinkBlocked, Refused
<1>2. ReadsInv /\ LinkBlocked /\ [ReadsNext]_readsVars => LinkBlocked'
  BY ReadsAreUnseen, LinkKept DEF ReadsInv, LinkBlocked
<1>3. ReadsInv /\ LinkBlocked /\ [ReadsNext]_readsVars =>
        [Promise!PromiseNext]_(Promise!promiseVars)
  BY ReadsAreUnseen, PromiseStep, UnseenStutters DEF ReadsInv, PromiseInv, Unseen
<1> QED
  BY <1>1, <1>2, <1>3, ReadsInvariant, PromiseInitMapped, PTL
     DEF ReadsSpec, KeepsPromise, Promise!PromiseSpec

\* No two submissions of an event are told the opposite, readers or not.
THEOREM ReadsAgree == ReadsSpec => []AnswersAgree
<1>1. Promise!VerdictsAgree => AnswersAgree
  BY Verdicts DEF Promise!VerdictsAgree, AnswersAgree
<1> QED
  BY <1>1, ReadsKeepPromise, PromiseIsWorthKeeping, PTL

\* And a 4xx stands for ever, when amounts survive the hop.
THEOREM ReadsRefusalFinal ==
    ASSUME ExactAmounts
    PROVE  ReadsSpec => []RejectionIsFinal
<1>1. ReadsInit => RefusalInv
  BY RefusalInitInv DEF ReadsInit
<1>2. ReadsInv /\ RefusalInv /\ [ReadsNext]_readsVars => RefusalInv'
  <2> SUFFICES ASSUME ReadsInv, RefusalInv, [ReadsNext]_readsVars
               PROVE  RefusalInv'
    OBVIOUS
  <2>1. LedgerInv'
    BY ReadsStep DEF ReadsInv
  <2>2. CASE [LedgerNext]_ledgerVars
    BY <2>1, <2>2, ReachedKept, LinkKept, AnswerKept DEF RefusalInv
  <2>3. CASE UNCHANGED <<transactions, events, payload, answer, link>>
    BY <2>1, <2>3 DEF RefusalInv, RowsReached, LinkBlocked, AnswerBlocked, Target
  <2> QED
    BY <2>2, <2>3, ReadsAreUnseen
<1>3. RefusalInv => RejectionIsFinal
  BY BlockedIsNoRow DEF RefusalInv, LedgerInv, AnswerBlocked, RejectionIsFinal
<1> QED
  BY <1>1, <1>2, <1>3, ReadsInvariant, PTL DEF ReadsSpec

-----------------------------------------------------------------------------
(* The composed system implements its two components.                      *)

\* A request is served by one of the outcomes of the handler.
LEMMA ServedIsAccountNext ==
    ASSUME NEW q \in WirePayload, InsertTransaction(Target(q), q, "201")
    PROVE  AccountNext
<1>1. Target(q) \in AccountId
  <2>1. q.accountId \in AccountId
    BY WireTyped DEF EventPayload
  <2> QED
    BY <2>1 DEF InsertTransaction, Reached
<1> QED
  BY <1>1 DEF AccountNext, ApplyTransaction, AccountStatus

LEMMA AccountImplemented ==
    ASSUME ReadsInv, [ReadsNext]_readsVars
    PROVE  [AccountNext]_accountVars
<1>1. UNCHANGED transactions \/ \E q \in WirePayload : Served(q)
  BY ReadsAreUnseen, AtMostOneServed DEF ReadsInv
<1> QED
  BY <1>1, ServedIsAccountNext DEF Served, accountVars

LEMMA ClientImplemented ==
    ASSUME ReadsInv, [ReadsNext]_readsVars
    PROVE  [ClientNext]_clientVars
<1>1. CASE [LedgerNext]_ledgerVars
  BY <1>1, ClientPart
<1>2. CASE \E r \in Reader : ReadStep(r)
  BY <1>2, ReadPart DEF ReadsInv, LedgerInv, ClientInv
<1> QED
  BY <1>1, <1>2 DEF ReadsNext, LedgerNext, readsVars, ledgerVars

\* Submissions, readers, late requests, clock and restarts together do to the
\* table what requests to the Account Service may do to it, and to the breaker
\* what calls of the client may do: whatever is true of a component by itself
\* is true of it in the system.
THEOREM ComponentsImplemented == ReadsSpec => AccountSpec /\ ClientSpec
<1>1. ReadsInit => AccountInit /\ ClientInit
  BY DEF ReadsInit, LedgerInit
<1>2. ReadsInv /\ [ReadsNext]_readsVars =>
        [AccountNext]_accountVars /\ [ClientNext]_clientVars
  BY AccountImplemented, ClientImplemented
<1> QED
  BY <1>1, <1>2, ReadsInvariant, PTL DEF ReadsSpec, AccountSpec, ClientSpec

\* The balances that readers are shown are right, and neither a reader nor a
\* late request opens the circuit.
THEOREM ComponentsHoldTogether ==
    ReadsSpec => []BalanceIsNetOfEvents /\ OpensOnlyOnExhaustion
BY ComponentsImplemented, BalanceCorrect, OpensOnExhaustion, PTL

\* Upstream systems that insist until they get a final answer do nothing that
\* others may not do: an event submitted over and over is applied once,
\* published once, and its answers agree.
THEOREM InsistingIsSafe ==
    UpstreamSpec => /\ KeepsPromise
                    /\ [](AnswersAgree /\ OneRecordPerEventId /\ BalanceIsNetOfEvents)
<1>1. [UpstreamNext]_readsVars => [ReadsNext]_readsVars
  BY DEF UpstreamNext
<1>2. UpstreamSpec => ReadsSpec
  BY <1>1, PTL DEF UpstreamSpec, ReadsSpec
<1> QED
  BY <1>2, ReadsKeepPromise, ReadsAgree, ReadsAreHarmless, ComponentsHoldTogether, PTL
=============================================================================
