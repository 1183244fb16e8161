---------------------------- MODULE EventLedger ----------------------------
(***************************************************************************)
(* The write path of the whole system: concurrent POST /events handlers of *)
(* the Gateway (src/src/gateway_service/main.py, db.py), each calling the  *)
(* Account Service (AccountService) through the shared client              *)
(* (AccountClient) over a network that delays, loses and resets.           *)
(*                                                                         *)
(* A handler runs without interruption from its entry to the first await   *)
(* of the client, and from the client's last resumption to its answer, so  *)
(* each of these stretches is one action.                                  *)
(***************************************************************************)
EXTENDS AccountService, AccountClient

CONSTANTS
    Submission,   \* the calls of _request made by submit_event handlers
    NoPayload

ASSUME SubmissionAssumption == Submission \subseteq Call

ASSUME NoPayloadAssumption == NoPayload \notin Payload

VARIABLES
    events,    \* rows of the Gateway's table, in insertion order
    payload,   \* payload[c]: the event handler c was called with
    answer,    \* answer[c]: its HTTP status, "pending" before it has one
    link,      \* link[c]: state of the HTTP exchange of the current attempt
    orphans    \* requests whose attempt was given up before they were served

gatewayVars == <<events, payload, answer>>
netVars     == <<link, orphans>>
ledgerVars  == <<accountVars, clientVars, gatewayVars, netVars>>

Accepted   == {"200", "201"}
Refused    == {"400", "404", "409", "422"}
Unresolved == {"500", "503", "lost"}
Replied    == Accepted \cup Refused \cup {"307", "500"}

LedgerInit ==
    /\ AccountInit
    /\ ClientInit
    /\ events = << >>
    /\ payload = [c \in Submission |-> NoPayload]
    /\ answer = [c \in Submission |-> "none"]
    /\ link = [c \in Submission |-> "none"]
    /\ orphans = {}

-----------------------------------------------------------------------------
(* The Gateway's handler, up to the first await.                           *)

\* GatewayRepository.get_event.
Recorded(id) == {e \in ToSet(events) : e.eventId = id}

Reply(c, status) == answer' = [answer EXCEPT ![c] = status]

Receive(c, p) ==
    /\ answer[c] # "pending"
    /\ payload' = [payload EXCEPT ![c] = p]
    /\ UNCHANGED <<accountVars, events, orphans>>

\* Mutant: any use of a recorded event id counts as a replay.
MutReplayKnown(c, p) ==
    /\ Receive(c, p)
    /\ Recorded(p.eventId) # {}
    /\ Reply(c, "200")
    /\ UNCHANGED <<clientVars, link>>

ReplayKnown(c, p) ==
    /\ Receive(c, p)
    /\ \E e \in Recorded(p.eventId) : SameEvent(e, p)
    /\ Reply(c, "200")
    /\ UNCHANGED <<clientVars, link>>

ConflictKnown(c, p) ==
    /\ Receive(c, p)
    /\ \E e \in Recorded(p.eventId) : ~SameEvent(e, p)
    /\ Reply(c, "409")
    /\ UNCHANGED <<clientVars, link>>

FailFast(c, p) ==
    /\ Receive(c, p)
    /\ Recorded(p.eventId) = {}
    /\ ShortCircuit(c)
    /\ Reply(c, "503")
    /\ UNCHANGED link

Forward(c, p) ==
    /\ Receive(c, p)
    /\ Recorded(p.eventId) = {}
    /\ Sendable(p)
    /\ Admit(c)
    /\ Reply(c, "pending")
    /\ link' = [link EXCEPT ![c] = "sent"]

\* The exception of httpx is none of those the handler maps.
RaiseUnsent(c, p) ==
    /\ Receive(c, p)
    /\ Recorded(p.eventId) = {}
    /\ ~Sendable(p)
    /\ Unsent(c)
    /\ Reply(c, "500")
    /\ UNCHANGED link

Submit(c, p) ==
    \/ ReplayKnown(c, p)
    \/ ConflictKnown(c, p)
    \/ FailFast(c, p)
    \/ Forward(c, p)
    \/ RaiseUnsent(c, p)

\* SQLite raises in the lookup, or the caller's trace id fits no header.
EntryFault(c, p) ==
    /\ Receive(c, p)
    /\ Reply(c, "500")
    /\ UNCHANGED <<clientVars, link>>

-----------------------------------------------------------------------------
(* The Account Service receives a request.                                 *)

Target(q) == Route[q.accountId]

Serve(q, status) ==
    \/ /\ Target(q) = NoRoute
       /\ status = "404"
       /\ UNCHANGED transactions
    \/ /\ Target(q) = Redirect
       /\ status = "307"
       /\ UNCHANGED transactions
    \/ /\ Target(q) \in AccountId
       /\ ApplyTransaction(Target(q), q, status)

Break(q) == Target(q) \in AccountId /\ StorageFault(Target(q), q, "500")

AccountServes(c) ==
    /\ link[c] = "sent"
    /\ \E q \in {OnWire(payload[c])}, status \in Replied :
        /\ link' = [link EXCEPT ![c] = status]
        /\ Serve(q, status)
    /\ UNCHANGED <<clientVars, gatewayVars, orphans>>

AccountFails(c) ==
    /\ link[c] = "sent"
    /\ link' = [link EXCEPT ![c] = "500"]
    /\ Break(OnWire(payload[c]))
    /\ UNCHANGED <<clientVars, gatewayVars, orphans>>

\* A request nobody waits for any more is served late.  It may also never be,
\* so nothing obliges this action to happen.
Unheard(q) ==
    /\ orphans' = orphans \ {q}
    /\ UNCHANGED <<clientVars, gatewayVars, link>>

OrphanServed(q) ==
    /\ \/ \E status \in Replied : Serve(q, status)
       \/ Break(q)
    /\ Unheard(q)

-----------------------------------------------------------------------------
(* The Gateway's handler, from the end of an attempt on.                   *)

\* Mutant: the exchange of a finished attempt is kept.
MutHang(c) == UNCHANGED link

Hang(c) == link' = [link EXCEPT ![c] = "none"]

\* The client retries after a pause, or the handler answers 503.
AttemptFailed(c) ==
    /\ Hang(c)
    /\ \/ BackOff(c) /\ UNCHANGED answer
       \/ Exhaust(c) /\ Reply(c, "503")
    /\ UNCHANGED <<accountVars, events, payload>>

\* An exchange is given up while its request is under way, or after.
LeaveBehind(c) ==
    orphans' = IF link[c] = "sent" THEN orphans \cup {OnWire(payload[c])}
                                   ELSE orphans

\* ConnectError or TimeoutException: the request was lost, is still under way,
\* or was served and its response lost.
LoseContact(c) ==
    /\ AttemptFailed(c)
    /\ LeaveBehind(c)

ServerError(c) ==
    /\ link[c] = "500"
    /\ AttemptFailed(c)
    /\ UNCHANGED orphans

Retry(c) ==
    /\ Resume(c)
    /\ link' = [link EXCEPT ![c] = "sent"]
    /\ UNCHANGED <<accountVars, gatewayVars, orphans>>

\* The handler is about to answer: what the rest of its step leaves alone.
Finish(c, status) ==
    /\ Hang(c)
    /\ Reply(c, status)
    /\ UNCHANGED <<accountVars, payload, orphans>>

\* AccountServiceRejectedError.
Reject(c) ==
    /\ link[c] \in Refused
    /\ Answered(c)
    /\ Finish(c, link[c])
    /\ UNCHANGED events

\* Mutant: a 409 is taken to mean `already applied'.
MutSucceeded(c) == link[c] \in Accepted \cup {"409"} /\ Answered(c)

Succeeded(c) == link[c] \in Accepted /\ Answered(c)

\* Mutant: the lookup of Submit is trusted after the await.
MutInsertAppliedEvent(c) ==
    /\ Succeeded(c)
    /\ events' = Append(events, payload[c])
    /\ Finish(c, "201")

\* GatewayRepository.insert_applied_event: its lookup is repeated under the
\* lock because the one of Submit is as old as the call to the Account Service.
InsertAppliedEvent(c) ==
    /\ Succeeded(c)
    /\ Recorded(payload[c].eventId) = {}
    /\ events' = Append(events, payload[c])
    /\ Finish(c, "201")

ReplayAppliedEvent(c) ==
    /\ Succeeded(c)
    /\ \E e \in Recorded(payload[c].eventId) : SameEvent(e, payload[c])
    /\ Finish(c, "200")
    /\ UNCHANGED events

\* Mutant: whatever is recorded under the event id counts as a replay.
MutConflictAppliedEvent(c) ==
    /\ Succeeded(c)
    /\ \E e \in Recorded(payload[c].eventId) : ~SameEvent(e, payload[c])
    /\ Finish(c, "200")
    /\ UNCHANGED events

ConflictAppliedEvent(c) ==
    /\ Succeeded(c)
    /\ \E e \in Recorded(payload[c].eventId) : ~SameEvent(e, payload[c])
    /\ Finish(c, "409")
    /\ UNCHANGED events

\* SQLite raises in insert_applied_event, before or after the INSERT commits.
StoreFault(c) ==
    /\ Succeeded(c)
    /\ Finish(c, "500")
    /\ \/ UNCHANGED events
       \/ /\ Recorded(payload[c].eventId) = {}
          /\ events' = Append(events, payload[c])

\* The exception that nobody maps to an HTTP error.
Drop(c) ==
    /\ link[c] = "reset"
    /\ Escape(c)
    /\ Finish(c, "500")
    /\ UNCHANGED events

\* The same when only the connection breaks, whose request may be under way.
Disconnect(c) ==
    /\ link[c] # "reset"
    /\ Escape(c)
    /\ Hang(c)
    /\ Reply(c, "500")
    /\ LeaveBehind(c)
    /\ UNCHANGED <<accountVars, events, payload>>

\* The client takes the redirection for a success and decodes its empty body.
Undecodable(c) ==
    /\ link[c] = "307"
    /\ Answered(c)
    /\ Finish(c, "500")
    /\ UNCHANGED events

Resolve(c) ==
    \/ ServerError(c)
    \/ Reject(c)
    \/ InsertAppliedEvent(c)
    \/ ReplayAppliedEvent(c)
    \/ ConflictAppliedEvent(c)
    \/ Drop(c)
    \/ Undecodable(c)

-----------------------------------------------------------------------------
(* The environment.                                                        *)

ClockTick == Tick /\ UNCHANGED <<accountVars, gatewayVars, netVars>>

\* The Gateway process restarts: its table survives; its handlers, its breaker
\* and its connections do not.
GatewayRestart ==
    /\ ClientRestart
    /\ answer' = [c \in Submission |->
          IF answer[c] = "pending" THEN "lost" ELSE answer[c]]
    /\ link' = [c \in Submission |-> "none"]
    /\ orphans' = orphans \cup
          {OnWire(payload[c]) : c \in {d \in Submission : link[d] = "sent"}}
    /\ UNCHANGED <<accountVars, events, payload>>

\* The Account Service process restarts: the connections of requests it has
\* not answered are reset, and the requests it had not served are gone.
AccountRestart ==
    /\ \E cut \in SUBSET {c \in Submission : link[c] \in Replied} :
        link' = [c \in Submission |->
            IF link[c] = "sent" \/ c \in cut THEN "reset" ELSE link[c]]
    /\ orphans' = {}
    /\ UNCHANGED <<accountVars, clientVars, gatewayVars>>

LocalFault ==
    \E c \in Submission :
        \/ LoseContact(c) \/ AccountFails(c) \/ StoreFault(c) \/ Disconnect(c)
        \/ \E p \in Payload : EntryFault(c, p)

Fault == LocalFault \/ GatewayRestart \/ AccountRestart

\* Every step but a restart, which touches all there is in a process.
WriteStep ==
    \/ \E c \in Submission, p \in Payload : Submit(c, p)
    \/ \E c \in Submission : AccountServes(c) \/ Resolve(c) \/ Retry(c)
    \/ \E q \in orphans : OrphanServed(q)
    \/ ClockTick
    \/ LocalFault

LedgerNext == WriteStep \/ GatewayRestart \/ AccountRestart

LedgerSpec == LedgerInit /\ [][LedgerNext]_ledgerVars

-----------------------------------------------------------------------------
(* Properties.                                                             *)

\* Handlers and connections are where the code can leave them: a handler
\* without an answer is exactly one with a call in flight, and an exchange is
\* open exactly while its call waits.
GatewayTypeOK ==
    /\ events \in Seq(Payload)
    /\ payload \in [Submission -> Payload \cup {NoPayload}]
    /\ answer \in [Submission -> {"none", "pending"} \cup Accepted \cup Refused
                              \cup Unresolved]
    /\ link \in [Submission -> {"none", "sent", "reset"} \cup Replied]
    /\ orphans \subseteq WirePayload
    /\ \A c \in Submission :
        /\ phase[c] # "idle" <=> answer[c] = "pending"
        /\ phase[c] = "waiting" <=> link[c] # "none"
        /\ payload[c] = NoPayload <=> answer[c] = "none"

\* The type invariant of the system.
LedgerTypeOK == AccountTypeOK /\ ClientTypeOK /\ GatewayTypeOK

\* ADR 006, the Gateway "records only events that Account Service has applied":
\* whatever is lost, retried, served late or cut off, every event of the public
\* history counts in the balance of its account.
HistoryBacked ==
    \A e \in ToSet(events) : OnWire(e) \in ToSet(transactions)

\* The lookup of submit_event is stale by the time insert_applied_event runs;
\* still no interleaving gives one eventId two rows (an IntegrityError).
OneRecordPerEventId ==
    \A i, j \in DOMAIN events : events[i].eventId = events[j].eventId => i = j

\* A 200 or 201 stands for ever: the event is in the history and its
\* transaction in the balance, across restarts of either service.
AcceptedIsDurable ==
    \A c \in Submission : answer[c] \in Accepted =>
        /\ payload[c] \in ToSet(events)
        /\ OnWire(payload[c]) \in ToSet(transactions)

\* A 4xx stands for ever too: no late request or retry applies what a caller
\* was told is refused.  (For amounts that survive the hop: see README.)
RejectionIsFinal ==
    \A c \in Submission : answer[c] \in Refused =>
        OnWire(payload[c]) \notin ToSet(transactions)

\* Two callers that submit the same event, or one that submits it again, are
\* never told both that it is accepted and that it is refused, although several
\* lookups of two services decide so, on tables and amounts that differ.
AnswersAgree ==
    \A c, d \in Submission :
        payload[c] = payload[d] => ~(answer[c] \in Accepted /\ answer[d] \in Refused)

\* The two services keep the promise of LedgerPromise.
VerdictOf(status) ==
    CASE status \in Accepted   -> "accepted"
      [] status \in Refused    -> "refused"
      [] status \in Unresolved -> "unknown"
      [] OTHER                 -> status

Promise == INSTANCE LedgerPromise WITH
    Submitter <- Submission,
    applied   <- ToSet(transactions),
    published <- ToSet(events),
    asked     <- payload,
    verdict   <- [c \in Submission |-> VerdictOf(answer[c])]

KeepsPromise == Promise!PromiseSpec

-----------------------------------------------------------------------------
(* What the repository says of the write path and the code does not do.    *)

\* gateway_service/main.py:169, "Account Service is unavailable; transaction
\* was not accepted", and account_client.py:27, "so clients know the
\* transaction was not accepted".
UnavailableMeansNotApplied ==
    \A c \in Submission : answer[c] = "503" =>
        OnWire(payload[c]) \notin ToSet(transactions)

\* docs/architecture.md:149, "clear `503 Service Unavailable` when the Account
\* Service cannot be reached": a handler whose connection breaks answers 503.
OutageAnsweredWith503 ==
    [][ \A c \in Submission :
          (link[c] = "reset" /\ answer'[c] # "pending") =>
              answer'[c] \in {"503", "lost"} ]_ledgerVars

\* contracts.py:61, "so both services compare identical business facts": an
\* event of the history and its transaction carry the same amount.
HistoryMatchesLedger == ToSet(events) \subseteq ToSet(transactions)
=============================================================================
