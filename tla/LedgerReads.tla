----------------------------- MODULE LedgerReads -----------------------------
(***************************************************************************)
(* EventLedger with the account reads GET /accounts/{id}/balance and       *)
(* GET /accounts/{id}, which the Gateway proxies through the client, and   *)
(* the circuit breaker, that submissions use too.                          *)
(*                                                                         *)
(* Both reads take the same path; the body of the answer is the set of     *)
(* rows its balance was added up from.  Reads of the Gateway's own table   *)
(* (GET /events) are one lookup without an await: what such a read would   *)
(* have returned when an account read began is its `known'.                *)
(***************************************************************************)
EXTENDS EventLedger

CONSTANT Reader    \* the calls of _request made by read handlers

ASSUME ReaderAssumption ==
    /\ Reader \subseteq Call
    /\ Reader \cap Submission = {}
    /\ AccountId # {}

VARIABLE read    \* read[r]: the handler of the last read made in slot r

readsVars == <<ledgerVars, read>>

ReadStatus == {"none", "pending", "200", "500", "503", "lost"}
ReadLink   == {"none", "sent", "reset", "200", "500"}

\* A path with '/' in the account id matches no route of the Gateway either.
\* (Reads of ids with '?' or '#', which reach another endpoint, are left out.)
Readable == {a \in AccountId : Route[a] \notin {NoRoute, Redirect}}

Unread == [account |-> CHOOSE a \in AccountId : TRUE, status |-> "none",
           link |-> "none", counted |-> {}, known |-> {}]

ReadsInit == LedgerInit /\ read = [r \in Reader |-> Unread]

\* The events of an account anybody can know to be accepted.
History(a) == {e \in ToSet(events) : e.accountId = a}

-----------------------------------------------------------------------------
(* The Gateway's handler up to the first await.                            *)

BeginRead(r, a, status, link_) ==
    /\ read[r].status # "pending"
    /\ read' = [read EXCEPT ![r] =
          [account |-> a, status |-> status, link |-> link_,
           counted |-> {}, known |-> History(a)]]

ReadFailFast(r, a) == ShortCircuit(r) /\ BeginRead(r, a, "503", "none")

ReadForward(r, a) ==
    /\ Route[a] # NoUrl
    /\ Admit(r)
    /\ BeginRead(r, a, "pending", "sent")

\* No URL can hold the id, or no header the trace id of the caller.
ReadRaised(r, a) == Unsent(r) /\ BeginRead(r, a, "500", "none")

\* The handler goes on: the account it asks for and what was known stay.
Moved(r, status, link_, rows) ==
    [account |-> read[r].account, status |-> status, link |-> link_,
     counted |-> rows, known |-> read[r].known]

Move(r, status, link_, rows) ==
    read' = [read EXCEPT ![r] = Moved(r, status, link_, rows)]

-----------------------------------------------------------------------------
(* The Account Service's handlers.                                         *)

\* Mutant: only credits are added up.
MutCounted(a) == {t \in AccountRows(a) : t.type = "CREDIT"}

\* get_balance and get_account_details: every row of the account.
Counted(a) == AccountRows(a)

ReadServed(r) ==
    /\ read[r].link = "sent"
    /\ Move(r, "pending", "200", Counted(Route[read[r].account]))
    /\ UNCHANGED clientVars

ReadFails(r) ==
    /\ read[r].link = "sent"
    /\ Move(r, "pending", "500", {})
    /\ UNCHANGED clientVars

-----------------------------------------------------------------------------
(* The Gateway's handler from the end of an attempt on.                    *)

ReadAnswered(r) ==
    /\ read[r].link = "200"
    /\ Answered(r)
    /\ Move(r, "200", "none", read[r].counted)

\* A 500, or no response: what was read is discarded.
ReadFailed(r) ==
    \/ BackOff(r) /\ Move(r, "pending", "none", {})
    \/ Exhaust(r) /\ Move(r, "503", "none", {})

ReadRetry(r) == Resume(r) /\ Move(r, "pending", "sent", {})

\* Mutant: the exchange of a finished read is kept.
MutReadDropped(r) ==
    /\ read[r].link = "reset"
    /\ Escape(r)
    /\ Move(r, "500", "reset", {})

ReadDropped(r) ==
    /\ read[r].link = "reset"
    /\ Escape(r)
    /\ Move(r, "500", "none", {})

\* The connection breaks without a restart of the Account Service.
ReadDisconnect(r) ==
    /\ read[r].link # "reset"
    /\ Escape(r)
    /\ Move(r, "500", "none", {})

ReadResolve(r) ==
    \/ ReadAnswered(r)
    \/ read[r].link = "500" /\ ReadFailed(r)
    \/ ReadDropped(r)

ReadFault(r) == ReadFails(r) \/ ReadFailed(r) \/ ReadDisconnect(r)

ReadStep(r) ==
    /\ \/ \E a \in Readable :
            ReadFailFast(r, a) \/ ReadForward(r, a) \/ ReadRaised(r, a)
       \/ ReadServed(r) \/ ReadResolve(r) \/ ReadRetry(r) \/ ReadFault(r)
    /\ UNCHANGED <<accountVars, gatewayVars, netVars>>

-----------------------------------------------------------------------------
(* Restarts cut the reads of the process off, or reset its connections.    *)

CutReads ==
    read' = [r \in Reader |->
        IF read[r].status = "pending" THEN Moved(r, "lost", "none", {})
                                      ELSE read[r]]

ResetReads ==
    \E cut \in SUBSET {r \in Reader : read[r].link \in {"200", "500"}} :
        read' = [r \in Reader |->
            IF read[r].link = "sent" \/ r \in cut
                THEN Moved(r, "pending", "reset", {})
                ELSE read[r]]

ReadsNext ==
    \/ WriteStep /\ UNCHANGED read
    \/ \E r \in Reader : ReadStep(r)
    \/ GatewayRestart /\ CutReads
    \/ AccountRestart /\ ResetReads

ReadsSpec == ReadsInit /\ [][ReadsNext]_readsVars

-----------------------------------------------------------------------------
(* Properties.                                                             *)

\* A read handler without an answer is exactly one with a call in flight, and
\* an exchange is open exactly while its call waits.
ReadsTypeOK ==
    /\ read \in [Reader ->
          [account : AccountId, status : ReadStatus, link : ReadLink,
           counted : SUBSET WirePayload, known : SUBSET Payload]]
    /\ \A r \in Reader :
        /\ phase[r] # "idle" <=> read[r].status = "pending"
        /\ phase[r] = "waiting" <=> read[r].link # "none"

\* Read your writes, across two databases and whatever is in flight: a balance
\* counts every event that was in the public history of the account when the
\* read began.  (An id that the URL changes is the exception: see README.)
ReadYourWrites ==
    \A r \in Reader :
        LET a == read[r].account
        IN  (read[r].status = "200" /\ Route[a] = a) =>
                {OnWire(e) : e \in read[r].known} \subseteq read[r].counted
=============================================================================
