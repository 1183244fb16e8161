---------------------------- MODULE LedgerMetrics ----------------------------
(***************************************************************************)
(* LedgerReads with the counters both services publish at GET /metrics     *)
(* (src/src/event_ledger_common/metrics.py): the domain events the         *)
(* handlers record, and the requests and errors the Gateway's middleware   *)
(* records later, after the await of the handler it wraps.  They live in   *)
(* the processes: a restart zeroes them and leaves the rows they count.    *)
(* Successful reads are in no counter a property is about.                 *)
(***************************************************************************)
EXTENDS LedgerReads

CONSTANT MaxRequests    \* bound on the requests of each slot

ASSUME MaxRequestsAssumption == MaxRequests \in Nat

VARIABLES
    gateway,    \* the Gateway's registry, by name of the counter
    leaving,    \* requests between handler and middleware, by how they ended
    account,    \* the Account Service's
    requests,   \* requests[c]: those made in slot c so far
    behind      \* the Account Service restarted after the Gateway last did

metricsVars == <<readsVars, gateway, leaving, account, requests, behind>>

GatewayCounter ==
    {"posts", "post_errors", "get_errors",
     "accepted", "duplicate_replay", "idempotency_conflict", "rejected",
     "unavailable", "circuit_open"}

Ending == {"post", "post_5xx", "get_5xx"}

AccountCounter ==
    {"applied", "duplicate_replay", "idempotency_conflict",
     "currency_conflict", "path_mismatch"}

MetricsInit ==
    /\ ReadsInit
    /\ gateway = [n \in GatewayCounter |-> 0]
    /\ leaving = [k \in Ending |-> 0]
    /\ account = [n \in AccountCounter |-> 0]
    /\ requests = [c \in Call |-> 0]
    /\ behind = FALSE

Bump(counts, names) ==
    [n \in DOMAIN counts |-> IF n \in names THEN counts[n] + 1 ELSE counts[n]]

-----------------------------------------------------------------------------
(* What the Gateway's handlers count, and then its middleware.             *)

\* A handler records `names' and ends, or goes on.
Count(names, endings) ==
    /\ gateway' = Bump(gateway, names)
    /\ leaving' = Bump(leaving, endings)

Posted(names)     == Count(names, {"post"})
PostFailed(names) == Count(names, {"post_5xx"})
ReadErred(names)  == Count(names, {"get_5xx"})
Nothing           == UNCHANGED <<gateway, leaving>>

RequestCounters(k) ==
    CASE k = "post"     -> {"posts"}
      [] k = "post_5xx" -> {"posts", "post_errors"}
      [] k = "get_5xx"  -> {"get_errors"}

RecordRequest(k) ==
    /\ leaving[k] > 0
    /\ leaving' = [leaving EXCEPT ![k] = @ - 1]
    /\ gateway' = Bump(gateway, RequestCounters(k))

Begin(c) ==
    /\ requests[c] < MaxRequests
    /\ requests' = [requests EXCEPT ![c] = @ + 1]

SubmitCounted(c, p) ==
    /\ Begin(c)
    /\ \/ ReplayKnown(c, p)   /\ Posted({"duplicate_replay"})
       \/ ConflictKnown(c, p) /\ Posted({"idempotency_conflict"})
       \/ FailFast(c, p)      /\ PostFailed({"circuit_open", "unavailable"})
       \/ Forward(c, p)       /\ Nothing
       \/ (RaiseUnsent(c, p) \/ EntryFault(c, p)) /\ PostFailed({})

AttemptCounted(c) ==
    /\ ServerError(c) \/ LoseContact(c)
    /\ IF answer'[c] = "503" THEN PostFailed({"unavailable"}) ELSE Nothing

\* Mutant: counted as a conflict as well, like the Gateway's own 409s.
MutRejectCounted(c) ==
    Reject(c) /\ Posted({"rejected", "idempotency_conflict"})

RejectCounted(c) == Reject(c) /\ Posted({"rejected"})

\* Mutant: `created' is ignored.
MutReplayCounted(c) == ReplayAppliedEvent(c) /\ Posted({"accepted"})

ReplayCounted(c) == ReplayAppliedEvent(c) /\ Posted({"duplicate_replay"})

\* A 500 is counted by the middleware only, whatever was committed before it.
HandlerCounted(c) ==
    \/ AttemptCounted(c)
    \/ RejectCounted(c)
    \/ ReplayCounted(c)
    \/ InsertAppliedEvent(c)   /\ Posted({"accepted"})
    \/ ConflictAppliedEvent(c) /\ Posted({"idempotency_conflict"})
    \/ /\ StoreFault(c) \/ Drop(c) \/ Disconnect(c) \/ Undecodable(c)
       /\ PostFailed({})
    \/ Retry(c)                /\ Nothing

ReadCounted(r) ==
    \/ /\ Begin(r)
       /\ \E a \in Readable :
            \/ ReadFailFast(r, a) /\ ReadErred({"circuit_open", "unavailable"})
            \/ ReadForward(r, a)  /\ Nothing
            \/ ReadRaised(r, a)   /\ ReadErred({})
    \/ /\ UNCHANGED requests
       /\ \/ (ReadServed(r) \/ ReadFails(r) \/ ReadRetry(r)) /\ Nothing
          \/ /\ ReadFailed(r)
             /\ IF read'[r].status = "503" THEN ReadErred({"unavailable"})
                                           ELSE Nothing
          \/ ReadAnswered(r) /\ Nothing
          \/ (ReadDropped(r) \/ ReadDisconnect(r)) /\ ReadErred({})

-----------------------------------------------------------------------------
(* What the Account Service counts.                                        *)

\* Mutant: a replay is not worth counting.
MutServeCounts(q, status) ==
    CASE status = "201" -> {"applied"}
      [] status = "400" -> {"path_mismatch"}
      [] OTHER          -> {}

ServeCounts(q, status) ==
    CASE status = "201" -> {"applied"}
      [] status = "200" -> {"duplicate_replay"}
      [] status = "400" -> {"path_mismatch"}
      [] status = "409" -> IF GetTransaction(q.eventId) # {}
                               THEN {"idempotency_conflict"}
                               ELSE {"currency_conflict"}
      [] OTHER          -> {}

AccountCounted ==
    \/ \E c \in Submission :
        \/ /\ AccountServes(c)
           /\ account' = Bump(account, ServeCounts(OnWire(payload[c]), link'[c]))
        \/ AccountFails(c) /\ UNCHANGED account
    \/ \E q \in orphans :
        /\ Unheard(q)
        /\ \/ \E status \in Replied :
                /\ Serve(q, status)
                /\ account' = Bump(account, ServeCounts(q, status))
           \/ Break(q) /\ UNCHANGED account

-----------------------------------------------------------------------------
MetricsNext ==
    \/ /\ \E c \in Submission :
            \/ \E p \in Payload : SubmitCounted(c, p)
            \/ HandlerCounted(c) /\ UNCHANGED requests
       /\ UNCHANGED <<read, account, behind>>
    \/ /\ \E r \in Reader : ReadCounted(r)
       /\ UNCHANGED <<accountVars, gatewayVars, netVars, account, behind>>
    \/ /\ \E k \in Ending : RecordRequest(k)
       /\ UNCHANGED <<readsVars, account, requests, behind>>
    \/ AccountCounted /\ UNCHANGED <<read, gateway, leaving, requests, behind>>
    \/ /\ ClockTick
       /\ UNCHANGED <<read, gateway, leaving, account, requests, behind>>
    \/ /\ GatewayRestart /\ CutReads
       /\ gateway' = [n \in GatewayCounter |-> 0]
       /\ leaving' = [k \in Ending |-> 0]
       /\ behind' = FALSE
       /\ UNCHANGED <<account, requests>>
    \/ /\ AccountRestart /\ ResetReads
       /\ account' = [n \in AccountCounter |-> 0]
       /\ behind' = TRUE
       /\ UNCHANGED <<gateway, leaving, requests>>

MetricsSpec == MetricsInit /\ [][MetricsNext]_metricsVars

-----------------------------------------------------------------------------
(* Properties.                                                             *)

\* The two views of /metrics agree, whatever the order in which overlapping
\* requests pass handler and middleware: the submissions (of valid events) that
\* did not end in a 5xx, recorded or just about to be, are counted under one
\* outcome each, and every unavailability is the error of some request.
OutcomesAddUp ==
    /\ gateway["posts"] + leaving["post"] =
          gateway["post_errors"]
          + gateway["accepted"] + gateway["duplicate_replay"]
          + gateway["idempotency_conflict"] + gateway["rejected"]
    /\ gateway["circuit_open"] <= gateway["unavailable"]
    /\ gateway["unavailable"] <= gateway["post_errors"] + gateway["get_errors"]
                                  + leaving["post_5xx"] + leaving["get_5xx"]

\* A counter may forget, never invent: no more events are reported accepted or
\* applied than the tables hold.
NothingOverclaimed ==
    /\ gateway["accepted"] <= Len(events)
    /\ account["applied"] <= Len(transactions)

\* Across the services, which count on their own: unless the Account Service
\* has forgotten more than the Gateway, every acceptance is one of the
\* requests it reports as applied or replayed.
AcceptancesWereApplied ==
    ~behind => gateway["accepted"] <=
                   account["applied"] + account["duplicate_replay"]
=============================================================================
