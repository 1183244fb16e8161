--------------------------- MODULE LedgerUpstream ---------------------------
(***************************************************************************)
(* LedgerReads driven by upstream systems that do what the README tells    *)
(* them to: submit an event again until it is accepted or refused.  What   *)
(* they can count on once the outage is over, whoever reads balances in    *)
(* the meantime, is a liveness property.                                   *)
(***************************************************************************)
EXTENDS LedgerReads

Unsettled(c) == answer[c] \in {"pending"} \cup Unresolved

\* An upstream system does not turn to another event before this one settles.
Persistent == \A c \in Submission : Unsettled(c) => payload'[c] = payload[c]

UpstreamNext == ReadsNext /\ Persistent

Resubmit(c) ==
    /\ answer[c] \in Unresolved
    /\ Submit(c, payload[c])

\* The one step a handler, or the upstream system behind it, can take next.
Progress(c) ==
    /\ UNCHANGED read
    /\ Resolve(c) \/ Retry(c) \/ AccountServes(c) \/ Resubmit(c)

\* The clock runs.
UpstreamFairness == WF_readsVars(ClockTick /\ UNCHANGED read)

UpstreamSpec == ReadsInit /\ [][UpstreamNext]_readsVars /\ UpstreamFairness

\* README "circuit breaker" and "safe retries" together: when faults stop, an
\* insisting upstream system gets a final answer, provided the event loops of
\* both services run the handlers of its own submission.  Nothing is asked of
\* the others: neither an open circuit, a poisoned row, a late request nor the
\* submissions and reads of others, stuck for ever or not, leave it with a 503.
\* (An event httpx cannot send, or whose URL is redirected, is the exception:
\* it is answered 500 however often it is submitted.)
AnyFault == Fault \/ \E r \in Reader : ReadFault(r)

OutageEnds == <>[][~AnyFault]_readsVars

EverySubmissionSettles ==
    OutageEnds => \A c \in Submission :
        WF_readsVars(Progress(c)) =>
            ((Unsettled(c) /\ Deliverable(payload[c])) ~> ~Unsettled(c))
=============================================================================
