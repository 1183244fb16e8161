--------------------------- MODULE LedgerPromise ---------------------------
(***************************************************************************)
(* What the Event Ledger as a whole promises to the systems that submit    *)
(* events to it, without services, messages, retries or a breaker: a set   *)
(* of transactions that reached the balances, a set of events in the       *)
(* public history, and one verdict per submission.                         *)
(***************************************************************************)
EXTENDS EventContract

CONSTANTS Submitter, NoPayload

VARIABLES
    applied,     \* transactions that count towards a balance
    published,   \* events of the public history
    asked,       \* asked[s]: the event s last submitted
    verdict      \* verdict[s]: what s knows about it

promiseVars == <<applied, published, asked, verdict>>

PromiseInit ==
    /\ applied = {}
    /\ published = {}
    /\ asked = [s \in Submitter |-> NoPayload]
    /\ verdict = [s \in Submitter |-> "none"]

-----------------------------------------------------------------------------
\* One transaction per event id, one currency per account.
Compatible(q) ==
    \A t \in applied :
        /\ t.eventId # q.eventId
        /\ t.accountId = q.accountId => t.currency = q.currency

\* The reasons for which an event may be refused.  All of them are permanent.
Refusable(p) ==
    \/ \E e \in published : e.eventId = p.eventId /\ e # p
    \/ \E t \in applied : t.eventId = p.eventId /\ t # OnWire(p)
    \/ \E t \in applied : t.accountId = p.accountId /\ t.currency # p.currency
    \/ ~Valid(OnWire(p))
    \/ Route[p.accountId] # p.accountId

\* An answer never claims more than what is stored when it is given.
Justified(p, v) ==
    \/ v = "unknown"
    \/ v = "accepted" /\ p \in published /\ OnWire(p) \in applied
    \/ v = "refused" /\ Refusable(p)

-----------------------------------------------------------------------------
Ask(s, p) ==
    /\ verdict[s] # "pending"
    /\ asked' = [asked EXCEPT ![s] = p]
    /\ \E v \in {"pending", "unknown", "accepted", "refused"} :
        /\ v = "pending" \/ Justified(p, v)
        /\ verdict' = [verdict EXCEPT ![s] = v]
    /\ UNCHANGED <<applied, published>>

Apply(q) ==
    /\ Valid(q) /\ Compatible(q)
    /\ Route[q.accountId] = q.accountId
    /\ applied' = applied \cup {q}
    /\ UNCHANGED <<published, asked, verdict>>

\* Only an applied event enters the history, under a fresh event id.
Publish(s) ==
    /\ verdict[s] = "pending"
    /\ OnWire(asked[s]) \in applied
    /\ \A e \in published : e.eventId # asked[s].eventId
    /\ published' = published \cup {asked[s]}
    /\ \E v \in {"accepted", "unknown"} :
        verdict' = [verdict EXCEPT ![s] = v]
    /\ UNCHANGED <<applied, asked>>

Answer(s) ==
    /\ verdict[s] = "pending"
    /\ \E v \in {"unknown", "accepted", "refused"} :
        /\ Justified(asked[s], v)
        /\ verdict' = [verdict EXCEPT ![s] = v]
    /\ UNCHANGED <<applied, published, asked>>

\* The submissions in progress are cut off.
Forget ==
    /\ verdict' = [s \in Submitter |->
          IF verdict[s] = "pending" THEN "unknown" ELSE verdict[s]]
    /\ UNCHANGED <<applied, published, asked>>

PromiseNext ==
    \/ \E s \in Submitter : Publish(s) \/ Answer(s)
    \/ \E s \in Submitter, p \in Payload : Ask(s, p)
    \/ \E q \in WirePayload : Apply(q)
    \/ Forget

PromiseSpec == PromiseInit /\ [][PromiseNext]_promiseVars

-----------------------------------------------------------------------------
(* What the promise amounts to.                                            *)

PromiseTypeOK ==
    /\ applied \subseteq WirePayload
    /\ published \subseteq Payload
    /\ verdict \in
          [Submitter -> {"none", "pending", "unknown", "accepted", "refused"}]
    /\ DOMAIN asked = Submitter
    /\ \A s \in Submitter : verdict[s] # "none" => asked[s] \in Payload

\* No event counts twice, no account mixes currencies, and whatever is public
\* counts.
TablesAgree ==
    /\ \A t \in applied : Valid(t) /\ Route[t.accountId] = t.accountId
    /\ \A t, u \in applied :
        /\ t.eventId = u.eventId => t = u
        /\ t.accountId = u.accountId => t.currency = u.currency
    /\ \A d, e \in published : d.eventId = e.eventId => d = e
    /\ \A e \in published : OnWire(e) \in applied

\* A verdict stays as justified as it was when it was given.
VerdictsHold ==
    \A s \in Submitter :
        verdict[s] \in {"accepted", "refused"} => Justified(asked[s], verdict[s])

\* Nobody is told that an event is refused which another one is told, or the
\* same one in another answer, is accepted.
VerdictsAgree ==
    \A r, s \in Submitter :
        asked[r] = asked[s] => ~(verdict[r] = "accepted" /\ verdict[s] = "refused")
=============================================================================
