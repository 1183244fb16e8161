--------------------------- MODULE EventContract ---------------------------
(***************************************************************************)
(* The event payload both services exchange, and what the HTTP hop between *)
(* them does to it (src/src/event_ledger_common/contracts.py).             *)
(*                                                                         *)
(* eventTimestamp and metadata are only ever compared for equality by the  *)
(* write path, so they are one field here, `details'.                      *)
(***************************************************************************)
EXTENDS Integers

CONSTANTS
    EventId,    \* idempotency keys
    AccountId,  \* account identifiers
    Currency,   \* upper-case currency codes
    Details,    \* (eventTimestamp, metadata) pairs
    Amount,     \* amounts as Decimal values; 0 and Infinity only appear after
                \* rounding
    Infinity,   \* the float of an amount beyond the range of floats
    Payload,    \* the validated payloads upstream systems may submit
    Float,      \* Float[a]: the Decimal read back from the JSON float of a
    Route,      \* Route[a]: account_id decoded from the URL built for a
    NoRoute,    \* the URL built for the account id matches no route
    Redirect,   \* it matches one but for a slash at its end: a redirection
    NoUrl       \* no URL can be built: httpx raises InvalidURL

TransactionType == {"CREDIT", "DEBIT"}

EventPayload ==
    [eventId   : EventId,
     accountId : AccountId,
     type      : TransactionType,
     amount    : Amount,
     currency  : Currency,
     details   : Details]

\* Field validation of the contract, a finite Decimal with Field(gt=0): what
\* leaves the Gateway may be invalid on arrival.  (A currency whose upper case
\* is longer than three characters fails on arrival too; an amount that
\* underflows stands for both.)
Valid(p) == p.amount > 0 /\ p.amount # Infinity

\* The two representations of one amount: json floats are not exact, and
\* rounding a second time changes nothing.
ASSUME AmountAssumption ==
    /\ Amount \subseteq Nat
    /\ Float \in [Amount -> Amount]
    /\ \A a \in Amount : Float[Float[a]] = Float[a]

ASSUME PayloadAssumption ==
    /\ Payload \subseteq EventPayload
    /\ \A p \in Payload : Valid(p)

\* What may become of the URL of an account id that reaches no handler.
Nowhere == {NoRoute, Redirect, NoUrl}

ASSUME RouteAssumption ==
    /\ AccountId \cap Nowhere = {}
    /\ Route \in [AccountId -> AccountId \cup Nowhere]

\* What the other side of an HTTP hop reads: every field survives except the
\* amount, which serialize_amount turns into a float.
OnWire(p) == [p EXCEPT !.amount = Float[@]]

\* httpx can make a request of the payload: the URL is well formed and the body
\* is JSON, which has no infinite number (nor a NaN in the metadata or half a
\* surrogate pair, which the overflowing amount stands for).
Sendable(p) == Route[p.accountId] # NoUrl /\ Float[p.amount] # Infinity

\* ... and the answer to it, if there is one, is JSON as well: a redirection
\* has no body.
Deliverable(p) == Sendable(p) /\ Route[p.accountId] # Redirect

WirePayload == {OnWire(p) : p \in Payload}

\* Equality of the business facts of two events, field by field.
SameEvent(existing, incoming) ==
    /\ existing.eventId   = incoming.eventId
    /\ existing.accountId = incoming.accountId
    /\ existing.type      = incoming.type
    /\ existing.amount    = incoming.amount
    /\ existing.currency  = incoming.currency
    /\ existing.details   = incoming.details
=============================================================================
