# Event Ledger: specifications, checks and proofs

TLA+ models of the Event Ledger (`src/`), a system of two FastAPI services that
applies financial events exactly once although upstream systems deliver them
repeatedly, late and out of order. Line numbers refer to the files under `src/`.

## The system

| Component | State | Operations | Depends on |
| --- | --- | --- | --- |
| Event contract (`event_ledger_common/contracts.py`, `time.py`) | none | validation, normalisation and serialisation of events; timestamps as text | - |
| Account Service (`account_service/main.py`, `db.py`) | SQLite table `transactions` | `POST /accounts/{id}/transactions`; `GET /accounts/{id}`, `/balance` | contract |
| Account client (`gateway_service/account_client.py`) | per call: attempt; shared: failure count, opening time | `_request`: breaker, attempts, backoff | Account Service over HTTP |
| Gateway writes (`gateway_service/main.py`, `db.py`) | SQLite table `events` | `POST /events` | client |
| Gateway reads | the same table | `GET /events/{id}`, `GET /events?account=`, proxied account reads | client for the proxies |
| Metrics (`metrics.py`) | counters in memory | recorded by handlers and middleware | - |
| Trace context (`trace.py`), logging (`logging.py`) | a context variable | resolve, propagate, format | - |
| Health checks, deployment (`docker-compose.yml`) | none | - | - |

The services share nothing but HTTP. All handlers are `async def` on one event
loop per process, so a handler is interrupted at its `await`s only: none in the
Account Service, and in the Gateway only the ones of the client (a response, a
backoff). The hard behaviours all follow from that gap between the Gateway's
lookup and its insert: other submissions of the same event, timeouts of requests
that are served later, lost responses, restarts of either process, faults of
either database, and a breaker that overlapping calls write in any order.

What makes each component correct:

- Account Service: an event id is applied once; an account has one currency; the
  balance is credits minus debits of the applied events, whatever was repeated.
- Account client: attempts are bounded; the breaker's two fields agree; only
  exhausted calls open it; it lets traffic through again.
- Gateway writes: the history holds applied events only, one per event id; an
  acceptance is durable, a refusal is final; submissions get settled.
- Proxied reads: a balance counts every event that was public when the read began,
  and readers disturb no submission.
- Listings: independent of arrival order, chronological.
- Metrics: outcomes, requests and errors add up; no counter claims more than the
  tables hold.
- Trace context: one request leaves one trace in both services, no other request
  shares it, and the response names it.

PROJECT.json lists the hazards at their lines, with the properties that face them.

## Modules

| Module | What it models |
| --- | --- |
| `EventContract` | An event as a record; `OnWire`, what the JSON hop makes of it; `SameEvent`. |
| `AccountService` | The table `transactions` and the POST handler, one disjunct per outcome; the rows of an account. |
| `AccountClient` | `_request`: one action per stretch between two awaits; the breaker; the clock. |
| `EventLedger` | POST /events end to end: extends the two modules above with Gateway, network, late requests, restarts. |
| `LedgerPromise` | The abstract specification: what a submitter may rely on. |
| `LedgerReads` | `EventLedger` with the proxied account reads, on the same client and breaker. |
| `LedgerUpstream` | `LedgerReads` with upstream systems that resubmit, and the fairness for it. |
| `LedgerMetrics` | `LedgerReads` with the counters of both services superposed. |
| `TraceContext` | Trace ids from the caller's headers through both services to log lines and response. |
| `EventHistory` | The listings of both services and the text order of timestamps. |
| `*Proofs` | Theorems about the module they are named after; `LedgerPromiseProofs` is about `LedgerPromise` and how `EventLedger` implements it. |
| `MC*` | Instances for TLC. |

Operators named `Mut...` are plausible faulty variants of the definition that
follows them. No specification uses them; they exist to show that the properties
can fail.

### How they correspond to the code

`EventContract`. The write path compares `eventTimestamp` and `metadata` for
equality only: they are one field, `details`. `Payload` is the set of events that
pass the Gateway's validation. `Float[a]` is the decimal read back from the JSON
number `serialize_amount` writes for `a`: some amounts round, some underflow to 0
and no longer validate, some overflow to `Infinity`, which httpx (0.28 and later)
refuses to encode as JSON. `Route[a]` is the account id the receiver decodes from the
URL the client builds by plain interpolation, or one of three values: `NoRoute` (404,
405); `NoUrl`, an id with a control character, for which httpx raises `InvalidURL`;
`Redirect`, an id like `a/transactions/?`, whose path matches but for its last slash,
so that the answer is a 307 without a body. An event httpx can make a request of is
`Sendable`, and `Deliverable` if the answer can be decoded too. The overflowing amount
also stands for a body that is not JSON or UTF-8 for another reason (a NaN or half a
surrogate pair in `metadata`), the underflowing one for a currency that grows longer
than three characters in upper case.

`AccountService`. `transactions` is the sequence of rows. A request is one step
because the handler has no await. `ReplayTransaction`, `DuplicateConflict`,
`CurrencyMismatch` and `InsertTransaction` are the four ends of
`AccountRepository.apply_transaction`; `Unprocessable` (422) and `PathMismatch`
(400) come before it. `StorageFault` is any exception of SQLite: before the
INSERT commits, or after, when only the read back fails. The audit timestamp
`applied_at` is left out.

`AccountClient`. `phase[c]` is where a call is suspended, `attempt[c]` the loop
variable. `failures` counts `_consecutive_failures` up to the threshold (above it,
only the comparison matters), `sinceOpened` is the clock's distance from
`_circuit_opened_at`, counted up to the reset window. `Escape` is an exception
that is not one of the four the code catches, `Unsent` one raised before the first
await, when httpx cannot make a request of what it is given. The lines 219-220 are unreachable
because `max_attempts >= 1`.

`EventLedger`. `Call` is a slot for one submission at a time, and is reused. The
first action of a submission runs from the handler's entry to its first await
(`ReplayKnown`, `ConflictKnown`, `FailFast`, `Forward`, `RaiseUnsent`), the last from
the end of an attempt to the answer (`Reject`, `InsertAppliedEvent`,
`ReplayAppliedEvent`, `ConflictAppliedEvent`, `StoreFault`, `Drop`, `Disconnect`,
`Undecodable`, or an exhausted `LoseContact` or `ServerError`). `EntryFault` is an
exception before the event matters: SQLite raises in the first lookup
(`main.py:140`), or the caller's trace id is a text that no header can carry.
Exceptions that nobody maps are answered 500: always for an event that is not
`Deliverable` (`RaiseUnsent`, `Undecodable`), after a restart of the Account Service
(`Drop`), or because a connection just breaks, whose request may then still be served
(`Disconnect`). `link[c]` is the HTTP exchange of the current attempt: sent,
replied with a status, or reset. A request given up by a timeout, a broken
connection or the death of the Gateway, joins `orphans`, from where the Account Service may serve it
at any later time or never. A set is enough: serving a second copy of a request
changes nothing that serving the first did not. `AccountRestart` resets
connections and forgets requests; `GatewayRestart` kills handlers and creates a
new breaker. Committed rows survive both.

`LedgerPromise`. Transactions `applied`, events `published`, and per submitter a
verdict: accepted only if published and applied, refused only for a reason that
is permanent, unknown at any time. What that amounts to is stated with it: the tables
agree (`TablesAgree`), a verdict stays as justified as it was (`VerdictsHold`), no two
verdicts about one event contradict each other (`VerdictsAgree`). `EventLedger` implements it under the mapping
of rows to sets and of statuses to verdicts (500, 503 and a lost answer promise
nothing).

`LedgerReads`. A reader is a slot for one `get_account_balance` or
`get_account_details` at a time; `read[r]` holds the account asked for, the
status answered, the exchange of the current attempt (`link`), the rows the
Account Service added up (`counted`, its set of rows stands for the body), and
`known`, the account's public history when the read began, a ghost field that
`ReadYourWrites` compares the answer with. Both reads take the same path through
the client, so one set of actions models both. An account without rows yields an
empty sum, not a 404, and an id that the Gateway's own route accepts reaches an
Account Service route, so no 4xx is possible, except for an id with `?` or `#`,
whose read reaches another endpoint; such ids are left out here. `ReadRaised` and
`ReadDisconnect` are the exceptions of the client, as above. A read abandoned
by a timeout changes nothing at the Account Service, so it leaves no orphan.

`LedgerMetrics`. `gateway` and `account` are the registries. A handler records its
domain events as it ends; the middleware records the request later, so `leaving`
holds the requests in between, by how they ended. A restart zeroes the registry of
the process, and with the Gateway's also `leaving`. The ghost `behind` remembers
which service restarted last. Submissions refused by validation (a 422 of the
framework) are counted as requests under no outcome; they touch nothing else and
are left out, so `OutcomesAddUp` speaks of valid events. Successful reads, latencies
and the Account Service's request counts are in no property and left out.

`TraceContext`. A trace id is a text with the case of its letters; `Hex` are the
texts that are W3C trace ids, `Opaque` any other. `received`, `outgoing` and
`reply` are pairs of headers, `traceId[r]` is the local variable of the middleware,
`context[r]` what the `ContextVar` holds for the tasks of request `r`: that a
`ContextVar` is a task's own is asyncio's guarantee and assumed, what the model can
show is that binding and reset agree with the local variable. `minted` the UUIDs made so far, `lines` the log lines of both
services. Middleware, handler and attempts are separate actions, because other
requests run at each await. `Raise` is an exception that passes the middleware:
its `finally` logs and resets, and the response, made further out, has no trace
headers. A UUID is taken to be new.

`EventHistory`. The rows of one account in arrival order; `FormatTimestamp` keeps
of the text what a bytewise comparison sees: the seconds (fixed width), '.' and six
digits or nothing, 'Z'. `Ordered` is ORDER BY as SQLite defines it: some arrangement of
the rows in which none precedes one that compares less, by chance which one if several
qualify. That only one does, because of the tie-break, is a property and not part of
the definition.

## Runs

| Run | Instance | What it shows |
| --- | --- | --- |
| `account_client` | 3 calls, deployed settings (3 attempts, threshold 3, window 5 ticks) | `CircuitMatchesFailures`, `OpensOnlyOnExhaustion`, `CallsReturn`, `CircuitAdmitsAgain`. |
| `ledger_race` | 2 submissions, 3 events (two versions of one id, in two currencies; another event that shares the currency of one), 2 attempts, threshold 2 | `EventAppliedOnce`, `SingleCurrency`, `BalanceIsNetOfEvents`, `HistoryBacked`, `OneRecordPerEventId`, `AcceptedIsDurable`, `RejectionIsFinal` through all races, losses, faults, restarts. |
| `ledger_edges` | 2 submissions, 8 events: inexact, vanishing and overflowing amounts, account ids that the URL changes, loses, redirects or cannot hold | `KeepsPromise`: the refinement of `LedgerPromise`; `AnswersAgree`: nobody is told that an event is accepted and somebody that it is refused. |
| `ledger_settles` | 2 insisting submitters and a reader, 3 events (two that exclude each other, one that cannot be sent), 1 attempt, threshold 1, window 2 ticks | `EverySubmissionSettles`: when faults stop, whoever insists on a deliverable event gets a final answer. |
| `ledger_metrics` | 2 submitters and a reader, 1 request each, 3 events (two equal once on the wire, one refused), 2 attempts, threshold 1 | `ReadYourWrites`, `OutcomesAddUp`, `NothingOverclaimed`, `AcceptancesWereApplied` with restarts of either service at any time. |
| `event_history` | 3 events, 5 instants around a second, limit 2 | `ListingIgnoresArrival`, `ChronologicalToTheSecond`, `ChronologicalWhenUniform`. |
| `trace_context` | 2 requests, 3 W3C ids, 1 opaque id, both cases, all combinations of headers | `OneTracePerRequest`, `TracesStayApart`, `EchoFindsTheLines`. |
| `ledger_503` | 1 submission | violated `UnavailableMeansNotApplied` |
| `ledger_outage` | 1 submission | violated `OutageAnsweredWith503` |
| `ledger_amounts` | 1 submission | violated `HistoryMatchesLedger` |
| `history_order` | 2 events | violated `Chronological` |
| `history_recent` | 3 events, limit 2 | violated `RecentAreLatest` |

Every passing run checks the type invariant of its module too, `ledger_edges` and
`ledger_settles` excepted, whose modules have theirs checked in `ledger_race` and
`ledger_metrics`. `AccountService` has no run of its own: its properties are checked
where its requests come from the Gateway, the late ones included, which is the only
way the system reaches it; by itself, under any requests at all, it is the subject of
`AccountServiceProofs`. The handlers of a submission are interchangeable, so the safety
runs with two of them use their symmetry; `ledger_settles`, a liveness property, does
not.

Bounds. A conflict is between two events and a race between two handlers and the
late requests either leaves behind, so two submission slots, reused without
limit, reach every pair of positions; three calls are needed only for the breaker,
where one succeeds while others fail. Payload sets are small but hold a pair
for each way two requests can collide. The sequences are bounded by the number of
event ids, not by a constraint, and counters saturate where the code only compares
them. Counters of metrics do not saturate; `MaxRequests` bounds the requests of
each slot instead, and one request per slot already lets two submissions, a read,
their retries, late requests and restarts overlap. Retries are left to
`ledger_race` and `ledger_metrics`: in `ledger_settles`, where liveness makes every
state expensive, an attempt that fails ends the call, and upstream systems retry
in its stead. Three W3C ids are one per caller and one to mint. `event_history`
stops when all ids are recorded, `ledger_metrics` when the requests are used up and
`trace_context` when all are done, so their runs do not check deadlock; the limit 2
stands for the 25 of the code, where the history needs 26 transactions to show the
same. Three events with any of five instants are every pair of neighbours, with
and without a fraction, in and across seconds, at the same instant or not, and one more
to push out of the page; for more of them there are the theorems.

`RejectionIsFinal` is checked, and proved, with exact amounts only. With amounts
that the hop merges it does not hold, nor should it: of two events whose amounts
differ in the 18th digit the first is accepted, the second refused, and the Account
Service cannot tell them apart (`ledger_amounts`). `AnswersAgree` needs no such
hypothesis: about one and the same event the answers never contradict each other. `ReadYourWrites` makes an
exception for ids that the URL changes: events of account `a%31` are not applied (the
Account Service answers 400), and a read of it shows the balance of account `a1`.

Fairness. `account_client` assumes that httpx ends each attempt (its timeout),
that `asyncio.sleep` returns and that the clock runs. `ledger_settles` assumes that
the clock runs, and its property has two hypotheses: faults, those that meet readers
included, eventually stop (`OutageEnds`), and the event loops of both services run
the handlers of the submission in question, which its upstream system resubmits
(`WF(Progress(c))`). Nothing is asked of the other submissions and reads, which may be
stuck for ever, requests given up are never obliged to be served, and nobody is obliged
to read. Every other run checks safety and assumes no fairness.

`EverySubmissionSettles` has one exception: an event that is not `Deliverable` is
answered 500 whenever the circuit lets it through, however often it is submitted,
without any fault. The Gateway's validation accepts it (`contracts.py:69`, `:71`), and the
exceptions it raises in the client (`account_client.py:169-180`, `:217`) are none of those at
`:181-186`. The instance contains one, whose exceptions reach neither the breaker nor
the other submissions.

## Where code and documentation disagree

- `ledger_503`: a 503 says "transaction was not accepted" (`main.py:169`, ADR 006),
  but the last attempt may have timed out after the commit, or the request may be
  served later. What does hold is `KeepsPromise`: a 503 promises nothing, and
  resubmitting is safe.
- `ledger_outage`: a connection reset by a crashing Account Service raises
  `httpx.ReadError` or `RemoteProtocolError`, which `_request` does not catch: 500,
  no retry, not counted by the breaker.
- `ledger_amounts`: the hop sends a float; the services may store different amounts
  for one event.
- `history_order`: `…:11.500000Z` sorts before `…:11Z`. `ChronologicalToTheSecond`
  and `ChronologicalWhenUniform` say what remains true.
- `history_recent`: the "recent transactions" of an account (`README.md:92`,
  `account_service/main.py:174`, `db.py:223`, `contracts.py:187`) are its oldest 25, the
  query being ascending with a limit (`db.py:235`). `PageMissesTheLatest` says that this is so
  for every limit and history, unless all of it fits or lies within one second.

Visible in the models, but not runs of their own:

- After the reset window every call is let through until one ends, not one probe
  (`account_client.py:225`, `:233`): `Admit` has no guard on other calls.
- A call admitted before the circuit opened closes it when it succeeds, at any time
  inside the reset window, although `technical-decisions.md:66` speaks of a whole
  window.
- An upper-case `X-Trace-Id` is logged as it is by the Gateway and in lower case by
  the Account Service, which prefers `traceparent`; `README.md:211` promises one id.
  `OneTracePerRequest` holds up to the case of the letters only.
- An event that is not `Deliverable` passes validation and can never be accepted nor
  refused; it is answered 500, not 422 or 503.
- The 500 of an exception that escapes a handler carries no trace headers,
  although ids are "echoed in responses" (`README.md:211`).

## Proofs

TLAPS checks every theorem for all values of the constants, from the named
assumptions of the modules only (payloads are well formed, rounding twice is
rounding once, thresholds are positive, readers are not submitters, the parts of a
timestamp are naturals).

- `AccountServiceProofs`: `AccountInv` (type, `EventAppliedOnce`, `SingleCurrency`)
  is inductive. `SingleCurrency` is its own strengthening: the guard looks at one
  arbitrary row, which is enough because all rows agreed before.
  `BalanceIsNetOfEvents` equates two folds of different shape, one over the sequence
  of rows, one over the set of event ids. Both are sums in the sense of `Sums`, which
  leaves the order of the additions open (`ch`), and sums do not depend on it
  (`SumAdds`); then a row more adds to both sides the same (`BalanceIsNet`), because
  the id of the row occurs in no other (`EventAppliedOnce`).
- `AccountClientProofs`: `ClientInv`; `CircuitMatchesFailures` needs the range of the
  count. `OpensOnExhaustion` is an action property from the same invariant.
  `EveryStepNearsTheEnd` is the part of `CallsReturn` that is not fairness: a call has
  fewer than `2 * MaxAttempts` steps to take, and each step it takes uses one up.
- `EventLedgerProofs`: `LedgerInv` adds `SuccessBacked`, without which nothing links
  the Account Service's answer, when given, with what the Gateway stores of it later.
  The argument: every step serves at most one request (`AccountPart`), is a step of
  the client (`ClientPart`), and extends the history at most by an event whose
  success is under way (`HistoryPart`). Rows are never lost, so what was backed
  stays backed. `HistoryBacked`, `OneRecordPerEventId` and `AcceptedIsDurable` follow.
- `LedgerPromiseProofs`, refusals: a request is `Blocked` by the rows of a table for a
  reason that lasts as rows are added. A refusal, under way (`LinkBlocked`) or given
  (`AnswerBlocked`), is one of a blocked request, and a blocked request is no row.
  The Gateway's own refusals come from its history, whose rows are transactions, and
  block the event only if its amount survives the hop: `RefusalFinal` has
  `ExactAmounts` as an explicit hypothesis, and so has `ExactHistoryMatches`, which says
  that inexact amounts are the only cause of what `ledger_amounts` shows.
- `LedgerPromiseProofs`, the refinement: `LedgerSpec => KeepsPromise` without that
  hypothesis, because a promise about refusals asks for a reason at the time of the
  answer. Each step of `EventLedger` maps to `Ask`, `Apply`, `Publish`, `Answer`,
  `Forget` or a stutter; `LinkBlocked` is what turns a refusal on its way into a
  permanent reason when it arrives.
- `LedgerPromiseProofs`, what the refinement is good for: `TruthInv` is the inductive
  invariant of `LedgerPromise`, stated through the mapping (`PromiseIsWorthKeeping`).
  Verdicts stay justified because tables only grow (`JustifiedLasts`), and whatever
  justifies an acceptance excludes each reason of a refusal (`TruthAgrees`).
  `NoContradiction`, that is `AnswersAgree`, follows from the refinement alone, without
  a look at handlers or messages.
- `LedgerReadsProofs`: `ReadsInv` says of every reader that what it has been sent
  counts what it knew (`ReadBacked`): the public history is backed when the read
  begins, and the rows added up later include the rows there then. A step with readers
  is a step without them, or one that no submitter sees (`ReadsAreUnseen`), so the
  invariants (`ReadsAreHarmless`), the refinement (`ReadsKeepPromise`), the agreement of
  answers (`ReadsAgree`) and the finality of refusals (`ReadsRefusalFinal`) carry over.
  `ComponentsImplemented` is the other direction: the composed system implements
  `AccountSpec` and `ClientSpec`, so what is proved of the components by themselves
  (balances, what opens the circuit) holds inside it (`ComponentsHoldTogether`).
  The steps of `UpstreamSpec` are steps of `ReadsSpec`, so insisting is safe
  (`InsistingIsSafe`).
- `LedgerMetricsProofs`: counting is superposed, `MetricsSpec => ReadsSpec`, so
  everything above holds with counters (`WholeSystem`). A step of the registries is one
  of five (`GatewayCounts`), each of which adds the same to both sides of the balance;
  `NothingOverclaimed` follows from the rows that the counting steps append.
  `AcceptancesWereApplied` is not inductive: a success counted by the Account Service
  may be on its way. `SuccessesCovered` counts those (`Unspent`, finite at any time) with
  the acceptances; a response that arrives moves from one count to the other, one that
  is lost makes the inequality weaker.
- `TraceContextProofs`: the texts of a request, those of its headers, context,
  outgoing headers and lines, are one up to case (`TextInv`), and two requests with
  a text in common have it from a caller, because minted ids are fresh.
- `EventHistoryProofs`: what comparing two texts byte by byte amounts to (`TextOrder`),
  and that with the tie-break it is a strict total order of the rows of a table
  (`RowOrder`, `StrictOrder`). A sorted arrangement is unique
  (`SortedIsUnique`), so the listing does not depend on arrival; that there is one at
  all is the invariant (`Sortable`), because a new row has a place in the listing
  before it (`PlaceForRow`, `NextListing`). `PageMissesTheLatest` follows: the page is the
  beginning of the listing, and the listing ends in a later second than it begins.

A fold or a sort is a recursion over data, and the induction theorems of the library
cannot be used with these provers (they take an operator). The proofs that need one
argue from a minimal counterexample instead (`LeastSubset` and `LeastIndex` for the
balance, `LeastNat` for the listing): the relation `<` on naturals and the strict
subsets of a finite set are well founded, which are first-order facts.

Every invariant and every safety property the passing runs check is proved, and
nothing of it is weaker than what the runs check. `RejectionIsFinal` is the only one
with a hypothesis on constants (`ExactAmounts`). Only model-checked: liveness
(`CallsReturn`, `CircuitAdmitsAgain`, `EverySubmissionSettles`), which needs ENABLED.
The five runs with a violated property are counterexamples, of which `PageMissesTheLatest`
makes one a theorem.

## Not modelled

- The 28-digit context of Decimal addition (`account_service/db.py:216`): amounts are
  model values, and the order of the addition is the plan SQLite picks.
- Health checks: `health_check` answers or raises, it never returns `False`, so the
  "degraded" answers of both services cannot occur; there is no state.
- Deployment; several Gateway instances, each with a breaker of its own; the loss of a
  database file. Compose mounts no volume, so recreating a container alone discards
  its table and with it `HistoryBacked`.
- Response models, the layout of log lines, and the validation of single fields, whose
  result is the constant `Payload`.

## Plan

Done: all modules above and the proofs of all the safety properties, with the promise
carried through readers, counters and resubmissions to the whole system. Left:
`BalanceArithmetic`, rounding to the decimal context, which would need the digits of
amounts; for the liveness of the breaker (`CircuitAdmitsAgain`) a bound like that of
`EveryStepNearsTheEnd`, on how often the calls in flight can restart its window.
