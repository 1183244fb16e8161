------------------------ MODULE LedgerMetricsProofs ------------------------
(***************************************************************************)
(* The counters are superposed on the system: counting changes nothing of  *)
(* it (so all that is proved of LedgerReads holds with them), and what is  *)
(* counted adds up for any number of requests, readers and restarts.       *)
(***************************************************************************)
EXTENDS LedgerMetrics, LedgerReadsProofs, FiniteSetTheorems

Outcome == {"accepted", "duplicate_replay", "idempotency_conflict", "rejected"}

\* Why a request ended in a 5xx: an open circuit, an exhausted call, or an
\* exception.
Reason == {{"circuit_open", "unavailable"}, {"unavailable"}, {}}

\* The successes on their way back to a handler.  Each may become one more
\* acceptance, so each must be covered by what the Account Service counts; what
\* AcceptancesWereApplied says of the counters alone is not inductive.
Unspent == {c \in Submission : link[c] \in Accepted}

Successes == account["applied"] + account["duplicate_replay"]

SuccessesCovered ==
    /\ IsFiniteSet(Unspent)
    /\ ~behind => gateway["accepted"] + Cardinality(Unspent) <= Successes

MetricsInv ==
    /\ gateway \in [GatewayCounter -> Nat]
    /\ leaving \in [Ending -> Nat]
    /\ account \in [AccountCounter -> Nat]
    /\ OutcomesAddUp
    /\ NothingOverclaimed
    /\ SuccessesCovered

-----------------------------------------------------------------------------
(* Superposition.                                                          *)

\* Whatever is counted, the step is one of LedgerReads.
LEMMA MetricsRefineStep ==
    ASSUME [MetricsNext]_metricsVars
    PROVE  [ReadsNext]_readsVars
<1>1. ASSUME NEW c \in Submission, NEW p \in Payload, SubmitCounted(c, p)
      PROVE  Submit(c, p) \/ LocalFault
  BY <1>1 DEF SubmitCounted, Submit, LocalFault
<1>2. ASSUME NEW c \in Submission, HandlerCounted(c)
      PROVE  Resolve(c) \/ Retry(c) \/ LocalFault
  BY <1>2 DEF HandlerCounted, AttemptCounted, RejectCounted, ReplayCounted,
              Resolve, LocalFault
<1>3. CASE /\ \E c \in Submission :
                \/ \E p \in Payload : SubmitCounted(c, p)
                \/ HandlerCounted(c) /\ UNCHANGED requests
           /\ UNCHANGED <<read, account, behind>>
  BY <1>1, <1>2, <1>3 DEF WriteStep, ReadsNext
<1>4. ASSUME NEW r \in Reader, ReadCounted(r),
             UNCHANGED <<accountVars, gatewayVars, netVars>>
      PROVE  ReadStep(r)
  BY <1>4 DEF ReadCounted, ReadStep, ReadResolve, ReadFault
<1>5. CASE AccountCounted /\ UNCHANGED <<read, gateway, leaving, requests, behind>>
  BY <1>5 DEF AccountCounted, OrphanServed, LocalFault, WriteStep, ReadsNext
<1>6. CASE UNCHANGED readsVars
  BY <1>6
<1> QED
  BY <1>3, <1>4, <1>5, <1>6 DEF MetricsNext, ReadsNext, WriteStep, metricsVars

\* So counting is harmless: the system with its counters does nothing that it
\* would not do without them.
THEOREM CountingIsSuperposed == MetricsSpec => ReadsSpec
<1>1. MetricsInit => ReadsInit
  BY DEF MetricsInit
<1> QED
  BY <1>1, MetricsRefineStep, PTL DEF MetricsSpec, ReadsSpec

-----------------------------------------------------------------------------
(* Counting.                                                               *)

LEMMA Bumped ==
    ASSUME NEW S, NEW counts \in [S -> Nat], NEW names
    PROVE  /\ Bump(counts, names) \in [S -> Nat]
           /\ \A n \in S : Bump(counts, names)[n] =
                               IF n \in names THEN counts[n] + 1 ELSE counts[n]
BY DEF Bump

\* What a step may do to the Gateway's counters.
Restarted == /\ gateway' = [n \in GatewayCounter |-> 0]
             /\ leaving' = [k \in Ending |-> 0]

GatewayCounts ==
    \/ Nothing
    \/ Restarted
    \/ \E o \in Outcome : Posted({o})
    \/ \E why \in Reason : PostFailed(why) \/ ReadErred(why)
    \/ \E k \in Ending : RecordRequest(k)

LEMMA GatewayStep ==
    ASSUME [MetricsNext]_metricsVars
    PROVE  GatewayCounts
<1>1. ASSUME NEW c \in Submission, NEW p \in Payload, SubmitCounted(c, p)
      PROVE  GatewayCounts
  BY <1>1 DEF SubmitCounted, GatewayCounts, Outcome, Reason
<1>2. ASSUME NEW c \in Submission, HandlerCounted(c)
      PROVE  GatewayCounts
  BY <1>2 DEF HandlerCounted, AttemptCounted, RejectCounted, ReplayCounted,
              GatewayCounts, Outcome, Reason
<1>3. ASSUME NEW r \in Reader, ReadCounted(r)
      PROVE  GatewayCounts
  BY <1>3 DEF ReadCounted, GatewayCounts, Reason
<1>4. CASE UNCHANGED <<gateway, leaving>>
  BY <1>4 DEF GatewayCounts, Nothing
<1> QED
  BY <1>1, <1>2, <1>3, <1>4 DEF MetricsNext, metricsVars, GatewayCounts, Restarted

\* What a bump leaves.
Bumps(counts, later, names) ==
    \A n \in DOMAIN counts :
        /\ n \in names => later[n] = counts[n] + 1
        /\ n \notin names => later[n] = counts[n]

CountersTyped ==
    gateway \in [GatewayCounter -> Nat] /\ leaving \in [Ending -> Nat]

LEMMA CountBumps ==
    ASSUME CountersTyped, NEW names, NEW endings, Count(names, endings)
    PROVE  /\ CountersTyped'
           /\ Bumps(gateway, gateway', names)
           /\ Bumps(leaving, leaving', endings)
BY Bumped DEF CountersTyped, Count, Bumps

\* The values the books are made of are numbers.
LEMMA CountersAreNumbers ==
    ASSUME CountersTyped
    PROVE  /\ gateway["posts"] \in Nat /\ gateway["post_errors"] \in Nat
           /\ gateway["get_errors"] \in Nat /\ gateway["accepted"] \in Nat
           /\ gateway["duplicate_replay"] \in Nat
           /\ gateway["idempotency_conflict"] \in Nat
           /\ gateway["rejected"] \in Nat
           /\ gateway["unavailable"] \in Nat /\ gateway["circuit_open"] \in Nat
           /\ leaving["post"] \in Nat /\ leaving["post_5xx"] \in Nat
           /\ leaving["get_5xx"] \in Nat
BY DEF CountersTyped, GatewayCounter, Ending

\* One more on both sides of the books.
LEMMA OneMore ==
    ASSUME NEW posts \in Nat, NEW passing \in Nat, NEW errors \in Nat,
           NEW a \in Nat, NEW b \in Nat, NEW c \in Nat, NEW d \in Nat,
           posts + passing = errors + a + b + c + d
    PROVE  /\ posts + (passing + 1) = errors + (a + 1) + b + c + d
           /\ posts + (passing + 1) = errors + a + (b + 1) + c + d
           /\ posts + (passing + 1) = errors + a + b + (c + 1) + d
           /\ posts + (passing + 1) = errors + a + b + c + (d + 1)
           /\ (posts + 1) + passing = (errors + 1) + a + b + c + d
           /\ (posts + 1) + (passing - 1) = errors + a + b + c + d
OBVIOUS

\* The first line of the books.
Submitted ==
    gateway["posts"] + leaving["post"] =
        gateway["post_errors"]
        + gateway["accepted"] + gateway["duplicate_replay"]
        + gateway["idempotency_conflict"] + gateway["rejected"]

\* One outcome more, and one request more on its way out.
LEMMA OutcomeBalances ==
    ASSUME CountersTyped, OutcomesAddUp, NEW o \in Outcome, Posted({o})
    PROVE  CountersTyped' /\ OutcomesAddUp'
<1> DEFINE Others == (Outcome \ {o}) \cup {"posts", "post_errors", "get_errors",
                                            "unavailable", "circuit_open"}
<1>1. /\ CountersTyped'
      /\ Bumps(gateway, gateway', {o})
      /\ Bumps(leaving, leaving', {"post"})
  BY CountBumps DEF Posted
<1>2. /\ gateway'[o] = gateway[o] + 1
      /\ \A n \in Others : gateway'[n] = gateway[n]
  BY <1>1 DEF CountersTyped, Bumps, Outcome, GatewayCounter
<1>3. /\ leaving'["post"] = leaving["post"] + 1
      /\ leaving'["post_5xx"] = leaving["post_5xx"]
      /\ leaving'["get_5xx"] = leaving["get_5xx"]
  BY <1>1 DEF CountersTyped, Bumps, Ending
<1>4. /\ gateway'["posts"] = gateway["posts"]
      /\ gateway'["post_errors"] = gateway["post_errors"]
      /\ gateway'["get_errors"] = gateway["get_errors"]
      /\ gateway'["unavailable"] = gateway["unavailable"]
      /\ gateway'["circuit_open"] = gateway["circuit_open"]
  BY <1>2
<1>5. Submitted'
  <2>1. gateway["posts"] + leaving["post"] =
            gateway["post_errors"] + gateway["accepted"]
            + gateway["duplicate_replay"] + gateway["idempotency_conflict"]
            + gateway["rejected"]
    BY DEF OutcomesAddUp
  <2>2. /\ gateway["posts"] + (leaving["post"] + 1) =
              gateway["post_errors"] + (gateway["accepted"] + 1)
              + gateway["duplicate_replay"] + gateway["idempotency_conflict"]
              + gateway["rejected"]
        /\ gateway["posts"] + (leaving["post"] + 1) =
              gateway["post_errors"] + gateway["accepted"]
              + (gateway["duplicate_replay"] + 1)
              + gateway["idempotency_conflict"] + gateway["rejected"]
        /\ gateway["posts"] + (leaving["post"] + 1) =
              gateway["post_errors"] + gateway["accepted"]
              + gateway["duplicate_replay"]
              + (gateway["idempotency_conflict"] + 1) + gateway["rejected"]
        /\ gateway["posts"] + (leaving["post"] + 1) =
              gateway["post_errors"] + gateway["accepted"]
              + gateway["duplicate_replay"] + gateway["idempotency_conflict"]
              + (gateway["rejected"] + 1)
    BY ONLY <2>1, CountersTyped, CountersAreNumbers, OneMore
  <2> QED
    BY <1>2, <1>3, <1>4, <2>2 DEF Outcome, Submitted
<1> QED
  BY <1>1, <1>3, <1>4, <1>5 DEF OutcomesAddUp, Submitted

LEMMA ErrorBalances ==
    ASSUME CountersTyped, OutcomesAddUp, NEW why \in Reason,
           PostFailed(why) \/ ReadErred(why)
    PROVE  CountersTyped' /\ OutcomesAddUp'
<1>1. PICK k \in {"post_5xx", "get_5xx"} :
            /\ CountersTyped'
            /\ Bumps(gateway, gateway', why)
            /\ Bumps(leaving, leaving', {k})
  BY CountBumps DEF PostFailed, ReadErred
<1>2. \A n \in Outcome \cup {"posts", "post_errors", "get_errors"} :
            gateway'[n] = gateway[n]
  BY <1>1 DEF CountersTyped, Bumps, Outcome, GatewayCounter, Reason
<1>3. \/ /\ gateway'["circuit_open"] = gateway["circuit_open"] + 1
         /\ gateway'["unavailable"] = gateway["unavailable"] + 1
      \/ /\ gateway'["circuit_open"] = gateway["circuit_open"]
         /\ gateway'["unavailable"] \in {gateway["unavailable"],
                                        gateway["unavailable"] + 1}
  BY <1>1 DEF CountersTyped, Bumps, GatewayCounter, Reason
<1>4. /\ leaving'["post"] = leaving["post"]
      /\ \/ /\ leaving'["post_5xx"] = leaving["post_5xx"] + 1
            /\ leaving'["get_5xx"] = leaving["get_5xx"]
         \/ /\ leaving'["post_5xx"] = leaving["post_5xx"]
            /\ leaving'["get_5xx"] = leaving["get_5xx"] + 1
  BY <1>1 DEF CountersTyped, Bumps, Ending
<1> QED
  BY <1>1, <1>2, <1>3, <1>4, CountersAreNumbers DEF OutcomesAddUp, Outcome

\* The middleware moves a request from one side of the books to the other.
LEMMA RecordBalances ==
    ASSUME CountersTyped, OutcomesAddUp, NEW k \in Ending, RecordRequest(k)
    PROVE  CountersTyped' /\ OutcomesAddUp'
<1>1. /\ gateway' \in [GatewayCounter -> Nat]
      /\ Bumps(gateway, gateway', RequestCounters(k))
  BY Bumped DEF CountersTyped, RecordRequest, Bumps
<1>2. /\ leaving[k] \in Nat /\ leaving[k] > 0
      /\ leaving' \in [Ending -> Nat]
      /\ leaving'[k] = leaving[k] - 1
      /\ \A j \in Ending \ {k} : leaving'[j] = leaving[j]
  BY DEF CountersTyped, RecordRequest
<1>3. \A n \in Outcome \cup {"unavailable", "circuit_open"} :
            gateway'[n] = gateway[n]
  BY <1>1 DEF CountersTyped, Bumps, Outcome, GatewayCounter, Ending,
              RequestCounters
<1>4. /\ gateway'["accepted"] = gateway["accepted"]
      /\ gateway'["duplicate_replay"] = gateway["duplicate_replay"]
      /\ gateway'["idempotency_conflict"] = gateway["idempotency_conflict"]
      /\ gateway'["rejected"] = gateway["rejected"]
      /\ gateway'["unavailable"] = gateway["unavailable"]
      /\ gateway'["circuit_open"] = gateway["circuit_open"]
  BY <1>3 DEF Outcome
<1>5. CountersTyped'
  BY <1>1, <1>2 DEF CountersTyped
<1>6. CASE k = "post"
  <2>1. /\ gateway'["posts"] = gateway["posts"] + 1
        /\ gateway'["post_errors"] = gateway["post_errors"]
        /\ gateway'["get_errors"] = gateway["get_errors"]
    BY <1>1, <1>6 DEF CountersTyped, Bumps, GatewayCounter, RequestCounters
  <2>2. /\ leaving'["post"] = leaving["post"] - 1
        /\ leaving'["post_5xx"] = leaving["post_5xx"]
        /\ leaving'["get_5xx"] = leaving["get_5xx"]
    BY <1>2, <1>6 DEF Ending
  <2>3. Submitted'
    BY <1>4, <2>1, <2>2, CountersAreNumbers, OneMore DEF OutcomesAddUp, Submitted
  <2> QED
    BY <1>4, <1>5, <2>1, <2>2, <2>3, CountersAreNumbers DEF OutcomesAddUp, Submitted
<1>7. CASE k = "post_5xx"
  <2>1. /\ gateway'["posts"] = gateway["posts"] + 1
        /\ gateway'["post_errors"] = gateway["post_errors"] + 1
        /\ gateway'["get_errors"] = gateway["get_errors"]
    BY <1>1, <1>7 DEF CountersTyped, Bumps, GatewayCounter, RequestCounters
  <2>2. /\ leaving'["post"] = leaving["post"]
        /\ leaving'["post_5xx"] = leaving["post_5xx"] - 1
        /\ leaving'["get_5xx"] = leaving["get_5xx"]
    BY <1>2, <1>7 DEF Ending
  <2>3. Submitted'
    BY <1>4, <2>1, <2>2, CountersAreNumbers, OneMore DEF OutcomesAddUp, Submitted
  <2> QED
    BY <1>4, <1>5, <2>1, <2>2, <2>3, CountersAreNumbers DEF OutcomesAddUp, Submitted
<1>8. CASE k = "get_5xx"
  <2>1. /\ gateway'["posts"] = gateway["posts"]
        /\ gateway'["post_errors"] = gateway["post_errors"]
        /\ gateway'["get_errors"] = gateway["get_errors"] + 1
    BY <1>1, <1>8 DEF CountersTyped, Bumps, GatewayCounter, RequestCounters
  <2>2. /\ leaving'["post"] = leaving["post"]
        /\ leaving'["post_5xx"] = leaving["post_5xx"]
        /\ leaving'["get_5xx"] = leaving["get_5xx"] - 1
    BY <1>2, <1>8 DEF Ending
  <2>3. Submitted'
    BY <1>4, <2>1, <2>2, CountersAreNumbers, OneMore DEF OutcomesAddUp, Submitted
  <2> QED
    BY <1>4, <1>5, <2>1, <2>2, <2>3, CountersAreNumbers DEF OutcomesAddUp, Submitted
<1> QED
  BY <1>1, <1>2, <1>6, <1>7, <1>8 DEF Ending, CountersTyped

\* Each step keeps the books balanced.
LEMMA BooksBalance ==
    ASSUME CountersTyped, OutcomesAddUp, GatewayCounts
    PROVE  CountersTyped' /\ OutcomesAddUp'
<1>1. CASE Nothing
  BY <1>1 DEF Nothing, CountersTyped, OutcomesAddUp
<1>2. CASE Restarted
  BY <1>2 DEF Restarted, CountersTyped, OutcomesAddUp, GatewayCounter, Ending
<1> QED
  BY <1>1, <1>2, OutcomeBalances, ErrorBalances, RecordBalances DEF GatewayCounts

-----------------------------------------------------------------------------
(* No counter runs ahead of its table.                                     *)

\* Rows are added one at a time, and never removed.
LEMMA TablesGrow ==
    ASSUME LedgerInv, [ReadsNext]_readsVars
    PROVE  Len(events') >= Len(events) /\ Len(transactions') >= Len(transactions)
<1>1. \/ [LedgerNext]_ledgerVars
      \/ \E r \in Reader : ReadStep(r)
  BY DEF ReadsNext, LedgerNext, readsVars
<1>2. events \in Seq(Payload) /\ transactions \in Seq({p \in WirePayload : Valid(p)})
  BY DEF LedgerInv, GatewayTypeOK, AccountInv, AccountTypeOK
<1>3. Len(events') >= Len(events)
  <2>1. CASE [LedgerNext]_ledgerVars
    <3>1. UNCHANGED events \/ \E e : events' = Append(events, e)
      BY <2>1, HistoryPart DEF HistoryStep
    <3> QED
      BY <1>2, <3>1
  <2>2. CASE \E r \in Reader : ReadStep(r)
    BY <1>2, <2>2 DEF ReadStep, gatewayVars
  <2> QED
    BY <1>1, <2>1, <2>2
<1>4. Len(transactions') >= Len(transactions)
  <2>1. CASE [LedgerNext]_ledgerVars
    <3>1. UNCHANGED transactions \/ \E t : transactions' = Append(transactions, t)
      BY <2>1, AtMostOneServed DEF Served, InsertTransaction
    <3> QED
      BY <1>2, <3>1
  <2>2. CASE \E r \in Reader : ReadStep(r)
    BY <1>2, <2>2 DEF ReadStep, accountVars
  <2> QED
    BY <1>1, <2>1, <2>2
<1> QED
  BY <1>3, <1>4

LEMMA NotAccepted ==
    ASSUME gateway \in [GatewayCounter -> Nat], NEW names, "accepted" \notin names,
           Posted(names) \/ PostFailed(names) \/ ReadErred(names)
    PROVE  gateway'["accepted"] = gateway["accepted"]
<1>1. gateway' = Bump(gateway, names)
  BY DEF Posted, PostFailed, ReadErred, Count
<1> QED
  BY <1>1, Bumped DEF GatewayCounter

\* A handler counts as accepted what it has just put in the history.
LEMMA HandlerAccepts ==
    ASSUME gateway \in [GatewayCounter -> Nat], NEW c \in Submission,
           \/ \E p \in Payload : SubmitCounted(c, p)
           \/ HandlerCounted(c)
    PROVE  \/ gateway'["accepted"] = gateway["accepted"]
           \/ /\ gateway'["accepted"] = gateway["accepted"] + 1
              /\ InsertAppliedEvent(c)
<1> DEFINE Goal == \/ gateway'["accepted"] = gateway["accepted"]
                   \/ /\ gateway'["accepted"] = gateway["accepted"] + 1
                      /\ InsertAppliedEvent(c)
<1>1. ASSUME NEW p \in Payload, SubmitCounted(c, p)
      PROVE  Goal
  <2>1. \/ Posted({"duplicate_replay"}) \/ Posted({"idempotency_conflict"})
        \/ PostFailed({"circuit_open", "unavailable"}) \/ PostFailed({})
        \/ Nothing
    BY <1>1 DEF SubmitCounted
  <2> QED
    BY <2>1, NotAccepted DEF Nothing
<1>2. ASSUME InsertAppliedEvent(c), Posted({"accepted"})
      PROVE  Goal
  BY <1>2, Bumped DEF Posted, Count, GatewayCounter
<1>3. CASE HandlerCounted(c)
  BY <1>2, <1>3, NotAccepted DEF HandlerCounted, AttemptCounted, RejectCounted,
                                 ReplayCounted, Nothing
<1> QED
  BY <1>1, <1>3

\* Reads and the middleware accept nothing.
LEMMA OthersAcceptNothing ==
    ASSUME gateway \in [GatewayCounter -> Nat],
           \/ \E r \in Reader : ReadCounted(r)
           \/ \E k \in Ending : RecordRequest(k)
    PROVE  gateway'["accepted"] = gateway["accepted"]
<1>1. ASSUME NEW r \in Reader, ReadCounted(r)
      PROVE  gateway'["accepted"] = gateway["accepted"]
  BY <1>1, NotAccepted DEF ReadCounted, Nothing
<1>2. ASSUME NEW k \in Ending, RecordRequest(k)
      PROVE  gateway'["accepted"] = gateway["accepted"]
  <2>1. "accepted" \notin RequestCounters(k)
    BY DEF Ending, RequestCounters
  <2> QED
    BY <1>2, <2>1, Bumped DEF RecordRequest, GatewayCounter
<1> QED
  BY <1>1, <1>2

\* So `accepted' grows by an insertion into the history, or is forgotten.
LEMMA AcceptedCounted ==
    ASSUME [MetricsNext]_metricsVars, gateway \in [GatewayCounter -> Nat]
    PROVE  \/ gateway'["accepted"] \in {gateway["accepted"], 0}
           \/ /\ gateway'["accepted"] = gateway["accepted"] + 1
              /\ \E e : events' = Append(events, e)
<1>1. CASE UNCHANGED gateway \/ gateway' = [n \in GatewayCounter |-> 0]
  BY <1>1 DEF GatewayCounter
<1> QED
  BY <1>1, HandlerAccepts, OthersAcceptNothing
     DEF MetricsNext, metricsVars, InsertAppliedEvent

\* What the Account Service answers 201 it has just inserted.
LEMMA AppliedIsInserted ==
    ASSUME NEW q, NEW status, Serve(q, status), "applied" \in ServeCounts(q, status)
    PROVE  \E t : transactions' = Append(transactions, t)
<1>1. status = "201"
  BY DEF ServeCounts
<1> QED
  BY <1>1 DEF Serve, ApplyTransaction, Unprocessable, PathMismatch,
              ReplayTransaction, DuplicateConflict, CurrencyMismatch,
              InsertTransaction

\* `applied' counts a row the step has inserted, or forgets.
LEMMA AppliedCounted ==
    ASSUME LedgerInv, [MetricsNext]_metricsVars,
           account \in [AccountCounter -> Nat]
    PROVE  /\ account' \in [AccountCounter -> Nat]
           /\ \/ account'["applied"] \in {account["applied"], 0}
              \/ /\ account'["applied"] = account["applied"] + 1
                 /\ \E t : transactions' = Append(transactions, t)
<1> DEFINE Goal == /\ account' \in [AccountCounter -> Nat]
                   /\ \/ account'["applied"] \in {account["applied"], 0}
                      \/ /\ account'["applied"] = account["applied"] + 1
                         /\ \E t : transactions' = Append(transactions, t)
<1>1. ASSUME NEW q, NEW status, Serve(q, status),
             account' = Bump(account, ServeCounts(q, status))
      PROVE  Goal
  <2>1. "applied" \in AccountCounter
    BY DEF AccountCounter
  <2> QED
    BY <1>1, <2>1, Bumped, AppliedIsInserted
<1>2. ASSUME NEW c \in Submission, AccountServes(c),
             account' = Bump(account, ServeCounts(OnWire(payload[c]), link'[c]))
      PROVE  Goal
  <2>1. PICK status \in Replied : /\ Serve(OnWire(payload[c]), status)
                                  /\ link' = [link EXCEPT ![c] = status]
    BY <1>2 DEF AccountServes
  <2>2. link'[c] = status
    BY <2>1 DEF LedgerInv, GatewayTypeOK
  <2> QED
    BY <1>1, <1>2, <2>1, <2>2
<1>3. CASE AccountCounted
  BY <1>1, <1>2, <1>3 DEF AccountCounted
<1>4. CASE UNCHANGED account \/ account' = [n \in AccountCounter |-> 0]
  BY <1>4 DEF AccountCounter
<1> QED
  BY <1>3, <1>4 DEF MetricsNext, metricsVars

-----------------------------------------------------------------------------
(* Acceptances and successes, across the services.                         *)

\* Whatever the Account Service counts, it does not count less.
LEMMA SuccessesGrow ==
    ASSUME account \in [AccountCounter -> Nat], NEW names,
           account' = Bump(account, names)
    PROVE  /\ Successes \in Nat /\ Successes' \in Nat
           /\ Successes' >= Successes
           /\ names \in {{"applied"}, {"duplicate_replay"}} =>
                  Successes' = Successes + 1
<1>1. /\ account["applied"] \in Nat /\ account["duplicate_replay"] \in Nat
      /\ account'["applied"] =
            IF "applied" \in names THEN account["applied"] + 1
                                   ELSE account["applied"]
      /\ account'["duplicate_replay"] =
            IF "duplicate_replay" \in names THEN account["duplicate_replay"] + 1
                                            ELSE account["duplicate_replay"]
  BY Bumped DEF AccountCounter
<1> QED
  BY <1>1 DEF Successes

\* A step that opens no success and counts none on either side.
LEMMA CoverKept ==
    ASSUME SuccessesCovered, Unspent' \subseteq Unspent,
           gateway["accepted"] \in Nat, gateway'["accepted"] \in Nat,
           Successes \in Nat, Successes' \in Nat,
           behind' \/ /\ behind' = behind
                      /\ gateway'["accepted"] <= gateway["accepted"]
                      /\ Successes <= Successes'
    PROVE  SuccessesCovered'
<1>1. /\ IsFiniteSet(Unspent') /\ Cardinality(Unspent') <= Cardinality(Unspent)
      /\ Cardinality(Unspent) \in Nat /\ Cardinality(Unspent') \in Nat
  BY FS_Subset, FS_CardinalityType DEF SuccessesCovered
<1> QED
  BY <1>1 DEF SuccessesCovered

\* A success served is counted where it was served.
LEMMA CoverServed ==
    ASSUME SuccessesCovered, NEW c, Unspent' \subseteq Unspent \cup {c},
           gateway["accepted"] \in Nat, gateway'["accepted"] = gateway["accepted"],
           Successes \in Nat, Successes' = Successes + 1, behind' = behind
    PROVE  SuccessesCovered'
<1>1. /\ IsFiniteSet(Unspent \cup {c})
      /\ Cardinality(Unspent \cup {c}) <= Cardinality(Unspent) + 1
      /\ Cardinality(Unspent) \in Nat
  <2>1. IsFiniteSet(Unspent) /\ Cardinality(Unspent) \in Nat
    BY FS_CardinalityType DEF SuccessesCovered
  <2>2. /\ IsFiniteSet(Unspent \cup {c})
        /\ \/ Cardinality(Unspent \cup {c}) = Cardinality(Unspent)
           \/ Cardinality(Unspent \cup {c}) = Cardinality(Unspent) + 1
    BY <2>1, FS_AddElement
  <2> QED
    BY <2>1, <2>2
<1>2. /\ IsFiniteSet(Unspent') /\ Cardinality(Unspent') \in Nat
      /\ Cardinality(Unspent') <= Cardinality(Unspent \cup {c})
      /\ Cardinality(Unspent \cup {c}) \in Nat
  BY <1>1, FS_Subset, FS_CardinalityType
<1> QED
  BY <1>1, <1>2 DEF SuccessesCovered

\* An acceptance uses up a success.
LEMMA CoverSpent ==
    ASSUME SuccessesCovered, NEW c \in Unspent, Unspent' \subseteq Unspent \ {c},
           gateway["accepted"] \in Nat,
           gateway'["accepted"] = gateway["accepted"] + 1,
           Successes \in Nat, Successes' = Successes, behind' = behind
    PROVE  SuccessesCovered'
<1>1. /\ IsFiniteSet(Unspent \ {c})
      /\ Cardinality(Unspent \ {c}) = Cardinality(Unspent) - 1
      /\ Cardinality(Unspent) \in Nat
  BY FS_RemoveElement, FS_CardinalityType DEF SuccessesCovered
<1>2. /\ IsFiniteSet(Unspent') /\ Cardinality(Unspent') \in Nat
      /\ Cardinality(Unspent') <= Cardinality(Unspent \ {c})
  BY <1>1, FS_Subset, FS_CardinalityType
<1> QED
  BY <1>1, <1>2 DEF SuccessesCovered

\* The Gateway opens no success by itself: it asks, hangs up, or starts over.
LEMMA GatewayOpensNone ==
    ASSUME LedgerInv, NEW c \in Submission,
           \/ \E p \in Payload : SubmitCounted(c, p)
           \/ HandlerCounted(c)
    PROVE  /\ Unspent' \subseteq Unspent
           /\ InsertAppliedEvent(c) => c \in Unspent \ Unspent'
<1>1. link \in [Submission -> {link[d] : d \in Submission}]
  BY DEF LedgerInv, GatewayTypeOK
<1>2. UNCHANGED link \/ \E s \in {"sent", "none"} : link' = [link EXCEPT ![c] = s]
  BY DEF SubmitCounted, ReplayKnown, ConflictKnown, FailFast, Forward, RaiseUnsent,
         EntryFault, HandlerCounted, AttemptCounted, RejectCounted, ReplayCounted, ServerError,
         LoseContact, AttemptFailed, Reject, ReplayAppliedEvent, InsertAppliedEvent,
         ConflictAppliedEvent, StoreFault, Drop, Disconnect, Undecodable, Finish,
         Retry, Hang
<1>3. Unspent' \subseteq Unspent
  BY <1>1, <1>2 DEF Unspent, Accepted
<1>4. ASSUME InsertAppliedEvent(c)
      PROVE  c \in Unspent \ Unspent'
  BY <1>1, <1>4 DEF InsertAppliedEvent, Succeeded, Finish, Hang, Unspent, Accepted
<1> QED
  BY <1>3, <1>4

LEMMA AccountCovers ==
    ASSUME LedgerInv, MetricsInv, AccountCounted,
           UNCHANGED <<gateway, behind>>
    PROVE  SuccessesCovered'
<1>1. /\ gateway["accepted"] \in Nat /\ account \in [AccountCounter -> Nat]
      /\ Successes \in Nat /\ SuccessesCovered
      /\ link \in [Submission -> {link[d] : d \in Submission}]
  BY DEF MetricsInv, GatewayCounter, AccountCounter, Successes, LedgerInv,
         GatewayTypeOK
<1>2. ASSUME NEW c \in Submission, AccountServes(c),
             account' = Bump(account, ServeCounts(OnWire(payload[c]), link'[c]))
      PROVE  SuccessesCovered'
  <2>1. PICK status \in Replied : link' = [link EXCEPT ![c] = status]
    BY <1>2 DEF AccountServes
  <2>2. link'[c] = status /\ Unspent' \subseteq Unspent \cup {c}
    BY <1>1, <2>1 DEF Unspent
  <2>3. CASE status \in Accepted
    <3>1. ServeCounts(OnWire(payload[c]), status)
              \in {{"applied"}, {"duplicate_replay"}}
      BY <2>3 DEF ServeCounts, Accepted
    <3>2. Successes' = Successes + 1
      BY <1>1, <1>2, <2>2, <3>1, SuccessesGrow
    <3> QED
      BY <1>1, <2>2, <3>2, CoverServed
  <2>4. CASE status \notin Accepted
    <3>1. Unspent' \subseteq Unspent
      BY <1>1, <2>1, <2>4 DEF Unspent
    <3>2. Successes' \in Nat /\ Successes' >= Successes
      BY <1>1, <1>2, SuccessesGrow
    <3> QED
      BY <1>1, <3>1, <3>2, CoverKept
  <2> QED
    BY <2>3, <2>4
<1>3. ASSUME UNCHANGED link \/ \E c \in Submission : AccountFails(c),
             UNCHANGED account \/ \E names : account' = Bump(account, names)
      PROVE  SuccessesCovered'
  <2>1. Unspent' \subseteq Unspent
    BY <1>1, <1>3 DEF AccountFails, Unspent, Accepted
  <2>2. Successes' \in Nat /\ Successes' >= Successes
    <3>1. CASE UNCHANGED account
      BY <1>1, <3>1 DEF Successes
    <3>2. CASE \E names : account' = Bump(account, names)
      BY <1>1, <3>2, SuccessesGrow
    <3> QED
      BY <1>3, <3>1, <3>2
  <2> QED
    BY <1>1, <2>1, <2>2, CoverKept
<1>4. ASSUME NEW q \in orphans, Unheard(q),
             \/ \E status \in Replied :
                    account' = Bump(account, ServeCounts(q, status))
             \/ UNCHANGED account
      PROVE  SuccessesCovered'
  BY <1>3, <1>4 DEF Unheard
<1> QED
  BY <1>2, <1>3, <1>4 DEF AccountCounted

LEMMA CoverStep ==
    ASSUME LedgerInv, MetricsInv, [MetricsNext]_metricsVars,
           gateway' \in [GatewayCounter -> Nat], account' \in [AccountCounter -> Nat]
    PROVE  SuccessesCovered'
<1>1. /\ gateway["accepted"] \in Nat /\ gateway'["accepted"] \in Nat
      /\ Successes \in Nat /\ Successes' \in Nat
      /\ SuccessesCovered
  BY DEF MetricsInv, GatewayCounter, AccountCounter, Successes
<1>2. ASSUME NEW c \in Submission,
             \/ \E p \in Payload : SubmitCounted(c, p)
             \/ HandlerCounted(c),
             UNCHANGED <<account, behind>>
      PROVE  SuccessesCovered'
  <2>1. /\ Unspent' \subseteq Unspent
        /\ InsertAppliedEvent(c) => c \in Unspent \ Unspent'
        /\ Successes' = Successes
    BY <1>2, GatewayOpensNone DEF Successes
  <2>2. CASE gateway'["accepted"] \in {gateway["accepted"], 0}
    BY <1>1, <1>2, <2>1, <2>2, CoverKept
  <2>3. CASE /\ gateway'["accepted"] = gateway["accepted"] + 1
             /\ InsertAppliedEvent(c)
    BY <1>1, <1>2, <2>1, <2>3, CoverSpent
  <2> QED
    BY <1>2, <2>2, <2>3, HandlerAccepts DEF MetricsInv
<1>3. ASSUME UNCHANGED <<link, account, behind>>,
             gateway'["accepted"] = gateway["accepted"]
      PROVE  SuccessesCovered'
  BY <1>1, <1>3, CoverKept DEF Unspent, Successes
<1>4. CASE AccountCounted /\ UNCHANGED <<read, gateway, leaving, requests, behind>>
  BY <1>4, AccountCovers
<1>5. CASE GatewayRestart /\ gateway' = [n \in GatewayCounter |-> 0]
  <2>1. Unspent' = {} /\ gateway'["accepted"] = 0
    BY <1>5 DEF GatewayRestart, Unspent, Accepted, GatewayCounter
  <2> QED
    BY <1>1, <2>1, FS_EmptySet DEF SuccessesCovered
<1>6. CASE AccountRestart /\ behind' = TRUE
  <2>1. Unspent' \subseteq Unspent
    BY <1>6 DEF AccountRestart, Unspent, Accepted
  <2> QED
    BY <1>1, <1>6, <2>1, CoverKept
<1>7. CASE \/ \E r \in Reader : /\ ReadCounted(r)
                                 /\ UNCHANGED <<accountVars, gatewayVars, netVars>>
                                 /\ UNCHANGED <<account, behind>>
           \/ \E k \in Ending : /\ RecordRequest(k)
                                /\ UNCHANGED <<readsVars, account, requests, behind>>
  BY <1>3, <1>7, OthersAcceptNothing
     DEF MetricsInv, netVars, readsVars, ledgerVars
<1>8. CASE ClockTick /\ UNCHANGED <<read, gateway, leaving, account, requests, behind>>
  BY <1>3, <1>8 DEF ClockTick, netVars
<1>9. CASE UNCHANGED metricsVars
  BY <1>3, <1>9 DEF metricsVars, readsVars, ledgerVars, netVars
<1> QED
  BY <1>2, <1>4, <1>5, <1>6, <1>7, <1>8, <1>9 DEF MetricsNext

-----------------------------------------------------------------------------
LEMMA MetricsInitInv == MetricsInit => MetricsInv
<1> SUFFICES ASSUME MetricsInit
             PROVE  MetricsInv
  OBVIOUS
<1>1. events = << >> /\ transactions = << >>
  BY DEF MetricsInit, ReadsInit, LedgerInit, AccountInit
<1>2. SuccessesCovered
  <2>1. Unspent = {}
    BY DEF MetricsInit, ReadsInit, LedgerInit, Unspent, Accepted
  <2> QED
    BY <2>1, FS_EmptySet DEF MetricsInit, SuccessesCovered, Successes,
                             GatewayCounter, AccountCounter
<1> QED
  BY <1>1, <1>2 DEF MetricsInit, MetricsInv, OutcomesAddUp, NothingOverclaimed,
                    GatewayCounter, AccountCounter, Ending

LEMMA MetricsStep ==
    ASSUME ReadsInv, MetricsInv, [MetricsNext]_metricsVars
    PROVE  MetricsInv'
<1>1. CountersTyped' /\ OutcomesAddUp'
  BY GatewayStep, BooksBalance DEF MetricsInv, CountersTyped
<1>2. account' \in [AccountCounter -> Nat]
  BY AppliedCounted DEF ReadsInv, MetricsInv
<1>3. /\ events \in Seq(Payload)
      /\ transactions \in Seq({p \in WirePayload : Valid(p)})
  BY DEF ReadsInv, LedgerInv, GatewayTypeOK, AccountInv, AccountTypeOK
<1>4. Len(events') >= Len(events) /\ Len(transactions') >= Len(transactions)
  BY MetricsRefineStep, TablesGrow DEF ReadsInv
<1>5. gateway'["accepted"] <= Len(events')
  BY <1>3, <1>4, AcceptedCounted DEF MetricsInv, NothingOverclaimed, GatewayCounter
<1>6. account'["applied"] <= Len(transactions')
  BY <1>3, <1>4, AppliedCounted DEF ReadsInv, MetricsInv, NothingOverclaimed, AccountCounter
<1>7. SuccessesCovered'
  BY <1>1, <1>2, CoverStep DEF ReadsInv, CountersTyped
<1> QED
  BY <1>1, <1>2, <1>5, <1>6, <1>7 DEF MetricsInv, CountersTyped, NothingOverclaimed

THEOREM MetricsInvariant == MetricsSpec => []MetricsInv
BY MetricsInitInv, MetricsStep, CountingIsSuperposed, ReadsInvariant, PTL
   DEF MetricsSpec

\* GET /metrics of the Gateway balances at any moment: every submission that
\* did not end in a 5xx has one outcome, every unavailability is an error.
THEOREM BooksAlwaysBalance == MetricsSpec => []OutcomesAddUp
<1>1. MetricsInv => OutcomesAddUp
  BY DEF MetricsInv
<1> QED
  BY <1>1, MetricsInvariant, PTL

\* Neither service ever reports more than its table holds.
THEOREM NeverOverclaims == MetricsSpec => []NothingOverclaimed
<1>1. MetricsInv => NothingOverclaimed
  BY DEF MetricsInv
<1> QED
  BY <1>1, MetricsInvariant, PTL

\* Unless the Account Service has forgotten more than the Gateway, each event
\* the Gateway reports accepted is one of those it reports applied or replayed.
THEOREM AcceptancesApplied == MetricsSpec => []AcceptancesWereApplied
<1>1. MetricsInv => AcceptancesWereApplied
  <2> SUFFICES ASSUME MetricsInv, ~behind
               PROVE  gateway["accepted"] <=
                          account["applied"] + account["duplicate_replay"]
    BY DEF AcceptancesWereApplied
  <2>1. Cardinality(Unspent) \in Nat
    BY FS_CardinalityType DEF MetricsInv, SuccessesCovered
  <2>2. gateway["accepted"] + Cardinality(Unspent) <= Successes
    BY DEF MetricsInv, SuccessesCovered
  <2>3. gateway["accepted"] \in Nat /\ Successes \in Nat
    BY DEF MetricsInv, GatewayCounter, AccountCounter, Successes
  <2> QED
    BY <2>1, <2>2, <2>3 DEF Successes
<1> QED
  BY <1>1, MetricsInvariant, PTL

\* Nor does counting, or a restart that zeroes counters, change what submitters
\* and readers can rely on: all of it holds of the whole system.
THEOREM WholeSystem ==
    MetricsSpec => /\ KeepsPromise
                   /\ [](/\ HistoryBacked /\ OneRecordPerEventId
                         /\ AcceptedIsDurable /\ AnswersAgree
                         /\ ReadYourWrites /\ BalanceIsNetOfEvents)
BY CountingIsSuperposed, ReadsKeepPromise, ReadsAreHarmless, ReadsAgree,
   ReadsYourWrites, ComponentsHoldTogether, PTL
=============================================================================
