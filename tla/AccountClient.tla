--------------------------- MODULE AccountClient ---------------------------
(***************************************************************************)
(* The Gateway's HTTP client for the Account Service: bounded retries with *)
(* backoff and a circuit breaker shared by every concurrent call           *)
(* (src/src/gateway_service/account_client.py).                            *)
(*                                                                         *)
(* A call runs on the Gateway's event loop and gives it up at two places   *)
(* only: while an attempt awaits its response ("waiting") and while it     *)
(* sleeps between attempts ("backoff").  Each action is one uninterrupted  *)
(* stretch of _request between two such places.                            *)
(***************************************************************************)
EXTENDS Integers

CONSTANTS
    Call,          \* the concurrent calls of _request
    MaxAttempts,   \* max_attempts
    Threshold,     \* circuit_failure_threshold
    ResetTicks     \* circuit_reset_seconds, in ticks of the clock

\* The constructor clamps its arguments with max(1, _) and max(0.0, _).
ASSUME ClientAssumption ==
    /\ MaxAttempts \in Nat \ {0}
    /\ Threshold \in Nat \ {0}
    /\ ResetTicks \in Nat

VARIABLES
    phase,        \* phase[c]: where call c is suspended
    attempt,      \* attempt[c]: the attempt it is in, 0 when idle
    failures,     \* _consecutive_failures, counted up to Threshold
    sinceOpened   \* clock ticks since _circuit_opened_at, up to ResetTicks

clientVars == <<phase, attempt, failures, sinceOpened>>
breakerVars == <<failures, sinceOpened>>

NotOpen == -1     \* _circuit_opened_at is None

ClientInit ==
    /\ phase = [c \in Call |-> "idle"]
    /\ attempt = [c \in Call |-> 0]
    /\ failures = 0
    /\ sinceOpened = NotOpen

-----------------------------------------------------------------------------
(* The circuit breaker.                                                    *)

CircuitAllows == sinceOpened = NotOpen \/ sinceOpened >= ResetTicks

\* Mutant: the count of failures survives a success.
MutRecordSuccess == sinceOpened' = NotOpen /\ UNCHANGED failures

RecordSuccess ==
    /\ failures' = 0
    /\ sinceOpened' = NotOpen

\* Beyond Threshold the counter is only ever compared with Threshold.
RecordFailure ==
    /\ failures' = IF failures < Threshold THEN failures + 1 ELSE failures
    /\ sinceOpened' = IF failures + 1 >= Threshold THEN 0 ELSE sinceOpened

-----------------------------------------------------------------------------
(* The life of a call.                                                     *)

Return(c) ==
    /\ phase' = [phase EXCEPT ![c] = "idle"]
    /\ attempt' = [attempt EXCEPT ![c] = 0]

\* The breaker is consulted once per call, and never again by its retries.
Admit(c) ==
    /\ phase[c] = "idle"
    /\ CircuitAllows
    /\ phase' = [phase EXCEPT ![c] = "waiting"]
    /\ attempt' = [attempt EXCEPT ![c] = 1]
    /\ UNCHANGED breakerVars

\* Mutant: a rejected request restarts the reset window.
MutShortCircuit(c) ==
    /\ phase[c] = "idle"
    /\ ~CircuitAllows
    /\ sinceOpened' = 0
    /\ UNCHANGED <<phase, attempt, failures>>

\* AccountServiceCircuitOpenError.
ShortCircuit(c) ==
    /\ phase[c] = "idle"
    /\ ~CircuitAllows
    /\ UNCHANGED clientVars

\* httpx cannot make a request of the arguments (an id no URL can hold, a body
\* that is not JSON, a header that is not ASCII): the exception leaves _request
\* before its first await, and the breaker does not hear of it.
Unsent(c) ==
    /\ phase[c] = "idle"
    /\ CircuitAllows
    /\ UNCHANGED clientVars

\* A response below 500: a result, a 4xx raised as a rejection, or a body that
\* response.json() cannot decode.
Answered(c) ==
    /\ phase[c] = "waiting"
    /\ Return(c)
    /\ RecordSuccess

\* Mutant: the last attempt is retried too.
MutBackOff(c) ==
    /\ phase[c] = "waiting"
    /\ phase' = [phase EXCEPT ![c] = "backoff"]
    /\ UNCHANGED <<attempt, breakerVars>>

\* A connection error, a timeout or a 5xx response, attempts left.
BackOff(c) ==
    /\ phase[c] = "waiting"
    /\ attempt[c] < MaxAttempts
    /\ phase' = [phase EXCEPT ![c] = "backoff"]
    /\ UNCHANGED <<attempt, breakerVars>>

\* The same at the last attempt: AccountServiceUnavailableError.
Exhaust(c) ==
    /\ phase[c] = "waiting"
    /\ attempt[c] = MaxAttempts
    /\ Return(c)
    /\ RecordFailure

\* Mutant: an escaping exception counts as a failure of the whole call.
MutEscape(c) ==
    /\ phase[c] = "waiting"
    /\ Return(c)
    /\ RecordFailure

\* Any other exception of httpx (ReadError, RemoteProtocolError, ...) leaves
\* _request without a retry and without a trace in the breaker.
Escape(c) ==
    /\ phase[c] = "waiting"
    /\ Return(c)
    /\ UNCHANGED breakerVars

\* Mutant: a retry is not counted.
MutResume(c) ==
    /\ phase[c] = "backoff"
    /\ phase' = [phase EXCEPT ![c] = "waiting"]
    /\ UNCHANGED <<attempt, breakerVars>>

Resume(c) ==
    /\ phase[c] = "backoff"
    /\ phase' = [phase EXCEPT ![c] = "waiting"]
    /\ attempt' = [attempt EXCEPT ![c] = @ + 1]
    /\ UNCHANGED breakerVars

\* The monotonic clock; time past the reset window makes no difference.
Tick ==
    /\ sinceOpened # NotOpen
    /\ sinceOpened < ResetTicks
    /\ sinceOpened' = sinceOpened + 1
    /\ UNCHANGED <<phase, attempt, failures>>

\* The Gateway process restarts: calls die, the breaker is created anew.
ClientRestart ==
    /\ phase' = [c \in Call |-> "idle"]
    /\ attempt' = [c \in Call |-> 0]
    /\ failures' = 0
    /\ sinceOpened' = NotOpen

EndAttempt(c) == Answered(c) \/ BackOff(c) \/ Exhaust(c) \/ Escape(c)

ClientNext ==
    \/ \E c \in Call :
        Admit(c) \/ ShortCircuit(c) \/ Unsent(c) \/ EndAttempt(c) \/ Resume(c)
    \/ Tick
    \/ ClientRestart

ClientSpec == ClientInit /\ [][ClientNext]_clientVars

\* httpx ends every attempt within timeout_seconds, asyncio.sleep returns and
\* the clock runs.
ClientFairness ==
    /\ \A c \in Call : WF_clientVars(EndAttempt(c)) /\ WF_clientVars(Resume(c))
    /\ WF_clientVars(Tick)

ClientFairSpec == ClientSpec /\ ClientFairness

-----------------------------------------------------------------------------
(* Properties.                                                             *)

\* Each call is in one of the suspension points of _request and never counts
\* past max_attempts; the breaker's fields stay in their ranges.
ClientTypeOK ==
    /\ phase \in [Call -> {"idle", "waiting", "backoff"}]
    /\ attempt \in [Call -> 0 .. MaxAttempts]
    /\ \A c \in Call :
        /\ phase[c] = "idle" <=> attempt[c] = 0
        /\ phase[c] = "backoff" => attempt[c] < MaxAttempts
    /\ failures \in 0 .. Threshold
    /\ sinceOpened \in {NotOpen} \cup 0 .. ResetTicks

\* The two fields of the breaker, written by calls that overlap in any order,
\* never disagree: there is an opening time exactly while the count of
\* failures since the last success is at the threshold.
CircuitMatchesFailures ==
    sinceOpened # NotOpen <=> failures = Threshold

\* The breaker opens, or restarts its window, only at the moment a call has
\* used up all its attempts: neither a single failed attempt, a rejected
\* request nor an escaped exception ever moves it there.
OpensOnlyOnExhaustion ==
    [][ (sinceOpened' = 0 /\ sinceOpened # 0) =>
          \E c \in Call : /\ phase[c] = "waiting"
                          /\ attempt[c] = MaxAttempts
                          /\ phase'[c] = "idle" ]_clientVars

\* Every call returns to its caller, however its attempts end.
CallsReturn == \A c \in Call : phase[c] # "idle" ~> phase[c] = "idle"

\* An open circuit admits requests again: calls that were in flight when it
\* opened may restart its window, but only finitely often.
CircuitAdmitsAgain == []<>CircuitAllows
=============================================================================
