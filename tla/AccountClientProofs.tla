------------------------ MODULE AccountClientProofs ------------------------
(***************************************************************************)
(* The retry loop and the circuit breaker, for any number of concurrent    *)
(* calls and any max_attempts, failure threshold and reset window.         *)
(***************************************************************************)
EXTENDS AccountClient, TLAPS

\* CircuitMatchesFailures needs the ranges of ClientTypeOK: that the count is
\* at the threshold, rather than above it, is part of them.
ClientInv == ClientTypeOK /\ CircuitMatchesFailures

-----------------------------------------------------------------------------
\* A new client satisfies the invariant: the threshold is never 0, so the
\* circuit is not open from the start.
LEMMA ClientInitInv == ClientInit => ClientInv
BY ClientAssumption
   DEF ClientInit, ClientInv, ClientTypeOK, CircuitMatchesFailures, NotOpen

\* What an operation of the breaker does to its two fields, for every operation
\* there is.
LEMMA BreakerStep ==
    ASSUME ClientInv,
           RecordSuccess \/ RecordFailure \/ UNCHANGED breakerVars
    PROVE  /\ failures' \in 0 .. Threshold
           /\ sinceOpened' \in {NotOpen} \cup 0 .. ResetTicks
           /\ sinceOpened' # NotOpen <=> failures' = Threshold
BY ClientAssumption
   DEF ClientInv, ClientTypeOK, CircuitMatchesFailures, RecordSuccess,
       RecordFailure, breakerVars, NotOpen

\* A call that returns to its caller leaves the others where they are.
LEMMA ReturnStep ==
    ASSUME ClientInv, NEW c \in Call, Return(c),
           RecordSuccess \/ RecordFailure \/ UNCHANGED breakerVars
    PROVE  ClientInv'
<1>1. /\ failures' \in 0 .. Threshold
      /\ sinceOpened' \in {NotOpen} \cup 0 .. ResetTicks
      /\ sinceOpened' # NotOpen <=> failures' = Threshold
  BY BreakerStep
<1>2. /\ phase' \in [Call -> {"idle", "waiting", "backoff"}]
      /\ attempt' \in [Call -> 0 .. MaxAttempts]
      /\ \A d \in Call : /\ phase'[d] = "idle" <=> attempt'[d] = 0
                         /\ phase'[d] = "backoff" => attempt'[d] < MaxAttempts
  BY ClientAssumption DEF ClientInv, ClientTypeOK, Return
<1> QED
  BY <1>1, <1>2 DEF ClientInv, ClientTypeOK, CircuitMatchesFailures, NotOpen

\* One step of one call, or of the clock, or a restart, preserves it.
LEMMA AdmitStep ==
    ASSUME ClientInv, NEW c \in Call, Admit(c)
    PROVE  ClientInv'
BY ClientAssumption
   DEF ClientInv, ClientTypeOK, CircuitMatchesFailures, Admit, breakerVars,
       NotOpen

LEMMA BackOffStep ==
    ASSUME ClientInv, NEW c \in Call, BackOff(c)
    PROVE  ClientInv'
BY ClientAssumption
   DEF ClientInv, ClientTypeOK, CircuitMatchesFailures, BackOff, breakerVars,
       NotOpen

LEMMA ResumeStep ==
    ASSUME ClientInv, NEW c \in Call, Resume(c)
    PROVE  ClientInv'
BY ClientAssumption
   DEF ClientInv, ClientTypeOK, CircuitMatchesFailures, Resume, breakerVars,
       NotOpen

LEMMA TickStep ==
    ASSUME ClientInv, Tick
    PROVE  ClientInv'
BY ClientAssumption
   DEF ClientInv, ClientTypeOK, CircuitMatchesFailures, Tick, NotOpen

LEMMA RestartStep ==
    ASSUME ClientRestart
    PROVE  ClientInv'
BY ClientAssumption
   DEF ClientInv, ClientTypeOK, CircuitMatchesFailures, ClientRestart, NotOpen

LEMMA ClientStutter ==
    ASSUME ClientInv, UNCHANGED clientVars
    PROVE  ClientInv'
BY DEF ClientInv, ClientTypeOK, CircuitMatchesFailures, clientVars

\* How an attempt ends: with a response, a failure or an exception.
LEMMA EndAttemptStep ==
    ASSUME ClientInv, NEW c \in Call, EndAttempt(c)
    PROVE  ClientInv'
<1>1. CASE Answered(c)
  BY <1>1, ReturnStep DEF Answered
<1>2. CASE BackOff(c)
  BY <1>2, BackOffStep
<1>3. CASE Exhaust(c)
  BY <1>3, ReturnStep DEF Exhaust
<1>4. CASE Escape(c)
  BY <1>4, ReturnStep DEF Escape
<1> QED
  BY <1>1, <1>2, <1>3, <1>4 DEF EndAttempt

LEMMA ClientStep ==
    ASSUME ClientInv, [ClientNext]_clientVars
    PROVE  ClientInv'
<1>1. ASSUME NEW c \in Call,
             \/ Admit(c) \/ ShortCircuit(c) \/ Unsent(c)
             \/ EndAttempt(c) \/ Resume(c)
      PROVE  ClientInv'
  BY <1>1, AdmitStep, EndAttemptStep, ResumeStep, ClientStutter
     DEF ShortCircuit, Unsent
<1> QED
  BY <1>1, TickStep, RestartStep, ClientStutter DEF ClientNext

THEOREM ClientInvariant == ClientSpec => []ClientInv
BY ClientInitInv, ClientStep, PTL DEF ClientSpec

-----------------------------------------------------------------------------
\* Every call stays inside the retry loop and within max_attempts.
THEOREM ClientTypeCorrect == ClientSpec => []ClientTypeOK
BY ClientInvariant, PTL DEF ClientInv

\* The breaker is open exactly when the threshold was reached, in every
\* interleaving of the calls that write it.
THEOREM BreakerConsistent == ClientSpec => []CircuitMatchesFailures
BY ClientInvariant, PTL DEF ClientInv

\* The only step that opens the circuit or restarts its window is the end of a
\* call that used up its attempts.
THEOREM OpensOnExhaustion == ClientSpec => OpensOnlyOnExhaustion
<1> DEFINE Opens == sinceOpened' = 0 /\ sinceOpened # 0
           ByACall == \E c \in Call : /\ phase[c] = "waiting"
                                      /\ attempt[c] = MaxAttempts
                                      /\ phase'[c] = "idle"
<1>1. ASSUME ClientInv, ClientNext, Opens
      PROVE  ByACall
  <2>1. ASSUME NEW c \in Call, Exhaust(c)
        PROVE  ByACall
    BY <1>1, <2>1 DEF Exhaust, Return, ClientInv, ClientTypeOK
  <2>2. ASSUME NEW c \in Call, Admit(c) \/ ShortCircuit(c) \/ Unsent(c) \/ Answered(c)
                                 \/ BackOff(c) \/ Escape(c) \/ Resume(c)
        PROVE  FALSE
    BY <1>1, <2>2 DEF Admit, ShortCircuit, Unsent, Answered, BackOff, Escape, Resume,
                      RecordSuccess, breakerVars, clientVars, NotOpen
  <2>3. ~Tick
    BY <1>1, ClientAssumption DEF Tick, ClientInv, ClientTypeOK, NotOpen
  <2>4. ~ClientRestart
    BY <1>1 DEF ClientRestart, NotOpen
  <2> QED
    BY <1>1, <2>1, <2>2, <2>3, <2>4 DEF ClientNext, EndAttempt
<1>2. ClientInv /\ [ClientNext]_clientVars => [Opens => ByACall]_clientVars
  BY <1>1
<1> QED
  BY <1>2, ClientInvariant, PTL DEF ClientSpec, OpensOnlyOnExhaustion

-----------------------------------------------------------------------------
(* Why a call returns.  That its next step is taken is fairness, which     *)
(* TLC checks (CallsReturn); that there are only so many is proved here.   *)

\* The steps a call still has before it, at most: the end of this attempt, and a
\* pause and an end for each attempt that is left.
StepsLeft(c) ==
    CASE phase[c] = "waiting" -> 2 * (MaxAttempts - attempt[c]) + 1
      [] phase[c] = "backoff" -> 2 * (MaxAttempts - attempt[c])
      [] OTHER                -> 0

\* A call under way has one left at least, and never as many as 2 * MaxAttempts.
LEMMA UnderWay ==
    ASSUME ClientInv, NEW c \in Call
    PROVE  /\ MaxAttempts \in Nat
           /\ attempt[c] \in Nat
           /\ StepsLeft(c) \in Nat /\ StepsLeft(c) < 2 * MaxAttempts
           /\ phase[c] # "idle" => StepsLeft(c) > 0
<1>1. /\ MaxAttempts \in Nat /\ MaxAttempts >= 1
      /\ attempt[c] \in Nat /\ attempt[c] <= MaxAttempts
      /\ phase[c] \in {"idle", "waiting", "backoff"}
      /\ phase[c] # "idle" => attempt[c] >= 1
      /\ phase[c] = "backoff" => attempt[c] < MaxAttempts
  BY ClientAssumption DEF ClientInv, ClientTypeOK
<1>2. CASE phase[c] = "waiting"
  BY <1>1, <1>2 DEF StepsLeft
<1>3. CASE phase[c] = "backoff"
  BY <1>1, <1>3 DEF StepsLeft
<1>4. CASE phase[c] = "idle"
  BY <1>1, <1>4 DEF StepsLeft
<1> QED
  BY <1>1, <1>2, <1>3, <1>4

\* No step moves a call under way without using one of them up.
CallsShrink ==
    [][ \A c \in Call :
          phase[c] # "idle" =>
              \/ StepsLeft(c)' < StepsLeft(c)
              \/ phase'[c] = phase[c] /\ attempt'[c] = attempt[c] ]_clientVars

\* A step of the client that moves a call brings it nearer to its end, whatever
\* other calls, the clock or the breaker do: no call goes round the loop of
\* _request for ever, and none sends more than max_attempts requests.
THEOREM EveryStepNearsTheEnd ==
    ClientSpec => /\ [](\A c \in Call :
                         StepsLeft(c) \in Nat /\ StepsLeft(c) < 2 * MaxAttempts)
                  /\ CallsShrink
<1>1. ASSUME ClientInv, ClientNext, NEW c \in Call, phase[c] # "idle"
      PROVE  \/ StepsLeft(c)' < StepsLeft(c)
             \/ phase'[c] = phase[c] /\ attempt'[c] = attempt[c]
  <2>1. CASE Tick
    BY <2>1 DEF Tick
  <2>2. CASE ClientRestart
    <3>1. StepsLeft(c)' = 0
      BY <2>2 DEF ClientRestart, StepsLeft
    <3> QED
      BY <1>1, <3>1, UnderWay
  <2>3. ASSUME NEW d \in Call, d # c,
               \/ Admit(d) \/ ShortCircuit(d) \/ Unsent(d)
               \/ EndAttempt(d) \/ Resume(d)
        PROVE  phase'[c] = phase[c] /\ attempt'[c] = attempt[c]
    BY <1>1, <2>3 DEF Admit, ShortCircuit, Unsent, EndAttempt, Resume, Answered,
                      BackOff, Exhaust, Escape, Return, clientVars, ClientInv, ClientTypeOK
  <2>4. CASE Admit(c) \/ ShortCircuit(c) \/ Unsent(c)
    BY <1>1, <2>4 DEF Admit, ShortCircuit, Unsent, clientVars
  <2>5. CASE Answered(c) \/ Exhaust(c) \/ Escape(c)
    <3>1. phase'[c] = "idle"
      BY <1>1, <2>5 DEF Answered, Exhaust, Escape, Return, ClientInv, ClientTypeOK
    <3>2. StepsLeft(c)' = 0
      BY <3>1 DEF StepsLeft
    <3> QED
      BY <1>1, <3>2, UnderWay
  <2>6. CASE BackOff(c)
    <3>1. /\ phase[c] = "waiting" /\ phase'[c] = "backoff"
          /\ attempt'[c] = attempt[c]
      BY <1>1, <2>6 DEF BackOff, ClientInv, ClientTypeOK
    <3>2. /\ StepsLeft(c) = 2 * (MaxAttempts - attempt[c]) + 1
          /\ StepsLeft(c)' = 2 * (MaxAttempts - attempt[c])
      BY <3>1 DEF StepsLeft
    <3> QED
      BY <1>1, <3>2, UnderWay
  <2>7. CASE Resume(c)
    <3>1. /\ phase[c] = "backoff" /\ phase'[c] = "waiting"
          /\ attempt'[c] = attempt[c] + 1
      BY <1>1, <2>7 DEF Resume, ClientInv, ClientTypeOK
    <3>2. /\ StepsLeft(c) = 2 * (MaxAttempts - attempt[c])
          /\ StepsLeft(c)' = 2 * (MaxAttempts - (attempt[c] + 1)) + 1
      BY <3>1 DEF StepsLeft
    <3> QED
      BY <1>1, <3>2, UnderWay
  <2> QED
    BY <1>1, <2>1, <2>2, <2>3, <2>4, <2>5, <2>6, <2>7 DEF ClientNext, EndAttempt
<1>2. ClientInv => \A c \in Call :
                        StepsLeft(c) \in Nat /\ StepsLeft(c) < 2 * MaxAttempts
  BY UnderWay
<1>3. ClientInv /\ [ClientNext]_clientVars =>
        [\A c \in Call :
            phase[c] # "idle" =>
                \/ StepsLeft(c)' < StepsLeft(c)
                \/ phase'[c] = phase[c] /\ attempt'[c] = attempt[c] ]_clientVars
  BY <1>1
<1> QED
  BY <1>2, <1>3, ClientInvariant, PTL DEF ClientSpec, CallsShrink
=============================================================================
