------------------------- MODULE TraceContextProofs -------------------------
(***************************************************************************)
(* Proofs about TraceContext, for any number of requests and any ids.  The *)
(* argument is about the texts a request has left anywhere: in its         *)
(* context, in the headers it forwards and in the log lines.  Arrival      *)
(* picks the first one; no later step, of whichever request, adds another. *)
(***************************************************************************)
EXTENDS TraceContext, TLAPS

Active == {"handling", "calling"}

\* The texts of the trace ids request r has left anywhere.
Texts(r) ==
    {x \in Hex \cup Opaque :
        \/ stage[r] \in Active /\ context[r].text = x
        \/ \E h \in outgoing[r] : h.trace.text = x
        \/ \E l \in lines : l.request = r /\ l.id.text = x}

\* The caller of r sent an id.
Given(r) == Supplied(received[r]) # Unbound

\* What is forwarded is made of one id.
ForwardsOneId ==
    \A r \in Request : \A h \in outgoing[r] :
        h.trace \in TraceId /\ h = Forwarded(h.trace)

NewLeavesNothing == \A r \in Request : stage[r] = "new" => Texts(r) = {}

OneText == \A r \in Request : \A x, y \in Texts(r) : x = y

TextsAreGiven ==
    \A r \in Request : Given(r) =>
        \A x \in Texts(r) : x = Supplied(received[r]).text

TextsAreMinted ==
    \A r \in Request : ~Given(r) => Texts(r) \subseteq minted

MintedOnce ==
    \A r, s \in Request :
        (r # s /\ ~Given(r) /\ ~Given(s)) => Texts(r) \cap Texts(s) = {}

\* The Gateway's own lines carry the very id of the context.
GatewayLinesExact ==
    \A l \in lines : l.service = "event-gateway" =>
        /\ stage[l.request] # "new"
        /\ stage[l.request] \in Active => l.id = context[l.request]

\* The middleware's variable and the context, which it has bound, do not part.
LocalIsContext == \A r \in Request : stage[r] \in Active => traceId[r] = context[r]

RepliesComeLast == \A r \in Request : reply[r] # NoHeaders => stage[r] = "done"

TextInv ==
    /\ TraceTypeOK
    /\ ForwardsOneId
    /\ NewLeavesNothing
    /\ OneText
    /\ TextsAreGiven
    /\ TextsAreMinted
    /\ MintedOnce

EchoInv ==
    /\ TraceTypeOK
    /\ LocalIsContext
    /\ GatewayLinesExact
    /\ RepliesComeLast
    /\ EchoFindsTheLines

-----------------------------------------------------------------------------
(* The helpers of trace.py.                                                *)

\* What trace_id_from_headers returns is an id.
LEMMA ResolvedTyped ==
    ASSUME NEW h \in Headers, NEW id \in TraceId, TraceIdFromHeaders(h, id),
           minted \subseteq Hex
    PROVE  minted' \subseteq Hex /\ id.text \in Hex \cup Opaque /\ id # Unbound
BY TextAssumption DEF TraceIdFromHeaders, TraceId, Unbound

\* What is forwarded of an id is a pair of headers.
LEMMA ForwardedTyped ==
    ASSUME NEW id \in TraceId
    PROVE  Forwarded(id) \in Headers /\ Forwarded(id).trace = id
BY TextAssumption DEF Forwarded, TraceparentFromTraceId, Headers, TraceId

\* A forwarded id comes back as itself, up to case, and mints nothing.
LEMMA ForwardedResolves ==
    ASSUME NEW given \in TraceId, NEW id \in TraceId,
           TraceIdFromHeaders(Forwarded(given), id)
    PROVE  id.text = given.text /\ minted' = minted
<1>1. Supplied(Forwarded(given)).text = given.text
  BY DEF Supplied, Forwarded, TraceparentFromTraceId
<1>2. given.text # Absent
  BY TextAssumption DEF TraceId
<1>3. Supplied(Forwarded(given)) # Unbound
  BY <1>1, <1>2 DEF Unbound
<1> QED
  BY <1>1, <1>3 DEF TraceIdFromHeaders

-----------------------------------------------------------------------------
(* Type correctness.                                                       *)

\* TraceTypeOK holds at the beginning and is kept by every step.
LEMMA TypeInit == TraceInit => TraceTypeOK
BY DEF TraceInit, TraceTypeOK, NoHeaders, Headers, Unbound

LEMMA TypeStep ==
    ASSUME TraceTypeOK, [TraceNext]_traceVars
    PROVE  TraceTypeOK'
<1> USE DEF TraceTypeOK
<1>1. ASSUME NEW r \in Request, NEW h \in Headers, Arrive(r, h)
      PROVE  TraceTypeOK'
  <2>1. PICK id \in TraceId : /\ TraceIdFromHeaders(h, id)
                              /\ traceId' = [traceId EXCEPT ![r] = id]
                              /\ SetTraceId(r, id)
    BY <1>1 DEF Arrive
  <2>2. minted' \subseteq Hex /\ id # Unbound
    BY <2>1, ResolvedTyped
  <2>3. /\ traceId' = [traceId EXCEPT ![r] = id]
        /\ context' = [context EXCEPT ![r] = id]
    BY <2>1 DEF SetTraceId
  <2> QED
    BY <1>1, <2>2, <2>3 DEF Arrive
<1>2. ASSUME NEW r \in Request, Call(r)
      PROVE  TraceTypeOK'
  <2>1. Forwarded(context[r]) \in Headers
    BY <1>2, ForwardedTyped DEF Call
  <2> QED
    BY <1>2, <2>1 DEF Call
<1>3. ASSUME NEW r \in Request, AccountLogs(r)
      PROVE  TraceTypeOK'
  <2>1. PICK h \in outgoing[r], id \in TraceId :
            /\ TraceIdFromHeaders(h, id)
            /\ lines' = lines \cup {Line("account-service", r, id)}
    BY <1>3 DEF AccountLogs
  <2>2. minted' \subseteq Hex
    BY <2>1, ResolvedTyped
  <2> QED
    BY <1>3, <2>1, <2>2 DEF AccountLogs, Line
<1>4. ASSUME NEW r \in Request, HandlerLogs(r)
      PROVE  TraceTypeOK'
  BY <1>4 DEF HandlerLogs, GatewayLogs, Line
<1>5. ASSUME NEW r \in Request, Respond(r) \/ Raise(r)
      PROVE  TraceTypeOK'
  <2>1. Forwarded(traceId[r]) \in Headers
    BY <1>5, ForwardedTyped DEF Respond, Raise, Leave
  <2> QED
    BY <1>5, <2>1
       DEF Respond, Raise, Leave, GatewayLogs, ResetTraceId, Line
<1>6. CASE UNCHANGED traceVars
  BY <1>6 DEF traceVars
<1> QED
  BY <1>1, <1>2, <1>3, <1>4, <1>5, <1>6 DEF TraceNext

\* The context of the middleware: an id is bound exactly while its request is
\* being handled, and every header and line is well formed.
THEOREM TraceTypeCorrect == TraceSpec => []TraceTypeOK
BY TypeInit, TypeStep, PTL DEF TraceSpec

-----------------------------------------------------------------------------
(* The texts a step leaves.                                                *)

\* Most steps leave none a request has not left before.
Quiet ==
    /\ received' = received /\ minted' = minted
    /\ \A r \in Request : Texts(r)' \subseteq Texts(r)
    /\ \A r \in Request : stage'[r] = "new" => stage[r] = "new"

\* The arrival of a request leaves the first one, and none of another request.
FirstText(r, h, id) ==
    /\ stage[r] = "new" /\ stage'[r] # "new"
    /\ received' = [received EXCEPT ![r] = h]
    /\ TraceIdFromHeaders(h, id)
    /\ Texts(r)' \subseteq {id.text}
    /\ \A s \in Request \ {r} :
        Texts(s)' \subseteq Texts(s) /\ stage'[s] = stage[s]

LEMMA StepTexts ==
    ASSUME TextInv, [TraceNext]_traceVars
    PROVE  \/ Quiet
           \/ \E r \in Request, h \in Headers, id \in TraceId : FirstText(r, h, id)
<1>1. TraceTypeOK
  BY DEF TextInv
<1>2. ASSUME NEW r \in Request, NEW h \in Headers, Arrive(r, h)
      PROVE  \E id \in TraceId : FirstText(r, h, id)
  <2>1. PICK id \in TraceId : TraceIdFromHeaders(h, id) /\ SetTraceId(r, id)
    BY <1>2 DEF Arrive
  <2>2. /\ stage[r] = "new" /\ stage' = [stage EXCEPT ![r] = "handling"]
        /\ received' = [received EXCEPT ![r] = h]
        /\ context' = [context EXCEPT ![r] = id]
        /\ outgoing' = outgoing /\ lines' = lines
    BY <1>2, <2>1 DEF Arrive, SetTraceId
  <2>3. Texts(r) = {}
    BY <2>2 DEF TextInv, NewLeavesNothing
  <2>4. Texts(r)' \subseteq {id.text}
    BY <1>1, <2>2, <2>3 DEF Texts, TraceTypeOK
  <2>5. \A s \in Request \ {r} : Texts(s)' \subseteq Texts(s) /\ stage'[s] = stage[s]
    BY <1>1, <2>2 DEF Texts, TraceTypeOK
  <2> QED
    BY <1>1, <2>1, <2>2, <2>4, <2>5 DEF FirstText, TraceTypeOK
<1>3. ASSUME NEW r \in Request, Call(r)
      PROVE  Quiet
  <2>1. /\ stage[r] = "handling" /\ stage' = [stage EXCEPT ![r] = "calling"]
        /\ outgoing' = [outgoing EXCEPT ![r] = {Forwarded(context[r])}]
        /\ UNCHANGED <<received, context, minted, lines>>
    BY <1>3 DEF Call
  <2>2. Forwarded(context[r]).trace = context[r]
    BY <1>1, <2>1 DEF Forwarded
  <2>3. \A s \in Request : Texts(s)' \subseteq Texts(s)
    BY <1>1, <2>1, <2>2 DEF Texts, TraceTypeOK, Active
  <2> QED
    BY <1>1, <2>1, <2>3 DEF Quiet, TraceTypeOK
<1>4. ASSUME NEW r \in Request, AccountLogs(r)
      PROVE  Quiet
  <2>1. PICK h \in outgoing[r], id \in TraceId :
            /\ TraceIdFromHeaders(h, id)
            /\ lines' = lines \cup {Line("account-service", r, id)}
    BY <1>4 DEF AccountLogs
  <2>2. UNCHANGED <<stage, received, context, outgoing>>
    BY <1>4 DEF AccountLogs
  <2>3. id.text = h.trace.text /\ minted' = minted
    BY <2>1, ForwardedResolves DEF TextInv, ForwardsOneId
  <2>4. \A l \in lines' : l \in lines \/ (l.request = r /\ l.id.text = h.trace.text)
    BY <2>1, <2>3 DEF Line
  <2>5. \A s \in Request : Texts(s)' \subseteq Texts(s)
    BY <1>1, <2>1, <2>2, <2>4 DEF Texts
  <2> QED
    BY <2>2, <2>3, <2>5 DEF Quiet
<1>5. ASSUME NEW r \in Request, HandlerLogs(r) \/ Respond(r) \/ Raise(r)
      PROVE  Quiet
  <2>1. /\ stage[r] \in Active
        /\ \/ stage' = stage /\ context' = context
           \/ /\ stage' = [stage EXCEPT ![r] = "done"]
              /\ context' = [context EXCEPT ![r] = Unbound]
        /\ lines' = lines \cup {Line("event-gateway", r, context[r])}
        /\ UNCHANGED <<received, outgoing, minted>>
    BY <1>5 DEF HandlerLogs, Respond, Raise, Leave, GatewayLogs, ResetTraceId,
                Active
  <2>2. \A l \in lines' :
            l \in lines \/ (l.request = r /\ l.id.text = context[r].text)
    BY <2>1 DEF Line
  <2>3. \A s \in Request : stage'[s] \in Active =>
            stage[s] \in Active /\ context'[s] = context[s]
    BY <1>1, <2>1 DEF TraceTypeOK, Active
  <2>4. \A s \in Request : Texts(s)' \subseteq Texts(s)
    BY <2>1, <2>2, <2>3 DEF Texts
  <2> QED
    BY <1>1, <2>1, <2>4 DEF Quiet, TraceTypeOK
<1>6. CASE UNCHANGED traceVars
  BY <1>6 DEF traceVars, Quiet, Texts
<1> QED
  BY <1>2, <1>3, <1>4, <1>5, <1>6 DEF TraceNext

\* What is forwarded is decided when the call is made.
LEMMA ForwardStep ==
    ASSUME TextInv, [TraceNext]_traceVars
    PROVE  ForwardsOneId'
<1>1. TraceTypeOK /\ ForwardsOneId
  BY DEF TextInv
<1>2. ASSUME NEW r \in Request, Call(r)
      PROVE  ForwardsOneId'
  <2>1. context[r] \in TraceId
    BY <1>1, <1>2 DEF TraceTypeOK, Call
  <2>2. Forwarded(context[r]).trace = context[r]
    BY DEF Forwarded
  <2> QED
    BY <1>1, <1>2, <2>1, <2>2 DEF TraceTypeOK, Call, ForwardsOneId
<1>3. CASE outgoing' = outgoing
  BY <1>1, <1>3 DEF ForwardsOneId
<1> QED
  BY <1>2, <1>3 DEF TraceNext, Arrive, AccountLogs, HandlerLogs, Respond, Raise,
                    Leave, traceVars

-----------------------------------------------------------------------------
(* One text per request, and its own.                                      *)

LEMMA TextInitInv == TraceInit => TextInv
<1> SUFFICES ASSUME TraceInit
             PROVE  TextInv
  OBVIOUS
<1>1. \A r \in Request : Texts(r) = {}
  BY DEF TraceInit, Texts, Active
<1>2. ForwardsOneId
  BY DEF TraceInit, ForwardsOneId
<1> QED
  BY <1>1, <1>2, TypeInit DEF TextInv, NewLeavesNothing, OneText, TextsAreGiven,
                              TextsAreMinted, MintedOnce

LEMMA QuietKeeps ==
    ASSUME TextInv, Quiet
    PROVE  (NewLeavesNothing /\ OneText /\ TextsAreGiven /\ TextsAreMinted
            /\ MintedOnce)'
<1>1. \A r \in Request : Texts(r)' \subseteq Texts(r) /\ Given(r)' = Given(r)
  BY DEF Quiet, Given
<1>2. NewLeavesNothing'
  BY <1>1 DEF Quiet, TextInv, NewLeavesNothing
<1>3. OneText'
  BY <1>1 DEF TextInv, OneText
<1>4. TextsAreGiven'
  BY <1>1 DEF Quiet, TextInv, TextsAreGiven
<1>5. TextsAreMinted'
  BY <1>1 DEF Quiet, TextInv, TextsAreMinted
<1>6. MintedOnce'
  BY <1>1 DEF TextInv, MintedOnce
<1> QED
  BY <1>2, <1>3, <1>4, <1>5, <1>6

\* An arriving request takes over the id it is given, or one that is new.
LEMMA FirstKeeps ==
    ASSUME TextInv, NEW r \in Request, NEW h \in Headers, NEW id \in TraceId,
           FirstText(r, h, id)
    PROVE  (NewLeavesNothing /\ OneText /\ TextsAreGiven /\ TextsAreMinted
            /\ MintedOnce)'
<1>1. /\ stage[r] = "new" /\ stage'[r] # "new"
      /\ Texts(r)' \subseteq {id.text}
      /\ \A s \in Request \ {r} :
            Texts(s)' \subseteq Texts(s) /\ stage'[s] = stage[s]
  BY DEF FirstText
<1>2. /\ received'[r] = h
      /\ \A s \in Request \ {r} : received'[s] = received[s]
  BY DEF FirstText, TextInv, TraceTypeOK
<1>3. /\ Given(r)' <=> Supplied(h) # Unbound
      /\ \A s \in Request \ {r} : Given(s)' <=> Given(s)
  BY <1>2 DEF Given
<1>4. \/ Supplied(h) # Unbound /\ id = Supplied(h) /\ minted' = minted
      \/ /\ Supplied(h) = Unbound
         /\ id.text \notin minted
         /\ minted' = minted \cup {id.text}
  BY DEF FirstText, TraceIdFromHeaders
<1>5. NewLeavesNothing'
  BY <1>1 DEF TextInv, NewLeavesNothing
<1>6. OneText'
  BY <1>1 DEF TextInv, OneText
<1>7. TextsAreGiven'
  BY <1>1, <1>2, <1>3, <1>4 DEF TextInv, TextsAreGiven
<1>8. TextsAreMinted'
  BY <1>1, <1>3, <1>4 DEF TextInv, TextsAreMinted
<1>9. MintedOnce'
  <2>1. \A s \in Request \ {r} :
            (~Given(r)' /\ ~Given(s)') => id.text \notin Texts(s)'
    BY <1>1, <1>3, <1>4 DEF TextInv, TextsAreMinted
  <2> QED
    BY <1>1, <1>3, <2>1 DEF TextInv, MintedOnce
<1> QED
  BY <1>5, <1>6, <1>7, <1>8, <1>9

LEMMA TextStep == TextInv /\ [TraceNext]_traceVars => TextInv'
<1> SUFFICES ASSUME TextInv, [TraceNext]_traceVars
             PROVE  TextInv'
  OBVIOUS
<1>1. TraceTypeOK' /\ ForwardsOneId'
  BY TypeStep, ForwardStep DEF TextInv
<1>2. CASE Quiet
  BY <1>1, <1>2, QuietKeeps DEF TextInv
<1>3. ASSUME NEW r \in Request, NEW h \in Headers, NEW id \in TraceId,
             FirstText(r, h, id)
      PROVE  TextInv'
  BY <1>1, <1>3, FirstKeeps DEF TextInv
<1> QED
  BY <1>2, <1>3, StepTexts

THEOREM TextInvariant == TraceSpec => []TextInv
BY TextInitInv, TextStep, PTL DEF TraceSpec

\* Every line of a request shows one of its texts.
LEMMA LineText ==
    ASSUME TextInv, NEW l \in lines
    PROVE  l.request \in Request /\ l.id.text \in Texts(l.request)
<1>1. /\ l.request \in Request /\ l.id.text \in Hex \cup Opaque
  BY DEF TextInv, TraceTypeOK, TraceId
<1> QED
  BY <1>1 DEF Texts

\* One request leaves one trace in the logs of both services, whatever its
\* caller sent, however often the call is retried and whatever runs meanwhile.
THEOREM OneTrace == TraceSpec => []OneTracePerRequest
<1>1. ASSUME TextInv
      PROVE  OneTracePerRequest
  <2> SUFFICES ASSUME NEW l \in lines, NEW m \in lines, l.request = m.request
               PROVE  l.id.text = m.id.text
    BY DEF OneTracePerRequest, Lower
  <2> QED
    BY <1>1, LineText DEF TextInv, OneText
<1> QED
  BY <1>1, TextInvariant, PTL

\* No request gets into the trace of another one unless its caller, or that of
\* the other, sent the id: the ContextVar keeps overlapping requests apart.
THEOREM TracesApart == TraceSpec => []TracesStayApart
<1>1. ASSUME TextInv
      PROVE  TracesStayApart
  <2> SUFFICES ASSUME NEW l \in lines, NEW m \in lines, l.request # m.request,
                      l.id.text = m.id.text
               PROVE  \E r \in {l.request, m.request} :
                          Lower(Supplied(received[r])) = Lower(l.id)
    BY DEF TracesStayApart, Lower
  <2>1. /\ l.request \in Request /\ l.id.text \in Texts(l.request)
        /\ m.request \in Request /\ m.id.text \in Texts(m.request)
    BY <1>1, LineText
  <2>2. Given(l.request) \/ Given(m.request)
    BY <1>1, <2>1 DEF TextInv, MintedOnce
  <2>3. \E r \in {l.request, m.request} : Supplied(received[r]).text = l.id.text
    BY <1>1, <2>1, <2>2 DEF TextInv, TextsAreGiven
  <2> QED
    BY <2>3 DEF Lower
<1> QED
  BY <1>1, TextInvariant, PTL

-----------------------------------------------------------------------------
(* The response.                                                           *)

LEMMA EchoInitInv == TraceInit => EchoInv
BY TypeInit DEF TraceInit, EchoInv, LocalIsContext, Active, GatewayLinesExact,
                RepliesComeLast, EchoFindsTheLines

LEMMA EchoStep == EchoInv /\ [TraceNext]_traceVars => EchoInv'
<1> SUFFICES ASSUME EchoInv, [TraceNext]_traceVars
             PROVE  EchoInv'
  OBVIOUS
<1>1. /\ TraceTypeOK /\ TraceTypeOK' /\ LocalIsContext
      /\ GatewayLinesExact /\ RepliesComeLast /\ EchoFindsTheLines
  BY TypeStep DEF EchoInv
<1>2. ASSUME NEW r \in Request, Call(r) \/ \E h \in Headers : Arrive(r, h)
      PROVE  EchoInv'
  <2>1. /\ stage[r] \in {"new", "handling"}
        /\ \E s \in Active : stage' = [stage EXCEPT ![r] = s]
        /\ stage[r] = "handling" => context' = context
        /\ \/ \E id : /\ context' = [context EXCEPT ![r] = id]
                      /\ traceId' = [traceId EXCEPT ![r] = id]
           \/ stage[r] = "handling" /\ UNCHANGED <<context, traceId>>
        /\ lines' = lines /\ reply' = reply
    BY <1>2 DEF Call, Arrive, SetTraceId, Active
  <2>2. GatewayLinesExact'
    BY <1>1, <2>1 DEF TraceTypeOK, GatewayLinesExact, Active
  <2>3. RepliesComeLast'
    BY <1>1, <2>1 DEF TraceTypeOK, RepliesComeLast
  <2>4. EchoFindsTheLines'
    BY <1>1, <2>1 DEF EchoFindsTheLines
  <2>5. LocalIsContext'
    BY <1>1, <2>1 DEF TraceTypeOK, LocalIsContext, Active
  <2> QED
    BY <1>1, <2>2, <2>3, <2>4, <2>5 DEF EchoInv
<1>3. ASSUME NEW r \in Request, AccountLogs(r)
      PROVE  EchoInv'
  <2>1. /\ UNCHANGED <<stage, traceId, context, reply>>
        /\ \A l \in lines' : l \in lines \/ l.service = "account-service"
    BY <1>3 DEF AccountLogs, Line
  <2>2. GatewayLinesExact'
    BY <1>1, <2>1 DEF GatewayLinesExact
  <2>3. RepliesComeLast'
    BY <1>1, <2>1 DEF RepliesComeLast
  <2>4. EchoFindsTheLines'
    BY <1>1, <2>1 DEF EchoFindsTheLines
  <2>5. LocalIsContext'
    BY <1>1, <2>1 DEF TraceTypeOK, LocalIsContext, Active
  <2> QED
    BY <1>1, <2>2, <2>3, <2>4, <2>5 DEF EchoInv
<1>4. ASSUME NEW r \in Request, HandlerLogs(r) \/ Respond(r) \/ Raise(r)
      PROVE  EchoInv'
  <2>1. /\ stage[r] \in Active
        /\ lines' = lines \cup {Line("event-gateway", r, context[r])}
        /\ \/ UNCHANGED <<stage, traceId, context, reply>>
           \/ /\ stage' = [stage EXCEPT ![r] = "done"]
              /\ traceId' = [traceId EXCEPT ![r] = Unbound]
              /\ context' = [context EXCEPT ![r] = Unbound]
              /\ \/ reply' = [reply EXCEPT ![r] = Forwarded(traceId[r])]
                 \/ reply' = reply
    BY <1>4 DEF HandlerLogs, Respond, Raise, Leave, GatewayLogs, ResetTraceId,
                Active
  <2>2. \A l \in lines' : l \in lines \/ (l.request = r /\ l.id = context[r])
    BY <2>1 DEF Line
  <2>3. reply[r] = NoHeaders /\ traceId[r] = context[r]
    BY <1>1, <2>1 DEF RepliesComeLast, LocalIsContext, Active
  <2>4. \A l \in lines' : (l.request = r /\ l.service = "event-gateway") =>
            l.id = context[r]
    BY <1>1, <2>1, <2>2 DEF GatewayLinesExact
  <2>5. GatewayLinesExact'
    BY <1>1, <2>1, <2>2, <2>4 DEF TraceTypeOK, GatewayLinesExact, Active
  <2>6. RepliesComeLast'
    BY <1>1, <2>1 DEF TraceTypeOK, RepliesComeLast
  <2>7. EchoFindsTheLines'
    BY <1>1, <2>1, <2>2, <2>3, <2>4 DEF TraceTypeOK, EchoFindsTheLines
  <2>8. LocalIsContext'
    BY <1>1, <2>1 DEF TraceTypeOK, LocalIsContext, Active
  <2> QED
    BY <1>1, <2>5, <2>6, <2>7, <2>8 DEF EchoInv
<1>5. CASE UNCHANGED traceVars
  BY <1>1, <1>5 DEF traceVars, EchoInv, LocalIsContext, GatewayLinesExact,
                    RepliesComeLast, EchoFindsTheLines
<1> QED
  BY <1>2, <1>3, <1>4, <1>5 DEF TraceNext

\* What a caller is told is the id of all the lines the Gateway wrote for it.
THEOREM EchoIsExact == TraceSpec => []EchoFindsTheLines
<1>1. EchoInv => EchoFindsTheLines
  BY DEF EchoInv
<1> QED
  BY <1>1, EchoInitInv, EchoStep, PTL DEF TraceSpec
=============================================================================
