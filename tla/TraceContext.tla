---------------------------- MODULE TraceContext ----------------------------
(***************************************************************************)
(* Trace ids on their way through both services: the middleware that binds *)
(* one to each request (src/src/gateway_service/main.py and its twin in    *)
(* account_service/main.py), the headers the client forwards               *)
(* (account_client.py), the log lines, and the headers of the response     *)
(* (src/src/event_ledger_common/trace.py).                                 *)
(*                                                                         *)
(* The Gateway's middleware, its handler and the attempts of a call are    *)
(* separated by awaits, where other requests run; a request stands for one *)
(* HTTP request and is not reused.                                         *)
(***************************************************************************)
EXTENDS Integers

CONSTANTS
    Request,   \* HTTP requests the Gateway receives
    Hex,       \* 32-digit hexadecimal numbers other than zero
    Opaque     \* any other text an X-Trace-Id may hold, the zero id included

Absent == "-"   \* no header, or a blank or malformed one; the default context

ASSUME TextAssumption == Hex \cap Opaque = {} /\ Absent \notin Hex \cup Opaque

\* The text of a trace id and whether its letters are upper case.
TraceId == [text : Hex \cup Opaque, upper : BOOLEAN]

Lower(id) == [text |-> id.text, upper |-> FALSE]

Unbound == [text |-> Absent, upper |-> FALSE]

\* X-Trace-Id and traceparent as received or sent; of a traceparent only the
\* trace id matters, which is lower-cased before it is looked at.
Headers == [trace : TraceId \cup {Unbound}, parent : Hex \cup {Absent}]

NoHeaders == [trace |-> Unbound, parent |-> Absent]

VARIABLES
    stage,      \* stage[r]: how far the Gateway is with request r
    received,   \* received[r]: the headers its caller sent
    traceId,    \* traceId[r]: the middleware's own variable trace_id
    context,    \* context[r]: the ContextVar as the tasks of r see it
    outgoing,   \* outgoing[r]: the headers all attempts of its call carry, once made
    minted,     \* results of new_trace_id so far
    lines,      \* log lines: the service, the request and the trace_id
    reply       \* reply[r]: the headers of the response

traceVars ==
    <<stage, received, traceId, context, outgoing, minted, lines, reply>>

TraceInit ==
    /\ stage = [r \in Request |-> "new"]
    /\ received = [r \in Request |-> NoHeaders]
    /\ traceId = [r \in Request |-> Unbound]
    /\ context = [r \in Request |-> Unbound]
    /\ outgoing = [r \in Request |-> {}]
    /\ minted = {}
    /\ lines = {}
    /\ reply = [r \in Request |-> NoHeaders]

-----------------------------------------------------------------------------
(* The helpers of trace.py.                                                *)

Supplied(h) ==
    IF h.parent # Absent THEN [text |-> h.parent, upper |-> FALSE] ELSE h.trace

\* Mutant: the new id is made once, like the default of an argument.
MutTraceIdFromHeaders(h, id) ==
    IF Supplied(h) # Unbound
        THEN id = Supplied(h) /\ UNCHANGED minted
        ELSE \E t \in Hex : /\ minted \subseteq {t}
                            /\ id = [text |-> t, upper |-> FALSE]
                            /\ minted' = {t}

\* trace_id_from_headers: traceparent wins, then X-Trace-Id, then a new UUID,
\* taken to differ from every id seen so far.
TraceIdFromHeaders(h, id) ==
    IF Supplied(h) # Unbound
        THEN id = Supplied(h) /\ UNCHANGED minted
        ELSE \E t \in Hex \ minted :
                /\ \A r \in Request : t \notin {received[r].parent,
                                                received[r].trace.text}
                /\ id = [text |-> t, upper |-> FALSE]
                /\ minted' = minted \cup {t}

TraceparentFromTraceId(id) == IF id.text \in Hex THEN id.text ELSE Absent

SetTraceId(r, id) == context' = [context EXCEPT ![r] = id]

\* Mutant: no reset in the `finally' of the middleware.
MutResetTraceId(r) == UNCHANGED context

ResetTraceId(r) == context' = [context EXCEPT ![r] = Unbound]

\* Mutant: only the W3C header is forwarded.
MutForwarded(id) ==
    [trace |-> Unbound, parent |-> TraceparentFromTraceId(id)]

\* The headers _request and both middlewares make of a trace id.
Forwarded(id) == [trace |-> id, parent |-> TraceparentFromTraceId(id)]

Line(service, r, id) == [service |-> service, request |-> r, id |-> id]

-----------------------------------------------------------------------------
(* The life of a request.                                                  *)

\* The middleware, up to the await of the handler.
Arrive(r, h) ==
    /\ stage[r] = "new"
    /\ stage' = [stage EXCEPT ![r] = "handling"]
    /\ received' = [received EXCEPT ![r] = h]
    /\ \E id \in TraceId :
        /\ TraceIdFromHeaders(h, id)
        /\ traceId' = [traceId EXCEPT ![r] = id]
        /\ SetTraceId(r, id)
    /\ UNCHANGED <<outgoing, lines, reply>>

\* The handler calls the Account Service with the id of its context.
Call(r) ==
    /\ stage[r] = "handling"
    /\ stage' = [stage EXCEPT ![r] = "calling"]
    /\ outgoing' = [outgoing EXCEPT ![r] = {Forwarded(context[r])}]
    /\ UNCHANGED <<received, traceId, context, minted, lines, reply>>

\* An attempt, the first or a retry, in time or after it was given up, reaches
\* the Account Service, whose middleware resolves its headers and logs.
AccountLogs(r) ==
    /\ \E h \in outgoing[r], id \in TraceId :
        /\ TraceIdFromHeaders(h, id)
        /\ lines' = lines \cup {Line("account-service", r, id)}
    /\ UNCHANGED <<stage, received, traceId, context, outgoing, reply>>

\* The Gateway's handler, or its middleware, writes a line: TraceContextFilter
\* reads the context then, not when the request arrived.
GatewayLogs(r) ==
    lines' = lines \cup {Line("event-gateway", r, context[r])}

HandlerLogs(r) ==
    /\ stage[r] \in {"handling", "calling"}
    /\ GatewayLogs(r)
    /\ UNCHANGED <<stage, received, traceId, context, outgoing, minted, reply>>

\* The `finally' of the middleware: "request completed", then the reset.
Leave(r) ==
    /\ stage[r] \in {"handling", "calling"}
    /\ stage' = [stage EXCEPT ![r] = "done"]
    /\ GatewayLogs(r)
    /\ ResetTraceId(r)
    /\ traceId' = [traceId EXCEPT ![r] = Unbound]
    /\ UNCHANGED <<received, outgoing, minted>>

\* Mutant: the response repeats the headers of the request.
MutRespond(r) == Leave(r) /\ reply' = [reply EXCEPT ![r] = received[r]]

\* The middleware echoes its own variable, not the context the lines show.
Respond(r) == Leave(r) /\ reply' = [reply EXCEPT ![r] = Forwarded(traceId[r])]

\* The handler raised: the 500 is made further out, without trace headers.
Raise(r) == Leave(r) /\ UNCHANGED reply

TraceNext ==
    \E r \in Request :
        \/ \E h \in Headers : Arrive(r, h)
        \/ Call(r) \/ AccountLogs(r) \/ HandlerLogs(r)
        \/ Respond(r) \/ Raise(r)

TraceSpec == TraceInit /\ [][TraceNext]_traceVars

-----------------------------------------------------------------------------
(* Properties.                                                             *)

\* The context is bound exactly while the request is being handled: nothing of
\* it is left for later work of the process.
TraceTypeOK ==
    /\ stage \in [Request -> {"new", "handling", "calling", "done"}]
    /\ received \in [Request -> Headers]
    /\ traceId \in [Request -> TraceId \cup {Unbound}]
    /\ context \in [Request -> TraceId \cup {Unbound}]
    /\ outgoing \in [Request -> SUBSET Headers]
    /\ reply \in [Request -> Headers]
    /\ minted \subseteq Hex
    /\ lines \subseteq [service : {"event-gateway", "account-service"},
                        request : Request, id : TraceId]
    /\ \A r \in Request :
        /\ context[r] = Unbound <=> stage[r] \in {"new", "done"}
        /\ traceId[r] = Unbound <=> stage[r] \in {"new", "done"}

\* README "Observability": one request leaves one trace, whatever headers its
\* caller sent and however its attempts overlap with other requests: all lines
\* of both services carry one id, up to the case of its letters.
OneTracePerRequest ==
    \A l, m \in lines :
        l.request = m.request => Lower(l.id) = Lower(m.id)

\* Two requests share a trace only if a caller asked for it: by sending an id
\* twice, or one it got from an earlier response.
TracesStayApart ==
    \A l, m \in lines :
        (l.request # m.request /\ Lower(l.id) = Lower(m.id)) =>
            \E r \in {l.request, m.request} :
                Lower(Supplied(received[r])) = Lower(l.id)

\* "... and echoed in responses": what a caller is told is what the Gateway's
\* lines can be searched for.  (A 500 for an exception carries no header.)
EchoFindsTheLines ==
    \A r \in Request, l \in lines :
        (reply[r] # NoHeaders /\ l.request = r /\ l.service = "event-gateway")
            => reply[r] = Forwarded(l.id)
=============================================================================
