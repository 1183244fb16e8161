SPECIFICATION TraceSpec
CONSTANTS
    Request = {r1, r2}
    Hex = {h1, h2, h3}
    Opaque = {o1}
SYMMETRY Symmetry
INVARIANTS
    TraceTypeOK
    OneTracePerRequest
    TracesStayApart
    EchoFindsTheLines
CHECK_DEADLOCK FALSE
