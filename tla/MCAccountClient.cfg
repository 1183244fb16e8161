SPECIFICATION ClientFairSpec
CONSTANTS
    Call = {c1, c2, c3}
    MaxAttempts = 3
    Threshold = 3
    ResetTicks = 5
INVARIANTS
    ClientTypeOK
    CircuitMatchesFailures
PROPERTIES
    OpensOnlyOnExhaustion
    CallsReturn
    CircuitAdmitsAgain
