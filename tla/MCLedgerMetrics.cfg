SPECIFICATION MetricsSpec
CONSTANTS
    e1 = e1  e2 = e2  e3 = e3  e4 = e4
    a1 = a1  aSlash = aSlash  aPercent = aPercent
    aQuery = aQuery  aControl = aControl
    usd = usd  eur = eur  d1 = d1  d2 = d2
    noRoute = noRoute  redirect = redirect  noUrl = noUrl
    EventId <- MCEventId
    AccountId <- OneAccount
    Currency <- MCCurrency
    Details <- MCDetails
    Amount <- MCAmount
    Payload <- CountedPayload
    Float <- MCFloat
    Route <- OneRoute
    NoRoute = noRoute
    Redirect = redirect
    NoUrl = noUrl
    Infinity <- MCInfinity
    NoPayload = NoPayload
    Call = {c1, c2, r1}
    Submission = {c1, c2}
    Reader = {r1}
    MaxAttempts = 2
    Threshold = 1
    ResetTicks = 1
    MaxRequests = 1
SYMMETRY Symmetry
INVARIANTS
    ReadsTypeOK
    ReadYourWrites
    OutcomesAddUp
    NothingOverclaimed
    AcceptancesWereApplied
CHECK_DEADLOCK FALSE
