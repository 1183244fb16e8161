SPECIFICATION LedgerSpec
CONSTANTS
    e1 = e1  e2 = e2  e3 = e3  e4 = e4
    a1 = a1  aSlash = aSlash  aPercent = aPercent
    aQuery = aQuery  aControl = aControl
    usd = usd  eur = eur  d1 = d1  d2 = d2
    noRoute = noRoute  redirect = redirect  noUrl = noUrl
    EventId <- MCEventId
    AccountId <- MCAccountId
    Currency <- MCCurrency
    Details <- MCDetails
    Amount <- MCAmount
    Payload <- OnePayload
    Float <- MCFloat
    Route <- MCRoute
    NoRoute = noRoute
    Redirect = redirect
    NoUrl = noUrl
    Infinity <- MCInfinity
    NoPayload = NoPayload
    Call = {c1}
    Submission = {c1}
    MaxAttempts = 1
    Threshold = 1
    ResetTicks = 0
INVARIANTS
    UnavailableMeansNotApplied
