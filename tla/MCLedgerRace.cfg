SPECIFICATION LedgerSpec
CONSTANTS
    e1 = e1  e2 = e2  e3 = e3  e4 = e4
    a1 = a1  aSlash = aSlash  aPercent = aPercent
    aQuery = aQuery  aControl = aControl
    usd = usd  eur = eur  d1 = d1  d2 = d2
    noRoute = noRoute  redirect = redirect  noUrl = noUrl
    EventId <- MCEventId
    AccountId <- MCAccountId
    Currency <- MCCurrency
    Details <- MCDetails
    Amount <- MCAmount
    Payload <- RacePayload
    Float <- MCFloat
    Route <- MCRoute
    NoRoute = noRoute
    Redirect = redirect
    NoUrl = noUrl
    Infinity <- MCInfinity
    NoPayload = NoPayload
    Call = {c1, c2}
    Submission = {c1, c2}
    MaxAttempts = 2
    Threshold = 2
    ResetTicks = 1
SYMMETRY Symmetry
INVARIANTS
    LedgerTypeOK
    EventAppliedOnce
    SingleCurrency
    BalanceIsNetOfEvents
    HistoryBacked
    OneRecordPerEventId
    AcceptedIsDurable
    RejectionIsFinal
