SPECIFICATION HistorySpec
CONSTANTS
    EventId = {1, 2, 3}
    Timestamp <- MCTimestamp
    RecentLimit = 2
INVARIANT
    RecentAreLatest
CHECK_DEADLOCK FALSE
