SPECIFICATION HistorySpec
CONSTANTS
    EventId = {1, 2}
    Timestamp <- MCTimestamp
    RecentLimit = 25
INVARIANT
    Chronological
CHECK_DEADLOCK FALSE
