SPECIFICATION HistorySpec
CONSTANTS
    EventId = {1, 2, 3}
    Timestamp <- MCTimestamp
    RecentLimit = 2
INVARIANTS
    HistoryTypeOK
    ListingIgnoresArrival
    ChronologicalToTheSecond
    ChronologicalWhenUniform
CHECK_DEADLOCK FALSE
