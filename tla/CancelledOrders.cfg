SPECIFICATION LookupSpec
CHECK_DEADLOCK FALSE
CONSTANTS
    NoTrack = NoTrack
    Customer = Customer
    Nobody = Nobody
    FreeText = FreeText
    LookupError = LookupError
    NoRequest = NoRequest
    NoResult = NoResult
    k1 = k1
    k2 = k2
    k3 = k3
    k4 = k4
    tel = tel
    ListPageSize = 2
    FindPageSize = 2
    FindPages = 1
    MaxFaults = 1
    Requests <- MCRequests
    Worlds <- MCWorlds
INVARIANT
    CancelledOrdersAreListed
