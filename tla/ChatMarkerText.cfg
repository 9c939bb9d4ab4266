\* Texts of a customer who is not verified, one call at a time.
SPECIFICATION Spec
CONSTANTS
    r1 = r1
    r2 = r2
    r3 = r3
    u1 = u1
    u2 = u2
    x1 = x1
    None = None
    Requests = {r1, r2}
    Users = {u1}
    ExternalIds = {}
    Commands <- TextCommands
    HistoryWindow = 2
    MaxInFlight = 1
    MaxFaults = 0
INVARIANT
    MarkersAreVerified
