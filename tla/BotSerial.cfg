\* Handlers of one customer one after the other.
SPECIFICATION BotSpec
CONSTANTS
    r1 = r1
    r2 = r2
    r3 = r3
    r4 = r4
    u1 = u1
    u2 = u2
    None = None
    Requests = {r1, r2, r3}
    Users = {u1}
    ExternalIds = {}
    Commands <- IdentifiedCalls
    Kinds = {"contact", "new", "order"}
    HistoryWindow = 2
    MaxInFlight = 1
    MaxFaults = 2
SYMMETRY Symmetry
INVARIANTS
    NextMessageOpensNew
    AtMostOneActiveSession
    ResetStartsFresh
    TicketsFollowTheirSession

