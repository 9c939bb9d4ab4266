\* Updates of two customers, two handlers at a time, one failure.
SPECIFICATION BotSpec
CONSTANTS
    r1 = r1
    r2 = r2
    r3 = r3
    r4 = r4
    u1 = u1
    u2 = u2
    None = None
    Requests = {r1, r2}
    Users = {u1, u2}
    ExternalIds = {}
    Commands <- MarkedCalls
    Kinds = {"short", "search", "menu", "new", "contact", "order", "rating"}
    HistoryWindow = 2
    MaxInFlight = 2
    MaxFaults = 1
SYMMETRY Symmetry
INVARIANTS
    VouchedForIsStored
    RememberedSessionIsOwn
    AskedOncePerConversation
