\* The rating prompt dies with the handler that scheduled it.
SPECIFICATION BotFairSpec
CONSTANTS
    r1 = r1
    r2 = r2
    r3 = r3
    r4 = r4
    u1 = u1
    u2 = u2
    None = None
    Requests = {r1, r2}
    Users = {u1}
    ExternalIds = {}
    Commands <- PlainCalls
    Kinds = {"message"}
    HistoryWindow = 2
    MaxInFlight = 1
    MaxFaults = 0

PROPERTY
    InactiveCustomerIsAsked

