\* A reply in flight while /new runs.
SPECIFICATION Spec
CONSTANTS
    r1 = r1
    r2 = r2
    r3 = r3
    u1 = u1
    u2 = u2
    x1 = x1
    None = None
    Requests = {r1, r2, r3}
    Users = {u1}
    ExternalIds = {}
    Commands <- ImplicitCommands
    HistoryWindow = 2
    MaxInFlight = 2
    MaxFaults = 0
SYMMETRY Symmetry
INVARIANTS
    ResetStartsFresh
