\* Overlapping calls of a Telegram customer and of two customers of the API, two
\* steps of which fail.
SPECIFICATION FairSpec
CONSTANTS
    r1 = r1
    r2 = r2
    r3 = r3
    u1 = u1
    u2 = u2
    x1 = x1
    None = None
    Requests = {r1, r2}
    Users = {u1, u2}
    ExternalIds = {x1}
    Commands <- AllCommands
    HistoryWindow = 2
    MaxInFlight = 2
    MaxFaults = 2
INVARIANTS
    TypeOK
    VerifiedBeforeRespond
    TurnsStayWhole
    AnswersAreStoredTurns
    MessagesBelongToTheirUser
PROPERTIES
    KeepsConversations
    EveryCallEnds
