\* One turn of a customer, from the message to the outcome, over what Sahiy
\* may hold and with any call failing.
SPECIFICATION AnswersFairSpec
CONSTANTS
    NoTrack = NoTrack
    Customer = Customer
    Nobody = Nobody
    FreeText = FreeText
    LookupError = LookupError
    NoRequest = NoRequest
    NoResult = NoResult
    NoTurn = NoTurn
    NoRoute = NoRoute
    NoMatch = NoMatch
    NoCompletion = NoCompletion
    NoFacts = NoFacts
    NoOutcome = NoOutcome
    k1 = k1
    k2 = k2
    k3 = k3
    k4 = k4
    tel = tel
    ListPageSize = 2
    FindPageSize = 1
    FindPages = 2
    MaxFaults = 2
    EscalationThreshold = 45
    RagThreshold = 85
    Similarities = {37, 38, 90}
    Claims = {40, 55, 120}
    Rates = {3}
    FallbackRate = 2
    Requests <- MCTurnRequests
    Turns <- MCTurns
    Setups <- MCSetups
    Worlds <- MCWorlds
INVARIANTS
    AnswersTypeOK
    ParcelsAreListedOnce
    NothingVanishes
    FiltersAgreeWithEstimates
    NoModelMeansPeople
    UnsureAnswersAreHandedOver
    OwnOrdersAreNoArticle
    OperatorIsReached
    FollowUpsKeepTheirParcel
PROPERTIES
    KeepsItsPromise
    EveryTurnEnds
