\* Three calls for two slots, two providers of which one rejects temperatures.
SPECIFICATION FairSpec
CONSTANTS
    c1 = c1
    c2 = c2
    c3 = c3
    Calls = {c1, c2, c3}
    MaxConcurrent = 2
    Providers = 3
    Configured = {1, 3}
    Picky = {1}
    HasFallback = TRUE
INVARIANTS
    SlotsAreHeld
    OnlyShedCallsFail
PROPERTY
    EveryCallReturns
