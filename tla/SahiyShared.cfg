\* Two reads of a list of two pages, or two orders, share a client and its token.
SPECIFICATION FairSpec
CONSTANTS
    c1 = c1
    c2 = c2
    pickup = pickup
    Calls = {c1, c2}
    Nobody = Nobody
    Modes = {"service", "admin", "static"}
    MaxRevocations = 2
    MaxFaults = 1
    Lists = {pickup}
    Pages <- MCPages
    MaxPages <- MCMaxPages
    Recent = {c1, c2}
    EnrichLimit = 2
INVARIANTS
    RetriesWithAnotherToken
    SurvivesOneRevocation
PROPERTIES
    HandedOutTokensAdvance
    EveryReadEnds
