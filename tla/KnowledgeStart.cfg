\* The api and the bot start, fail and are redeployed while operators post entries.
SPECIFICATION FairSpec
CONSTANTS
    api = api
    bot = bot
    e1 = e1
    e2 = e2
    old = old
    new = new
    Processes = {api, bot}
    Servers = {api}
    Releases = {old, new}
    Migrations <- MCMigrations
    Seeds <- MCSeeds
    Entries = {e1, e2}
    MaxFaults = 1
    MaxExits = 1
INVARIANTS
    ServesOnWhatItNeeds
    AcknowledgedEntriesAreStored
    CollidesOnlyWithSeeding
PROPERTIES
    StartsSucceed
