SPECIFICATION ChangingSpec
CONSTANTS
    N = 3
    off = off
    on = on
    other = other
    Torn = Torn
    NoRecord = NoRecord
    Values <- MCValues
    EngineValue <- MCEngineValue
    Requests <- StockRequests
    WriteFaults <- NoWriteFaults
    SaveFaults = {}
    Volatile = {1}
    ForeignWriters = {1, 2}
    Crashes = FALSE
    Machines <- MCMachines
    Addresses = {s1, s2, u1, u2, u3}
    EngineServers <- MCServers
    Fallback = s1
    s1 = s1
    s2 = s2
    u1 = u1
    u2 = u2
    u3 = u3
    Trees <- MCTrees
    Exact = 100000
    Tweaks <- MCTweaks
    Categories <- MCCategories
    PresetKeys = {mode, blur}
    OtherKeys = {preferred}
    KeyEnds <- MCKeyEnds
    MaxTuningClicks = 3
    MaxLines = 5
    mode = mode
    blur = blur
    preferred = preferred
    Games = {cs, dota}
    Editor = page
    ReaderCopies = {worker}
    Importer = console
    FileEntries <- MCFileEntries
    MaxSaves = 2
    MaxGameChanges = 3
    Shipped <- MCShipped
    Releases <- MCReleases
    Chunks = 2
    Meanings <- MCMeanings
    Characters <- MCCharacters
    HexGroups <- MCHexGroups
    Intruders <- MCIntruders
    MaxDepth = 2
    Lengths = {0, 1, 55, 56, 63, 64, 65, 119, 120, 130}
    Pieces = {1, 9, 64, 100}
    MaxClicks = 1
    Names = {"app", "chat"}
    Commands = {"a", "%c%", "long"}
    Expanding = {"%c%"}
    Long = {"long"}
    OwnId = 1
    Ids = {1, 2, 3}
    Memories = {5, 20, 40}
    Enough = 10
    Top = 2
    MaxChanges = 1
    ProfileFixes <- MCProfileFixes
    CardFixes = {"dns", "dns_tcp"}
    MaxFixes = 2
    MaxTurnabouts = 1
INVARIANTS
    OffersAreComplete
    ChangingTypeOK
    TextIsReadBack
PROPERTIES
    UserValuesAreKept
    RollbackIsExact
    UpdatesAreVerified
    ProfilesAreTheUsers
    WhatIsSaidIsDone
    PendingEnds
CHECK_DEADLOCK FALSE
