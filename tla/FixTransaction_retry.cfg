SPECIFICATION Spec
CONSTANTS
    N = 2
    off = off
    on = on
    other = other
    Torn = Torn
    NoRecord = NoRecord
    Values <- MCValues
    EngineValue <- MCEngineValue
    Requests <- StockRequests
    WriteFaults <- Refusals
    SaveFaults = {}
    Volatile = {}
    ForeignWriters = {}
    Crashes = FALSE
INVARIANTS
    RevertedMeansRestored
