SPECIFICATION Spec
CONSTANTS
    N = 2
    off = off
    on = on
    other = other
    Torn = Torn
    NoRecord = NoRecord
    Values <- MCValues
    EngineValue <- MCEngineValue
    Requests <- StockRequests
    WriteFaults <- NoWriteFaults
    SaveFaults = {}
    Volatile = {}
    ForeignWriters = {}
    Crashes = TRUE
INVARIANTS
    RefusedMeansNothingLeft
