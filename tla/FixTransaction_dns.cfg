SPECIFICATION Spec
CONSTANTS
    N = 2
    off = off
    on = on
    other = other
    Torn = Torn
    NoRecord = NoRecord
    Values <- MCValues
    EngineValue <- MCEngineValue
    Requests <- CustomRequests
    WriteFaults <- NoWriteFaults
    SaveFaults = {}
    Volatile = {}
    ForeignWriters = {}
    Crashes = FALSE
INVARIANTS
    OfferedRollbackAccepted
