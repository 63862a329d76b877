SPECIFICATION FairSpec
CONSTANTS
    N = 2
    off = off
    on = on
    other = other
    Torn = Torn
    NoRecord = NoRecord
    Values <- MCValues
    EngineValue <- MCEngineValue
    Requests <- StockRequests
    WriteFaults <- AllWriteFaults
    SaveFaults = {"kept"}
    Volatile = {1}
    ForeignWriters = {1, 2}
    Crashes = TRUE
INVARIANTS
    TypeOK
    BackupIsPristine
    CleanRollbackRestores
    OfferedJournalIsTrue
    OfferedRollbackAccepted
PROPERTIES
    ForeignValueSurvives
    OperationsEnd
