SPECIFICATION WatchingSpec
CONSTANTS
    Records = {prepared, applied}
    Readers = {historyPage, trayMenu}
    Scanned = TRUE
    Failing = TRUE
    Crashes = TRUE
    None = None
    Torn = Torn
    Callers = {gui, other}
    Uses <- MCUses
    MaxRuns = 3
    NoWorker = NoWorker
    gui = gui
    other = other
    Pids = {p1, p2}
    GameOf <- MCGameOf
    Profiled = {cs}
    MaxRecords = 2
    MaxDays = 1
    MaxProgramRuns = 2
    NoGame = NoGame
    p1 = p1
    p2 = p2
    cs = cs
    dota = dota
    Adapters = {lan}
    Gateways = {lan, wifi}
    MaxPathIds = 2
    MaxStarts = 2
    Threshold = 1
    MaxPaths = 4
    lan = lan
    wifi = wifi
    Values = {0, 2}
    MaxSnapshots = 1
    WindowSizes = {2, 3}
    LossHistory = 2
    MaxCalls = 2
    Pings = {1, 20, 21, 60, 100, 201}
    Jitters = {1, 5, 6, 20, 50, 101}
    Losses = {1, 2, 10, 50, 101}
    Latencies = {10, 13, 130}
    ManySamples = 4
    Window = 1
    MaxSamples = 5
    Estimates <- MCEstimates
    Neighbours <- MCNeighbours
INVARIANTS
    SavedStaysSaved
    WatchingTypeOK
    ThreadsAreOwned
    HistoryIsOfTheGames
    NumbersAreOfTheirWindow
PROPERTIES
    KeepsOrLoses
    PathsAreJudged
    GradesKeepTheOrder
    WaitsEnd
CHECK_DEADLOCK FALSE
