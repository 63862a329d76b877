SPECIFICATION WindowSpec
CONSTANTS
    Settings = {1, 2}
    Requests = {{1}, {1, 2}}
    MaxTx = 3
    FrontEnds = {tray}
    Boosters = {tray}
    Fixers = {}
    Bridges = {}
    Reverters = {tray}
    Selectors = {}
    Refusals = TRUE
    Crashes = FALSE
    None = None
    Outsiders = {}
    MaxTransactions = 2
    Options <- MCOptions
    Adapters <- MCAdapters
    Tunnels = {"vpn"}
    TypedMtus = {1500, 1400, 9000}
    MaxEvents = 3
    Probes = 3
    MaxRoutes = 2
    MaxLaunches = 1
    Duration = 2
    Pings <- MCPings
    Losses = {0, 2, 4}
    Thresholds <- MCThresholds
    Servers = 2
    Latencies = {1, 2}
    MaxBenchmarks = 2
    MaxProbings = 3
    Resolvers = {r1, r2}
    LifeTime = 2
    MaxTime = 5
    Places = 4
    Tabs <- MCTabs
    Optimizations = 3
    Articles <- MCArticles
    Queries = {"", "loss"}
    Reports <- MCReports
    MaxArticles = 2
    Sessions <- MCSessions
    PingAnswers <- MCAnswers
    MaxPoints = 2
    MaxLog = 2
    MaxCards = 2
    HistorySize = 3
    LastOnes = 3
    MaxViewEvents = 4
    Lines <- MCLines
    Dashed <- MCDashed
    Numbers = {"5"}
    Installed = {"cs"}
    Profiled = {"cs"}
    MaxGames = 2
INVARIANTS
    ButtonWorks
    WindowTypeOK
PROPERTIES
    ChangesAreShown
    MeasuredIsShown
    WorkEnds
CHECK_DEADLOCK FALSE
