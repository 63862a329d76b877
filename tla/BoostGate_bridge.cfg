SPECIFICATION Spec
CONSTANTS
    Settings = {1, 2}
    Requests = {{1}, {1, 2}}
    MaxTx = 2
    FrontEnds = {center, autopilot}
    Boosters = {}
    Fixers = {center}
    Bridges = {autopilot}
    Reverters = {}
    Selectors = {}
    Refusals = FALSE
    Crashes = FALSE
    None = None
PROPERTY SnapshotIsSettled
