SPECIFICATION Spec
CONSTANTS
    Settings = {1, 2}
    Requests = {{1}, {1, 2}}
    MaxTx = 1
    FrontEnds = {tray, center}
    Boosters = {tray}
    Fixers = {}
    Bridges = {}
    Reverters = {center}
    Selectors = {}
    Refusals = FALSE
    Crashes = FALSE
    None = None
INVARIANT MarkerTellsTruth
