SPECIFICATION ThreadsSpec
CONSTANTS
    Writers = {page, monitor, command}
    Processes = {program, console}
    ProcessOf <- MCProcessOf
    Contents = {old, new}
    Wrap = 2
    Attempts = 1
    Posix = TRUE
    MayDie = TRUE
    NoFile = NoFile
    Crashes = TRUE
    None = None
    Torn = Torn
    page = page
    monitor = monitor
    command = command
    program = program
    console = console
    old = old
    new = new
    Settings = {1, 2}
    Requests = {{1}, {1, 2}}
    MaxTx = 2
    FrontEnds = {tray, center, autopilot}
    Boosters = {tray}
    Fixers = {center}
    Bridges = {autopilot}
    Reverters = {tray}
    Selectors = {center}
    Refusals = TRUE
SYMMETRY MCSymmetry
INVARIANTS
    WritingTypeOK
    OwnTemporaries
    OriginalRecoverable
    ChecksHold
PROPERTIES
    KeepsPromise
    GuardedSnapshotIsSettled
