SPECIFICATION WindowsSpec
CONSTANTS
    Machines <- MCMachines
    Addresses = {s1, s2, u1, u2, u3}
    EngineServers <- MCServers
    Fallback = s1
    s1 = s1
    s2 = s2
    u1 = u1
    u2 = u2
    u3 = u3
INVARIANT RollbackOfNewKeyWorks
CHECK_DEADLOCK FALSE
