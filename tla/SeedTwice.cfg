CONSTANTS
    p1 = p1
    p2 = p2
    s1 = s1
    Users = {}
    System = sys
    Prompts = {p1, p2}
    Schedules = {s1}
    Contexts <- RunContexts
    None = None
    Ids = {c1}
    Attempts = {a1, a2}
    MaxFaults = 0
    Clients = {k1}
    Creates <- OnlyRecurring
    Updates <- NoUpdates
    ClientRPCs = {}
    DefaultIdentity = sys
    OptionIdentity = None
    AgentOmitsContext = FALSE
SPECIFICATION SystemSpec
INVARIANTS
    SeededOnce
SYMMETRY Symmetry
CHECK_DEADLOCK FALSE
