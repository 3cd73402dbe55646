CONSTANTS
    p1 = p1
    p2 = p2
    s1 = s1
    Users = {u1}
    System = sys
    Prompts = {p1, p2}
    Schedules = {s1}
    Contexts <- RunContexts
    None = None
    Ids = {c1, c2}
    Attempts = {a1, a2, a3}
    MaxFaults = 1
    Clients = {k1}
    Creates <- TwoKinds
    Updates <- NoUpdates
    ClientRPCs = {"DeleteCron"}
    DefaultIdentity = sys
    OptionIdentity = u1
    AgentOmitsContext = FALSE
SPECIFICATION SystemSpec
INVARIANTS
    OneShotNotLost
    OneShotOnce
    SettlingInv
    FiringInv
    SeedingInv
PROPERTIES
    SeedsFirst
    ImplementsContract
SYMMETRY Symmetry
CHECK_DEADLOCK FALSE
