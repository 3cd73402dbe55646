CONSTANTS
    p1 = p1
    p2 = p2
    s1 = s1
    Users = {u1}
    System = sys
    Prompts = {p1, p2}
    Schedules = {s1}
    Contexts <- RunContexts
    None = None
    Ids = {c1}
    Attempts = {a1, a2}
    MaxFaults = 1
    Clients = {k1, k2}
    Creates <- SomeCreates
    Updates <- NoUpdates
    ClientRPCs = {"DeleteCron"}
    DefaultIdentity = sys
    OptionIdentity = None
    AgentOmitsContext = TRUE
SPECIFICATION FairSpec
PROPERTIES
    TaskIsConsumed
    RecurringRuns
CHECK_DEADLOCK FALSE
