CONSTANTS
    p1 = p1
    p2 = p2
    s1 = s1
    Users = {u1}
    System = sys
    Prompts = {p1, p2}
    Schedules = {s1}
    Contexts <- RunContexts
    None = None
    Ids = {c1}
    Attempts = {a1, a2}
    MaxFaults = 2
    Clients = {k1, k2}
    Creates <- AllCreates
    Updates <- OwnerUpdate
    ClientRPCs = {"DeleteCron", "RunCron"}
    DefaultIdentity = sys
    OptionIdentity = None
    AgentOmitsContext = FALSE
SPECIFICATION SystemSpec
INVARIANTS
    HandlerTypeOK
    ArchivedWasDelivered
    ContextIsOwn
    ContextIsSeeded
    EarlyTaskSurvives
    OrphanNeedsFault
    Synchronized
    ExecutionInv
PROPERTIES
    StaleNeedsOverlap
SYMMETRY Symmetry
CHECK_DEADLOCK FALSE
