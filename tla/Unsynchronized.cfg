CONSTANTS
    u1 = u1
    u2 = u2
    p1 = p1
    p2 = p2
    s1 = s1
    s2 = s2
    Users = {u1}
    System = sys
    Prompts = {p1, p2}
    Schedules = {s1, s2}
    Contexts <- NoContexts
    None = None
    Ids = {c1}
    Attempts = {a1}
    MaxFaults = 0
    Clients = {k1}
    Creates <- OnlyRecurring
    Updates <- TimingUpdates
    ClientRPCs = {}
    Requests <- CreateUpdate
    RemoteErrors = {"Unavailable", "NotFound", "PermissionDenied"}
    CORS = FALSE
SPECIFICATION GatewaySpec
INVARIANTS
    Synchronized
CHECK_DEADLOCK FALSE
