CONSTANTS
    u1 = u1
    u2 = u2
    p1 = p1
    p2 = p2
    s1 = s1
    s2 = s2
    Users = {u1}
    System = sys
    Prompts = {p1, p2}
    Schedules = {s1, s2}
    Contexts <- NoContexts
    None = None
    Ids = {c1}
    Attempts = {a1}
    MaxFaults = 1
    Clients = {k1}
    Creates <- OnlyRecurring
    Updates <- NoUpdates
    ClientRPCs = {"DeleteCron"}
    Requests <- CreateDelete
    RemoteErrors = {"Unavailable", "NotFound", "PermissionDenied"}
    CORS = FALSE
SPECIFICATION RetrySpec
PROPERTIES
    RetriedDeleteSucceeds
CHECK_DEADLOCK FALSE
