CONSTANTS
    u1 = u1
    u2 = u2
    p1 = p1
    p2 = p2
    s1 = s1
    s2 = s2
    Users = {u1, u2}
    System = sys
    Prompts = {p1, p2}
    Schedules = {s1, s2}
    Contexts <- NoContexts
    None = None
    Ids = {c1}
    Attempts = {a1}
    MaxFaults = 2
    Clients = {k1, k2}
    Creates <- AllCreates
    Updates <- TextUpdates
    ClientRPCs = {"DeleteCron", "RunCron"}
    Requests <- AllRequests
    RemoteErrors = {"Unavailable", "NotFound", "PermissionDenied"}
    CORS = TRUE
SPECIFICATION GatewaySpec
INVARIANTS
    TypeOK
    ServiceInv
    OrphanNeedsFault
    Synchronized
    TimingInv
    GatewayTypeOK
    RefusedChangedNothing
    OrphansAreReported
    CreatedStands
    DeletedIsFinal
    GatewayInv
PROPERTIES
    DeleteLeavesNothing
    NoResurrection
    AuthorizedWrites
SYMMETRY Symmetry
CHECK_DEADLOCK FALSE
