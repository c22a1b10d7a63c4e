SPECIFICATION ServerSyncSpec
CONSTANTS
    None = None
    h1 = h1 h2 = h2
    l1 = l1
    r1 = r1 r2 = r2
    Requests = {r1, r2}
    Hosts = {h1, h2}
    Lines = {l1}
    Count = 3
    FileCount = 1
    Roles = {"PRIMARY", "STANDBY"}
    Registered <- RegisteredAtStart
    Handwritten <- HandwrittenAtStart
    MaxIncidents = 2
SYMMETRY Symmetry
INVARIANT ServerSyncTypeOK
INVARIANT StaticPartSurvives
INVARIANT SyncedIsLoaded
INVARIANT NoDeadlock
CHECK_DEADLOCK FALSE
INVARIANT LoadedInv
