SPECIFICATION Spec
CONSTANTS
    None = None
    Loop = Loop
    s1 = s1
    r1 = r1 r2 = r2
    Stations = {s1}
    Requests = {r1, r2}
    MaxChannels = 3
    MaxFaults = 1
    Workload = {"station", "direct", "hangup", "caller"}
SYMMETRY Symmetry
INVARIANT StagedTypeOK
INVARIANT StagedInv
INVARIANT OneLegPerStation
INVARIANT RowOutlivesItsLeg
INVARIANT IncomingCallIsOneRow
CHECK_DEADLOCK FALSE
