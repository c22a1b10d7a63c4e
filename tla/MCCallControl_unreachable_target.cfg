SPECIFICATION Spec
CONSTANTS
    None = None
    Handler = Handler
    ctl1 = ctl1
    s1 = s1 s2 = s2
    h1 = h1 h2 = h2 h3 = h3
    r1 = r1
    Calls = {1}
    Controllers = {ctl1}
    Stations = {s1, s2}
    Channels = {h1, h2, h3}
    Requests = {r1}
    Workload = {"call_stations"}
    Faults = {"refused"}
    ExpiredRows = TRUE
    ControllerOf <- OneController
SYMMETRY Symmetry
PROPERTY EveryTargetIsAttempted
CHECK_DEADLOCK FALSE
