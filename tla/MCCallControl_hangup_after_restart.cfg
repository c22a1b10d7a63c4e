SPECIFICATION Spec
CONSTANTS
    None = None
    Handler = Handler
    ctl1 = ctl1
    s1 = s1
    h1 = h1 h2 = h2
    r1 = r1
    Calls = {1}
    Controllers = {ctl1}
    Stations = {s1}
    Channels = {h1, h2}
    Requests = {r1}
    Workload = {"call_station"}
    Faults = {"restart"}
    ExpiredRows = TRUE
    ControllerOf <- OneController
SYMMETRY Symmetry
PROPERTY ControllerIsDropped
CHECK_DEADLOCK FALSE
