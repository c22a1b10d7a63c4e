SPECIFICATION Spec
CONSTANTS
    None = None
    Handler = Handler
    ctl1 = ctl1
    s1 = s1 s2 = s2
    h1 = h1 h2 = h2 h3 = h3 h4 = h4
    r1 = r1 r2 = r2
    Calls = {1}
    Controllers = {ctl1}
    Stations = {s1, s2}
    Channels = {h1, h2, h3, h4}
    Requests = {r1, r2}
    Workload = {"call_stations", "connect", "disconnect", "mute"}
    Faults = {}
    ExpiredRows = TRUE
    ControllerOf <- OneController
SYMMETRY Symmetry
INVARIANT TalkingStationIsOpen
CHECK_DEADLOCK FALSE
