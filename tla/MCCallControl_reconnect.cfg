SPECIFICATION Spec
CONSTANTS
    None = None
    Handler = Handler
    ctl1 = ctl1
    s1 = s1
    h1 = h1 h2 = h2 h3 = h3 h4 = h4
    r1 = r1 r2 = r2 r3 = r3
    Calls = {1, 2}
    Controllers = {ctl1}
    Stations = {s1}
    Channels = {h1, h2, h3, h4}
    Requests = {r1, r2, r3}
    Workload = {"call_stations", "conference_lookup", "connect", "disconnect"}
    Faults = {"restart"}
    ExpiredRows = FALSE
    ControllerOf <- OneController
SYMMETRY Symmetry
INVARIANT PointersAreUnique
CHECK_DEADLOCK FALSE
