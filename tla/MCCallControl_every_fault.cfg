SPECIFICATION Spec
CONSTANTS
    None = None
    Handler = Handler
    ctl1 = ctl1 ctl2 = ctl2
    s1 = s1
    h1 = h1 h2 = h2
    r1 = r1 r2 = r2
    Calls = {1}
    Controllers = {ctl1, ctl2}
    Stations = {s1}
    Channels = {h1, h2}
    Requests = {r1, r2}
    Workload = {"call_station", "call_stations", "conference_lookup", "connect", "mute", "disconnect", "dial_in", "ring"}
    Faults = {"refused", "timeout", "lost_event", "restart", "early_answer", "two_lines"}
    ExpiredRows = TRUE
    ControllerOf <- OneController
SYMMETRY Symmetry
INVARIANT IInv
INVARIANT ReverseMapComplete
INVARIANT BridgeCacheIsSound
CHECK_DEADLOCK FALSE
INVARIANT BridgedInv
INVARIANT BridgesHoldOwnChannels
