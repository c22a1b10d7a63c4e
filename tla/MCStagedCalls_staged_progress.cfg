SPECIFICATION FairSpec
CONSTANTS
    None = None
    Loop = Loop
    s1 = s1
    r1 = r1
    Stations = {s1}
    Requests = {r1}
    MaxChannels = 3
    MaxFaults = 1
    Workload = {"station", "other", "session"}
PROPERTY OwnRowIsClosed
 
PROPERTY SecondSessionGoes
PROPERTY RecordingFollowsStations
CHECK_DEADLOCK FALSE
