SPECIFICATION StopSpec
CONSTANTS
    w1 = w1
    w2 = w2
    Workers = {w1, w2}
    SessionLimit = 1
    StatusLimit = 1
    Fds = {1, 2}
    Runtimes = {"r1", "r2"}
    Tick = "tick"
    Sessions = {"session"}
    Mods = {"mod"}
    MaxStarts = 2
    MaxFrames = 4
    NoRuntime = "none"
CHECK_DEADLOCK FALSE
INVARIANTS
    NoThreadOutlivesStop
    AdmissionsAndCalls
PROPERTIES
    StopsReturn
