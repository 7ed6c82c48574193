SPECIFICATION CommandsSpec
CONSTANTS
    Lowest = a
    Threads = {t1, t2}
    Listeners = {a, b, c}
    Priority <- MCPriority
    MayReset <- MCAnyReset
    MaxDepth = 4
    Players = {"p1", "p2"}
    Objectives = {"o1", "o2"}
    TeamNames = {"t1", "t2"}
    BarIds = {"bar", "boss"}
    Bosses = {"boss"}
    MaxScore = 1
    MaxOrders = 4
    None = None
    Console = "console"
    Dims = {"over", "nether"}
    Ids = {"f", "g", "h"}
    MaxRecursion = 3
    MaxTime = 2
    MaxEntered = 2
    Addrs = {a1, a2}
    Host = host
    Sessions = {session}
    Mods = {mod}
    MaxThings = 2
    MaxHandles = 2
    MaxAsked = 4
    NoThing = NoThing
SYMMETRY Symmetry
CHECK_DEADLOCK FALSE
INVARIANTS
    NoLostDrainWakeup
    ClientsAgree
PROPERTIES
    NothingAfterRelease
    RunsAsWritten
