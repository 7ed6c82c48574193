SPECIFICATION PersistenceSpec
CONSTANTS
    Chunks = {c1}
    Workers = {w1, w2}
    Stamps = {s1, s2}
    NoChunk = NoChunk
    Waiting = Waiting
    MaxEdits = 2
    MaxQueue = 1
    MaxFails = 1
    FinalPasses = 2
    RegionChunks = {r1, r2, r3}
    NoData = NoData
    MaxSector = 8
    MaxCount = 2
    MaxStores = 2
    MaxSaves = 4
    MaxRots = 2
    Sessions = {"s1", "s2"}
    Txt = {"ann"}
    Online = TRUE
    Secure = FALSE
    Zips = TRUE
    PackForced = TRUE
    Whitelisted = FALSE
    MaxPlayers = 1
    MaxOrders = 2
    MaxBoots = 1
    Logins = {1, 2}
    Period = 2
    Often = 2
SYMMETRY Symmetry
CHECK_DEADLOCK FALSE
INVARIANTS
    UnracedKeepsEdits
    StoppedIsSaved
    FilesSound
    DoorKept
    EarningsKept
