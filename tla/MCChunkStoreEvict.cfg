SPECIFICATION Spec
CONSTANTS
    Chunks = {c1}
    Workers = {w1, w2}
    Stamps = {s1, s2}
    NoChunk = NoChunk
    Waiting = Waiting
    MaxEdits = 2
    MaxQueue = 1
    MaxFails = 0
    FinalPasses = 2
SYMMETRY Symmetry
INVARIANTS
    EvictedIsSaved
