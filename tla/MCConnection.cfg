SPECIFICATION Spec
CONSTANTS
    t1 = t1
    t2 = t2
    r1 = r1
    Threads = {t1, t2}
    Readers = {r1}
    Writer = Writer
    NoThread = NoThread
    Sizes = {1, 2}
    MaxQueuedBytes = 3
    MaxFrames = 4
SYMMETRY Symmetry
INVARIANTS
    DescriptorOutlivesUsers
    FramesAccounted
    WireOrder
