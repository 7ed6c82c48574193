SPECIFICATION FairSpec
CONSTANTS
    t1 = t1
    t2 = t2
    r1 = r1
    Threads = {t1, t2}
    Readers = {r1}
    Writer = Writer
    NoThread = NoThread
    Sizes = {1}
    MaxQueuedBytes = 2
    MaxFrames = 3
PROPERTIES
    ImplementsChannel
    TxReleased
    AcceptedFrameSettles
