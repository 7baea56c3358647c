SPECIFICATION MCSpec
CONSTANTS
    Parts = {"queue", "lock", "created", "accessed", "list", "node"}
    Threads = {t1, t2, t3}
    Values = {a, b}
    NoValue = NoValue
    NoThread = NoThread
    MaxCalls = 3
    t3 = t3
    Keys = {k1, k2} Adders = {c1, c2} Removable = {k1} mTimeout = 1 MaxTime = 4 MaxEntries = 4
    c1 = c1 c2 = c2
    Hashes = {1, 2, 3} Data = {data1, data2} Growth = 2 Sizes = {3} MaxMemory = 4 Nothing = NoValue
PROPERTIES FifoSpec QueueCallsReturn ExpiresInTime ListIsMap LoopEnds
CHECK_DEADLOCK FALSE
