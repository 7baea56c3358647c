SPECIFICATION MCSpec
CONSTANTS
    auf = auf u1 = u1 a1 = a1 u2 = u2 a2 = a2 s1 = s1 d1 = d1
    Keys <- AllKeys
    Threads = {t1, t2}
    Txs <- PairTxs
    MaxCleared = 0
    Parts = {"store"}
    Communities = {c1, c2} Callers = {1, 2} MaxChains = 5
    Users = {m1, m2}
    Names = {x, y}
    Addresses = {b1, b2, b3, b4}
    Buckets <- TwoBuckets MaxCount = 0 Sizes = {0, 2, 3, 5} Contents = {content}
    content = content Zero = Zero Junk = Junk nullptr = nullptr
INVARIANT AddedIsFound
CHECK_DEADLOCK FALSE
