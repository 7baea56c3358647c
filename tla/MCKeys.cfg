SPECIFICATION MCSpec
CONSTANTS
    Parts = {"passphrase", "filter", "who", "memo", "maps", "derive", "box", "share", "login"}
    None = None
    k1 = k1 k2 = k2 k3 = k3 root = root
    Keys = {k1, k2, k3} Root = root MaxPairs = 4 MaxDate = 2 MaxRegistrations = 2 PairHash <- SameHash
    Seeds = {k1, k2, k3} Indices = {1, 2, 3} HardFrom = 2 Texts <- MemoTexts
    SkipSize = 120 Buffer = 512 MaxDepth = 2 MaxKeys = 4 MaxIndex = 4 Thrown = Thrown
    Threads = {t1, t2} Objects = {o1, o2} Logins = {l1, l2} NoLogin = NoLogin
    ServerKeys = {"good"} MaxCalls = 2
INVARIANTS PhraseExact AcceptedIffValid ChildExact ReadByPartner KeyIsOfLogin
PROPERTY AcceptedStays
CHECK_DEADLOCK FALSE
