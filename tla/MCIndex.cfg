SPECIFICATION MCSpec
CONSTANTS
    Parts = {"index", "search", "limit", "months"}
    k1 = k1 k2 = k2 k3 = k3 k4 = k4 k5 = k5
    account = account gmw = gmw auf = auf
    anchor1 = anchor1 anchor2 = anchor2 own = own foreign = foreign noKey = noKey
    Keys <- AllKeys
    Types <- AllTypes
    Coins = {own, foreign}
    OwnCoin = own
    Contents <- AllContents
    DaysPerMonth = 31
    ResizeStep = 4
    Filters <- AllFilters
    MaxDate = 464
    MaxLen = 5
    LastMonth = 6
    FirstDay <- NovemberToMay
    UnitsPerDay = 8
    Distance = 2
    AverageMonth = 243
    MaxDelay = 1
    Delays <- CreationDelays
    Ahead = 0
    Limit = 2
    Amounts = {1, 2}
    Root <- RootTx
    Registration <- RegistrationTx
    Creation <- CreationTx
    Recipient = account
    Founded <- FoundedAt
    Times <- CreationTimes
    Targets = {2, 3}
    Received <- ReceivedAt
    HoursPerDay = 2
    Anchors = {anchor1, anchor2}
    NoKey = noKey
    AccountOf <- AllAccounts
    Searches <- AllSearches
    Moments <- SearchMoments
SYMMETRY AnchorSymmetry
INVARIANTS
    LookupsExact
    SearchesExact
    AtMostTwiceTheLimit
    CountedTwoMonthsOn
CHECK_DEADLOCK FALSE
