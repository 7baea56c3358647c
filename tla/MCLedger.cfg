SPECIFICATION MCSpec
CONSTANTS
    u1 = u1
    u2 = u2
    a1 = a1
    a2 = a2
    d1 = d1
    d2 = d2
    gmw = gmw
    auf = auf
    Users <- MCUsers
    Accounts <- MCAccounts
    DeferredKeys <- MCDeferredKeys
    GmwKey = gmw
    AufKey = auf
    Calls <- MCCalls
    Scenarios = {"deferred", "payments", "imports"}
    MaxDelay = 1
    MinTimeout = 1
    MaxTimeout = 2
    Tolerance = 2
    MinCreation = 2
    MaxCreation = 6
    FirstDeferredNr = 3
    Scale = 4
    Keep <- MCKeep
    MaxTime = 4
    MaxLen = 8
INVARIANTS
    TypeOK
    ChainOrdered
    NoOverdueEvent
    EventsAreOpen
    DeferredNotLost
    CheckedPaidOutOnce
    CalculatedConservation
PROPERTY NestedCallReturns
CHECK_DEADLOCK FALSE
