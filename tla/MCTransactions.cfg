SPECIFICATION MCSpec
CONSTANTS
    Parts = {"chains", "builder", "forms", "wire", "codec"}
    A = A B = B anna = anna bert = bert bea = bea
    None = None Alias = Alias ZeroAlias = ZeroAlias
    CommunityIdIndices = {1, 2} Signers = {anna, bert} MaxSessions = 3
    Communities <- TwoCommunities
    Keys <- MCKeys
    Orders <- There
    Funded <- TwoFunded
    Joining <- BeaJoins
    Dates = {0, 1, 2}
    MaxDelay = 1
    Funds = 5
    Tolerance = 1
    MaxLen = 4
INVARIANTS
    InboundHasOutbound  Conservation
    BuiltAsSet FormsAgree RoundTrip CodedWhole
PROPERTIES EveryOutboundCredited
CHECK_DEADLOCK FALSE
