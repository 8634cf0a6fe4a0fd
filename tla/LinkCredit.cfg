SPECIFICATION Spec
CONSTANTS
    Modulus = 8
    MaxLinkCredit = 2
    Grants <- MCGrants
    InitialCounts <- MCInitialCounts
    MayRevoke = FALSE
    MaxCount = 11
    MaxChannel = 4
INVARIANT CreditCoversPeer
INVARIANT DrainQuiescent
INVARIANT AutomaticNeverStarves
PROPERTY KeepsAccount
