SPECIFICATION Spec
CONSTANTS
    Modulus = 8
    MaxLinkCredit = 2
    Grants <- MCGrants
    InitialCounts <- MCInitialCounts
    MayRevoke = TRUE
    MaxCount = 9
    MaxChannel = 3
INVARIANT DrainQuiescent
