SPECIFICATION Spec
CONSTANTS
    Modulus = 8
    MaxLinkCredit = 2
    Grants <- MCGrants
    InitialCounts <- MCInitialCounts
    MayRevoke = TRUE
    MaxCount = 10
    MaxChannel = 3
INVARIANT TypeOK
INVARIANT NeverBeyondGrant
INVARIANT AgreeAtRest
PROPERTY DrainCompletes
