SPECIFICATION Spec
CONSTANTS
    Batches <- MCBatches
    MaxDeliveries = 3
INVARIANT TypeOK
INVARIANT HandlesOutliveUse
INVARIANT ShutdownNeverReentersPhp
INVARIANT CreditFollowsSettlement
INVARIANT BatchComplete
INVARIANT CloseIsClean
INVARIANT FailureSurfaces
INVARIANT CallbackErrorWins
INVARIANT CloseTakesEffect
PROPERTY UsesAccount
PROPERTY KeepsDeliveryContract
PROPERTY ShutdownEnds
PROPERTY CloseLeadsToClosed
