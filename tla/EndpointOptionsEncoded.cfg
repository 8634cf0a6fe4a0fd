SPECIFICATION MCSpec
CONSTANTS
    Inputs <- MCInputs
    DepthLimit = 2
    MaxSigned = 3
    Leaves <- MCLeaves
    Keys <- MCKeys
    Siblings <- MCSiblings
    Commands <- MCCommands
INVARIANT EndpointCredentialsDecodedOnce
CHECK_DEADLOCK FALSE
