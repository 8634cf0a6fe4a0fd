SPECIFICATION MCSpec
CONSTANTS
    Inputs <- MCInputs
    DepthLimit = 2
    MaxSigned = 3
    Leaves <- MCLeaves
    Keys <- MCKeys
    Siblings <- MCSiblings
    Commands <- MCCommands
INVARIANT CopiesExactlyUtf8
INVARIANT RejectsExactly
INVARIANT KeepsNumbers
INVARIANT ShownMeansSettable
INVARIANT OptionsAsWritten
CHECK_DEADLOCK FALSE
