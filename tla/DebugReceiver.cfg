SPECIFICATION Spec
CONSTANTS
    Counts <- MCCounts
    MaxMessages = 5
INVARIANT StatusTellsOutcome
PROPERTY AlwaysExits
