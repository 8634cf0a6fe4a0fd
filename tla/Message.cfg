SPECIFICATION MCSpec
CONSTANTS
    Objects = {m1, m2}
    Delivered <- MCDelivered
    Calls <- MCCalls
    Pieces = {"a", "b", "k", "l", "id", "to", "nul"}
    Int32Limit = 2
    Texts <- MCTexts
    MaxParts = 3
INVARIANT WrappedOnce
PROPERTY ActsAsValues
INVARIANT ReadsBackWhatWasSet
INVARIANT BodyIsWhatIsSent
SYMMETRY Symmetry
