SPECIFICATION Spec
INVARIANT PublishedMeansAccepted
