SPECIFICATION Spec
INVARIANT NeverUnwindsThroughLibrary
