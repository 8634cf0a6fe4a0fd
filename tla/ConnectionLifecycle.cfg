SPECIFICATION Spec
INVARIANT TypeOK
INVARIANT NothingOutlivesItsBase
INVARIANT ClosedOwnsNothing
INVARIANT LostOnlyByFailure
INVARIANT StaleErrorOnlyAfterSwallow
INVARIANT NoStaleException
