\* Deployment on four networks, one run of which may be killed anywhere;
\* the bounds on commands and kills leave nothing to do in the end.
SPECIFICATION Spec
CONSTANTS
  Networks <- LiveNetworks
  StrayFile = FALSE
  MaxCrashes = 1
  MaxAfter = 1
INVARIANTS
  TypeOK
  NothingThrows
  RecordedIsComplete
  PoolOpensAtItsPrice
  SuppliesPaidOnce
  MarketsConfigured
PROPERTIES
  RerunChangesNothing
  ImplementsRollout
  Completes
CHECK_DEADLOCK FALSE
