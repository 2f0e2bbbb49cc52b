CONSTANTS
  Items = 3
  Workers = 2
  Programs <- MCPrograms
SPECIFICATION Spec
INVARIANT TypeOK
INVARIANT NobodyFails
INVARIANT InOrder
INVARIANT AllDelivered
INVARIANT ResultsExact
PROPERTY EverybodyReturns
CHECK_DEADLOCK FALSE
