CONSTANTS
  Dummy = dummy
  Entry = {e1, e2}
  MaxIndex = 5
  MaxPack = 2
SPECIFICATION Spec
INVARIANT Contiguous
PROPERTY ImplementsLogStore
