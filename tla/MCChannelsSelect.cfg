CONSTANTS
  Items = 2
  Workers = 1
  Programs = {"select"}
SPECIFICATION Spec
INVARIANT NothingLost
CHECK_DEADLOCK FALSE
