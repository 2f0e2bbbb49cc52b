CONSTANTS
  Node = {n1, n2}
  Self = n1
  Config = {joined, shrunk}
  Alone = alone
  None = none
  Absent = absent
  Empty = empty
  Torn = torn
  MaxTerm = 2
SPECIFICATION FilesSpec
INVARIANT VoteOnce
INVARIANT CrashAtomic
INVARIANT ConfigRemembered
