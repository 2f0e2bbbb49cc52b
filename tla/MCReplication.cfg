CONSTANTS
  Dummy = dummy
  HalfRange = 2
  kMaxSnapshots = 2
  Op = {"ADD", "GET"}
  Delta = {1}
  SnapshotDistance = 1
  ReservedLogItems = 1
  Batch = 2
  MaxIndex = 3
  MaxRestarts = 1
SPECIFICATION Spec
INVARIANT ValueIsExact
INVARIANT SnapshotsExact
INVARIANT CommitsRealEntries
INVARIANT CanServeFollower
PROPERTY CommitOnlyGrows
PROPERTY FollowerCatchesUp
CHECK_DEADLOCK FALSE
