CONSTANTS
  Server = {s1, s2, s3}
  Nobody = nobody
  MaxTerm = 2
  MaxLog = 2
SPECIFICATION Spec
SYMMETRY Symmetry
CHECK_DEADLOCK FALSE
INVARIANT ElectionSafety
INVARIANT CommittedAgree
INVARIANT NeverStaleWithLogs
