CONSTANTS
  a = a
  b = b
  Endpoint = {a, b, d}
  Given <- GivenAB
  Dead = {d}
  kMaxRounds = 3
  Ops = 2
SPECIFICATION Spec
INVARIANT BenchReport
PROPERTY Returns
CHECK_DEADLOCK FALSE
