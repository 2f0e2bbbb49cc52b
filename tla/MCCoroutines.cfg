CONSTANTS
  Task = {t1, t2, t3}
  None = none
  MaxSleep = 2
SPECIFICATION Spec
INVARIANT OnePlace
INVARIANT FramesOwned
INVARIANT RunDrains
PROPERTY InTurn
PROPERTY NobodyStarves
