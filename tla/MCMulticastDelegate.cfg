CONSTANTS
  Object = {o1, o2}
  NoObject = none
  MaxHandle = 3
  MaxDepth = 2
SPECIFICATION Spec
SYMMETRY Symmetry
INVARIANT QueriesAgree
INVARIANT NoDanglingCall
INVARIANT CalledInOrder
INVARIANT NobodyMissed
INVARIANT NobodyForgotten
