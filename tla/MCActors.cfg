CONSTANTS
  Programs <- MCPrograms
  Players = {"ming", "gang"}
  Rounds = 1
  Casts = 3
  MaxAttempts = 5
  GoodAttempt = 3
  MailboxCapacity = 2
SPECIFICATION Spec
INVARIANT AnswersRight
INVARIANT SameOrder
INVARIANT MembersAlive
INVARIANT SessionsInRoom
PROPERTY EverybodyEnds
CHECK_DEADLOCK FALSE
