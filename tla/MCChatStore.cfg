CONSTANTS
  User = {ann, bob}
  Workers = {w1, w2}
  MaxRequests = 3
  Faults = TRUE
SYMMETRY Symmetry
SPECIFICATION Spec
INVARIANTS TypeOK FriendshipWhole UnreadBacked OneWinner
PROPERTIES AnswersAreTrue
CHECK_DEADLOCK FALSE
