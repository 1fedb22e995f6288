SPECIFICATION FairSpec
CONSTANTS
  Command = {1, 2}
  Limit = 1
  Remembered = 1
  Kept = 1
  MaxConnections = 2
  Forking = {1}
  MaxLosses = 1
  MaxStops = 1
INVARIANTS TypeOK AnswersAreTrue
PROPERTIES CancelHolds EndTogether
CHECK_DEADLOCK FALSE
