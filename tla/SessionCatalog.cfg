SPECIFICATION FairSpec
CONSTANTS
  s1 = s1
  s2 = s2
  o1 = o1
  k1 = k1
  Session = {s1, s2}
  Creation = {o1}
  Closing = {k1}
  MaxFaults = 2
  MaxRestarts = 1
INVARIANTS TypeOK AnswersHold GoneForGood ShellsListed
PROPERTIES CatchesUp
CHECK_DEADLOCK FALSE
