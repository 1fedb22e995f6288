SPECIFICATION FairSpec
CONSTANTS
  c1 = c1
  c2 = c2
  Channel = {c1, c2}
  MaxResizes <- MCResizes
  Capacity = 2
INVARIANTS TypeOK ExactlyOneReply BothSidesAgree SessionEndIsFinal
PROPERTIES EveryRequestAnswered
CHECK_DEADLOCK FALSE
