SPECIFICATION FairSpec
CONSTANTS
  r1 = r1
  r2 = r2
  r3 = r3
  None = None
  Plain = {r1}
  Attach = {r2}
  Async = {r3}
  Ids = 2
  Capacity = 1
  Patience <- MCPatience
  MaxTime = 1
INVARIANTS TypeOK OwnReply
PROPERTIES HandedOver EveryCallReturns
CHECK_DEADLOCK FALSE
