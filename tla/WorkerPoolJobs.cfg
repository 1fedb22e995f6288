SPECIFICATION FairSpec
CONSTANTS
  t1 = t1
  t2 = t2
  j1 = j1
  j2 = j2
  j3 = j3
  j4 = j4
  Thread = {t1, t2}
  Job = {j1, j2, j3, j4}
  Capacity = 2
INVARIANTS TypeOK NoLostWakeup RunsInOrder
PROPERTIES EveryJobEnds
CHECK_DEADLOCK FALSE
