SPECIFICATION Spec
CONSTANTS
  c1 = c1
  c2 = c2
  Channel <- MCChannel
  Follows <- MCFollows
  MaxRows = 2
  Blank = blank
  NoRow = norow
  Nobody = nobody
  Unknown = unknown
  Cell = {blank, text}
  MaxChanges = 2
  MaxAsks = 1
CONSTRAINTS MCAccepted MCOneStays
INVARIANTS TypeOK FlowControl AttachedFirst NothingMissing
CHECK_DEADLOCK FALSE
