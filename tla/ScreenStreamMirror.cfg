SPECIFICATION FairSpec
CONSTANTS
  c1 = c1
  c2 = c2
  Channel = {c2}
  Follows = {c2}
  MaxRows = 2
  Blank = blank
  NoRow = norow
  Nobody = nobody
  Unknown = unknown
  Cell = {blank, text}
  MaxChanges = 3
  MaxAsks = 2
PROPERTIES ImplementsMirror Converges
CHECK_DEADLOCK FALSE
