SPECIFICATION Spec
CONSTANTS
  a1 = a1
  a2 = a2
  p1 = p1
  p2 = p2
  None = None
  App = {a1, a2}
  Pane = {p1, p2}
  Slots <- TwoPanes
  Fresh <- OneTerminal
  Remote = {a2}
  Frail = {a1}
  MaxLosses = 1
  MaxFailures = 1
  MaxCloses = 1
INVARIANTS TypeOK NothingForgotten
PROPERTIES CloseSparesShown
CHECK_DEADLOCK FALSE
