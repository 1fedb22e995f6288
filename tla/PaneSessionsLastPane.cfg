SPECIFICATION Spec
CONSTANTS
  a1 = a1
  a2 = a2
  p1 = p1
  p2 = p2
  None = None
  App = {a1, a2}
  Pane = {p1, p2}
  Slots <- ThreePanes
  Fresh <- OneTerminal
  Remote = {a2}
  Frail = {a1}
  MaxLosses = 0
  MaxFailures = 0
  MaxCloses = 1
INVARIANTS LastPaneEndsIt
CHECK_DEADLOCK FALSE
