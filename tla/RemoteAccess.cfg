SPECIFICATION Spec
CONSTANTS
  a1 = a1
  a2 = a2
  n1 = n1
  n2 = n2
  n3 = n3
  None = None
  Admin = {a1, a2}
  Net = {n1, n2, n3}
  Slots = 2
  MaxDevices = 1
  MaxCodes = 2
  MaxChanges = 3
  MaxFailures = 1
  MaxRestarts = 2
SYMMETRY MCSymmetry
INVARIANTS TypeOK RevokedStaysOut PairedUntilRevoked OffMeansOff
PROPERTIES CodeWorksOnce
CHECK_DEADLOCK FALSE
