\* A MASTER STOP at any point of one arm, with a Home Assistant restart or a
\* failed save.
SPECIFICATION Spec
CONSTANTS
  SelfUse = {s1}
  Forced = {f1, f2}
  OffGrid = og
  None = none
  Poll = poll
  Kinds = {"crash", "store"}
  MaxMishaps = 1
  MaxArms = 1
  MaxStops = 1
SYMMETRY Symmetry
INVARIANTS RestoresBounded
PROPERTIES TransactionSpec
CHECK_DEADLOCK FALSE
