\* Two arms in a row or a retarget, and one mishap of any kind.
SPECIFICATION Spec
CONSTANTS
  SelfUse = {s1}
  Forced = {f1, f2}
  OffGrid = og
  None = none
  Poll = poll
  Kinds = {"crash", "store", "outside", "boot"}
  MaxMishaps = 1
  MaxArms = 2
  MaxStops = 0
SYMMETRY Symmetry
INVARIANTS ForceOwned ForceRecorded FallbackAgrees ExecutingAlone RestoresBounded
PROPERTIES TransactionSpec
CHECK_DEADLOCK FALSE
