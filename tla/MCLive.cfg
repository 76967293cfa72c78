\* The end of every stop, and of every execution range: one restart or failed save of each.
SPECIFICATION LiveSpec
CONSTANTS
  SelfUse = {s1}
  Forced = {f1}
  OffGrid = og
  None = none
  Poll = poll
  Kinds = {"crash", "store"}
  MaxMishaps = 1
  MaxArms = 1
  MaxStops = 0
INVARIANT TypeOK
PROPERTIES StopSettles EndReported
CHECK_DEADLOCK FALSE
