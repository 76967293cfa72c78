\* A MASTER STOP while a refused restore waits for its next reading.
SPECIFICATION FairSpec
CONSTANTS
  SelfUse = {s1}
  Forced = {f1}
  OffGrid = og
  None = none
  Poll = poll
  Kinds = {}
  MaxMishaps = 0
  MaxArms = 1
  MaxStops = 1
PROPERTY MasterStopActs
CHECK_DEADLOCK FALSE
