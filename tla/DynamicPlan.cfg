\* One selection with one failed save, request or restart, under fairness.
SPECIFICATION FairSpec
CONSTANTS
  Nothing = Nothing
  Operators = {o1}
  Options = {c1}
  MaxPrices = 1
  MaxActs = 1
  MaxFailures = 1
PROPERTY SelectorsFollow
CHECK_DEADLOCK FALSE
