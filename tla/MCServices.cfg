\* Pushes, execution ranges, initial values, the package file, dynamic plans, the
\* write barrier and the plan of RCEm, each alone: at most two edits by the user and one or two mishaps.
SPECIFICATION ServicesSpec
CONSTANTS
  None = None
  MaxRanges = 3
  StartOnly = {2, 3}
  MaxStarts = 1
  Window = 2
  MaxMishaps = 2
  Absent = Absent
  Policies = {"rce", "rcm"}
  Owners <- FirstOfOne
  MaxTx = 2
  MaxQueued = 1
  Continuity = 1
  MaxLag = 1
  MaxSetbacks = 0
  Missing = Missing
  Entries = {e1, e2}
  Chosen = {}
  Unset = Unset
  Fallback = Fallback
  Default = Default
  MaxEdits = 1
  MaxFaults = 1
  Releases = {r0, r1}
  Legacy = {r0}
  UserTexts = {u1, u2}
  NoFile = NoFile
  MaxFileEdits = 2
  MaxAccidents = 1
  Nothing = Nothing
  Operators = {o1}
  Options = {c1, c2}
  MaxPrices = 2
  MaxActs = 2
  MaxFailures = 1
  Top = 6
  MaxQueue = 1
  MaxEvents = 2
  MaxTrouble = 1
INVARIANTS AtMostOnePush WithinBudget AllDecided EndsAreTrue UserTextKept RefusalUndone
INVARIANTS UntouchedIsManaged PairInForce ProfileSaved EmergencyIsSeen
PROPERTIES EditsKept CopyIsMeant DecidedOnce GivenUpOnEvidence EmergencyIsPresent
CONSTRAINT PlanMeetsTwo
SYMMETRY Symmetry
CHECK_DEADLOCK FALSE
