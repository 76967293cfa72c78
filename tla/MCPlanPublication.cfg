\* The plans of either sensor: two changes of inputs, one error, one batch that waits.
\* The plan of RCEm: one event, one failure, one task that waits.
\* The end of every lease: two generations, one forced block, one Self-Use block
\* in range and one out of it, two nonces, one mishap.
SPECIFICATION FairSpec
CONSTANTS
  Whole = {"on", "off"}
  MaxTurns = 1
  MaxChanges = 2
  MaxErrors = 1
  MaxQueue = 1
  MaxEvents = 1
  MaxTrouble = 1
  SelfUseBlocks = {s1, s2}
  ForcedBlocks = {f1}
  OtherBlocks = {}
  OddBlocks = {s2}
  NoBlock = NoBlock
  Clear = Clear
  Junk = Junk
  Poll = Poll
  Sessions = {h1}
  Txs = {t1}
  MaxGen = 2
  MaxSeq = 1
  Nonces = {n1, n2}
  TTL = 1
  MaxHard = 2
  ArmNonceAge = 0
  RenewNonceAge = 1
  Fresh = 0
  MaxMishaps = 1
INVARIANTS CurrentIsFresh NotLeftWaiting
PROPERTIES PublishedOnOneSnapshot PlansComeBack LeaseEnds
CHECK_DEADLOCK FALSE
