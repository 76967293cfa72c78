\* A retarget that is aborted between its challenge and its request.
SPECIFICATION LeaseSpec
CONSTANTS
  SelfUseBlocks = {s1}
  ForcedBlocks = {f1}
  OtherBlocks = {}
  OddBlocks = {}
  NoBlock = NoBlock
  Clear = Clear
  Junk = Junk
  Poll = Poll
  None = None
  Sessions = {1}
  Txs = {1}
  MaxGen = 2
  MaxSeq = 1
  Nonces = {n1, n2, n3, n4}
  TTL = 2
  MaxHard = 2
  ArmNonceAge = 1
  RenewNonceAge = 1
  Fresh = 0
  RenewEvery = 0
  MaxNet = 1
  MaxMishaps = 0
SYMMETRY Perms
PROPERTY PredecessorSurvivesAbort
CHECK_DEADLOCK FALSE
