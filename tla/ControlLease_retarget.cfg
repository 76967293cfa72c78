\* Two arms of two transactions: retargets, aborts, late and repeated arms.
SPECIFICATION LeaseSpec
CONSTANTS
  SelfUseBlocks = {s1}
  ForcedBlocks = {f1}
  OtherBlocks = {}
  OddBlocks = {}
  NoBlock = NoBlock
  Clear = Clear
  Junk = Junk
  Poll = Poll
  None = None
  Sessions = {1}
  Txs = {1, 2}
  MaxGen = 2
  MaxSeq = 0
  Nonces = {n1, n2, n3, n4}
  TTL = 2
  MaxHard = 2
  ArmNonceAge = 0
  RenewNonceAge = 1
  Fresh = 0
  RenewEvery = 0
  MaxNet = 1
  MaxMishaps = 0
SYMMETRY Perms
INVARIANTS ClientWithinFirmware WithinPolicy
CHECK_DEADLOCK FALSE
