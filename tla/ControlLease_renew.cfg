\* One arm with its renewals, or with one restart or failure of either end:
\* requests delayed, lost, repeated, answered late.
SPECIFICATION LeaseSpec
CONSTANTS
  SelfUseBlocks = {s1}
  ForcedBlocks = {f1}
  OtherBlocks = {}
  OddBlocks = {}
  NoBlock = NoBlock
  Clear = Clear
  Junk = Junk
  Poll = Poll
  None = None
  Sessions = {1, 2}
  Txs = {1}
  MaxGen = 1
  MaxSeq = 1
  Nonces = {n1, n2, n3, n4}
  TTL = 2
  MaxHard = 2
  ArmNonceAge = 1
  RenewNonceAge = 1
  Fresh = 0
  RenewEvery = 0
  MaxNet = 1
  MaxMishaps = 1
SYMMETRY Perms
INVARIANTS ClientWithinFirmware WithinPolicy
CONSTRAINT RenewalOrMishap
CHECK_DEADLOCK FALSE
