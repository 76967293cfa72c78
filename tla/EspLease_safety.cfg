\* Safety of the firmware lease: two transactions, two command generations,
\* two forced blocks, one Self-Use block and one of another mode and out of range, two
\* mishaps.
SPECIFICATION Spec
CONSTANTS
  SelfUseBlocks = {s1}
  ForcedBlocks = {f1, f2}
  OtherBlocks = {o1}
  OddBlocks = {o1}
  NoBlock = NoBlock
  Clear = Clear
  Junk = Junk
  Poll = Poll
  Sessions = {h1}
  Txs = {t1, t2}
  MaxGen = 2
  MaxSeq = 1
  Nonces = {n1, n2, n3}
  TTL = 1
  MaxHard = 2
  ArmNonceAge = 1
  RenewNonceAge = 1
  Fresh = 0
  MaxMishaps = 2
SYMMETRY Perms
INVARIANTS TypeOK RecoverableForce BarrierCovers ProofOfLastTransaction
PROPERTY WindowSpec
CHECK_DEADLOCK FALSE
