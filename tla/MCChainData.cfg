SPECIFICATION DataSpec
CONSTANTS
  b1 = b1
  b2 = b2
  f2 = f2
  x1 = x1
  x2 = x2
  x3 = x3
  x4 = x4
  alice = alice
  bob = bob
  vault = vault
  pool = pool
  nft = nft
  multi = multi
  NoAddr = NoAddr
  ZeroAddr = ZeroAddr
  NoBlock = NoBlock
  Tx <- EvmTx
  Body <- EvmBody
  Parent <- EvmParent
  MinSize = 1
  MaxBytes = 3
  UintRange = 1000
  Keep = 2
  MaxRetries = 1
  MaxShift = 1
  Watched = {b2}
  MaxFaults = 2
  Spt = {7, 123456}
  SYSX = 123456
  Holders = {"alice", "bob"}
  SptBlocks <- AssetBlocks
  SptMaxChain = 3
  SptRestarts = 1
  SptReaders = {"r1"}
  SptVisits = 1
  TxsModulus = 16
INVARIANTS  NoInternalDataLost AssetsRight
PROPERTIES Healed
CHECK_DEADLOCK FALSE
