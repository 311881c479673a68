SPECIFICATION CoinSpec
CONSTANTS
  g0 = g0  a1 = a1  a2 = a2  a3 = a3  b2 = b2  b3 = b3
  NoHash = NoHash
  Block <- TreeBlock
  Parent <- TreeParent
  Chains <- TreeChains
  MaxHeight = 3
  EthType = FALSE
  BlockFrom = 0
  Keep = 2
  Workers = 1
  SyncChunk = 1
  MinParallelGap = 2
  FallBehindGap = 1
  ChanCap = 1
  Threshold = 1
  HasNext = TRUE
  AllowShorter = TRUE
  MaxChanges = 2
  MaxFaults = 1
  MaxCrashes = 1
INVARIANTS RoundLinked NoHoles UndoFromTop
PROPERTIES OnlyForkedDisconnected Converges
