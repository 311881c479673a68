SPECIFICATION StorageSpec
CONSTANTS
  Parts = {"bulk"}
  Lower = 1 Higher = 4 Workers = 2
  MaxFaults = 1 MaxReorgs = 1 MaxSignals = 1
  c1 = c1 c2 = c2 c3 = c3 c4 = c4 s1 = s1 s2 = s2 s3 = s3 s4 = s4
  alice = alice bob = bob NoTx = NoTx NoAddr = NoAddr
  DbVersion = 7 RefreshRows = 2 MaxStarts = 4
  AddrOutputs <- Outputs
  FirstDbs <- Databases
  MaxDamagedTips = 1
  RoundsAfterError = TRUE
  Time = {1, 2, 3}
  Loader = {l1, l2}
  Window = 2
  LateReorg = FALSE
  MaxHeight = 4
  MaxConnects = 3
INVARIANTS OpenIsWhole
CHECK_DEADLOCK FALSE
