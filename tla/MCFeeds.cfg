SPECIFICATION FeedsSpec
CONSTANTS
  t1 = t1 t2 = t2 t3 = t3 w1 = w1 w2 = w2 f1 = f1 f2 = f2
  NoHeader = NoHeader
  Header <- Headers
  Tx <- PoolTx
  Addr = {"a", "b"}
  Outputs <- PoolOutputs
  Inputs <- PoolInputs
  TxWorker = {w1, w2}
  BatchWorker = {f1, f2}
  BatchSizes = {1, 2}
  MaxChanges = 2
  MaxErrors = 2
  Busy = FALSE
  TipQueue = 1
  TipChanges = 1
  TipDeliveries = 1
  TipErrors = 1
  TipFaults = 1
INVARIANTS  Drained NoLostWakeup
PROPERTIES ListedStays FeedsSettle
CHECK_DEADLOCK TRUE
