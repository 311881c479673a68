SPECIFICATION PendingSpec
CONSTANTS
  Tx <- PoolTx
  Addr <- PoolAddr
  From <- PoolFrom
  To <- PoolTo
  LogAddr <- PoolLogAddr
  Nonce <- PoolNonce
  Deployments <- PoolDeployments
  TimeoutAge = 1
  MaxSends = 1
INVARIANTS MempoolExact 
PROPERTIES PendingListed PendingLeaves
CHECK_DEADLOCK FALSE
