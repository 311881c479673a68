SPECIFICATION BackendSpec
CONSTANTS
    AbiMaxInt = 100
    Again = 1
    Arguments <- SampleArguments
    Asks <- SampleAsks
    BackendTxs <- SampleBackendTxs
    BatchSize = 2
    CallFaults = 3
    CallLists <- SampleCallLists
    Callers <- SampleCallers
    ChainTypes = {"bitcoin", "ethereum"}
    Chains <- SampleChains
    ContractData <- SampleData
    FactsEnd = 10
    FailureRetry = 1
    FeeCallers = {c1, c2}
    FeeFresh = 2
    FeeRetry = 1
    FeeStaleDefault = 5
    FeeStaleSet = 3
    FetchTakes = 1
    FilterBlocks <- SampleFilterBlocks
    FilterScripts = {"", "taproot", "taproot-noordinals"}
    IdentityTtl = 2
    IgnoredContracts = {3}
    InputRequests = {q1}
    LogLists <- SampleLogLists
    MaxClock = 3
    MaxEvents = 5
    MaxFailing = 3
    MaxHeight = 2
    MaxNodeHeight = 2
    Payloads <- SamplePayloads
    ProbeFailures = 2
    ReadEvery = 1
    ResultLists <- SampleResultLists
    RewardRows <- FeeHistories
    SignatureLists <- SampleSignatureLists
    StaleAfter = 1
    SyncGrace = 1
    SyncedGap = 1
    TaprootDescs = {"t1", "t2", "t3"}
  AddrLen = 2
  Branches = {"a", "b"}
  CachedMax = 1
  VaultContracts = {"v", "w"}
  Creations <- SampleCreations
  FirstChain <- SampleFirstChain
  MaxNodeHeight = 2
  MaxName = 4
  MaxWords = 31
  Plans <- VaultPlans
  ProbeTTL = 1
  TxidLen = 3
  Upgrades <- SampleUpgrades
  VaultRequests = {"r1", "r2"}
  WordBytes = 8
CHECK_DEADLOCK FALSE
  
PROPERTIES RowsExact 
