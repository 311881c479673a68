SPECIFICATION ProcessSpec
CONSTANTS
  k1 = k1  k2 = k2  adm1 = adm1  adm2 = adm2  usd = usd  eur = eur  tok = tok  tk2 = tk2
  Admin = {adm1, adm2}
  AttemptWindow = 1
  BreachBlockThreshold = 2
  BreachMinSpacing = 1
  BreachWindow = 3
  CleanupInterval = 1
  CloudflareNets = {"edge"}
  Conn = {k1, k2}
  CurrencyList <- Currencies
  Environments <- EnvChoices
  FiatPlans <- FiatScenarios
  GetAccountInfoLimit = 1
  HistoryDaysLimit = 3
  IpBlockDuration = 2
  LimiterTTL = 1
  MaxAttempts = 2
  MaxBootstrapAttempts = 3
  MaxConnections = 2
  MaxGapDays = 2
  MaxTrackedClients = 2
  MempoolFiltersResponses = 1
  MessageRateLimit = 3
  OutChannelSize = 3
  Posted = {"", "commas", "two"}
  RateBuckets = 2
  RestBlockDuration = 4
  RestBurst = 2
  RestCleanupInterval = 1
  RestMaxConcurrent = 1
  RestPlans <- RestScenarios
  RestRateLimit = 1
  RestRateWindow = 1
  RestStateTTL = 2
  RestWhitelist = {}
  RsFaults = 1
  Token = {tok, tk2}
  TokenBatch = 1
  TrustPseudoIPv6 = FALSE
  TrustedProxies = {}
  WsActiveRequests = 2
  WsPendingRequestsLimit = 2
  WsPlans <- WsScenarios
CHECK_DEADLOCK FALSE
INVARIANTS  ServerBooks SettingsDurable NoSilentHole
PROPERTIES Served  BlockHolds NothingHeldUp
