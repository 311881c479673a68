SPECIFICATION AnswersSpec
CONSTANTS
  Parts = {"views"}
  me = me  you = you  ad1 = ad1  ad2 = ad2  other = other  rd1 = rd1  rd2 = rd2  usd = usd  eur = eur  tok = tok
  Tx <- RaceTx
  Body <- RaceBody
  Genesis = "b1"
  MaxMoves = 3
  Flaky = TRUE
  Account = me
  Kinds = {"utxo", "address", "xpub"}
  MinimumCoinbaseConfirmations = 2
  TxsOnPage = 4
  CacheEnabled = TRUE
  Descriptor = {"x", "y"}
  XpubReader = {rd1, rd2}
  ChangeIndexes <- XpubChains
  XpubBody <- XpubBlocks
  Pays <- XpubPays
  XpubStart <- XpubFirst
  XpubFloor = 1
  XpubPlans <- XpubScenarios
  MaxAddressDerivations = 7
  MaxCacheEntries = 1
  MaxCacheBytes = 20
  MaxCacheExpiration = 0
  MaxXpubMoves = 2
  TxQuestions <- ViewedTxs
  TokenQuestions <- TokenAccounts
  LedgerQuestions <- Ledgers
  FeeQuestions <- FeeBlocks
  SecondsInDay = 8
  SecondsInHour = 4
  SecondsInFiveMinutes = 2
  HighGranularityVs = usd
  MaxFiatRatesTimestamps = 3
  FiatQueries <- FiatQuestions
CHECK_DEADLOCK FALSE
INVARIANTS FilteredHistoryKept
