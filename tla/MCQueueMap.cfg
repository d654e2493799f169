SPECIFICATION MCSpec
CONSTANTS
  Elem = {a, b}
  U64Max = 7
  Byte = {0, 1}
  Bytes <- MCBytes
  WordSize = 2
  MaxIndex = 4
  MaxWords = 2
  DecimalOne = 3
  Account = {"a", "b"}
  Outside = {"c"}
  Denom = {"x", "y"}
  Person = {"owner", "heir"}
  Caller = {"processor", "other"}
  Kind = {"forwarder", "splitter", "reverse_splitter"}
  Configs <- MCConfigs
  Funding <- MCFunding
  Ratios = {0, 1, 4}
  MaxAdmin = 2
  MaxNow = 2
  MaxCalls = 2
  MaxDeposits = 1
  MaxAmount = 1
  Founder = "owner"
  FirstCaller = "processor"
  Transferrer = {"generic", "neutron", "ica"}
  Coins = {"untrn", "atom"}
  Ntrn = "untrn"
  MinFee <- MCMinFee
  Leads <- MCLeads
  HopAddress = {"relay"}
  FirstRoute <- MCRoute
  RouteUpdates <- MCRouteUpdates
  MaxHeld = 3
  MaxTransfers = 1
  Query = {"pool1", "bank1"}
  TypeOf <- MCTypeOf
  Pinned <- MCPinned
  Version = {"25", "26"}
  Registry = {"osmo26"}
  Knows <- MCKnows
  OtherBroker <- MCBrokers
  QueryFee = {1, 2}
  Store = {"s1", "s2"}
  FirstStore = "s1"
  MaxIcq = 2
  MaxCoffer = 1
  MaxHeight = 1
  Party = {"in", "mid"}
  PoolAsset = {"x", "y"}
  PoolOrder <- MCOrder
  LpToken = "lp"
  Market = {"gamm", "xyk", "stable"}
  FirstPool <- MCPool
  FirstWallet <- MCWallet
  ProviderConfigs <- MCProviders
  RemoverConfigs <- MCRemovers
  PriceRanges <- MCPrices
  Limits <- MCLimits
  MaxServed = 3
  MaxMoves = 2
  ClParty = {"in", "mid"}
  ClAssets = {"x", "y"}
  Spacing = 2
  Int64Max = 9
  Ticks <- MCTicks
  CustomRanges <- MCRanges
  BucketCounts = {0, 1, 2}
  ClConfigs <- MCClConfigs
  PullConfigs <- MCPullConfigs
  FirstFunds <- MCFunds
  MaxPositions = 2
  MaxClMoves = 1
  Borrower = {"in", "mid"}
  LendDenom = {"x", "y"}
  LendConfigs <- MCLendConfigs
  Sums = {1, 2}
  FirstCash <- MCCash
  MaxDebt = 1
  MaxCreditAccounts = 3
  MaxAccruals = 1
INVARIANTS
  PositionsAsConfigured CreditInOnePlace
  ForwardingRateLimited CoinsLandWhereConfigured AnswersAreExpected
PROPERTIES
  CallsKeepTheirTerms ImplementsFifo EvmQueueImplementsFifo SplitsLoseOnlyDust OnlyTheAdmittedSpend
CHECK_DEADLOCK FALSE
