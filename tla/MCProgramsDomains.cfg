SPECIFICATION Spec
CONSTANTS
  MaxId = 2
  Run = {"r1", "r2"}
  Wallet = "wallet"
  Main = "neutron"
  Assignment <- MCAssignment
  MaxRetry = 1
  Change = {"r1", "r2"}
  Request <- MCRequest
  Target = 1
  BasisPoints = 4
  OneShare = 2
  WRate = {2, 3}
  FirstRate = 3
  WConfig <- MCWConfigs
  FirstWConfig <- MCFirstWConfig
  WAmount = {3}
  MaxCollected = 6
  MaxRequests = 2
  MaxClock = 3
  Denom = {"a", "b"}
  FirstDenom = "a"
  NewBalance = {0}
  MaxSettlementAccounts = 2
  Receiver = {"neutron1a", "bad"}
  ValidAddress = {"neutron1a"}
  Remote = {"a1", "a2"}
  Library = {"l"}
  Admin = {"o", "p"}
  FirstAdmin = "o"
  RegisterFee = 1
  PacketFee = 1
  MaxPurse = 2
  MaxChannels = 3
  MaxPackets = 3
INVARIANT MessagesAreAccepted
CHECK_DEADLOCK FALSE
