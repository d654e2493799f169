SPECIFICATION Spec
CONSTANTS
  Lib = Lib
  Lib2 = Lib2
  Contract = {Lib, Lib2}
  NoCode = NoCode
  Call <- MCCall
  Uint8Max = 2
  Subroutine <- MCSubroutine
  MailId = {1, 2}
  Authorization = Authorization
  Eoa = Eoa
  User = {u}
  Zero = Zero
  Label = {l}
  Permission <- MCPermission
  Registry = {1}
  Route = {"sp1"}
  Block = {1, 2}
  MaxExecutionId = 2
  Holder = {u1, u2}
  StrategistAccount = f
  PlatformAccount = f
  BasisPoints = 4
  OneShare = 2
  SecondsPerYear = 2
  StartingRate = 2
  VaultRate = {1, 2, 4}
  VaultConfig <- MCConfigs
  FirstConfig <- MCFirst
  Amount = {3}
  Netting = {0, 3}
  MaxLoss = {1}
  WithdrawFee = {1}
  MaxAssets = 6
  MaxUpdates = 2
  MaxTimestamp = 3
  Ruler = {"o", "s"}
  FirstRuler = "o"
  DomainInfos <- MCDomainInfos
  AuthInfos <- MCAuthInfos
  Batches <- MCBatches
  EncoderOf <- MCEncoderOf
  Speaks <- MCSpeaks
  MaxRulings = 3
  MaxDelivered = 1
INVARIANTS
  AnsweredOnceTruthfully OnlyTheAdmittedRuns BooksMatchRequests ProcessorsGetWhatWasAuthorized
PROPERTIES SettledWithinItsTerms SharesArePaidFor
CHECK_DEADLOCK FALSE
