CONSTANTS
  Pools = {p}
  PoolSpecs <- Variants
  Published = {"z1", "z2"}
  Versions = {"v1", "v2"}
  MaxChanges = 3
  MaxFaults = 1
  NoClass = NoClass
  Accounts <- SomeAccounts
  Offers <- SomeOffers
  ActiveZoneSets <- SomeZones
  StorageConfigs <- SomeStorage
  MaxInputs = 2
  MaxBreaks = 1
  Unset = Unset
  Templates <- Written
  Minors = {30, 31, 32}
  EtcdConfigs <- SomeEtcd
  InvalidNames = {"Bad"}
  MaxWrites = 3
  MaxUpgrades = 2
  NotSet = NotSet
  Requests = {r1, r2}
  Lifetimes = {2}
  Leeway = 0
  JWTLife = 4
  Timeout = 3
  MaxTime = 5
  MaxExchangeFaults = 1
  None = None
  NumTasks = 3
SPECIFICATION ControlSpec
INVARIANTS NoTwin ReconciledIsLoaded CSICanAuthenticate PluginMatchesVersion ReapplyChangesNothing NodeFollowsCNI SentIsValid EveryResultOnce
PROPERTIES ClassKeepsPlace UsedImageStays Settles RunReturns
CHECK_DEADLOCK FALSE
