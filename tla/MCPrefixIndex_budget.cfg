SPECIFICATION FairSpec
CONSTANTS
  Tenant = {"probe", "t1", "t2"}
  Model = {"m1"}
  HashScheme = {"s1"}
  Adapter = {""}
  PrefixHash = {"", "h1", "h2"}
  Replica = {"r1"}
  NoScheme = ""
  NoAdapter = ""
  EmptyHash = ""
  ReservedTenants = {"probe"}
  MaxEntries = 2
  DefaultTTL = 1
  KeyRank <- MCKeyRank
  ReplicaRank <- Rank
  Policies <- BudgetPolicies
  Updates <- BudgetUpdates
  Events <- BudgetEvents
  Worker = {"ingester", "sweeper"}
  Sweeper = "sweeper"
  NoWorker = "none"
  NoRequest = NoRequest
  MaxClock = 2
  MaxCount = 1
INVARIANTS IndexConsistent CapHolds
PROPERTIES ReservedIngestHarmless RemovalJustified QuotaAtUnlock ExpiredIsSwept
