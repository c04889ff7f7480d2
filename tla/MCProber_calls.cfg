SPECIFICATION MCSpec
CONSTANTS
  Tenant = {"probe", "t1"}
  Model = {"m1", "m2"}
  HashScheme = {"s1", "s2"}
  Adapter = {"", "a1"}
  PrefixHash = {"", "h1", "h2", "h3"}
  Replica = {"p1", "r1", "r2"}
  NoScheme = ""
  NoAdapter = ""
  EmptyHash = ""
  ReservedTenants = {"probe"}
  MaxEntries = 3
  DefaultTTL = 1
  KeyRank <- MCKeyRank
  ReplicaRank <- Rank
  Policies <- PlainPolicies
  Updates <- MCUpdates
  Events <- MCEvents
  Worker = {"ingester", "sweeper", "w1", "w2"}
  Sweeper = "sweeper"
  NoWorker = "none"
  NoRequest = NoRequest
  MaxClock = 3
  MaxCount = 0
  Probers = {"w1", "w2"}
  Requests <- MCRequests
  ProbeTenantID = "probe"
  ProbeReplicaID <- MCProbeReplicaID
  ProbeHash <- MCProbeHash
  T2 = TRUE
  Token = {"k1", "k2"}
  NoToken = "missing"
  CacheMax = 1
  CacheTTL = 2
INVARIANTS GaugeAtRest NoResidue
PROPERTIES NoFalseAlarm CachedAdmission ProbesAnswered
