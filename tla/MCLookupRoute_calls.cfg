CONSTANTS
  Handler = {h1}
  Replica = {1, 2}
  NoHash = "-"
  NoKey = "-"
  ProbeTenantID = "probe"
  BlockSize = 2
  PressureUnit = 2
  PowerUnit = 2
  FloorUnit = 10
  SLOTightBias = 1
  TenantHotMinHitRate = 1
  TenantHotMaxAge = 2
  MaxConcurrentTokenize = 1
  DefaultMinimumMatchedTokens = 3
  DefaultRoutingFloorScore = 1
  DefaultTTL = 2
  MaxEvents = 2
  MaxCalls = 2
  Updates <- MCUpdates
  Payloads <- MCPayloads
  Requests <- MCRequests
  Bodies <- MCBodies
  Digest <- MCDigest
SPECIFICATION MCSpec
CHECK_DEADLOCK FALSE
INVARIANTS AnswerGrounded PolicyGates SlotsMatchEncodes
PROPERTIES ChainMatchRight ImplementsContract
