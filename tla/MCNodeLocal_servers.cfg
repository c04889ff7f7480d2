SPECIFICATION MCSpec
CONSTANTS
  Node = {n1}
  Engine = {e1, e2}
  NoNode = NoNode
  MaxRetryAttempts = 1
  MaxGPUWorkers = 1
  Retention = TRUE
  Kinds = {"nodelocal", "podlocal", "events"}
  MaxGen = 2
  MaxChanges = 2
  MaxFaults = 2
  MaxDisturbances = 4
  FaultKinds = {"api", "delete", "cleanup", "lag"}
CHECK_DEADLOCK FALSE
INVARIANTS CleanupSafe
PROPERTIES GoneMeansGone NodesSettle
