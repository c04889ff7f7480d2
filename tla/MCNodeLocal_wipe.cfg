SPECIFICATION MCSpec
CONSTANTS
  Node = {n1}
  Engine = {e1, e2}
  NoNode = NoNode
  MaxRetryAttempts = 1
  MaxGPUWorkers = 1
  Retention = FALSE
  Kinds = {"nodelocal", "podlocal", "events"}
  MaxGen = 2
  MaxChanges = 3
  MaxFaults = 1
  MaxDisturbances = 6
  FaultKinds = {"delete"}
INVARIANTS NeverWiped
CHECK_DEADLOCK FALSE
