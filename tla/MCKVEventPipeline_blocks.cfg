SPECIFICATION MCSpec
CONSTANTS
  Block = {"b1", "b2", "a1", "u1"}
  Root = "none"
  Parent <- MCParent
  Token <- MCToken
  PathOf <- MCPathOf
  Adapter = {"", "sql"}
  Base = ""
  Unmapped = "unmapped"
  LoRA <- MCLoRA
  MaxPend = 2
  TTL = 1
  MaxStream = 1
  MaxFaults = 1
  MaxLosses = 1
INVARIANTS ReverseMapExact HintsBacked HintsCurrent
PROPERTIES PipelineRecovers
