SPECIFICATION MCSpec
CONSTANTS
  Backend <- TwoBackends
  Pod <- Pods
  Reporter <- Reporters
  Label = {l}
  Model = {"m"}
  Hash = {"h"}
  TenantCR <- Tenants
  None = None
  Reports <- SomeReports
  ReservedTenants = {"probe"}
  RateUnit = 2
  NoKey = ""
  NoValue = NoValue
  NameBefore <- MCNameBefore
  MaxChanges = 2
  MaxFaults = 1
  MaxStale = 1
INVARIANTS ProjectionsAgree
PROPERTIES NumbersNeedEvidence ProjectionsConverge
