SPECIFICATION MCSpec
CONSTANTS
  PolicyCR <- MCPolicies
  TenantCR <- MCTenants
  PolicySpec <- MCPolicySpec
  Client = {"c1", "c2"}
  ProbeTenantID = "probe"
  NoKey = ""
  NoValue = NoValue
  NameBefore <- MCNameBefore
  MaxChanges = 2
  MaxFaults = 1
  MaxRestarts = 1
PROPERTIES AwaitedPushOrdered PushConverges AdmissionSound
