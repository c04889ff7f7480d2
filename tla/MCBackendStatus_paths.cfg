SPECIFICATION PathSpec
CONSTANTS
    Specs <- AllSpecs
    Annotations <- BypassAnnotations
    Firsts <- PathFirsts
    Kernels = {"inactive"}
    Planes = {"ok", "failed", "unreachable", "off"}
    RateLimit = 1
    MaxAge = 2
CONSTRAINT Paths
INVARIANTS GateKeepsItsWord ManagedVerdictEarned
PROPERTIES ProbeFailureSticky
