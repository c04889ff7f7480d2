SPECIFICATION LiveSpec
CONSTANTS
    Specs <- LiveSpecs
    Annotations = {}
    Firsts <- LiveFirsts
    Kernels = {"healthy", "failedStrict"}
    Planes = {"ok", "failed"}
    RateLimit = 1
    MaxAge = 1
PROPERTIES VerdictsRenewed
