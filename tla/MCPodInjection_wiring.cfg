CONSTANTS
    b1 = b1
    b2 = b2
    w1 = w1
    Backend = {b1, b2}
    Writer = {w1, w2}
    PodName = {p1, p2}
    Specs <- MCSpecs
    LegacySpecs <- MCLegacy
    Templates <- MCTemplates
    SubscriberImage = TRUE
    MaxWrites = 3
    MaxFaults = 1
    MaxRestarts = 1
SPECIFICATION MCSpec
CHECK_DEADLOCK FALSE
INVARIANTS WiringSound ReadmissionStable
PROPERTIES AdmissionSound EventsFollow
