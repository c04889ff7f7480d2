SPECIFICATION Spec
CONSTANTS
  NaN = NaN
  Rank = {1, 2}
  Config <- Configs
  Ceiling = 6
  RateUnit = 6
  Loads <- SomeLoads
  StaleThreshold = 2
  Faulty <- Garbled
  MaxServed = 2
  MaxChanges = 1
  MaxFaults = 2
INVARIANTS OutageAnnounced
PROPERTIES SampleIsTrue LoadSignalSettles
