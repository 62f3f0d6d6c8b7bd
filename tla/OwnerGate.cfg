SPECIFICATION Spec
CONSTANTS
  MaxRuns = 2
  MaxAge = 2
  MaxNow = 3
  MaxLocks = 2
  MaxFaults = 2
  MaxChecks = 1
  MaxTroubles = 2
CONSTRAINT Bounded
INVARIANTS
  RepairRests
  LockStops
  GatedOnce
PROPERTIES
  OffersAreTaken
