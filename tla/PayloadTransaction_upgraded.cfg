\* A cleanup fails and the port is upgraded before the next run.
SPECIFICATION FairSpec
CONSTANTS
  N = 1
  Batch = {b1, b2}
  Tid = {t1, t2, t3}
  NoFile = NoFile
  NoRecord = NoRecord
  MaxRecipe = 2
  MaxFaults = 1
  MaxStops = 0
PROPERTIES
  CleanupRetries
