\* One fault, which may be that somebody else writes to a path of the
\* transaction, one stop, and a player who keeps starting the port.
SPECIFICATION FairSharedSpec
CONSTANTS
  N = 1
  Batch = {b1, b2}
  Tid = {t1, t2, t3}
  NoFile = NoFile
  NoRecord = NoRecord
  MaxRecipe = 1
  MaxFaults = 1
  MaxStops = 1
PROPERTIES
  CleanupRetries
  NothingLost
