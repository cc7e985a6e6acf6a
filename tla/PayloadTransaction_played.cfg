\* A cleanup fails, the game is played, the port is started again.
SPECIFICATION PlayedSpec
CONSTANTS
  N = 1
  Batch = {b1, b2}
  Tid = {t1, t2, t3}
  NoFile = NoFile
  NoRecord = NoRecord
  MaxRecipe = 1
  MaxFaults = 1
  MaxStops = 0
PROPERTIES
  PublishedStaysLive
