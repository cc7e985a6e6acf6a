\* The engine resets the player while the pump is inside its callback.
SPECIFICATION Spec
CONSTANTS
  MaxPlayers = 1
  RingSize = 4
  Width = 64
  Frames = 2
  One = 2
  Rate = 1
  Stereo = TRUE
  Sizes = {1, 3}
  Threshold = 2
  MaxCalls = 2
  MaxFrames = 9
  Junk = Junk
INVARIANTS
  ReadsOnlyWritten
