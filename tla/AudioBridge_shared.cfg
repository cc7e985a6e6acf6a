\* One player, a ring that wraps, and calls of the engine at any moment.
SPECIFICATION FairSpec
CONSTANTS
  MaxPlayers = 1
  RingSize = 2
  Width = 6
  Frames = 2
  One = 2
  Rate = 1
  Stereo = TRUE
  Sizes = {1, 2}
  Threshold = 1
  MaxCalls = 1
  MaxFrames = 4
  Junk = Junk
INVARIANTS
  InOrder
  MixesPlaying
PROPERTIES
  EndCutsNothing
  EndIsHeard
