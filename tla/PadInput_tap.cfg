SPECIFICATION Spec
CONSTANTS
  Pads = {p1}
  p1 = p1
  RawPads = {}
  Buttons = {A, BACK, START}
  A = A
  BACK = BACK
  START = START
  NoPad = NoPad
  MaxPads = 1
  HoldPolls = 2
  AnnounceAfter = 1
  MaxQueue = 1
INVARIANTS
  HeldIsReported
CHECK_DEADLOCK FALSE
