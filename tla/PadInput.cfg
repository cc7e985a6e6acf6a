\* One pad with three buttons and two events in the queue; or two pads for one
\* slot with two raw devices and one event.
SPECIFICATION Spec
CONSTANTS
  Pads = {p1, p2}
  p1 = p1
  p2 = p2
  RawPads = {r1, r2}
  r1 = r1
  r2 = r2
  Buttons = {A, BACK, START}
  A = A
  BACK = BACK
  START = START
  Single = p1
  Plain = A
  NoPad = NoPad
  MaxPads = 1
  HoldPolls = 2
  AnnounceAfter = 1
  MaxQueue = 2
CONSTRAINT SoloOrDuo
INVARIANTS
  PressIsSeen
  NothingStuck
  HeldChordQuits
  ConnectedIsAnnounced
PROPERTIES
  RawChordIsHeld
CHECK_DEADLOCK FALSE
