\* Two launchers, or a launcher and a run by hand; one mishap, one signal each.
SPECIFICATION FairSpec
CONSTANTS
  Run = {l1, l2, m}
  Launcher = {l1, l2}
  l1 = l1
  l2 = l2
  m = m
  NoRun = NoRun
  NoResult = NoResult
  NoExit = NoExit
  Off = Off
  Grace = 3
  Deadline = 2
  MaxSignals = 1
  MaxStarts = 2
  MaxMishaps = 1
INVARIANTS
  TornIsOwned
  SuccessIsTrue
  UiEndsWithRun
  OneInstallAtATime
  StartsOnGoodData
  OneOnScreen
  SignalIsPassedOn
  SaveIsNotCut
  StatusIsTheGames
CHECK_DEADLOCK FALSE
PROPERTIES
  EveryRunEnds
  RequestIsAnswered
