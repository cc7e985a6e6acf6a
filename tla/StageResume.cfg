\* Two hooks and two versions of the port; two changes of the card, the port or
\* the payload, and one run that is cut short.
SPECIFICATION FairSpec
CONSTANTS
  Abis <- MCAbis
  Rules <- MCRules
  Accepted = {}
  Covered = {"d1", "d2", "lib"}
  Fold <- MCFold
  Size <- MCSize
  Hooks <- MCHooks
  Card <- MCCard
  Later <- MCLater
  Good <- MCGood
  Dest = {"d1", "d2", "lib", "made"}
  Faulty = {"bad"}
  Stripped = Stripped
  NoPackage = NoPackage
  NoPlan = NoPlan
  Nothing = Nothing
  NoState = NoState
  NoPayload = NoPayload
  MaxRecipe = 2
  MaxSwaps = 2
  MaxStops = 1
INVARIANTS
  TypeOK
  CommittedIsFresh
  ChoiceIsCertain
PROPERTIES
  InstallsInOneStep
  GoodSourceInstalls
CHECK_DEADLOCK FALSE
