\* Two commit paths, two versions of the port, two mishaps: operations that fail,
\* kills and power cuts; one live path that is not intact.
SPECIFICATION Spec
CONSTANTS
  N = 2
  Batch = {b1, b2}
  Tid = {t1, t2}
  NoFile = NoFile
  NoRecord = NoRecord
  MaxRecipe = 2
  MaxFaults = 2
  MaxStops = 2
CONSTRAINTS
  TwoMishaps
  OneDamaged
SYMMETRY Symmetry
INVARIANTS
  AInv
  OldPayloadKept
  NeverRefused
  SuccessIsDurable
PROPERTIES
  InstallIsAtomic
