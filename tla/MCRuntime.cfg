CONSTANTS
  Jobs = {j1, j2}
  MaxRuns = 2
  MaxStarts = 2
SPECIFICATION Spec
INVARIANT TypeOK
INVARIANT NoOverlap
INVARIANT RunsCapped
PROPERTY StoppedOnlyDrains
PROPERTY JobsKeepFiring
