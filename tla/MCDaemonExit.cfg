CONSTANTS
  Jobs = {j1, j2}
  MaxRuns = 3
  MaxStarts = 1
SPECIFICATION DSpec
INVARIANT ExitsIdle
