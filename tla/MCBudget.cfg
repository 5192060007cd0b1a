CONSTANTS
  Runs = {r1, r2, r3}
  MaxCalls = 5
  MaxTokens = 3
  MaxUse = 2
SYMMETRY RunSymmetry
SPECIFICATION Spec
INVARIANT CallsCapped
INVARIANT OvershootBounded
INVARIANT RefusedForOwnUse
