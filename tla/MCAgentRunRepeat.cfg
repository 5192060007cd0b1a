CONSTANTS
  Runs = {r1, r2}
  Sessions = {s1}
  Signatures = {x, d}
  Delegations = {d}
  Undefined = Undefined
  Agents <- MCAgents
  MaxSpawnDepth = 1
  MaxSteps = 3
  SystemPrompt = TRUE
SPECIFICATION Spec
INVARIANT RequestsAnswerEveryCall
