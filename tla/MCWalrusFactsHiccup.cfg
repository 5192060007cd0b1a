CONSTANTS
  Agents = {a1}
  Facts = {f1, f2, f3}
  MaxFacts = 2
  Missing = Missing
  NotJSON = NotJSON
  MaxLoaders = 2
  MaxQueued = 2
  Processes = {p1, p2}
  Memories = {m1, m2}
  Torn = Torn
  MaxReads = 2
  MaxAdds = 2
SPECIFICATION MCSpec
INVARIANT HiccupForgetsNothing
