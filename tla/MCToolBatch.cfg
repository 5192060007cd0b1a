CONSTANTS
  NCalls = 3
  Locks = {a, b}
SPECIFICATION Spec
INVARIANT TypeOK
INVARIANT MutualExclusion
INVARIANT TableMatchesHolders
INVARIANT NoLostWakeup
PROPERTY EveryKnownCallReturns
PROPERTY ImplementsSerialTools
