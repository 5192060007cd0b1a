CONSTANTS
  NCalls = 3
  Locks = {a, b}
SPECIFICATION Spec
INVARIANT ErrorsAreObservations
