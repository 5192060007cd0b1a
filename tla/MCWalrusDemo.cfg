SPECIFICATION Spec
CONSTANTS
  MaxTicks = 3
  MaxCrashes = 1
INVARIANTS
  TypeOK
  PointersLead
  AcknowledgedTurnsStay
  OnlyStraysDropped
