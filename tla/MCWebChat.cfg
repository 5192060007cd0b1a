SPECIFICATION Spec
CONSTANTS
  Sessions = {web, s1, s2}
  Web = web
  FirstChat = s1
  MaxRequests = 2
  MaxDeltas = 1
  RATE_LIMIT_MAX = 1
INVARIANTS
  TypeOK
  AnsweredOnce
  DoneMeansStored
  TextIsOwn
PROPERTIES
  StreamingEnds
