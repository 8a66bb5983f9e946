SPECIFICATION Spec
CONSTANTS
  N = 2
  OutCap = 2
  InCap = 2
  MaxReq = 2
  MaxUnasked = 1
  PeerTags <- MCTags
INVARIANTS
  TypeOK
  TestsConserved
  CounterInRange
  PipelineIntact
PROPERTY
  ImplementsWatchdog
