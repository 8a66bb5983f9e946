SPECIFICATION Spec
CONSTANTS
  Pkts = 3
  MaxBody = 2
INVARIANTS
  TypeOK
  FramesIntact
PROPERTIES
  NoStaleDeadline
  TimedCallReturns
  ImplementsDelivery
