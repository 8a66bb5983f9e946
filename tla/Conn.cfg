SPECIFICATION LiveSpec
CONSTANTS
  u1 = u1
  u2 = u2
  c1 = c1
  c2 = c2
  Users <- MCUsers
  Closers <- MCClosers
  Connector = c1
  MaxOps = 1
  MaxCalls = 2
INVARIANTS
  TypeOK
  TornDownInOrder
  PanicNeedsTwoClosers
PROPERTIES
  ForgedOnlyWhileClosing
  CloseCompletes
  DrawNeverHangs
  ImplementsChannel
