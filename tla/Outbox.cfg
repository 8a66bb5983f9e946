SPECIFICATION Spec
CONSTANTS
  g1 = g1
  g2 = g2
  Senders <- MCSenders
  Lens <- MCLens
  LongLens <- MCLongLens
  Dests <- MCDests
  MaxTexts = 3
  FirstRefs <- MCFirstRefs
  Scripts <- MCScripts
SYMMETRY MCSymmetry
INVARIANTS
  TypeOK
  RefsInOrder
  PartsFit
  TextsReassemble
  StaysInStep
  FieldsArrive
