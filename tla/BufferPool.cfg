SPECIFICATION Spec
CONSTANTS
  s1 = s1
  s2 = s2
  b1 = b1
  b2 = b2
  b3 = b3
  NoBuf = NoBuf
  Conns <- MCConns
  Bufs <- MCBufs
  MaxPkts = 4
SYMMETRY MCSymmetry
INVARIANTS
  TypeOK
  Exclusive
  CopiesIntact
