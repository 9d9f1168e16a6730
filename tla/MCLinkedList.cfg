CONSTANTS
  a = a
  b = b
  n1 = n1
  n2 = n2
  n3 = n3
  n4 = n4
  None = None
  Nodes = {n1, n2, n3, n4}
  Elements = {a, b}
  Batches <- AllBatches
  MaxSize = 4
SYMMETRY Symmetry
SPECIFICATION Spec
INVARIANTS
  TypeOK
  WellLinked
  IteratesItems
PROPERTY ImplementsDeque
