SPECIFICATION Spec
CONSTANTS
  NULL = NULL
  k1 = k1
  v1 = v1
  n1 = n1
  n2 = n2
  n3 = n3
  n4 = n4
  Data <- MCData
  Hash <- MCHash
  Cells <- MCCells
  Contents <- MCContents
  Entries <- MCEntries
  KeepsMemory = TRUE
  Nodes <- MCNodes
SYMMETRY MCSymmetry
INVARIANTS
  TypeOK
  LinkedOnce
PROPERTIES
  PointersStable
  ImplementsMap
