SPECIFICATION TableSpec
CONSTANTS
  Items = {d1, d2, d3, d4, d5}
  MaxScore = 2
  Capacity = 4
  Modulus = 8
  Hash <- OneList
  Buckets = 2
  None = None
SYMMETRY ItemSymmetry
INVARIANTS HeapOrder IndexRight TableAgrees
PROPERTIES Implements TableIsMap
CHECK_DEADLOCK FALSE
