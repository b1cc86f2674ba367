SPECIFICATION FairSpec
CONSTANTS
  Producers = {p1, p2}
  Items = {a, b}
  Capacity = 3
  None = None
INVARIANTS CountsAgree
PROPERTIES Implements Drained
