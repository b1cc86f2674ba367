SPECIFICATION Spec
CONSTANTS
  Files = {f1}
  Fds = {fd1, fd2}
  Values = {v1}
  MaxLen = 2
  BlockSize = 1
  None = None
SYMMETRY Symmetry
INVARIANTS TypeOK
PROPERTIES Transparent ListStaysComplete
