SPECIFICATION FlushSpec
CONSTANTS
  MaxOffset = 6
  BlockSize = 2
  MaxIntervals = 2
  None = None
INVARIANTS FlushTypeOK
PROPERTIES Implements LosesOnlyTails CopiesAsPromised FlushEnds
