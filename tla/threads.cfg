SPECIFICATION Spec
CONSTANTS
  None = None
  Absent = Absent
  Threads = {t1, t2}
  Lookahead = L
  Files = {f1, f2, f3}
  MaxFd = 0
  Entries = {e1, e2}
  Inodes = {i1, i2, i3}
  BlockSet = {0}
  Size <- RisingSize
  Capacity = 2
  CachePath <- OwnPath
  Window <- SelfWindow
  Ops <- SharedCalls
  MaxWrites = 0
  t1 = t1 t2 = t2 L = L
  f1 = f1 f2 = f2 f3 = f3 f4 = f4
  e1 = e1 e2 = e2 e3 = e3
  i1 = i1 i2 = i2 i3 = i3
SYMMETRY ThreadSymmetry
INVARIANTS LockOrder OnlyStaleOpenDangles CopyHidden CacheConsistent
