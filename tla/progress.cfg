SPECIFICATION FairSpec
CONSTANTS
  None = None
  Absent = Absent
  Threads = {t1}
  Lookahead = L
  Files = {f1, f2}
  MaxFd = 0
  Entries = {e1}
  Inodes = {i1, i2}
  BlockSet = {0}
  Size <- UnitSize
  Capacity = 1
  CachePath <- OwnPath
  Window <- SelfWindow
  Ops <- ProgressCalls
  MaxWrites = 1
  t1 = t1 t2 = t2 L = L
  f1 = f1 f2 = f2 f3 = f3 f4 = f4
  e1 = e1 e2 = e2 e3 = e3
  i1 = i1 i2 = i2 i3 = i3
PROPERTIES CallsReturn RequestedIsCached
