SPECIFICATION Spec
CONSTANTS
  SourcePath <- Source
  CachePath <- Cache
  Cwd <- Directory
  LongMax = 50
  Folder <- Directory
  Entries <- InFolder
  Spellings <- Called
  Files <- MCFiles
  Listing <- MCListing
  Sorted <- MCSorted
  Sorts = TRUE
  Windowed = TRUE
  WindowSize = 2
  Capacity = 2
  None = None
INVARIANT MissRequestsItself
