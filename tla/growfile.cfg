CONSTANTS
  NoPath = NoPath
  p1 = p1
  p2 = p2
  Paths = {p1, p2}
  GROWFILE_MAX = 1
  Size = 3
  MaxBytes = 2
SPECIFICATION FairSpec
INVARIANT TypeOK
PROPERTY DownloadsKeepTheirSlot
PROPERTY ReadReturns
INVARIANT TableIsTrue
