CONSTANTS
  NoTrack = NoTrack
  t1 = t1
  t2 = t2
  Tracks = {t1, t2}
  page = page
  prefetch = prefetch
  Starters = {page, prefetch}
  DownloadThread = DownloadThread
  Size = 2
  Cleanups = {"prune", "sweep", "clear"}
SPECIFICATION FairSpec
INVARIANT TypeOK
 
PROPERTY TurnIsReleased
INVARIANT StreamIsOwned
