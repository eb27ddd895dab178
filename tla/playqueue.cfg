CONSTANTS
  a = a
  b = b
  c = c
  NoTrack = NoTrack
  Tracks <- MCTracks
  Lists <- MCLists
  Given <- MCGiven
  Addable <- MCAddable
  Folders <- MCFolders
  NextFolder <- MCNextFolder
  PrevFolder <- MCPrevFolder
  LOCATE_RADIUS = 1
  MaxEntries = 3
SPECIFICATION Spec
INVARIANT TypeOK
INVARIANT SavedIsTheQueue
INVARIANT EditsAreExact
INVARIANT GoesOnRightly
