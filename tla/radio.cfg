SPECIFICATION LiveSpec
CONSTANTS
  Stations = {s1, s2}
  NoStation = NoStation
  RADIO_MAX_RETRIES = 1
  PLAYLIST_MAX_HOPS = 1
  RADIO_BUFFER = 2
  Faults = {"thread", "memory", "output"}
 
INVARIANT ScreenTellsTheTruth
PROPERTY RadioSettles
