SPECIFICATION Spec
CONSTANTS
  Stations = {s1}
  NoStation = NoStation
  RADIO_MAX_RETRIES = 1
  PLAYLIST_MAX_HOPS = 1
  RADIO_BUFFER = 1
  Faults = {}
PROPERTY UnplayableIsNotRetried
