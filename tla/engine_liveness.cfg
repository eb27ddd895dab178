CONSTANTS
  NoFile = NoFile
  f1 = f1
  Files = {f1}
  Wav = {}
  Growing = {f1}
  Len = 1
  StartsAt = {1}
  Faults = {"open", "device", "memory", "reroute", "read", "write"}
SPECIFICATION FairSpec
PROPERTY ImplementsTransport
PROPERTY CallsAreServed
PROPERTY DeviceIsLetGo
