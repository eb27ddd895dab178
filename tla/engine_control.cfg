CONSTANTS
  NoFile = NoFile
  f1 = f1
  f2 = f2
  Files = {f1, f2}
  Wav = {f2}
  Growing = {f1}
  Len = 2
  StartsAt = {1}
  Faults = {"open", "device", "reroute", "read", "write"}
SPECIFICATION PSpec
INVARIANT TypeOK
INVARIANT SuspendSafe
INVARIANT DeviceFlagTruthful
INVARIANT StreamIsSound
 
 
 
 
