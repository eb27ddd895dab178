CONSTANTS
  NoAccount = NoAccount
  a1 = a1
  a2 = a2
  Accounts = {a1, a2}
  NoCard = NoCard
  c1 = c1
  Cards = {c1}
  p1 = p1
  p2 = p2
  Plays = {p1, p2}
  Bad = {p2}
  Torn = Torn
  QUEUE_MAX = 2
  PENDING_MAX = 2
  BATCH_MAX = 2
  SESSION_REFUSALS_MAX = 2
  MaxFaults = 1
  Faults = {"write", "drop"}
  SignsInOver = FALSE
SPECIFICATION Spec
INVARIANT TypeOK
PROPERTY OnlyFinishedLeave
 
