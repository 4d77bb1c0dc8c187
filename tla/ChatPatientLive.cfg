SPECIFICATION FairSpec
CONSTANTS
  c1 = c1
  c2 = c2
  Client = {c1, c2}
  None = None
  Listener = Listener
  EmptyName = EmptyName
  Room = {r1}
  Text = {t1}
  UpCap = 1
  DownCap = 1
  MaxBatch = 1
  FdSetSize = 3
  Patient = TRUE
  Quitters = {}
  MaxSends = 6
  MaxCmds <- TwoThree
PROPERTIES
  Answered
  RequestsReceived
