SPECIFICATION Spec
CONSTANTS
  c1 = c1
  c2 = c2
  Client = {c1, c2}
  None = None
  Listener = Listener
  EmptyName = EmptyName
  Room = {EmptyName, r1}
  Text = {t1}
  UpCap = 2
  DownCap = 2
  MaxBatch = 1
  FdSetSize = 3
  Patient = FALSE
  Quitters = {}
  MaxSends = 6
  MaxCmds <- ThreeEach
SYMMETRY Symmetry
PROPERTIES
  OnlyMembersSpeak
