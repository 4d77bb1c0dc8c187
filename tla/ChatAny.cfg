SPECIFICATION Spec
CONSTANTS
  c1 = c1
  c2 = c2
  Client = {c1, c2}
  None = None
  Listener = Listener
  EmptyName = EmptyName
  Room = {r1}
  Text = {t1}
  UpCap = 2
  DownCap = 2
  MaxBatch = 2
  FdSetSize = 3
  Patient = FALSE
  Quitters = {c1, c2}
  MaxSends = 6
  MaxCmds <- TwoEach
SYMMETRY Symmetry
INVARIANTS
  NoStrayAnswer
  MembersAreNamed
  WritesAtStart
PROPERTIES
  ClientsConform
