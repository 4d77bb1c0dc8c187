SPECIFICATION Spec
CONSTANTS
  c1 = c1
  c2 = c2
  Client = {c1}
  None = None
  Listener = Listener
  EmptyName = EmptyName
  Room = {r1, r2}
  Text = {t1}
  UpCap = 3
  DownCap = 3
  MaxBatch = 1
  FdSetSize = 3
  Patient = FALSE
  Quitters = {}
  MaxSends = 6
  MaxCmds <- FiveEach
SYMMETRY Symmetry
INVARIANTS
  OneRoom
