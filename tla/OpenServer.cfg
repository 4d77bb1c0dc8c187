SPECIFICATION Spec
CONSTANTS
  c1 = c1
  c2 = c2
  Client = {c1, c2}
  None = None
  Listener = Listener
  EmptyName = EmptyName
  Room = {r1, EmptyName}
  Text = {t1}
  UpCap = 2
  DownCap = 2
  MaxBatch = 2
  FdSetSize = 3
  MaxSends = 2
SYMMETRY Symmetry
INVARIANTS
  TypeOK
  ReadCountExact
  NeverBlocksOnStaleBit
  RoomTablesAgree
  RoomsHoldConnections
  AnswersReachTheirClient
PROPERTIES
  OnlyOwnExitLeaves
  ServesRooms
