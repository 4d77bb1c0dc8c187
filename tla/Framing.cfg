SPECIFICATION Spec
CONSTANTS
  Base = 16
  BufSize = 32
  Members = 2
  Senders = {1, 2}
  MaxLines = 2
  Tag = 2
  Extra = 2
  Lengths = {3, 18, 24}
  Behind = {0, 13}
  CutUp = {1}
  CutDown = {1}
  Portions = {6, 11, 17}
INVARIANTS
  TypeOK
  InBounds
  ArriveAsSent
  NeverMixed
