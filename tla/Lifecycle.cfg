SPECIFICATION Spec
CONSTANTS
  Connections = {"k1", "k2", "k3"}
INVARIANTS
  TypeOK
  ReturnedHoldsNothing

  
