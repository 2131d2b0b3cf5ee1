CONSTANTS
  Nodes = {a, b}
  First = a
  SlotKeys = {k1}
  OtherKeys = {o1}
  InitKeys = {k1}
  Distance = 1
  Clients = {c1, c2}
  Settings <- MCSettings
SYMMETRY Symmetry
SPECIFICATION Spec
CHECK_DEADLOCK FALSE
INVARIANTS
  TypeOK
  OneServer
  
  
 
