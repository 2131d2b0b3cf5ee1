CONSTANTS
  Nodes = {a, b}
  First = a
  SlotKeys = {k1}
  OtherKeys = {o1}
  InitKeys = {k1}
  Distance = 1
  Clients = {c1}
  Settings <- MCSettingsHalf
SPECIFICATION Spec
CHECK_DEADLOCK FALSE
INVARIANT OneServer
