CONSTANT Groups <- MCGroups
SPECIFICATION Spec
INVARIANTS
  TypeOK
  
  PositionIsWhatItHas
  TransferHidden
  
CHECK_DEADLOCK FALSE
