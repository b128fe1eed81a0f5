SPECIFICATION Spec
CONSTANTS
    x1 = x1
    x2 = x2
INVARIANTS    DoneOnce 
  
CHECK_DEADLOCK FALSE
