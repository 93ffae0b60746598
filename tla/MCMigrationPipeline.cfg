SPECIFICATION FairSpec
CONSTANT MaxFaults = 2
CHECK_DEADLOCK FALSE
INVARIANTS
  SourceConfigNeverLost
  
  
  
PROPERTIES
  
  Terminates
