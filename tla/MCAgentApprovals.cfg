SPECIFICATION Spec
CONSTANTS
  c1 = c1
  c2 = c2
  d1 = d1
  d2 = d2
  Calls = {c1, c2}
  Deciders = {d1, d2}
SYMMETRY Symmetry
INVARIANTS
  AtMostOnce
  RunsAreApproved
  
PROPERTIES
  DecisionIsFinal
