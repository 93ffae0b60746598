SPECIFICATION Spec
CONSTANTS
  n1 = n1
  n2 = n2
  n3 = n3
  u1 = u1
  u2 = u2
  u3 = u3
  k1 = k1
  k2 = k2
  k3 = k3
  k4 = k4
  k5 = k5
  Nodes = {n1, n2, n3}
  Users = {u1, u2, u3}
  Clients = {k1, k2, k3, k4, k5}
  None = None
  MaxConnections = 2
SYMMETRY Symmetry
INVARIANTS
  PooledIsUsable
  CalmSharing
PROPERTIES
  CutOffOnlyIfOld
