SPECIFICATION ServiceSpec
CONSTANTS
  r1 = r1
  v1 = v1
  Reqs = {r1}
  Migrations = {r1}
  VMIDs = {v1}
  Free = Free
  DatabaseErrors = FALSE
INVARIANTS
  NonTerminalRowHasWorker
