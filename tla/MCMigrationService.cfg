SPECIFICATION FairSpec
CONSTANTS
  r1 = r1
  r2 = r2
  v1 = v1
  Reqs = {r1, r2}
  Migrations = {r1, r2}
  VMIDs = {v1}
  Free = Free
  DatabaseErrors = TRUE
INVARIANTS
  NoParallelMigration
  MapsMatchGoroutines
PROPERTIES
  ImplementsLifecycle
  LockReleased
