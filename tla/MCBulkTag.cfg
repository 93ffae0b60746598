SPECIFICATION BulkSpec
CONSTANTS
  Machines = {v1, v2}
  Labels = {g1}
  NoLabel = NoLabel
INVARIANTS
  DoesWhatTheButtonSays
