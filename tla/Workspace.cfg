CONSTANTS
  Users = {u1, u2}
  Requests = {r1, r2}
  Saved = {v1, v2, v3}
  Conversations = {c1, c2}
  Asks = {a1, a2}
  Grants = {"owner", "admin", "viewer"}
  MaxSaved = 1
  Setups <- MCSetups
  Faults = TRUE
SPECIFICATION Spec
SYMMETRY Symmetry
INVARIANTS
  TypeOK
  OwnersProtected
  QuietDeletionLeavesNothing
  SavedWithinLimit
  QuietClearIsFinal
  TranscriptsAreWhole
CHECK_DEADLOCK FALSE
