CONSTANTS
  Recorders = {k1, k2}
  Entries = {e1, e2, e3}
  Tampering = {}
  MaxCrashes = 0
  NoEntry = NoEntry
SPECIFICATION Spec
CHECK_DEADLOCK FALSE
INVARIANTS
  VerifyTellsTheTruth
