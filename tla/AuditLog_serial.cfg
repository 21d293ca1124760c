CONSTANTS
  Recorders = {k1}
  Entries = {e1, e2, e3}
  Tampering = {"rewrite", "relink", "rehash", "delete"}
  MaxCrashes = 2
  NoEntry = NoEntry
SPECIFICATION Spec
CHECK_DEADLOCK FALSE
INVARIANTS
  Accounted
  JournalSound
  VerifyTellsTheTruth
PROPERTIES
  RecordsAtomically
