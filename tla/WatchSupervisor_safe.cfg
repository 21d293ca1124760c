CONSTANTS
  Names = {n1}
  Repos = {r1, r2}
  Threads = {t1, t2}
  MaxVersion = 1
  MaxDeaths = 1
  Hazards = {"torn", "timeout", "kill", "elapse"}
  NoRepo = NoRepo
  NoThread = NoThread
SPECIFICATION Spec
CHECK_DEADLOCK FALSE
INVARIANTS
  NoOrphans
