CONSTANTS
  Names = {n1}
  Repos = {r1, r2}
  Threads = {t1, t2}
  MaxVersion = 2
  MaxDeaths = 1
  Hazards = {"elapse"}
  NoRepo = NoRepo
  NoThread = NoThread
SPECIFICATION FairSpec
CHECK_DEADLOCK FALSE
INVARIANTS
  NotLeftStale
  OneWorkerPerRepository
PROPERTIES
  Followed
  StopEnds
