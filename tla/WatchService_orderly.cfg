CONSTANTS
  Services = {s1, s2, s3}
  Commands = {k1, k2}
  Hazards = {"crash", "recycle"}
  NoPid = NoPid
SPECIFICATION OrderlySpec
CHECK_DEADLOCK FALSE
INVARIANTS
  OneService
  Findable
PROPERTIES
  ReleaseOnlyOwn
  RefusedForAProcess
