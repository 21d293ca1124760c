CONSTANTS
  Services = {s1, s2, s3}
  Commands = {k1}
  Hazards = {"recycle"}
  NoPid = NoPid
SPECIFICATION FairSpec
CHECK_DEADLOCK FALSE
PROPERTIES
  ClaimDecides
  StopLeavesNothing
