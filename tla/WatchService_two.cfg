CONSTANTS
  Services = {s1, s2}
  Commands = {k1}
  Hazards = {}
  NoPid = NoPid
SPECIFICATION Spec
CHECK_DEADLOCK FALSE
INVARIANTS
  OneService
