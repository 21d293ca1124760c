CONSTANTS
  Writers = {w1, w2}
  Repos = {r1}
  Versioned = {r1}
  Paths = {p1, p2, p3}
  ConfigPaths = {p3}
  c1 = c1
  c2 = c2
  c3 = c3
  f = f
  g = g
  Contents <- MCContents
  Unparsable = {c3}
  Lossy = {c2}
  Names <- MCNames
  Defines <- MCDefines
  Refs <- MCRefs
  Operations = {"incremental", "crash"}
  Alike <- MCAlike
  shadowed = p2
  Absent = Absent
  Module = Module
SPECIFICATION QuietSpec
INVARIANTS
  EdgesMatchDocuments
  EndpointsExist
PROPERTIES
  UnmovedEdgesStay
  IngestsAtomically
SYMMETRY MCSymmetry
