CONSTANTS
  Writers = {w1, w2}
  Repos = {r1}
  Versioned = {r1}
  Paths = {p1, p2}
  ConfigPaths = {}
  c1 = c1
  c2 = c2
  c3 = c3
  f = f
  g = g
  Contents <- MCTwoContents
  Unparsable = {}
  Lossy = {}
  Names <- MCNames
  Defines <- MCDefines
  Refs <- MCRefs
  Operations = {"incremental"}
  Alike <- MCNoneAlike
  shadowed = p2
  Absent = Absent
  Module = Module
SPECIFICATION Spec
PROPERTIES
  EverythingElseStays
SYMMETRY MCSymmetry
