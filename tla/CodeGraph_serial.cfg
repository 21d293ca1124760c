CONSTANTS
  Writers = {w1}
  Repos = {r1}
  Versioned = {r1}
  Paths = {p1, p2}
  ConfigPaths = {}
  c1 = c1
  c2 = c2
  c3 = c3
  f = f
  g = g
  Contents <- MCContents
  Unparsable = {c3}
  Lossy = {c2}
  Names <- MCNames
  Defines <- MCDefines
  Refs <- MCRefs
  Operations = {"incremental", "forget", "crash"}
  Alike <- MCAlike
  shadowed = p2
  Absent = Absent
  Module = Module
SPECIFICATION FairSpec
INVARIANTS
  EntitiesMatchDocuments
PROPERTIES
  IngestRecordsTree
  EverythingElseStays
  ForgetRemovesThePreview
  Converges
