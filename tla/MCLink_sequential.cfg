SPECIFICATION Spec
CONSTRAINT InScope
CONSTANTS
  c1 = c1  c2 = c2  s1 = s1  s2 = s2  s3 = s3  s4 = s4
  None = None
  Commands = {c1}
  Spawns = {s1, s2, s3, s4}
  Capacity = 8
  MaxConnects = 2
  MaxDisconnects = 1
  MaxQueries = 1
  Answers = {}
  BadUrls = TRUE
  Overlap = FALSE
  Faults = FALSE
  BridgeFails = FALSE
SYMMETRY Symmetry
INVARIANTS  StatusTracksLink DisconnectHonoured
CHECK_DEADLOCK FALSE
