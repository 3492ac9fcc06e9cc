SPECIFICATION FairSpec
CONSTANTS
  c1 = c1  c2 = c2  s1 = s1  s2 = s2  s3 = s3  s4 = s4
  None = None
  Commands = {}
  Spawns = {s1, s2}
  Capacity = 8
  MaxConnects = 1
  MaxDisconnects = 1
  MaxQueries = 0
  Answers = {"accepted", "refused"}
  BadUrls = TRUE
  Overlap = TRUE
  Faults = TRUE
  BridgeFails = TRUE
INVARIANTS SentOnce  StatusFollowsEvents
PROPERTIES RequestEnds StatusCatchesUp
CHECK_DEADLOCK FALSE
