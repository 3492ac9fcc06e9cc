SPECIFICATION Spec
CONSTRAINT InScope
CONSTANTS
  None = None
  p1 = p1  p2 = p2  p3 = p3  q1 = q1  q2 = q2
  MaxKeyId = 3
  MaxPreId = 5
  ENSURE_MIN = 2
  INITIAL_COUNT = 3
  MIN_PRE_KEY_COUNT = 2
  REPLENISH_COUNT = 2
  ROTATION_INTERVAL_SECS = 1
  GRACE_PERIOD_SECS = 1
  MILLIS = 2
  MaxTime = 8
  MaxStarts = 2
  Publishes = {p1,p2,p3}
  Peers = {q1,q2}
INVARIANTS KeyIdsUsedOnce 
PROPERTIES CurrentKeyKept PreKeyKept
SYMMETRY Symmetry
CHECK_DEADLOCK FALSE
