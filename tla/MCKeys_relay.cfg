SPECIFICATION Spec
CONSTANTS
  None = None
  p1 = p1  p2 = p2  p3 = p3  q1 = q1  q2 = q2
  MaxKeyId = 2
  MaxPreId = 1
  ENSURE_MIN = 1
  INITIAL_COUNT = 1
  MIN_PRE_KEY_COUNT = 0
  REPLENISH_COUNT = 1
  ROTATION_INTERVAL_SECS = 1
  GRACE_PERIOD_SECS = 1
  MILLIS = 2
  MaxTime = 5
  MaxStarts = 2
  Publishes = {p1,p2}
  Peers = {}
INVARIANT RelayBundleUsable
CHECK_DEADLOCK FALSE
