SPECIFICATION HistorySpec
CONSTANTS
  None = None
  k1 = k1  k2 = k2
  pending = pending  delivered = delivered
  Peers = {k1,k2}
  Statuses = {pending,delivered}
  Pending = pending
  MaxMessages = 3
  MaxConvs = 2
  MaxClock = 2
INVARIANTS UnreadCounts 
SYMMETRY PeerSymmetry
CHECK_DEADLOCK FALSE
