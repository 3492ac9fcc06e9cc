SPECIFICATION Spec
CONSTANTS
  None = None
  q1 = q1  q2 = q2  me = me  bob = bob  self = self  noalias = noalias  pending = pending
  Peers = {q1,q2}
  Me = me
  UserAliases = {bob}
  SelfAlias = self
  NoAlias = noalias
  Statuses = {pending}
  Pending = pending
  MaxMessages = 3
  MaxSends = 1
  MaxConvs = 2
  MaxClock = 0
  Times = {1,2}
  MaxSent = 2
  MaxFaults = 1
  MaxCommands = 3
INVARIANTS StoredOnce MissedOnlyBehind AliasNamesOne SessionHasContact ContactHasSession
PROPERTIES ImplementsHistory
SYMMETRY PeerSymmetry
CHECK_DEADLOCK FALSE
