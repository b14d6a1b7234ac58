CONSTANTS
  p = p
  q = q
  m = m
  n = n
  i = i
  j = j
  k = k
  Peers = {p, q}
  Msgs = {m, n}
  MaxIHaveMessages = 2
  MaxIHaveLength = 1
  Followup = 1
  MaxEmits = 3
  Ids = {i, j, k}
  Retransmission = 2
  IdontwantMax = 1
  McacheLength = 2
  WhitelistMax = 2
  WhitelistDuration = 2
SPECIFICATION Spec
INVARIANTS
  TypeOK
  AskedWithinLimit
  GossipAccounted
  GossipIsFlushed
  ServedWithinLimit
  IdontwantsBounded
PROPERTIES
  PenaltiesAreDue
  PromisesEnd
  GrayQuota
