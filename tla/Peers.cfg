SPECIFICATION TableSpec
CONSTANTS
  seed = seed
  n1 = n1
  n2 = n2
  own = own
  client = client
  i1 = i1
  c1 = c1
  c2 = c2
  c3 = c3
  Conn = {c1, c2, c3}
  NoConn = NoConn
  NodeAddr = {seed, n1, n2, own}
  ClientAddr = {client}
  NoAddr = NoAddr
  Seed = seed
  Own = {own}
  Ip = {i1}
  IpOf <- MCIpOf
  Target = 1
  Referrals <- MCReferrals
  Punishment = 1
  Threshold = 1
  Extra = 1
  U8 = 4
INVARIANTS
  TableExact
  OutgoingBounded
SYMMETRY AnyConn
CHECK_DEADLOCK FALSE
