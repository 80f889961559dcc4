CONSTANTS
  Instance = {g1}
  MaxSeq = 1
  MaxCrashes = 1
  Conn <- MCConn
  User = {u1}
  Channel = {x}
  Req = {r1, r2}
  Query = {}
  TTL = 2
  Faults = TRUE
  NoSession = NoSession
  Free = Free
  NoReq = NoReq
SPECIFICATION FairSpec
INVARIANT IndexCovers
PROPERTY GhostsExpire
