CONSTANTS
  Instance = {g1}
  MaxSeq = 2
  MaxCrashes = 0
  Conn <- MCConn
  User = {u1}
  Channel = {x, y}
  Req = {r1, r2}
  Query = {q1}
  TTL = 4
  Faults = FALSE
  NoSession = NoSession
  Free = Free
  NoReq = NoReq
SYMMETRY Sym
SPECIFICATION Spec
INVARIANTS SettledAgrees GoneIsForgotten OpenSurvivesTTL
PROPERTY QueryDropsGone
