CONSTANTS
  User = {u1}
  Token = {t1, t2, t3}
  Req = {r1, r2}
  Lifetime = TRUE
  MaxExpiries = 2
  Others = TRUE
  Crashes = TRUE
  None = None
SYMMETRY Sym
SPECIFICATION WebSpec
INVARIANTS SpentIsRefused OneLivePerLogin
 
CHECK_DEADLOCK FALSE
