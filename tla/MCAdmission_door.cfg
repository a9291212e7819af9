SPECIFICATION FairSpec
CONSTANTS
  t1 = t1
  t2 = t2
  Conns = {c1, c2}
  Kinds = {"visitor", "client", "bare"}
  Tokens = {t1, t2}
  NoToken = NoToken
  TokenTime <- MCTokenTime
  MaxAge = 1
  MaxDrift = 1
  MaxClock = 2
  Upstream = TRUE
CHECK_DEADLOCK FALSE
INVARIANTS
  TypeOK
  CookieOnce
  TunnelStartsClean
PROPERTIES
  TunnelSettles
