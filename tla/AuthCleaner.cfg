SPECIFICATION FairSpec
CONSTANTS
  User = {u1}
  Address = {"ash@example.com", "nobody"}
  Email = {"ash@example.com", "nobody"}
  Normal <- Spelling
  Valid = {"ash@example.com"}
  Password = {p1, short}
  Allowed = {p1}
  Token = {t1, t2}
  Req = {r1}
  None = None
  SessionTTL = 1
  MaxClock = 3
  AllowSignup = TRUE
  Ops = {"signup", "login", "logout"}
  MayFail = TRUE
PROPERTIES ExpiredSessionsGo
