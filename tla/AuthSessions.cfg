SPECIFICATION Spec
CONSTANTS
  User = {u1, u2}
  Address = {"ash@example.com", "ASH@example.com", "misty@example.com"}
  Email = {"ash@example.com", "misty@example.com"}
  Normal <- Spelling
  Valid = {"ash@example.com", "misty@example.com"}
  Password = {p1, p2}
  Allowed = {p1, p2}
  Token = {t1, t2}
  Req = {r1, r2}
  None = None
  SessionTTL = 1
  MaxClock = 1
  AllowSignup = TRUE
  Ops = {"signup", "login", "logout", "me", "route"}
  MayFail = TRUE
SYMMETRY Symmetry
INVARIANTS TypeOK OneAccountPerEmail TokensGoToTheirOwners
PROPERTIES AdmittedByLiveSession SessionsEndForAReason SessionsAreFixed
