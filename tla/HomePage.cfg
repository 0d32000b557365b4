SPECIFICATION MCSpec
CONSTANTS
  User = {ann, bob}
  Token = {t1, t2}
  Deck = {d1, d2}
  There = there
  Short = short
  Prose = prose
  Text <- Texts
  Card = {"mew", "potion"}
  CardsOf <- Lists
  Art = {"promo", "foil"}
  Conn = {c1, c2}
  None = None
SYMMETRY Symmetry
INVARIANTS ActsForTheUserShown ListFollowsServer PicksStayWithTheirCards
