SPECIFICATION MCSpec
CONSTANTS
  User = {u1, u2}
  Deck = {d1, d2}
  Entry = {e1, e2}
  Req = {r1, r2}
  Name = {n1}
  Format = {standard}
  Art = {}
  Count <- NegativeCounts
  None = None
  DefaultFormat = standard
  Ops <- AllOps
  MaxLines = 2
  MayFail = TRUE
SYMMETRY Symmetry
INVARIANTS TypeOK CoversAreOwnEntries ChecksStayTrue AnswersShowOwnDecks
PROPERTIES OnlyOwnersWrite ImportsAreWhole NothingComesBack ImplementsLibrary
