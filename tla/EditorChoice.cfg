SPECIFICATION Spec
CONSTANTS
  Entry <- Cards
  Initial = {1, 2, 3}
  Pokemon = {1, 2, 3}
  Key <- Cards
  KeyOf <- OwnKey
  HP <- NoPoints
  Rank <- CardRank
  Conn = {c1, c2}
  None = None
SYMMETRY Symmetry
PROPERTIES SavedCoversAreKept
