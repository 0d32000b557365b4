SPECIFICATION Spec
CONSTANTS
  Entry <- Cards
  Initial = {1}
  Pokemon = {2, 3}
  Key = {"potion", "eevee"}
  KeyOf <- CardKey
  HP <- Points
  Rank <- CardRank
  Conn = {c1, c2}
  None = None
SYMMETRY Symmetry
INVARIANTS CoversDiffer CoversAreInDeck SlotsAreFilled PageFollowsServer SavedCoversAreShown
