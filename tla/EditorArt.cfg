SPECIFICATION MCSpec
CONSTANTS
  Entry <- Ids
  Initial <- ImportedDeck
  Card <- Cards
  CardOf <- CardsOf
  SectionOf <- Sections
  Art = {"promo", "foil"}
  Default <- Pictures
  SavedArt <- Saved
  MaxCount = 2
  Conn = {c1, c2}
  None = None
SYMMETRY Symmetry
INVARIANTS SavedArtIsShown
