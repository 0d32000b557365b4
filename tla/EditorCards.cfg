SPECIFICATION MCSpec
CONSTANTS
  Entry <- Ids
  Initial <- FirstDecks
  Card <- Cards
  CardOf <- CardsOf
  SectionOf <- Sections
  Art = {"promo", "foil"}
  Default <- Pictures
  SavedArt <- Saved
  MaxCount = 2
  Conn = {c1, c2}
  None = None
SYMMETRY Symmetry
INVARIANTS RowsFollowServer GalleryIsWhole LastSavedPickIsShown SavedMeansSaved
