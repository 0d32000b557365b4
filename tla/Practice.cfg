SPECIFICATION FairSpec
CONSTANTS
  Entry <- FewCards
  Pokemon = {"raichu"}
  Key = {"raichu"}
  KeyOf <- FewKey
  Evolved = {"raichu"}
  Count <- Counts
  MaxCards = 4
  HandSize = 1
  Prizes = 1
  MaxMulligans = 1
  Storage = TRUE
  None = None
INVARIANTS HandsAreOfTheirDeck MarksFitTheHand ClosingLosesNothing
PROPERTIES HandComes
