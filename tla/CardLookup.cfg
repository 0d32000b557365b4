SPECIFICATION FairSpec
CONSTANTS
  Line <- Lines
  Import = {"first", "second"}
  ImportOf <- ImportOfLine
  Question = {"SVI", "sv01-25", "sv01-025", "sv01-002", "Fire Energy"}
  SetOf <- SetOfLine
  CardsOf <- CardsOfLine
  SearchOf <- SearchOfLine
  Limit = 1
  TTL = 1
  Timeout = 1
  MaxClock = 3
  None = None
INVARIANTS LimitHolds
PROPERTIES HitsAreFresh EveryLineEnds
CHECK_DEADLOCK FALSE
