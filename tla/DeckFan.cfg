SPECIFICATION FanSpec
CONSTANTS
  Left = 3
  Gap = 2
  SortedUid <- Turned
  Nothing = Nothing
INVARIANTS LandsOnACard
PROPERTIES DragsAreNoClicks
