CONSTANTS
  i1 = i1
  Ids = {i1}
  Spots = {101}
  Nobody = Nobody
  MaxLength = 2
  MaxRestarts = 0
SPECIFICATION FairSpec
PROPERTIES
  ClosedFreesSpot
