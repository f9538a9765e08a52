CONSTANTS
  i1 = i1
  Ids = {i1}
  Spots = {101}
  Nobody = Nobody
  MaxLength = 1
  MaxRestarts = 0
SPECIFICATION PathFairSpec
PROPERTIES
  ConnectionRetried
