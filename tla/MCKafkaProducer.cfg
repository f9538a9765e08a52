CONSTANTS
  i1 = i1
  Ids = {i1}
  Spots = {101, 102}
  Nobody = Nobody
  MaxLength = 2
  MaxRestarts = 1
SPECIFICATION PathFairSpec
INVARIANTS
  PathTypeOK
  PathIInv
  OneSpotEach
  CommittedIsAccounted
  InOrder
  TwoSpotsNeedARetry
  OneConnection
PROPERTIES
  EventsAreHandled
  EveryPublishEnds
  AcknowledgedIsHandled
  ImplementsContract
