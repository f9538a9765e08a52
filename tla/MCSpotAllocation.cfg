CONSTANTS
  lot1 = lot1  t1 = t1  t2 = t2
  Spots = {101, 102}
  Lots = {lot1}
  LotOf <- OneLot
  MaxLate = 1
  Threads = {t1, t2}
SPECIFICATION Spec
INVARIANTS
  TypeOK
  IInv
  CacheTrue
  UpdatesTrue
  OfferIsReal
SYMMETRY Symmetry
