\* Three addresses: every graph on three objects, cycles and garbage included.
CONSTANTS
  Obj = {o1, o2, o3}
SPECIFICATION FairSpec
INVARIANTS
  TypeOK
  NothingLiveIsFreed
  SweepIsExact
PROPERTIES
  CollectsAtOnce
  CollectionEnds
