SPECIFICATION Spec
CONSTANTS
  Ids = {1, 2, 3}
  Walkers = {w1}
  Limits = {1, 2}
  MaxTime = 2
CONSTRAINT FewUnlessListing
INVARIANTS
  TypeOK
  CursorWalkExact
  OffsetWalkComplete
  ListedResigned
  ResealedKept
PROPERTY RevocationAfterPassKept
