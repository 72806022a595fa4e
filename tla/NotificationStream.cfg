SPECIFICATION FairSpec
CONSTANTS
  Cursor = {c1, c2}
  NoCursor = NoCursor
  Thread = {t1, t2}
  BodySize = {1, 2, 4}
  MaximumCount = 2
  MaximumBytes = 3
  MaxPush = 3
INVARIANTS
  DropsExact
  BoundsKept
  DescriptorAgrees
PROPERTIES
  WaitersServed
