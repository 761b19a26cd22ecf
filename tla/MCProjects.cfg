SPECIFICATION MCSpec
CONSTANTS
  l1 = l1
  l2 = l2
  c1 = c1
  c2 = c2
  r1 = r1
  r2 = r2
  ListOrder <- TwoLists
  Names <- TwoNames
  Slugs <- TwoNames
  SlugOf <- SlugOfTwo
  PrefixOf <- SamePrefix
  Cycles <- TwoCycles
  MaxRenames = 2
  MaxFaults = 1
  Requests <- TwoRequests
  MaxVersions = 4
INVARIANTS OneActiveUnlessOverlapped
PROPERTIES ProjectsCatchUp ProjectsShowOneFetch ActiveIsHandedOver
