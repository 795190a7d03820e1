SPECIFICATION FairSpec
CONSTANTS
  s1 = s1
  s2 = s2
  k1 = k1
  k2 = k2
  k3 = k3
  Sources <- TwoSources
  Keys <- ThreeKeys
  SourceOf <- TwoAndOne
  Columns <- TwoColumns
  Compared <- OnlyPrice
  Bad <- FirstBad
  Runners <- Both
  Changing <- FirstChanges
  MaxVersion = 1
  MaxFaults = 1
INVARIANTS
  OkMeansAllStored
PROPERTIES
  TickVisitsAll
  CatchesUp
