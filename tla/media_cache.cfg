SPECIFICATION FairSpec
CONSTANTS
  p = p
  q = q
  Urls <- TwoUrls
  Undecodable <- OnlyQ
  MaxLots = 3
  Initial <- TwoLots
  BatchSize = 1
  MaxCrashes = 1
  MaxFails = 1
  MaxEdits = 1
INVARIANT ServedWhole
PROPERTIES EveryImageCached
CHECK_DEADLOCK FALSE
