SPECIFICATION FairScanSpec
CONSTANTS
  a = a
  b = b
  c = c
  d = d
  e = e
  n = n
  m = m
  Items <- AllItems
  Lots <- SomeLots
  Invalid <- InvalidOnes
  Nameless <- NamelessOnes
  Old <- OldOnes
  Broken <- BrokenOnes
  Initial <- FiveShown
  PageSize = 2
  Served <- ServedSizes
  Limits = {0, 2}
  MaxChanges = 2
  MaxErrors = 1
INVARIANTS FullScanIsComplete PricesReadBack
PROPERTIES ScanEnds
CHECK_DEADLOCK FALSE
