SPECIFICATION SiteSpec
CONSTANTS
  all = all
  cars = cars
  s1 = s1
  s2 = s2
  Lots <- SomeLots
  Filters <- TwoFilters
  Unfiltered = all
  Matches <- Matching
  Price <- Prices
  Vehicles <- Cars
  Seeds <- TwoSeeds
  Hash <- Hashes
  Tables <- AllOrOneLess
  Hearts <- OneHeart
  PageSize = 2
  MaxEvents = 3
INVARIANTS GridAnswersState PagesPartition NothingFoundIsTrue HeartTells
CHECK_DEADLOCK FALSE
