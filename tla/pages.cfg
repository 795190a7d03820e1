SPECIFICATION FairSpec
CONSTANTS
  MaxMoves = 3
  MaxClicks = 2
  MaxBreaks = 2
INVARIANTS QuietWhenAway NothingLeftBehind RowsAreNewest
PROPERTIES StreamComesBack
CHECK_DEADLOCK FALSE
