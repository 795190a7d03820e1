SPECIFICATION Spec
CONSTANTS
  u1 = u1
  u2 = u2
  c1 = c1
  c2 = c2
  r1 = r1
  r2 = r2
  None = None
  Users <- TwoUsers
  Chats <- TwoChats
  Requests <- TwoRequests
  MaxTokens = 3
  MaxRequests = 3
INVARIANTS
  RevokedStaysRevoked
PROPERTIES
  LinksAreWanted
  FreshTokenLives
  UnracedTakesEffect
SYMMETRY Symmetric
CHECK_DEADLOCK FALSE
