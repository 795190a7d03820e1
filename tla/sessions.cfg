SPECIFICATION Spec
CONSTANTS
  u1 = u1
  t1 = t1
  t2 = t2
  c1 = c1
  c2 = c2
  Users <- OneUser
  Tabs <- TwoTabs
  Calls <- TwoCalls
  TabOf <- SameTab
  Quiet <- FirstQuiet
  MaxLogins = 2
  MaxLogouts = 1
  MaxFaults = 1
INVARIANTS
  ExecutedOnce
  NobodyWaitsInVain
PROPERTIES
  ThrownOutForAReason
  DeadSessionsStayDead
CHECK_DEADLOCK FALSE
