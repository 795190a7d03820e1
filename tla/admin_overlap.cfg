SPECIFICATION Spec
CONSTANTS
  u1 = u1
  u2 = u2
  u3 = u3
  r1 = r1
  r2 = r2
  None = None
  Users <- ThreeUsers
  Configured = u3
  FirstAdmins <- TwoUsers
  Patches <- PromoteDemoteBlock
  Requests <- TwoRequests
  MaxRequests = 3
  MaxCrashes = 1
INVARIANTS
  AuditAccounts
PROPERTIES
  LastAdminNeedsRace
  PatchesMerge
CHECK_DEADLOCK FALSE
SYMMETRY SameRequests
