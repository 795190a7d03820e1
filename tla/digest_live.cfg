SPECIFICATION FairSpec
CONSTANTS
  u1 = u1
  f1 = f1
  f2 = f2
  Users <- OneUser
  Filters <- OneFilter
  Owner <- OneOfOne
  DueAt <- DueMidnight
  MaxLots = 2
  PerFilter = 1
  Day = 6
  Cooldown = 3
  Runners <- Both
  Templates <- AllTemplates
  MaxEvents = 2
PROPERTY EveryLotAnnounced
