SPECIFICATION Spec
CONSTANTS
  u1 = u1
  f1 = f1
  f2 = f2
  Users <- OneUser
  Filters <- TwoFilters
  Owner <- BothOfOne
  DueAt <- DueMidnight
  MaxLots = 2
  PerFilter = 1
  Day = 6
  Cooldown = 3
  Runners <- Both
  Templates <- AllTemplates
  MaxEvents = 1
INVARIANTS
  ToldOnce
PROPERTIES
  MessagesAreCurrent
  
