\* One Configure and two Aborts, with an endless stream of tables.
SPECIFICATION Spec
CONSTANTS
  c1 = c1
  c2 = c2
  a1 = a1
  a2 = a2
  Configures <- OneConfigure
  Aborts <- TwoAborts
  DishReaches <- Operates
  MaxTries = 1
  QueueLimit = 1
PROPERTY NothingHangs
