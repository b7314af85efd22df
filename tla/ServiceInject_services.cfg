SPECIFICATION MCSpec
CONSTANTS
  Service = {user, order, stock}
  External = {pool}
  pool = pool
  user = user
  order = order
  stock = stock
INVARIANTS
  InjectionOutcome
  NeedsInstalledFirst
  PluginOptionsGiven
PROPERTY InjectionEnds
CHECK_DEADLOCK FALSE
