SPECIFICATION AppFairSpec
CONSTANTS
  Plugin = {db, cache, web}
  Schedules = {web}
  Hooks = {db, cache, web}
  db = db
  cache = cache
  web = web
INVARIANTS
  DependentsCloseFirst
  TasksSeeBuiltPlugins
  DependenciesFirst
  OutcomeByDependencies
  NothingRegisteredIsForgotten
PROPERTIES
  BuildEnds
  ImplementsOrder
CHECK_DEADLOCK FALSE
