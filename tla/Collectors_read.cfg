SPECIFICATION CollectSpec
CONSTANTS
  Plugin = {web, users, orders}
  Reader = web
  Registrants = {users, orders}
  web = web
  users = users
  orders = orders
SYMMETRY Symmetry
INVARIANTS
  EarlyRegistrationsInUse
  LateReadersMissNothing
  AllHandlersOrNone
CHECK_DEADLOCK FALSE
