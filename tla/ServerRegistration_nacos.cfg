SPECIFICATION FairSpec
CONSTANTS
  Server = {http, grpc}
  Graceful = {http, grpc}
  OtherHooks = {pool}
  http = http
  grpc = grpc
  pool = pool
INVARIANTS
  ServingIsListed
  NothingLeftBehind
PROPERTY SignalEndsRun
CHECK_DEADLOCK FALSE
