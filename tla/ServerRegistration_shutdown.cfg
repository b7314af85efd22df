SPECIFICATION Spec
CONSTANTS
  Server = {http, grpc}
  Graceful = {http, grpc}
  OtherHooks = {pool}
  http = http
  grpc = grpc
  pool = pool
SYMMETRY Symmetry
INVARIANT AllDeregistered
CHECK_DEADLOCK FALSE
