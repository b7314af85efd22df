SPECIFICATION FairSpec
CONSTANTS
  Task = {web, grpc, stream}
  Hook = {pool, registry, tracer}
  web = web
  grpc = grpc
  stream = stream
  pool = pool
  registry = registry
  tracer = tracer
INVARIANTS
  NoHookBesideTasks
  NoHookSkipped
PROPERTIES
  ShutdownEnds
CHECK_DEADLOCK FALSE
