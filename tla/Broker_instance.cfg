SPECIFICATION Spec
CONSTANTS
  Instance = instance
  Bindings = {b1, b2}
  Tokens = {r1, r2}
  Params = {p1, p2}
  NoParams = NoParams
  NoToken = NoToken
  Operations = {"provision", "update", "deprovision", "bind", "unbind"}
  Dashboards = {"provision"}
  InitObjects = {{}, {instance, b1}}
  Overlap = "all"
  Stores = {"crd"}
  MaxCrashes = 1
  b1 = b1
  b2 = b2
  instance = instance
  r1 = r1
  r2 = r2
  p1 = p1
  p2 = p2
SYMMETRY Alike
INVARIANTS TypeOK SuccessIsTrue BoundIsListed
PROPERTIES RecordedJobsKept UndoneBeforeForgotten
CHECK_DEADLOCK FALSE
