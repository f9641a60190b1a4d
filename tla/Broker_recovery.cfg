SPECIFICATION Spec
CONSTANTS
  Instance = instance
  Bindings = {b1}
  Tokens = {r1, r2}
  Params = {p1}
  NoParams = NoParams
  NoToken = NoToken
  Operations = {"provision", "deprovision", "bind"}
  Dashboards = {}
  InitObjects = {{}, {instance}}
  Overlap = "none"
  Stores = {"crd", "etcd"}
  MaxCrashes = 2
  b1 = b1
  r1 = r1
  r2 = r2
  p1 = p1
  instance = instance
PROPERTIES RecoveredJobsEnd
CHECK_DEADLOCK FALSE
