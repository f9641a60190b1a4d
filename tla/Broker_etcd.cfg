SPECIFICATION Spec
CONSTANTS
  Instance = instance
  Bindings = {b1}
  Tokens = {r1, r2, r3}
  Params = {p1}
  NoParams = NoParams
  NoToken = NoToken
  Operations = {"deprovision", "bind", "unbind"}
  Dashboards = {}
  InitObjects = {{instance}, {instance, b1}}
  Overlap = "jobs"
  Stores = {"etcd"}
  MaxCrashes = 0
  instance = instance
  b1 = b1
  r1 = r1
  r2 = r2
  r3 = r3
  p1 = p1
SYMMETRY Alike
INVARIANTS FetchableWhenBound EndIsRecorded
PROPERTIES BindNamesItsJob
CHECK_DEADLOCK FALSE
