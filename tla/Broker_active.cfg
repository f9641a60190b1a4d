SPECIFICATION Spec
CONSTANTS
  Instance = instance
  Bindings = {b1}
  Tokens = {r1, r2}
  Params = {p1}
  NoParams = NoParams
  NoToken = NoToken
  Operations = {"bind", "deprovision"}
  Dashboards = {}
  InitObjects = {{instance}}
  Overlap = "none"
  Stores = {"crd"}
  MaxCrashes = 0
  instance = instance
  b1 = b1
  p1 = p1
  r1 = r1
  r2 = r2
PROPERTIES NoActiveBindingLeft
CHECK_DEADLOCK FALSE
