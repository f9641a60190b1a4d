SPECIFICATION Spec
CONSTANTS
  Instance = instance
  Bindings = {b1}
  Tokens = {r1, r2}
  Params = {p1}
  NoParams = NoParams
  NoToken = NoToken
  Operations = {"provision", "update", "deprovision", "bind", "unbind"}
  Dashboards = {}
  InitObjects = {{}, {instance}, {instance, b1}}
  Overlap = "none"
  Stores = {"crd", "etcd"}
  MaxCrashes = 0
  b1 = b1
  r1 = r1
  r2 = r2
  p1 = p1
  instance = instance
INVARIANT NoSecretLeft
PROPERTIES RefusedWhileBound AcceptedEnds DeprovisionCompletes RemovedUnbound LifeSpec RemovedStaysRemoved
CHECK_DEADLOCK FALSE
