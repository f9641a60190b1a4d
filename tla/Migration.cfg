SPECIFICATION Spec
CONSTANTS
  i1 = i1
  i2 = i2
  b1 = b1
  b2 = b2
  s1 = s1
  Specs = {s1}
  Instances = {i1, i2}
  Bindings = {b1, b2}
  SpecOf <- OneSpec
  InstanceOf <- OfFirst
  KeptJobs <- SomeJobs
  MaxFaults = 2
  MaxCrashes = 1
  MaxRuns = 2
INVARIANTS TypeOK Complete NothingLeft NoOrphans
PROPERTIES SucceedsAgain
CHECK_DEADLOCK FALSE
