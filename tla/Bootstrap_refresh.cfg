SPECIFICATION Spec
CONSTANTS
  Specs = {s1, s2, pushed}
  Registries = {strict, lenient}
  Pushed = Pushed
  From <- Origin
  Fatal = {strict}
  Instances = {i1}
  NoSpec = NoSpec
  Bootstrappers = {ticker}
  MaxEdits = 1
  MaxCrashes = 1
  s1 = s1
  s2 = s2
  pushed = pushed
  strict = strict
  lenient = lenient
  i1 = i1
  ticker = ticker
INVARIANT TypeOK
PROPERTIES UsedSpecKept HiddenBeforeDeleted OnlyLoadedShown SweptInTheEnd
CHECK_DEADLOCK FALSE
