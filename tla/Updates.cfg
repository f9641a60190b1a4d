SPECIFICATION Spec
CONSTANTS
  x = x
  y = y
  z = z
  v = v
  w = w
  g1 = g1
  g2 = g2
  NoGroup = NoGroup
  Nowhere = Nowhere
  Names = {x, y, z}
  Texts = {v, w}
  Groups = {g1, g2}
  PlanNames = {"small", "large"}
  UpdatesTo <- OneWay
  Descriptors <- Some
  InUse <- SomeInUse
  MaxParameters = 3
  MaxTogether = 2
SYMMETRY Alike
INVARIANTS TypeOK FormsAreWhole OfferedOnce OffersWhatItTakes EchoAccepted
PROPERTIES RetryChangesNothing
CHECK_DEADLOCK FALSE
