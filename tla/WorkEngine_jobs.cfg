SPECIFICATION Spec
CONSTANTS
  Jobs = {j1, j2}
  Subscribers = {s1}
  Slow = {}
  Topics = {provision, bind}
  NoTopic = NoTopic
  BufferSize = 1
  MaxMsgs = 2
  j1 = j1
  j2 = j2
  s1 = s1
  provision = provision
  bind = bind
PROPERTIES DeliverySpec
CHECK_DEADLOCK FALSE
