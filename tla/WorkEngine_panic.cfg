SPECIFICATION Spec
CONSTANTS
  Jobs = {j1}
  Subscribers = {prompt, late}
  Slow = {late}
  Topics = {provision}
  NoTopic = NoTopic
  BufferSize = 1
  MaxMsgs = 2
  j1 = j1
  prompt = prompt
  late = late
  provision = provision
INVARIANT NoSendOnClosedChannel
CHECK_DEADLOCK FALSE
