CONSTANTS
  Events = {measured}
  Pushers = {t1, t2}
  Listeners = {web, mqtt, zmq}
  EventOf <- OneEvent
  Direct = {zmq}
  Fragile = {zmq}
  Streams = {web}
  MaxSize = 1
  MaxPushes = 2
  None = None
SPECIFICATION FairSpec
INVARIANTS PayloadsFit
PROPERTIES SilentAfterUnsubscribe ListenersGoOn
CHECK_DEADLOCK FALSE
