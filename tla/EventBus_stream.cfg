CONSTANTS
  Events = {measured}
  Pushers = {t1}
  Listeners = {web}
  EventOf <- OneEvent
  Direct = {}
  Fragile = {}
  Streams = {web}
  MaxSize = 1
  MaxPushes = 2
  None = None
SPECIFICATION FairSpec
PROPERTY StreamEnds
CHECK_DEADLOCK FALSE
