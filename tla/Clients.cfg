CONSTANTS
  Callers = {t1, t2}
  Messages = {call, read}
  Blocking = {call}
  Sync = TRUE
  MayStop = TRUE
  MayDisconnect = TRUE
  None = None
  PoolClients = {"k1"}
  First <- NoClients
  Things = {"t1"}
  Timed = {read}
  MaxStarts = 1
  MaxHandshakes = 1
  Transports = {"ipc", "tcp"}
  Requests = {"r1", "r2"}
  Inputs <- SomeMessages
  OtherThread = FALSE
  Listeners = {"l1", "l2"}
  Streams = {"l2"}
  MaxEvents = 2
  MaxUnsubscribes = 2
  EventLoops = {"zmq", "thing"}
  Waiters = {"w1", "w2", "w3"}
  LoopOf <- TwoLoops
  Setters = {"s1", "s2"}
  Protocols = {"zmq", "http", "mqtt"}
  Properties <- OneProperty
  Actions <- OneAction
  EventLists <- EventsOfThings
  Observable = {"state"}
  ChangeEvent <- ChangeOfState
  OwnAttributes = {"id", "td", "logger"}
  ClassProperties = {"properties", "actions", "events"}
  Ids = {"i1", "i2"}
SPECIFICATION ClientsSpec
INVARIANTS ResponsesAreKept RequestsAreAnswered EventsAreHeard WaitersAreParked RepliesStay
PROPERTIES AnswersArrive   TakenWakes KeepsEventPromise
CHECK_DEADLOCK FALSE
