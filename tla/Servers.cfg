CONSTANTS
  None = None
  RoutedThings = {"cam", "zoom"}
  ClassOf <- ClassOfCamera
  MembersOf <- MembersOfClass
  KindOf <- KindOfObject
  DefinedIn <- InBodyOf
  ReadOnly = {"serial"}
  Observable = {"exposure"}
  ByHand <- RoutedByHand
  ThingModel = "get_thing_model"
  MaxByHand = 2
  RequestIds = {"q1", "q2", "q3"}
  HTTPInputs <- SomeInputs
  MethodsOf <- MethodsOfHandler
  OnlyListedClients = TRUE
  Secured = TRUE
  AllowUnknown = FALSE
  ZMQServers = {"s1", "s2", "s3", "s4"}
  ServerIds <- IdOfServer
  ProcessOf <- ProcessOfServer
  SocketTransports <- TransportsOfServer
  PortRequested <- PortOfServer
  MaxPort = 4
  Foreign = {2, 3}
  SearchStart = 2
  SearchEnd = 4
  AllRuns = {"r1", "r2"}
  RunIds <- IdOfRun
  EventLoops = {"e1", "e2"}
  LoopsOf <- LoopsOfRun
  Stoppers = {"s1"}
  PublishedThings <- TwoThings
  TopicsOf <- OneTopic
  Unbound = {}
  MaxStarts = 2
  MaxEvents = 1
  LoopTransports = {"ipc", "tcp"}
  LoopRequests = {"r1"}
  LoopInputs <- Sent
  ServedThings = {"t1"}
  OtherThread = FALSE
SPECIFICATION ServersSpec
INVARIANTS RoutesLead  AddressesAreHeld RunsAreRegistered SubscriptionsFit
PROPERTIES StoppedRunReturns StopEndsPublishers
CHECK_DEADLOCK FALSE
