CONSTANTS
  Patterns <- Sets
  Limits <- Zero
  NoLimit = NoLimit
  Steps = {1}
  Sizes = {0, 1, 2}
  ItemTypes <- IntsOrAny
  Offers <- Objects
  OfferedClasses <- IntOrText
  SearchPaths <- Root
  FileSystem <- Files
  WorkingDirectory <- Cwd
  Descriptors <- Options
  Defaults <- Some
  Given <- GivenTo
  Pieces <- Colons
  None = None
  ThingClasses = {"laser"}
  StateThreads = {"t1"}
  ServedBy <- ServesLaser
  Guarded = {"power", "fire"}
  MachineStates = {"off", "warm", "on"}
  InitialState = "off"
  Machines <- FireWhenOn
  Machineless = {}
  PlainEnum = FALSE
  OnEnter <- WarmsUp
  OnExit <- Leaving
  Unchecked = TRUE
  MaxMoves = 6
  Contained = {"numbers", "form"}
  Kind <- ListAndMapping
  Constant = {"form"}
  Low = 1
  High = 2
  Items = {"int", "word"}
  DictKeys = {"a"}
  BadKeys = {"x"}
  Unspecified = FALSE
  Refs = {1, 2}
  ContainerThreads = {"t1", "t2"}
  Operations <- AllOperations
  MemberProperties = {"power", "mode", "gain"}
  MemberEvents = {"alarm", "drift"}
  Observable = {"power", "gain"}
  Remote = {"power", "mode"}
  PersistMembers = {"power", "gain"}
  CommitMembers = {"mode"}
  InitialMembers = {}
  ChangeEventOf <- ChangesOf
  Late = {"gain", "drift"}
  MemberValues = {"v0", "v1"}
  MemberDefault = "v0"
  Loops = {"l1", "l2"}
  MaxOperations = 4
  Backend = "sql"
  TableThings = {"t1", "t2"}
  IdOf <- OneID
  Columns = {"gain", "mode", "offset"}
  PropertiesOf <- OfThing
  CommitOnly = {"mode"}
  TableValues = {0, 1}
  TableDefault = 0
  Encodings <- OneFormat
  KnownFormats <- JSONOrBoth
  Nested = FALSE
  MaxStarts = 2
  MaxWrites = 2
  Modules <- BuiltIn
  Registered <- BuiltInTypes
  Registrations <- Custom
  EncodedObjects = {"gain"}
  EncodedThings = {"spectrometer"}
  ClassOf <- ClassOfThing
  Importers = {"t1"}
  Validators = {"json_schema", "pydantic"}
  MaxRegistrations = 2
  Flags <- BackendFlags
  OneThread = {"t1"}
  Initial = {"home"}
  WithBad = {"v0", "v1", "bad"}
  Bad = {"bad"}
  TwoThreads = {"t1", "t2"}
  Sound = {"v0", "v1"}
  MaxCrashes = 2
  Persist = {"power"}
  StoreCommit = {"count"}
  StoreDefault = "v0"
  Parts = {"adapters"}
SPECIFICATION MCSpec
INVARIANT EventsDecode
CHECK_DEADLOCK FALSE
