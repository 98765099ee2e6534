------------------------------- MODULE Things -------------------------------
(***************************************************************************)
(* The components of a Thing: the values its properties hold, their        *)
(* containers, its state machine, its registries and those of the process, *)
(* and the two kinds of storage, of which the JSON file is used by one     *)
(* thread or by several.  They share no variable.  One of them runs,       *)
(* `part`; the others keep an initial state.                               *)
(***************************************************************************)
EXTENDS PropertyValues

CONSTANTS
    ThingClasses, StateThreads, ServedBy, Guarded, MachineStates,       \* ThingStates
    InitialState, Machines, Machineless, PlainEnum, OnEnter, OnExit,
    Unchecked, MaxMoves,
    Contained, Kind, Constant, Low, High, Items, DictKeys, BadKeys,     \* TypedContainers
    Unspecified, Refs, ContainerThreads, Operations,
    MemberProperties, MemberEvents, Observable, Remote, PersistMembers, \* ThingRegistries
    CommitMembers, InitialMembers, ChangeEventOf, Late, MemberValues,
    MemberDefault, Loops, MaxOperations,
    Backend, TableThings, IdOf, Columns, PropertiesOf, CommitOnly,      \* PropertyTables
    TableValues, TableDefault, Encodings, KnownFormats, Nested,
    MaxStarts, MaxWrites,
    Modules, Registered, Registrations, EncodedObjects, EncodedThings,  \* SerializerRegistry
    ClassOf, Importers, Validators, MaxRegistrations, Flags,
    OneThread, Initial, WithBad, Bad,                                   \* PropertyStore, alone
    TwoThreads, Sound, MaxCrashes,                                      \* PropertyStore, shared
    Persist, StoreCommit, StoreDefault,                                 \* PropertyStore, both
    Parts,          \* those that may run
    None

VARIABLES
    part,
    created, listed, kept, stack, news, trail, entered, left, wrote, failed, moves,
    inner, prop, checked, bypassed, last,
    members, cache, dispatchers, made, value, old, stored, bus, registered, told,
    strayed, cleared, operations,
    rows, serializer, known, loaded, session, batch, written, broken, starts, writes,
    attribute, imports, typeNames, serializerOf, typeOf, touched, registrations,
    sent, predicates, flags, order,
    phase, memory, data, file, lock, pc, target, val, before, seen, pushed, todo,
    crashes, ledger, struck

statesVars == <<created, listed, kept, stack, news, trail, entered, left, wrote, failed, moves>>
containersVars == <<inner, prop, checked, bypassed, last>>
registriesVars == <<members, cache, dispatchers, made, value, old, stored, bus, registered, told,
                    strayed, cleared, operations>>
tablesVars == <<rows, serializer, known, loaded, session, batch, written, broken, starts, writes>>
adaptersVars == <<attribute, imports, typeNames, serializerOf, typeOf, touched, registrations,
                  sent, predicates, flags, order>>
storeVars == <<phase, memory, data, file, lock, pc, target, val, before, seen, pushed, todo,
               crashes, ledger, struck>>
allVars == <<part, vars, statesVars, containersVars, registriesVars, tablesVars, adaptersVars,
             storeVars>>

(***************************************************************************)
(* The components.                                                         *)
(***************************************************************************)
States == INSTANCE ThingStates WITH
    Classes <- ThingClasses, Threads <- StateThreads, Objects <- Guarded, States <- MachineStates

Containers == INSTANCE TypedContainers WITH
    Properties <- Contained, Keys <- DictKeys, Threads <- ContainerThreads

Registries == INSTANCE ThingRegistries WITH
    Properties <- MemberProperties, Events <- MemberEvents, Persist <- PersistMembers,
    Commit <- CommitMembers, Initial <- InitialMembers, Values <- MemberValues,
    Default <- MemberDefault, created <- made

Tables == INSTANCE PropertyTables WITH
    Things <- TableThings, Properties <- Columns, Values <- TableValues, Default <- TableDefault,
    value <- loaded

Adapters == INSTANCE SerializerRegistry WITH
    Objects <- EncodedObjects, Things <- EncodedThings, Threads <- Importers

Alone == INSTANCE PropertyStore WITH
    Threads <- OneThread, Commit <- StoreCommit, Values <- WithBad, Default <- StoreDefault,
    MaxCrashes <- 0,
    value <- memory, prop <- target, old <- before, last <- pushed, stored <- ledger

Shared == INSTANCE PropertyStore WITH
    Threads <- TwoThreads, Commit <- StoreCommit, Initial <- {}, Values <- Sound,
    Default <- StoreDefault, Bad <- {},
    value <- memory, prop <- target, old <- before, last <- pushed, stored <- ledger

ASSUME ThingsAssumption ==
    /\ States!StatesAssumption /\ Containers!ContainersAssumption
    /\ Registries!RegistriesAssumption /\ Tables!TablesAssumption
    /\ Adapters!RegistryAssumption /\ Alone!StoreAssumption /\ Shared!StoreAssumption
    /\ \E t \in OneThread : OneThread = {t}

(***************************************************************************)
(* The composition.                                                        *)
(***************************************************************************)
ThingsInit ==
    /\ part \in Parts
    /\ Init /\ States!Init /\ Containers!Init /\ Registries!Init /\ Tables!Init /\ Adapters!Init
    /\ IF part = "shared" THEN Shared!Init ELSE Alone!Init

ThingsNext ==
    /\ UNCHANGED part
    /\ IF part = "values" THEN Next ELSE UNCHANGED vars
    /\ IF part = "states" THEN States!Next ELSE UNCHANGED statesVars
    /\ IF part = "containers" THEN Containers!Next ELSE UNCHANGED containersVars
    /\ IF part = "registries" THEN Registries!Next ELSE UNCHANGED registriesVars
    /\ IF part = "tables" THEN Tables!Next ELSE UNCHANGED tablesVars
    /\ IF part = "adapters" THEN Adapters!Next ELSE UNCHANGED adaptersVars
    /\ IF part = "alone" THEN Alone!Next
       ELSE IF part = "shared" THEN Shared!Next ELSE UNCHANGED storeVars

ThingsSpec == ThingsInit /\ [][ThingsNext]_allVars

(***************************************************************************)
(* Properties of the components, each for the part that runs.              *)
(***************************************************************************)

\* The value a reader gets is one its type allows, whatever was written,
\* cropped or restored; a restart loses only what JSON cannot represent; and
\* the types of properties adapt a value as the parameters of the same name
\* do, count the groups of an address and find a path again
\* (validate_and_adapt() in properties.py and parameters.py, meta.py:665).
ValuesSurvive ==
    part = "values" => /\ TypeOK /\ ReadsAreLegal /\ LosesOnlyUnrepresentable
                       /\ TwinsAgree /\ CountsGroups /\ PathReadsBack

\* Callbacks that set the state in turn run once for each state entered or
\* left, and the change events tell the states in the order the Thing went
\* through them (set_state(), state_machine.py:330).
TransitionsAreTold ==
    part = "states" => States!TypeOK /\ States!CallbacksMatch /\ States!NewsIsTrail

\* What is in a typed container has its type, and its length overshoots the
\* bound by no more than the threads that insert at once, whatever operations
\* put it there (the _validate methods of parameters.py).
ContentsAreTyped ==
    part = "containers" =>
        Containers!TypeOK /\ Containers!ItemsTyped /\ Containers!NearlyBounded

\* What is refused changes nothing: a constant that was set keeps its value
\* through writes and restarts, and an operation on a container that raises
\* leaves it as it was (parameterized.py:459, parameters.py:2424).
RefusedChangesNothing == ConstantStays /\ Containers!FailuresChangeNothing

\* However members are added at runtime and caches cleared: the registries
\* that are described are those of the class, a cleared cache is filled anew
\* (but for two of them), and what is stored is what is held (meta.py:293,
\* :609 and :790, property.py:331).
RegistriesAgree ==
    part = "registries" => /\ Registries!TypeOK /\ Registries!ClearedSeesAllButTwo
                           /\ Registries!DescribedIsRegistered /\ Registries!StoredIsHeld

\* A row of the database is the last value stored for it, by whichever Thing
\* of its ID, and a batch that has ended is stored (sqlalchemydb.py:469).
TablesFollow ==
    part = "tables" => Tables!TypeOK /\ Tables!RowsAreLastStored /\ Tables!QuietIsStored

\* A reply is decoded with the serializer it was encoded with, whatever was
\* registered or is being imported; a reset takes all of it back; the validator
\* registered last is asked first (operations.py:360, injection.py:107).
AdaptersFit ==
    part = "adapters" => /\ Adapters!TypeOK /\ Adapters!LabelDecodes
                         /\ Adapters!PristineAfterReset /\ Adapters!LaterPreferred

\* One thread: its writes are all stored, and the last one was pushed
\* (property.py:108 and :116).  Two threads and crashes: the file holds the
\* last save, follows the storage and restores it (jsonfile.py:92).
FileFollows ==
    /\ part = "alone" => /\ Alone!TypeOK /\ Alone!EveryWriteIsStored
                         /\ Alone!LastOperationWasPushed /\ Alone!FileHoldsLastSave
    /\ part = "shared" => /\ Shared!TypeOK /\ Shared!FileHoldsLastSave
                          /\ Shared!FileFollowsStorage /\ Shared!RestoresLastSave

\* An event over ZMQ is decoded with the serializer it was encoded with:
\* "automatic deserialization on client side" (injection.py:492).
EventsDecode == part = "adapters" => Adapters!EventsDecode

\* A file that cannot be decoded is loaded as empty (jsonfile.py:79).
LoadNeverRaises == part = "shared" => Shared!LoadNeverRaises
=============================================================================
