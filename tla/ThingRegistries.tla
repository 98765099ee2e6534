-------------------------- MODULE ThingRegistries --------------------------
(***************************************************************************)
(* What a Thing keeps about its members (core/meta.py): the registries of  *)
(* its properties and events with their caches, each computed when it is   *)
(* first read; members that are added to the class at runtime; and the     *)
(* event bus (core/events.py, core/property.py) on which it tells changes, *)
(* from its construction (core/thing.py) over one event loop or another.   *)
(***************************************************************************)
EXTENDS Naturals, FiniteSets

CONSTANTS
    Properties, Events,
    Observable, Remote, Persist, Commit, Initial,   \* sets of properties
    ChangeEventOf,  \* [Observable -> the change event of the property]
    Late,           \* members that the class gets at runtime
    Values, Default,
    Loops,          \* event loops, each with its bus
    MaxOperations,
    None

ChangeEvent(p) == ChangeEventOf[p]
ChangeEvents == {ChangeEvent(p) : p \in Observable}
MemberSet(ms) == ms \cup {ChangeEvent(p) : p \in ms \cap Observable}

RegistriesAssumption ==
    /\ Observable \cup Remote \cup Persist \cup Commit \cup Initial \subseteq Properties
    /\ Late \subseteq Properties \cup Events /\ Default \in Values
    /\ DOMAIN ChangeEventOf = Observable
    /\ None \notin Values \cup Loops /\ \A es \in SUBSET (Events \cup ChangeEvents) : es # None
    /\ MaxOperations \in Nat

(***************************************************************************)
(* Registries, what each is computed from, and what it selects.            *)
(***************************************************************************)
Stored == Persist \cup Commit \cup Initial
Computed ==
    [properties    |-> [from |-> "class", of |-> Properties],
     remote        |-> [from |-> "properties", of |-> Remote],
     db            |-> [from |-> "properties", of |-> Stored],
     db_init       |-> [from |-> "db", of |-> Persist \cup Initial],
     db_commit     |-> [from |-> "db", of |-> Persist \cup Commit],
     db_persisting |-> [from |-> "db", of |-> Persist],
     events        |-> [from |-> "class", of |-> Events \cup ChangeEvents],
     plain         |-> [from |-> "events", of |-> Events],
     change_events |-> [from |-> "events", of |-> ChangeEvents]]
Registries == DOMAIN Computed

VARIABLES
    members,    \* of the class
    cache,      \* each registry of the Thing, None before it is read
    dispatchers, \* events.values: the bus of each event when it was read, or None
    created,
    value, old, \* the Thing's dictionary: values, and those of the last operation
    stored,     \* the storage
    bus,        \* the event loop that serves the Thing, None before
    registered, \* EventBus: the events registered at each
    told,       \* history: the last change told at the present bus
    strayed,    \* history: an event went to a bus that does not serve the Thing
    cleared,    \* history: the last clear() saw the whole class; and was after bus
    operations

kept == <<value, old, stored, told>>
vars == <<members, cache, dispatchers, created, kept, bus, registered, strayed, cleared, operations>>

Nothing == [r \in Registries |-> None]

TypeOK ==
    /\ members \subseteq Properties \cup Events \cup ChangeEvents
    /\ \A r \in Registries : cache[r] # None => cache[r] \subseteq Computed[r].of
    /\ dispatchers # None =>
         /\ DOMAIN dispatchers \subseteq Events \cup ChangeEvents
         /\ \A e \in DOMAIN dispatchers : dispatchers[e] \in Loops \cup {None}
    /\ {value, old, stored, told} \subseteq [Properties -> Values \cup {None}]
    /\ bus \in Loops \cup {None}
    /\ registered \in [Loops -> SUBSET (Events \cup ChangeEvents)]
    /\ {created, strayed} \subseteq BOOLEAN
    /\ cleared \in [all : BOOLEAN, unbound : BOOLEAN] /\ operations \in 0..MaxOperations

Init ==
    /\ members = MemberSet((Properties \cup Events) \ Late)
    /\ cache = Nothing /\ dispatchers = None /\ created = FALSE
    /\ value = [p \in Properties |-> Default]
    /\ old = [p \in Properties |-> None] /\ stored = old /\ told = old
    /\ bus = None /\ registered = [l \in Loops |-> {}]
    /\ strayed = FALSE /\ cleared = [all |-> FALSE, unbound |-> FALSE] /\ operations = 0

Operation == created /\ operations < MaxOperations /\ operations' = operations + 1

(***************************************************************************)
(* Reading registries.  Mutant: each is computed from the class.           *)
(***************************************************************************)
FromClass(c, r) == IF c[r] # None THEN c[r] ELSE members \cap Computed[r].of

Contents(c, r) ==
    LET of[q \in Registries] ==
          IF c[q] # None THEN c[q]
          ELSE Computed[q].of \cap (IF Computed[q].from = "class" THEN members ELSE of[Computed[q].from])
    IN of[r]

\* The registries that are computed when r is read.
Misses(c, r) ==
    LET of[q \in Registries] ==
          IF c[q] # None THEN {}
          ELSE {q} \cup (IF Computed[q].from = "class" THEN {} ELSE of[Computed[q].from])
    IN of[r]

Read(c, r) == [q \in Registries |-> IF q \in Misses(c, r) THEN Contents(c, q) ELSE c[q]]

ReadRegistry(r) ==
    /\ Operation
    /\ cache' = Read(cache, r)
    /\ UNCHANGED <<members, dispatchers, created, kept, bus, registered, strayed, cleared>>

\* get_values() of the events
ReadDispatchers ==
    /\ Operation /\ dispatchers = None
    /\ cache' = Read(cache, "events")
    /\ dispatchers' = [e \in Contents(cache, "events") |-> bus]
    /\ UNCHANGED <<members, created, kept, bus, registered, strayed, cleared>>

\* clear() of both registries.
Clear ==
    /\ Operation
    /\ cache' = [r \in Registries |-> IF r \in {"db_commit", "plain"} THEN cache[r] ELSE None]
    /\ dispatchers' = None
    /\ cleared' = [all |-> TRUE, unbound |-> bus # None]
    /\ UNCHANGED <<members, created, kept, bus, registered, strayed>>

\* The class gets a member: setattr() and __set_name__().
AddMember(m) ==
    /\ m \in Late \ members
    /\ members' = members \cup MemberSet({m})
    /\ cleared' = [cleared EXCEPT !.all = FALSE]
    /\ UNCHANGED <<cache, dispatchers, created, kept, bus, registered, strayed, operations>>

(***************************************************************************)
(* A Thing of the class is created, with values for some properties.       *)
(***************************************************************************)
Create(given) ==
    /\ ~created /\ created' = TRUE
    /\ cache' = Read(Nothing, "db_init")
    /\ LET loaded == Contents(Nothing, "db_init")
           missing == {p \in loaded : stored[p] = None}
           own == [p \in Properties |-> IF p \in DOMAIN given /\ p \in members THEN given[p] ELSE Default]
       IN /\ value' = [p \in Properties |-> IF p \in loaded \ missing THEN stored[p] ELSE own[p]]
          /\ stored' = [p \in Properties |-> IF p \in missing THEN own[p] ELSE stored[p]]
    /\ UNCHANGED <<members, dispatchers, old, told, bus, registered, strayed, cleared, operations>>

\* The Thing goes away; its class and what is stored stay.
Destroy ==
    /\ Operation
    /\ created' = FALSE
    /\ cache' = Nothing /\ dispatchers' = None
    /\ value' = [p \in Properties |-> Default]
    /\ old' = [p \in Properties |-> None] /\ told' = [p \in Properties |-> None]
    /\ bus' = None /\ registered' = [l \in Loops |-> {}]
    /\ cleared' = [all |-> FALSE, unbound |-> FALSE]
    /\ UNCHANGED <<members, stored, strayed>>

\* EventLoop.add_thing()
Bind(l) ==
    /\ Operation /\ bus # l
    /\ bus' = l
    /\ cache' = Read(cache, "events")
    /\ registered' = [registered EXCEPT ![l] = @ \cup Contents(cache, "events")]
    /\ told' = [p \in Properties |-> None]
    /\ cleared' = [cleared EXCEPT !.unbound = FALSE]
    /\ UNCHANGED <<members, dispatchers, created, value, old, stored, strayed>>

(***************************************************************************)
(* push_change_event() with value v; it raises for an event that is not    *)
(* registered, after the old value was replaced.                           *)
(* Mutant: the value is stored only if the event was pushed.               *)
(***************************************************************************)
Tells(p, v) == p \in Observable /\ bus # None /\ old[p] # v

PushChange(p, v) ==
    /\ old' = IF p \in Observable /\ bus # None THEN [old EXCEPT ![p] = v] ELSE old
    /\ told' = IF Tells(p, v) /\ ChangeEvent(p) \in registered[bus]
               THEN [told EXCEPT ![p] = v] ELSE told

WriteStoredLast(p, v) ==
    /\ Operation /\ p \in members
    /\ value' = [value EXCEPT ![p] = v]
    /\ PushChange(p, v)
    /\ stored' = IF p \in Persist \cup Commit
                      /\ (Tells(p, v) => ChangeEvent(p) \in registered[bus])
                 THEN [stored EXCEPT ![p] = v] ELSE stored
    /\ UNCHANGED <<members, cache, dispatchers, created, bus, registered, strayed, cleared>>

Write(p, v) ==
    /\ Operation /\ p \in members
    /\ value' = [value EXCEPT ![p] = v]
    /\ stored' = IF p \in Persist \cup Commit THEN [stored EXCEPT ![p] = v] ELSE stored
    /\ PushChange(p, v)
    /\ UNCHANGED <<members, cache, dispatchers, created, bus, registered, strayed, cleared>>

ReadProperty(p) ==
    /\ Operation /\ p \in members
    /\ PushChange(p, value[p])
    /\ UNCHANGED <<members, cache, dispatchers, created, value, stored, bus, registered, strayed, cleared>>

\* push() of a dispatcher that was read before
PushCached(e) ==
    /\ Operation /\ dispatchers # None /\ e \in DOMAIN dispatchers
    /\ strayed' = (strayed \/ (dispatchers[e] \notin {None, bus} /\ e \in registered[dispatchers[e]]))
    /\ UNCHANGED <<members, cache, dispatchers, created, kept, bus, registered, cleared>>

Givens == [Properties \cap (Persist \cup Observable) -> Values] \cup {[p \in {} |-> Default]}

Next ==
    \/ \E given \in Givens : Create(given)
    \/ Destroy \/ Clear \/ ReadDispatchers
    \/ \E r \in Registries : ReadRegistry(r)
    \/ \E m \in Late : AddMember(m)
    \/ \E l \in Loops : Bind(l)
    \/ \E p \in Properties : ReadProperty(p) \/ \E v \in Values : Write(p, v)
    \/ \E e \in Events \cup ChangeEvents : PushCached(e)

Spec == Init /\ [][Next]_vars

(***************************************************************************)
(* Properties.                                                             *)
(***************************************************************************)

\* After clear() every registry shows all that the class has ("call this
\* method once if new descriptors are added", meta.py:182), but for the two
\* that it forgets to clear.
ClearedSeesAllButTwo ==
    cleared.all => \A r \in Registries \ {"db_commit", "plain"} :
        Contents(cache, r) = members \cap Computed[r].of

\* ... all of them.  Not so for the plain events and for db_commit_objects.
ClearedSeesAll ==
    cleared.all => \A r \in Registries : Contents(cache, r) = members \cap Computed[r].of

\* A Thing Description (tm.py:268) shows no event that the event loop serving
\* the Thing would refuse to publish, whatever was added to the class
\* meanwhile, unless the registries were cleared since.
DescribedIsRegistered ==
    bus # None /\ ~cleared.unbound => Contents(cache, "plain") \subseteq registered[bus]

\* A Thing holds what is stored of it: the values its constructor was given,
\* its defaults, what was stored before and what was written since, although
\* a write may raise after it is done (meta.py:656, property.py:331).
StoredIsHeld ==
    created => \A p \in Persist : stored[p] = value[p] \/ (p \in Late /\ stored[p] = None)

\* While one event loop serves the Thing, its last change event tells what was
\* read or written last.  Not so for a second loop: what was told on the first
\* is not told again (property.py:277).
ToldOnThisBus ==
    \A p \in Observable : bus # None /\ ChangeEvent(p) \in registered[bus] /\ old[p] # None => told[p] = old[p]

\* A dispatcher that was read pushes to the bus that serves the Thing.  Not so
\* with the cached ones, once another loop serves it (meta.py:293).
DispatchersFollow == ~strayed
=============================================================================
