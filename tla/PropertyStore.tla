--------------------------- MODULE PropertyStore ---------------------------
(***************************************************************************)
(* The properties of one Thing that are kept in a JSON file: the setter    *)
(* and getter of core/property.py, JSONFileStorage of storage/jsonfile.py  *)
(* and load_from_DB() of core/meta.py, which brings the stored values back *)
(* when the Thing is created again.                                        *)
(*                                                                         *)
(* Threads of the Thing (its runner, its threaded actions, its own         *)
(* threads) read and write the properties.  A write sets the value,        *)
(* stores all properties under the storage's lock by rewriting the file,   *)
(* and then pushes a change event; so does a read, without storing.  The   *)
(* process may crash anywhere, also while the file is rewritten.           *)
(***************************************************************************)
EXTENDS Naturals, FiniteSets

CONSTANTS
    Threads,        \* threads of the Thing
    Persist,        \* properties with db_persist: stored and loaded
    Commit,         \* with db_commit: stored, not loaded
    Initial,        \* with db_init: loaded, not stored
    Values, Default,
    Bad,            \* values the serializer does not encode
    MaxCrashes,
    None            \* no value, no thread

Props == Persist \cup Commit \cup Initial
Loaded == Persist \cup Initial

StoreAssumption ==
    /\ Persist \cap Commit = {} /\ Persist \cap Initial = {} /\ Commit \cap Initial = {}
    /\ Default \in Values \ Bad /\ Bad \subseteq Values
    /\ MaxCrashes \in Nat
    /\ None \notin Values \cup Threads \cup Props \cup {"boot"}
    /\ "boot" \notin Threads

VARIABLES
    phase,      \* "down", "loading", "up", or "broken": the load raised
    value,      \* the Thing's own values
    data,       \* _data of the storage: None for what is not in it
    file,       \* the file: [state, data]; an absent file is an empty one
    lock,       \* the thread that holds the storage's lock
    pc, prop, val,      \* each thread: its step, its property, its value
    old,        \* ..._old_value: the value of the last operation
    seen,       \* the old value a thread has read
    last,       \* the value of the last change event pushed
    todo,       \* stored properties the load has yet to set
    crashes,
    stored,     \* history: what the threads saved last, and the load added
    struck      \* history: a crash hit a save

vars == <<phase, value, data, file, lock, pc, prop, val, old, seen, last,
          todo, crashes, stored, struck>>

memory == <<value, old, last>>
storage == <<data, file, lock>>
call == <<prop, val, seen>>
history == <<crashes, stored, struck>>

Procs == Threads \cup {"boot"}
Nothing == [p \in Props |-> None]

Init ==
    /\ phase = "down"
    /\ value = [p \in Props |-> Default] /\ old = Nothing /\ last = Nothing
    /\ data = Nothing /\ file = [state |-> "empty", data |-> Nothing] /\ lock = None
    /\ pc = [t \in Procs |-> "idle"]
    /\ prop = [t \in Procs |-> None] /\ val = [t \in Procs |-> None]
    /\ seen = [t \in Procs |-> None]
    /\ todo = {} /\ crashes = 0 /\ stored = Nothing /\ struck = FALSE

Goto(t, l) == pc' = [pc EXCEPT ![t] = l]

\* The operation is over, returning or raising.
Leave(t) ==
    /\ Goto(t, "idle")
    /\ prop' = [prop EXCEPT ![t] = None] /\ val' = [val EXCEPT ![t] = None]
    /\ seen' = [seen EXCEPT ![t] = None]

(***************************************************************************)
(* Reads and writes.  The setter sets the value first; what follows is     *)
(* _post_value_set().                                                      *)
(***************************************************************************)
Set(t, p, v) ==
    /\ phase = "up" /\ pc[t] = "idle"
    /\ value' = [value EXCEPT ![p] = v]
    /\ prop' = [prop EXCEPT ![t] = p] /\ val' = [val EXCEPT ![t] = v]
    /\ Goto(t, IF p \in Persist \cup Commit THEN "store" ELSE "event")
    /\ UNCHANGED <<phase, storage, old, last, seen, todo, history>>

Get(t, p) ==
    /\ phase = "up" /\ pc[t] = "idle"
    /\ prop' = [prop EXCEPT ![t] = p] /\ val' = [val EXCEPT ![t] = value[p]]
    /\ Goto(t, "event")
    /\ UNCHANGED <<phase, memory, storage, seen, todo, history>>

(***************************************************************************)
(* JSONFileStorage.set_property() and _save(), under the lock.             *)
(***************************************************************************)
\* Mutant: set_property() does not take the lock.
StoreUnlocked(t) ==
    /\ pc[t] = "store"
    /\ lock' = t
    /\ data' = [data EXCEPT ![prop[t]] = val[t]]
    /\ Goto(t, "dump")
    /\ UNCHANGED <<phase, memory, file, call, todo, history>>

Store(t) ==
    /\ pc[t] = "store" /\ lock = None
    /\ lock' = t
    /\ data' = [data EXCEPT ![prop[t]] = val[t]]
    /\ Goto(t, "dump")
    /\ UNCHANGED <<phase, memory, file, call, todo, history>>

\* dumps() raises on any value of the storage, also one of another property;
\* the exception leaves the setter before the change event.
DumpRaises(t) ==
    /\ pc[t] = "dump" /\ \E p \in Props : data[p] \in Bad
    /\ lock' = None
    /\ Leave(t)
    /\ UNCHANGED <<phase, memory, data, file, todo, history>>

\* open(filename, "wb") truncates the file.
Open(t) ==
    /\ pc[t] = "dump" /\ \A p \in Props : data[p] \notin Bad
    /\ file' = [state |-> "empty", data |-> Nothing]
    /\ Goto(t, "write")
    /\ UNCHANGED <<phase, memory, data, lock, call, todo, history>>

\* The bytes reach the file at the latest when it is closed.
Write(t) ==
    /\ pc[t] = "write"
    /\ file' = [state |-> "whole", data |-> data]
    /\ stored' = [p \in Props |-> IF t = "boot" /\ stored[p] # None THEN stored[p] ELSE data[p]]
    /\ lock' = None
    /\ Goto(t, IF t = "boot" THEN "next" ELSE "event")
    /\ UNCHANGED <<phase, memory, data, call, todo, crashes, struck>>

(***************************************************************************)
(* push_change_event(): the old value is read, replaced and compared.      *)
(***************************************************************************)
ReadOld(t) ==
    /\ pc[t] = "event"
    /\ seen' = [seen EXCEPT ![t] = old[prop[t]]]
    /\ Goto(t, "replace")
    /\ UNCHANGED <<phase, memory, storage, prop, val, todo, history>>

ReplaceOld(t) ==
    /\ pc[t] = "replace"
    /\ old' = [old EXCEPT ![prop[t]] = val[t]]
    /\ IF seen[t] = val[t] THEN Leave(t) ELSE Goto(t, "push") /\ UNCHANGED call
    /\ UNCHANGED <<phase, value, last, storage, todo, history>>

PushEvent(t) ==
    /\ pc[t] = "push"
    /\ last' = [last EXCEPT ![prop[t]] = val[t]]
    /\ Leave(t)
    /\ UNCHANGED <<phase, value, old, storage, todo, history>>

(***************************************************************************)
(* The process: crash, and the creation of the Thing with _load() and      *)
(* load_from_DB().  No event is pushed before the Thing is served.         *)
(***************************************************************************)
\* A crash while the file is rewritten leaves it empty, partly written, or,
\* when the bytes were out, whole.
Crash ==
    /\ phase \in {"up", "loading"} /\ crashes < MaxCrashes
    /\ crashes' = crashes + 1
    /\ phase' = "down"
    /\ \/ /\ \A t \in Procs : pc[t] # "write"
          /\ UNCHANGED <<file, stored, struck>>
       \/ /\ \E t \in Procs : pc[t] = "write"
          /\ file' \in {file, [file EXCEPT !.state = "torn"]}
          /\ struck' = TRUE /\ UNCHANGED stored
       \/ /\ \E t \in Procs : pc[t] = "write"
          /\ file' = [state |-> "whole", data |-> data]
          /\ stored' = data /\ UNCHANGED struck
    /\ value' = [p \in Props |-> Default] /\ old' = Nothing /\ last' = Nothing
    /\ data' = Nothing /\ lock' = None
    /\ pc' = [t \in Procs |-> "idle"] /\ prop' = [t \in Procs |-> None]
    /\ val' = [t \in Procs |-> None] /\ seen' = [t \in Procs |-> None]
    /\ todo' = {}

LoadRaises ==
    /\ phase = "down" /\ file.state = "torn"
    /\ phase' = "broken"
    /\ UNCHANGED <<memory, storage, pc, call, todo, history>>

\* _load(), then create_missing_properties(): the properties that are not
\* stored yet get the Thing's value, and the file is saved in any case.
Load ==
    /\ phase = "down" /\ file.state # "torn"
    /\ phase' = "loading"
    /\ data' = [p \in Props |-> IF p \in Loaded /\ file.data[p] = None THEN value[p]
                                                                      ELSE file.data[p]]
    /\ todo' = {p \in Loaded : file.data[p] # None}
    /\ lock' = "boot" /\ Goto("boot", "dump")
    /\ UNCHANGED <<memory, file, call, history>>

\* A stored value is assigned with the setter, which stores a persisted one.
LoadSet(p) ==
    /\ pc["boot"] = "next" /\ p \in todo
    /\ todo' = todo \ {p}
    /\ value' = [value EXCEPT ![p] = data[p]]
    /\ prop' = [prop EXCEPT !["boot"] = p] /\ val' = [val EXCEPT !["boot"] = data[p]]
    /\ Goto("boot", IF p \in Persist THEN "store" ELSE "next")
    /\ UNCHANGED <<phase, old, last, storage, seen, history>>

LoadDone ==
    /\ pc["boot"] = "next" /\ todo = {}
    /\ Leave("boot")
    /\ phase' = "up"
    /\ UNCHANGED <<memory, storage, todo, history>>

Next ==
    \/ \E t \in Threads, p \in Props : Get(t, p) \/ \E v \in Values : Set(t, p, v)
    \/ \E t \in Procs : \/ Store(t) \/ DumpRaises(t) \/ Open(t) \/ Write(t)
                        \/ ReadOld(t) \/ ReplaceOld(t) \/ PushEvent(t)
    \/ Crash \/ LoadRaises \/ Load \/ LoadDone
    \/ \E p \in Loaded : LoadSet(p)

Spec == Init /\ [][Next]_vars

-----------------------------------------------------------------------------
(***************************************************************************)
(* Properties.                                                             *)
(***************************************************************************)
\* Types; the lock is held exactly while its thread saves.
TypeOK ==
    /\ phase \in {"down", "loading", "up", "broken"}
    /\ value \in [Props -> Values]
    /\ {data, old, last, stored, file.data} \subseteq [Props -> Values \cup {None}]
    /\ file.state \in {"empty", "torn", "whole"}
    /\ lock \in Procs \cup {None}
    /\ pc \in [Procs -> {"idle", "store", "dump", "write", "event", "replace", "push", "next"}]
    /\ prop \in [Procs -> Props \cup {None}] /\ val \in [Procs -> Values \cup {None}]
    /\ seen \in [Procs -> Values \cup {None}] /\ todo \subseteq Loaded
    /\ crashes \in 0..MaxCrashes /\ struck \in BOOLEAN
    /\ \A t \in Procs : lock = t <=> pc[t] \in {"dump", "write"}

\* No thread is in an operation on p.
Quiet(p) == \A t \in Procs : pc[t] = "idle" \/ prop[t] # p

\* While nobody rewrites it, the file holds the last completed save, and all
\* of it: neither a save that raised nor two writers leave a mixture, unless
\* a crash hit a save.
FileHoldsLastSave ==
    struck \/ file.data = stored \/ \E t \in Procs : pc[t] = "write"

\* While the lock is free, the file holds what the storage holds, unless that
\* cannot be encoded.
FileFollowsStorage ==
    phase = "up" /\ lock = None /\ (\A p \in Props : data[p] \notin Bad)
        => file = [state |-> "whole", data |-> data]

Restored == pc["boot"] = "next" /\ todo = {}

\* A Thing that was created again has the values it was left with: those of
\* the last completed save where they are loaded, and its defaults where they
\* are only stored.  Loading, with all its saves, changes nothing that is
\* stored.  Crashes that hit a save are left out.
RestoresLastSave ==
    Restored /\ ~struck =>
        /\ \A p \in Loaded : value[p] = stored[p]
        /\ \A p \in Commit : value[p] = Default
        /\ file.data = stored

\* property.py:116: with db_persist "every write is stored in a database".
\* With no operation on it under way, the value of the Thing is the stored one.
EveryWriteIsStored ==
    \A p \in Persist : phase = "up" /\ Quiet(p) => value[p] = data[p]

\* property.py:116: "the property value persists `Thing` instance destruction
\* and recreation", whenever the crash comes.
ValuePersists == Restored => \A p \in Persist : value[p] = stored[p]

\* jsonfile.py:79: _load() returns "Empty if the file does not exist or
\* cannot be decoded".
LoadNeverRaises == phase # "broken"

\* property.py:108: "pushes change events after every read and write if the
\* value is different from the previous operation".  With no operation under
\* way, the last event told the value of the last operation.
LastOperationWasPushed == \A p \in Props : phase = "up" /\ Quiet(p) => last[p] = old[p]
=============================================================================
