------------------------- MODULE PropertyStoreProofs -------------------------
(***************************************************************************)
(* Proofs about PropertyStore, for every set of threads, of properties and *)
(* of values, and any number of crashes: what the file holds, what is      *)
(* restored from it, and, with one thread, what is stored and pushed.      *)
(***************************************************************************)
EXTENDS PropertyStore, TLAPS

Maybe == Values \cup {None}
Saved == Persist \cup Commit

(* TypeOK but for the control, with the file as the record it is.          *)
Typed ==
  /\ value \in [Props -> Values]
  /\ data \in [Props -> Maybe] /\ old \in [Props -> Maybe] /\ last \in [Props -> Maybe]
  /\ stored \in [Props -> Maybe]
  /\ file \in [state : {"empty", "torn", "whole"}, data : [Props -> Maybe]]
  /\ prop \in [Procs -> Props \cup {None}] /\ val \in [Procs -> Maybe] /\ seen \in [Procs -> Maybe]
  /\ todo \subseteq Loaded
  /\ crashes \in 0 .. MaxCrashes /\ struck \in BOOLEAN

(* Who may be where in which phase: the threads act on a Thing that is     *)
(* up, its creation stores under the same lock before that, and nothing    *)
(* runs in a process that is down.                                         *)
PhaseConj ==
  /\ phase \in {"down", "loading", "up", "broken"}
  /\ lock \in Procs \cup {None}
  /\ pc \in [Procs -> {"idle", "store", "dump", "write", "event", "replace", "push", "next"}]
  /\ \A t \in Procs : lock = t <=> pc[t] \in {"dump", "write"}
  /\ \A t \in Threads : pc[t] # "idle" => phase = "up"
  /\ pc["boot"] # "idle" => phase = "loading"
  /\ \A t \in Threads : pc[t] # "next"
  /\ pc["boot"] \notin {"event", "replace", "push"}
  /\ phase # "loading" => todo = {}

(* What is about to be stored is a value of a property that is stored; a   *)
(* creation assigns and stores what the storage has already.               *)
StoreConj ==
  /\ \A t \in Threads : pc[t] # "idle" => prop[t] \in Props /\ val[t] \in Values
  /\ \A t \in Procs : pc[t] = "store" => prop[t] \in Saved /\ val[t] \in Values
  /\ \A p \in todo : data[p] \in Values
  /\ pc["boot"] = "store" => val["boot"] = data[prop["boot"]]

(* What the assumption says of the sets.                                   *)
LEMMA Shape ==
  ASSUME StoreAssumption
  PROVE  /\ Threads \subseteq Procs /\ "boot" \in Procs /\ "boot" \notin Threads /\ None \notin Procs
         /\ Values \subseteq Maybe /\ None \in Maybe /\ None \notin Values
         /\ Loaded \subseteq Props /\ Saved \subseteq Props /\ Persist \subseteq Loaded /\ None \notin Props
         /\ Default \in Values /\ Nothing \in [Props -> Maybe]
         /\ \A p \in Props : Nothing[p] = None
         /\ \A t \in Procs : t \in Threads \/ t = "boot"
         /\ Persist \subseteq Saved /\ Commit \cap Loaded = {} /\ MaxCrashes \in Nat
         /\ Loaded \cap Saved = Persist
  BY DEF StoreAssumption, Procs, Maybe, Loaded, Saved, Props, Nothing

LEMMA TypedInit == ASSUME StoreAssumption, Init PROVE Typed
<1>1. struck \in BOOLEAN
  BY Zenon DEF Init
<1>2. file \in [state : {"empty", "torn", "whole"}, data : [Props -> Maybe]]
  BY Shape DEF Init
<1> QED
  BY <1>1, <1>2, Shape DEF Init, Typed

LEMMA PhaseInit == ASSUME StoreAssumption, Init PROVE PhaseConj /\ StoreConj
BY Shape DEF Init, PhaseConj, StoreConj

(* Each step keeps the phases.                                             *)
LEMMA PhaseNext == ASSUME StoreAssumption, PhaseConj, [Next]_vars PROVE PhaseConj'
<1> USE Shape DEF PhaseConj
<1>1. ASSUME NEW t \in Threads, NEW p \in Props, Get(t, p) PROVE PhaseConj'
  BY <1>1 DEF Get, Goto, storage
<1>2. ASSUME NEW t \in Threads, NEW p \in Props, NEW v \in Values, Set(t, p, v) PROVE PhaseConj'
  BY <1>2 DEF Set, Goto, storage
<1>3. ASSUME NEW t \in Procs, Store(t) PROVE PhaseConj'
  BY <1>3 DEF Store, Goto
<1>4. ASSUME NEW t \in Procs, DumpRaises(t) PROVE PhaseConj'
  BY <1>4 DEF DumpRaises, Leave, Goto
<1>5. ASSUME NEW t \in Procs, Open(t) PROVE PhaseConj'
  BY <1>5 DEF Open, Goto
<1>6. ASSUME NEW t \in Procs, Write(t) PROVE PhaseConj'
  BY <1>6 DEF Write, Goto
<1>7. ASSUME NEW t \in Procs, ReadOld(t) PROVE PhaseConj'
  BY <1>7 DEF ReadOld, Goto, storage
<1>8. ASSUME NEW t \in Procs, ReplaceOld(t) PROVE PhaseConj'
  <2>1. pc' = [pc EXCEPT ![t] = "idle"] \/ pc' = [pc EXCEPT ![t] = "push"]
    BY <1>8 DEF ReplaceOld, Leave, Goto
  <2>2. pc[t] = "replace" /\ UNCHANGED <<phase, lock, todo>>
    BY <1>8 DEF ReplaceOld, storage
  <2> QED
    BY <2>1, <2>2
<1>9. ASSUME NEW t \in Procs, PushEvent(t) PROVE PhaseConj'
  BY <1>9 DEF PushEvent, Leave, Goto, storage
<1>10. CASE Crash
  BY <1>10 DEF Crash
<1>11. CASE LoadRaises
  BY <1>11 DEF LoadRaises, storage
<1>12. CASE Load
  BY <1>12 DEF Load, Goto
<1>13. CASE LoadDone
  BY <1>13 DEF LoadDone, Leave, Goto, storage
<1>14. ASSUME NEW p \in Loaded, LoadSet(p) PROVE PhaseConj'
  BY <1>14 DEF LoadSet, Goto, storage
<1>15. CASE UNCHANGED vars
  BY <1>15 DEF vars
<1> QED
  BY <1>1, <1>2, <1>3, <1>4, <1>5, <1>6, <1>7, <1>8, <1>9, <1>10, <1>11, <1>12, <1>13, <1>14, <1>15 DEF Next

(* An operation goes on as it was, or is over.                             *)
LEMMA CallTyped ==
  ASSUME StoreAssumption, Typed, NEW t \in Procs,
         UNCHANGED call \/ (Leave(t))
  PROVE  /\ prop' \in [Procs -> Props \cup {None}] /\ val' \in [Procs -> Maybe] /\ seen' \in [Procs -> Maybe]
<1>1. CASE UNCHANGED call
  BY <1>1 DEF call, Typed
<1>2. CASE Leave(t)
  BY <1>2, Shape DEF Leave, Typed
<1> QED
  BY <1>1, <1>2

(* Each step keeps the types.                                              *)
LEMMA TypedNext == ASSUME StoreAssumption, Typed, PhaseConj, StoreConj, [Next]_vars PROVE Typed'
<1> USE Shape DEF Typed
<1>1. ASSUME NEW t \in Threads, NEW p \in Props, Get(t, p) PROVE Typed'
  BY <1>1 DEF Get, storage, memory, history
<1>2. ASSUME NEW t \in Threads, NEW p \in Props, NEW v \in Values, Set(t, p, v) PROVE Typed'
  BY <1>2 DEF Set, storage, history
<1>3. ASSUME NEW t \in Procs, Store(t) PROVE Typed'
  <2>1. val[t] \in Maybe
    OBVIOUS
  <2>2. data' \in [Props -> Maybe]
    BY <1>3, <2>1 DEF Store
  <2>3. UNCHANGED <<memory, file, call, todo, history>>
    BY <1>3 DEF Store
  <2> QED
    BY <2>2, <2>3 DEF memory, call, history
<1>4. ASSUME NEW t \in Procs, DumpRaises(t) PROVE Typed'
  <2>1. Leave(t) /\ UNCHANGED <<memory, data, file, todo, history>>
    BY <1>4 DEF DumpRaises
  <2> QED
    BY <2>1, CallTyped DEF memory, history
<1>5. ASSUME NEW t \in Procs, Open(t) PROVE Typed'
  BY <1>5 DEF Open, memory, call, history
<1>6. ASSUME NEW t \in Procs, Write(t) PROVE Typed'
  <2>1. /\ file' = [state |-> "whole", data |-> data]
        /\ stored' = [p \in Props |-> IF t = "boot" /\ stored[p] # None THEN stored[p] ELSE data[p]]
        /\ UNCHANGED <<memory, data, call, todo, crashes, struck>>
    BY <1>6 DEF Write
  <2>2. stored' \in [Props -> Maybe]
    BY <2>1
  <2> QED
    BY <2>1, <2>2 DEF memory, call
<1>7. ASSUME NEW t \in Procs, ReadOld(t) PROVE Typed'
  <2>1. prop[t] \in Props
    BY <1>7 DEF ReadOld, PhaseConj, StoreConj
  <2> QED
    BY <1>7, <2>1 DEF ReadOld, memory, storage, history
<1>8. ASSUME NEW t \in Procs, ReplaceOld(t) PROVE Typed'
  <2>1. UNCHANGED call \/ Leave(t)
    BY <1>8 DEF ReplaceOld
  <2>2. old' = [old EXCEPT ![prop[t]] = val[t]] /\ UNCHANGED <<value, last, storage, todo, history>>
    BY <1>8 DEF ReplaceOld
  <2> QED
    BY <2>1, <2>2, CallTyped DEF storage, history
<1>9. ASSUME NEW t \in Procs, PushEvent(t) PROVE Typed'
  <2>1. Leave(t) /\ last' = [last EXCEPT ![prop[t]] = val[t]] /\ UNCHANGED <<value, old, storage, todo, history>>
    BY <1>9 DEF PushEvent
  <2> QED
    BY <2>1, CallTyped DEF storage, history
<1>10. CASE Crash
  <2>1. file' \in [state : {"empty", "torn", "whole"}, data : [Props -> Maybe]]
    <3>1. \/ file' = file
          \/ file' = [file EXCEPT !.state = "torn"]
          \/ file' = [state |-> "whole", data |-> data]
      BY <1>10 DEF Crash
    <3>2. CASE file' = [file EXCEPT !.state = "torn"]
      BY <3>2
    <3>3. CASE file' = [state |-> "whole", data |-> data]
      BY <3>3
    <3> QED
      BY <3>1, <3>2, <3>3
  <2>2. struck' \in BOOLEAN
    BY <1>10, Zenon DEF Crash
  <2>3. stored' = stored \/ stored' = data
    BY <1>10 DEF Crash
  <2>4. /\ crashes < MaxCrashes /\ crashes' = crashes + 1
        /\ value' = [p \in Props |-> Default] /\ old' = Nothing /\ last' = Nothing
        /\ data' = Nothing /\ prop' = [t \in Procs |-> None]
        /\ val' = [t \in Procs |-> None] /\ seen' = [t \in Procs |-> None]
        /\ todo' = {}
    BY <1>10 DEF Crash
  <2> QED
    BY <2>1, <2>2, <2>3, <2>4
<1>11. CASE LoadRaises
  BY <1>11 DEF LoadRaises, memory, storage, call, history
<1>12. CASE Load
  <2>1. /\ data' = [p \in Props |-> IF p \in Loaded /\ file.data[p] = None THEN value[p] ELSE file.data[p]]
        /\ todo' = {p \in Loaded : file.data[p] # None}
        /\ UNCHANGED <<memory, file, call, history>>
    BY <1>12 DEF Load
  <2>2. file.data \in [Props -> Maybe]
    OBVIOUS
  <2>3. data' \in [Props -> Maybe]
    BY <2>1, <2>2
  <2> QED
    BY <2>1, <2>3 DEF memory, call, history
<1>13. CASE LoadDone
  <2>1. Leave("boot") /\ UNCHANGED <<memory, storage, todo, history>>
    BY <1>13 DEF LoadDone
  <2> QED
    BY <2>1, CallTyped DEF memory, storage, history
<1>14. ASSUME NEW p \in Loaded, LoadSet(p) PROVE Typed'
  <2>1. data[p] \in Values
    BY <1>14 DEF LoadSet, StoreConj
  <2> QED
    BY <1>14, <2>1 DEF LoadSet, storage, history
<1>15. CASE UNCHANGED vars
  BY <1>15 DEF vars
<1> QED
  BY <1>1, <1>2, <1>3, <1>4, <1>5, <1>6, <1>7, <1>8, <1>9, <1>10, <1>11, <1>12, <1>13, <1>14, <1>15 DEF Next

(* Each step keeps what is to be stored.                                   *)
LEMMA StoreNext ==
  ASSUME StoreAssumption, Typed, PhaseConj, StoreConj, [Next]_vars PROVE StoreConj'
<1> USE Shape DEF StoreConj
<1>1. ASSUME NEW t \in Threads, NEW p \in Props, Get(t, p) PROVE StoreConj'
  BY <1>1 DEF Get, Goto, storage, Typed, PhaseConj
<1>2. ASSUME NEW t \in Threads, NEW p \in Props, NEW v \in Values, Set(t, p, v) PROVE StoreConj'
  BY <1>2 DEF Set, Goto, storage, Typed, PhaseConj, Saved
<1>3. ASSUME NEW t \in Procs, Store(t) PROVE StoreConj'
  <2>1. /\ pc[t] = "store" /\ prop[t] \in Saved /\ val[t] \in Values
        /\ data' = [data EXCEPT ![prop[t]] = val[t]] /\ pc' = [pc EXCEPT ![t] = "dump"]
        /\ UNCHANGED <<prop, val, todo>>
    BY <1>3 DEF Store, Goto, call
  <2>2. \A p \in todo : data'[p] \in Values
    BY <2>1 DEF Typed
  <2>3. pc'["boot"] = "store" => val["boot"] = data'[prop["boot"]]
    <3>1. t = "boot" => pc'["boot"] = "dump"
      BY <2>1 DEF PhaseConj
    <3>2. t # "boot" => pc["boot"] = "idle"
      BY <2>1 DEF PhaseConj
    <3> QED
      BY <2>1, <3>1, <3>2 DEF PhaseConj
  <2> QED
    BY <2>1, <2>2, <2>3 DEF PhaseConj
<1>4. ASSUME NEW t \in Procs, DumpRaises(t) PROVE StoreConj'
  BY <1>4 DEF DumpRaises, Leave, Goto, Typed, PhaseConj
<1>5. ASSUME NEW t \in Procs, Open(t) PROVE StoreConj'
  BY <1>5 DEF Open, Goto, call, Typed, PhaseConj
<1>6. ASSUME NEW t \in Procs, Write(t) PROVE StoreConj'
  BY <1>6 DEF Write, Goto, call, Typed, PhaseConj
<1>7. ASSUME NEW t \in Procs, ReadOld(t) PROVE StoreConj'
  BY <1>7 DEF ReadOld, Goto, storage, Typed, PhaseConj
<1>8. ASSUME NEW t \in Procs, ReplaceOld(t) PROVE StoreConj'
  <2>1. CASE Leave(t)
    BY <1>8, <2>1 DEF ReplaceOld, Leave, Goto, storage, Typed, PhaseConj
  <2>2. CASE Goto(t, "push") /\ UNCHANGED call
    BY <1>8, <2>2 DEF ReplaceOld, Goto, call, storage, Typed, PhaseConj
  <2> QED
    BY <1>8, <2>1, <2>2 DEF ReplaceOld
<1>9. ASSUME NEW t \in Procs, PushEvent(t) PROVE StoreConj'
  BY <1>9 DEF PushEvent, Leave, Goto, storage, Typed, PhaseConj
<1>10. CASE Crash
  <2>1. pc' = [t \in Procs |-> "idle"] /\ todo' = {}
    BY <1>10 DEF Crash
  <2> QED
    BY <2>1
<1>11. CASE LoadRaises
  BY <1>11 DEF LoadRaises, storage, call
<1>12. CASE Load
  <2>1. /\ data' = [p \in Props |-> IF p \in Loaded /\ file.data[p] = None THEN value[p] ELSE file.data[p]]
        /\ todo' = {p \in Loaded : file.data[p] # None}
        /\ pc' = [pc EXCEPT !["boot"] = "dump"] /\ UNCHANGED <<prop, val>>
    BY <1>12 DEF Load, Goto, call
  <2>2. file.data \in [Props -> Maybe]
    BY DEF Typed
  <2>3. \A p \in todo' : data'[p] \in Values
    BY <2>1, <2>2 DEF Maybe
  <2> QED
    BY <2>1, <2>3 DEF PhaseConj
<1>13. CASE LoadDone
  BY <1>13 DEF LoadDone, Leave, Goto, storage, Typed, PhaseConj
<1>14. ASSUME NEW p \in Loaded, LoadSet(p) PROVE StoreConj'
  BY <1>14 DEF LoadSet, Goto, storage, Typed, PhaseConj
<1>15. CASE UNCHANGED vars
  BY <1>15 DEF vars
<1> QED
  BY <1>1, <1>2, <1>3, <1>4, <1>5, <1>6, <1>7, <1>8, <1>9, <1>10, <1>11, <1>12, <1>13, <1>14, <1>15 DEF Next

-----------------------------------------------------------------------------
Whole == [state |-> "whole", data |-> data]
(* The creation has saved the file at least once.                          *)
LoadedOnce == pc["boot"] \in {"next", "store"}

(* The file is a completed save unless a thread is within one, or a crash  *)
(* hit one; where the lock is free it is what the storage holds, but for   *)
(* values that cannot be encoded.                                          *)
FileConj ==
  /\ FileHoldsLastSave
  /\ ((phase = "up" /\ lock = None) \/ LoadedOnce) /\ (\A p \in Props : data[p] \notin Bad) => file = Whole

(* While the Thing is created, the storage has what was saved last; what   *)
(* it has loaded so far is what the storage has.                           *)
LoadConj ==
  /\ phase = "loading" /\ ~struck => \A p \in Props : stored[p] # None => data[p] = stored[p]
  /\ LoadedOnce /\ ~struck => stored = data
  /\ phase = "loading" => \A p \in Loaded \ todo : value[p] = data[p]
  /\ phase \in {"down", "loading"} => \A p \in Commit : value[p] = Default

LEMMA FileInit == ASSUME StoreAssumption, Init PROVE FileConj /\ LoadConj
<1>1. /\ phase = "down" /\ file.data = stored /\ pc["boot"] = "idle"
      /\ \A p \in Props : value[p] = Default
  BY Shape DEF Init
<1> QED
  BY <1>1, Shape DEF FileConj, LoadConj, FileHoldsLastSave, LoadedOnce, Saved

(* Stored values that are assigned while loading are stored as they were.  *)
LEMMA StoreWhileLoading ==
  ASSUME StoreAssumption, Typed, PhaseConj, StoreConj, Store("boot") PROVE data' = data
<1>1. data' = [data EXCEPT ![prop["boot"]] = val["boot"]] /\ val["boot"] = data[prop["boot"]]
  BY Shape DEF Store, StoreConj
<1> QED
  BY <1>1 DEF Typed

(* A save that is completed writes all of the storage, also one of the     *)
(* creation, which adds what was missing and changes nothing else.         *)
LEMMA WriteSaves ==
  ASSUME StoreAssumption, Typed, PhaseConj, LoadConj, NEW t \in Procs, Write(t)
  PROVE  /\ file' = Whole /\ file'.data = data /\ UNCHANGED <<data, struck>>
         /\ ~struck => stored' = data
<1>1. /\ file' = [state |-> "whole", data |-> data] /\ UNCHANGED <<data, struck>>
      /\ stored' = [p \in Props |-> IF t = "boot" /\ stored[p] # None THEN stored[p] ELSE data[p]]
  BY DEF Write
<1>2. ASSUME ~struck, NEW p \in Props PROVE stored'[p] = data[p]
  <2>1. CASE t = "boot" /\ stored[p] # None
    <3>1. phase = "loading"
      BY <2>1, Shape DEF Write, PhaseConj
    <3> QED
      BY <1>1, <1>2, <2>1, <3>1 DEF LoadConj
  <2>2. CASE ~(t = "boot" /\ stored[p] # None)
    BY <1>1, <2>2
  <2> QED
    BY <2>1, <2>2
<1>3. stored' \in [Props -> Maybe] /\ data \in [Props -> Maybe]
  BY <1>1 DEF Typed
<1> QED
  BY <1>1, <1>2, <1>3 DEF Whole

(* A step that neither saves nor takes the lock.                           *)
LEMMA FileSame ==
  ASSUME FileConj, UNCHANGED <<data, file, stored, struck>>,
         \A t \in Procs : pc[t] = "write" => pc'[t] = "write",
         (phase' = "up" /\ lock' = None) \/ LoadedOnce' => (phase = "up" /\ lock = None) \/ LoadedOnce
  PROVE  FileConj'
BY DEF FileConj, FileHoldsLastSave, Whole

(* Each step keeps the file.                                               *)
LEMMA FileNext ==
  ASSUME StoreAssumption, Typed, PhaseConj, StoreConj, FileConj, LoadConj, [Next]_vars PROVE FileConj'
<1> USE Shape
<1>1. ASSUME NEW t \in Threads, NEW p \in Props, Get(t, p) PROVE FileConj'
  BY <1>1, FileSame DEF Get, Goto, storage, history, PhaseConj, LoadedOnce
<1>2. ASSUME NEW t \in Threads, NEW p \in Props, NEW v \in Values, Set(t, p, v) PROVE FileConj'
  BY <1>2, FileSame DEF Set, Goto, storage, history, PhaseConj, LoadedOnce
<1>3. ASSUME NEW t \in Procs, Store(t) PROVE FileConj'
  <2>1. pc[t] = "store" /\ pc' = [pc EXCEPT ![t] = "dump"] /\ lock' = t /\ UNCHANGED <<file, stored, struck>>
    BY <1>3 DEF Store, Goto, history
  <2>2. ~LoadedOnce'
    BY <2>1 DEF PhaseConj, LoadedOnce
  <2>3. FileHoldsLastSave'
    BY <2>1 DEF PhaseConj, FileConj, FileHoldsLastSave
  <2> QED
    BY <2>1, <2>2, <2>3 DEF FileConj
<1>4. ASSUME NEW t \in Procs, DumpRaises(t) PROVE FileConj'
  <2>1. /\ pc[t] = "dump" /\ pc' = [pc EXCEPT ![t] = "idle"] /\ UNCHANGED <<data, file, stored, struck>>
        /\ \E p \in Props : data[p] \in Bad
    BY <1>4 DEF DumpRaises, Leave, Goto, history
  <2>2. FileHoldsLastSave'
    BY <2>1 DEF PhaseConj, FileConj, FileHoldsLastSave
  <2> QED
    BY <2>1, <2>2 DEF FileConj
<1>5. ASSUME NEW t \in Procs, Open(t) PROVE FileConj'
  <2>1. pc[t] = "dump" /\ pc' = [pc EXCEPT ![t] = "write"] /\ UNCHANGED <<phase, lock>>
    BY <1>5 DEF Open, Goto
  <2>2. FileHoldsLastSave'
    BY <2>1 DEF PhaseConj, FileHoldsLastSave
  <2>3. ~LoadedOnce' /\ lock' # None
    BY <2>1 DEF PhaseConj, LoadedOnce
  <2> QED
    BY <2>2, <2>3 DEF FileConj
<1>6. ASSUME NEW t \in Procs, Write(t) PROVE FileConj'
  BY <1>6, WriteSaves DEF FileConj, FileHoldsLastSave, Whole
<1>7. ASSUME NEW t \in Procs, ReadOld(t) PROVE FileConj'
  BY <1>7, FileSame DEF ReadOld, Goto, storage, history, PhaseConj, LoadedOnce
<1>8. ASSUME NEW t \in Procs, ReplaceOld(t) PROVE FileConj'
  <2>1. pc' = [pc EXCEPT ![t] = "idle"] \/ pc' = [pc EXCEPT ![t] = "push"]
    BY <1>8 DEF ReplaceOld, Leave, Goto
  <2>2. pc[t] = "replace" /\ UNCHANGED <<phase, storage, history>>
    BY <1>8 DEF ReplaceOld
  <2> QED
    BY <2>1, <2>2, FileSame DEF storage, history, PhaseConj, LoadedOnce
<1>9. ASSUME NEW t \in Procs, PushEvent(t) PROVE FileConj'
  BY <1>9, FileSame DEF PushEvent, Leave, Goto, storage, history, PhaseConj, LoadedOnce
<1>10. CASE Crash
  <2>1. phase' = "down" /\ pc' = [t \in Procs |-> "idle"]
    BY <1>10 DEF Crash
  <2>2. struck' \/ file'.data = stored'
    <3>1. \/ struck' = TRUE
          \/ file' = [state |-> "whole", data |-> data] /\ stored' = data
          \/ (\A t \in Procs : pc[t] # "write") /\ UNCHANGED <<file, stored, struck>>
      BY <1>10, Zenon DEF Crash
    <3>2. CASE struck' = TRUE
      BY <3>2
    <3>3. CASE file' = [state |-> "whole", data |-> data] /\ stored' = data
      BY <3>3
    <3>4. CASE (\A t \in Procs : pc[t] # "write") /\ UNCHANGED <<file, stored, struck>>
      BY <3>4 DEF FileConj, FileHoldsLastSave
    <3> QED
      BY <3>1, <3>2, <3>3, <3>4
  <2> QED
    BY <2>1, <2>2 DEF FileConj, FileHoldsLastSave, LoadedOnce
<1>11. CASE LoadRaises
  BY <1>11, FileSame DEF LoadRaises, storage, history, PhaseConj, LoadedOnce
<1>12. CASE Load
  <2>1. /\ \A t \in Procs : pc[t] # "write"
        /\ pc' = [pc EXCEPT !["boot"] = "dump"] /\ lock' = "boot" /\ UNCHANGED <<file, stored, struck>>
    BY <1>12 DEF Load, Goto, history, PhaseConj
  <2>2. ~LoadedOnce'
    BY <2>1 DEF PhaseConj, LoadedOnce
  <2> QED
    BY <2>1, <2>2 DEF FileConj, FileHoldsLastSave
<1>13. CASE LoadDone
  BY <1>13, FileSame DEF LoadDone, Leave, Goto, storage, history, PhaseConj, LoadedOnce
<1>14. ASSUME NEW p \in Loaded, LoadSet(p) PROVE FileConj'
  BY <1>14, FileSame DEF LoadSet, Goto, storage, history, PhaseConj, LoadedOnce
<1>15. CASE UNCHANGED vars
  BY <1>15, FileSame DEF vars, LoadedOnce
<1> QED
  BY <1>1, <1>2, <1>3, <1>4, <1>5, <1>6, <1>7, <1>8, <1>9, <1>10, <1>11, <1>12, <1>13, <1>14, <1>15 DEF Next

(* A step that changes nothing of a creation.                              *)
LEMMA LoadSame ==
  ASSUME LoadConj, StoreAssumption, PhaseConj, UNCHANGED <<phase, value, todo, struck>>,
         phase = "loading" => UNCHANGED <<data, stored>>, phase # "loading" => phase' # "loading",
         PhaseConj', LoadedOnce' => LoadedOnce
  PROVE  LoadConj'
<1>1. LoadedOnce => phase = "loading"
  BY DEF LoadedOnce, PhaseConj
<1> QED
  BY <1>1 DEF LoadConj

(* Each step keeps what is loaded.                                         *)
LEMMA LoadNext ==
  ASSUME StoreAssumption, Typed, PhaseConj, PhaseConj', StoreConj, FileConj, LoadConj, [Next]_vars
  PROVE  LoadConj'
<1> USE Shape
<1>1. ASSUME NEW t \in Threads, NEW p \in Props, Get(t, p) PROVE LoadConj'
  BY <1>1, LoadSame DEF Get, Goto, memory, storage, history, PhaseConj, LoadedOnce
<1>2. ASSUME NEW t \in Threads, NEW p \in Props, NEW v \in Values, Set(t, p, v) PROVE LoadConj'
  <2>1. phase' = "up"
    BY <1>2 DEF Set
  <2> QED
    BY <2>1 DEF LoadConj, PhaseConj, LoadedOnce
<1>3. ASSUME NEW t \in Procs, Store(t) PROVE LoadConj'
  <2>1. pc[t] = "store" /\ pc' = [pc EXCEPT ![t] = "dump"] /\ UNCHANGED <<phase, value, todo, stored, struck>>
    BY <1>3 DEF Store, Goto, memory, history
  <2>2. LoadedOnce' => LoadedOnce
    BY <2>1 DEF PhaseConj, LoadedOnce
  <2>3. phase = "loading" => t = "boot"
    BY <2>1 DEF PhaseConj
  <2>4. phase = "loading" => UNCHANGED data
    BY <1>3, <2>3, StoreWhileLoading
  <2> QED
    BY <2>1, <2>2, <2>4, LoadSame
<1>4. ASSUME NEW t \in Procs, DumpRaises(t) PROVE LoadConj'
  BY <1>4, LoadSame DEF DumpRaises, Leave, Goto, memory, history, PhaseConj, LoadedOnce
<1>5. ASSUME NEW t \in Procs, Open(t) PROVE LoadConj'
  BY <1>5, LoadSame DEF Open, Goto, memory, history, PhaseConj, LoadedOnce
<1>6. ASSUME NEW t \in Procs, Write(t) PROVE LoadConj'
  <2>1. /\ UNCHANGED <<phase, value, todo, data, struck>>
        /\ ~struck => stored' = data
    BY <1>6, WriteSaves DEF Write, memory
  <2> QED
    BY <2>1 DEF LoadConj
<1>7. ASSUME NEW t \in Procs, ReadOld(t) PROVE LoadConj'
  BY <1>7, LoadSame DEF ReadOld, Goto, memory, storage, history, PhaseConj, LoadedOnce
<1>8. ASSUME NEW t \in Procs, ReplaceOld(t) PROVE LoadConj'
  <2>1. pc' = [pc EXCEPT ![t] = "idle"] \/ pc' = [pc EXCEPT ![t] = "push"]
    BY <1>8 DEF ReplaceOld, Leave, Goto
  <2>2. pc[t] = "replace" /\ UNCHANGED <<phase, value, todo, storage, history>>
    BY <1>8 DEF ReplaceOld
  <2> QED
    BY <2>1, <2>2, LoadSame DEF storage, history, PhaseConj, LoadedOnce
<1>9. ASSUME NEW t \in Procs, PushEvent(t) PROVE LoadConj'
  BY <1>9, LoadSame DEF PushEvent, Leave, Goto, storage, history, PhaseConj, LoadedOnce
<1>10. CASE Crash
  <2>1. phase' = "down" /\ pc'["boot"] = "idle" /\ \A p \in Props : value'[p] = Default
    BY <1>10 DEF Crash
  <2> QED
    BY <2>1 DEF LoadConj, LoadedOnce, Props
<1>11. CASE LoadRaises
  BY <1>11 DEF LoadRaises, PhaseConj, LoadConj, LoadedOnce
<1>12. CASE Load
  <2>1. /\ phase = "down" /\ pc' = [pc EXCEPT !["boot"] = "dump"] /\ UNCHANGED <<value, stored, struck>>
        /\ data' = [p \in Props |-> IF p \in Loaded /\ file.data[p] = None THEN value[p] ELSE file.data[p]]
        /\ todo' = {p \in Loaded : file.data[p] # None}
    BY <1>12 DEF Load, Goto, memory, history
  <2>2. ~struck => file.data = stored
    BY <2>1 DEF FileConj, FileHoldsLastSave, PhaseConj
  <2>3. ~LoadedOnce'
    BY <2>1 DEF PhaseConj, LoadedOnce
  <2> QED
    BY <2>1, <2>2, <2>3 DEF LoadConj
<1>13. CASE LoadDone
  <2>1. phase' = "up" /\ pc'["boot"] = "idle"
    BY <1>13 DEF LoadDone, Leave, Goto, PhaseConj
  <2> QED
    BY <2>1 DEF LoadConj, LoadedOnce
<1>14. ASSUME NEW p \in Loaded, LoadSet(p) PROVE LoadConj'
  <2>1. /\ pc["boot"] = "next" /\ p \in todo /\ todo' = todo \ {p} /\ value' = [value EXCEPT ![p] = data[p]]
        /\ UNCHANGED <<phase, data, stored, struck>>
    BY <1>14 DEF LoadSet, storage, history
  <2>2. LoadedOnce /\ phase = "loading"
    BY <2>1 DEF LoadedOnce, PhaseConj
  <2>3. \A q \in Loaded \ todo' : value'[q] = data[q]
    BY <2>1, <2>2 DEF LoadConj, Typed
  <2>4. \A q \in Commit : value'[q] = value[q]
    BY <2>1 DEF Typed
  <2> QED
    BY <2>1, <2>2, <2>3, <2>4 DEF LoadConj
<1>15. CASE UNCHANGED vars
  BY <1>15, LoadSame DEF vars, LoadedOnce
<1> QED
  BY <1>1, <1>2, <1>3, <1>4, <1>5, <1>6, <1>7, <1>8, <1>9, <1>10, <1>11, <1>12, <1>13, <1>14, <1>15 DEF Next

StoreInv == Typed /\ PhaseConj /\ StoreConj /\ FileConj /\ LoadConj

LEMMA StoreAlways == ASSUME StoreAssumption PROVE Spec => []StoreInv
<1>1. Init => StoreInv
  BY TypedInit, PhaseInit, FileInit DEF StoreInv
<1>2. StoreInv /\ [Next]_vars => StoreInv'
  BY TypedNext, PhaseNext, StoreNext, FileNext, LoadNext DEF StoreInv
<1> QED
  BY <1>1, <1>2, PTL DEF Spec

(* Types, and the lock is held exactly within a save, for any threads,     *)
(* properties and values and any number of crashes (set_property()).       *)
THEOREM TypeCorrect == ASSUME StoreAssumption PROVE Spec => []TypeOK
<1>1. StoreInv => TypeOK
  BY Shape DEF StoreInv, Typed, PhaseConj, TypeOK, Maybe
<1> QED
  BY <1>1, StoreAlways, PTL

(* While nobody rewrites it the file holds the last completed save, and    *)
(* what the storage holds: no interleaving of writers, of saves that       *)
(* raise and of crashes leaves a mixture in it, unless a crash hit a save  *)
(* (jsonfile.py:92).                                                       *)
THEOREM FileKept == ASSUME StoreAssumption PROVE Spec => [](FileHoldsLastSave /\ FileFollowsStorage)
<1>1. StoreInv => FileHoldsLastSave /\ FileFollowsStorage
  BY DEF StoreInv, FileConj, FileFollowsStorage, Whole
<1> QED
  BY <1>1, StoreAlways, PTL

(* A Thing that was created again has the values of the last completed     *)
(* save, wherever between two saves the process crashed (load_from_DB()).  *)
THEOREM LastSaveRestored == ASSUME StoreAssumption PROVE Spec => []RestoresLastSave
<1>1. StoreInv => RestoresLastSave
  <2> SUFFICES ASSUME StoreInv, Restored, ~struck
               PROVE  /\ \A p \in Loaded : value[p] = stored[p]
                      /\ \A p \in Commit : value[p] = Default
                      /\ file.data = stored
    BY DEF RestoresLastSave
  <2>1. phase = "loading" /\ LoadedOnce /\ todo = {}
    BY DEF Restored, LoadedOnce, StoreInv, PhaseConj
  <2>2. \A t \in Procs : pc[t] # "write"
    BY <2>1, Shape DEF Restored, StoreInv, PhaseConj
  <2> QED
    BY <2>1, <2>2 DEF StoreInv, LoadConj, FileConj, FileHoldsLastSave
<1> QED
  BY <1>1, StoreAlways, PTL

-----------------------------------------------------------------------------
(* With two threads the two properties that follow do not hold             *)
(* (EveryWriteIsStored, LastOperationWasPushed).                           *)
OneThread == \A t, u \in Threads : t = u

(* A value is stored, or its thread is about to store it.                  *)
WriteConj ==
  phase = "up" =>
    /\ \A t \in Threads : pc[t] = "store" => val[t] = value[prop[t]]
    /\ \A p \in Persist : value[p] = data[p] \/ \E t \in Threads : pc[t] = "store" /\ prop[t] = p

(* The last event told the last value, or its thread is about to push it;  *)
(* the old value a thread has read is still the old value.                 *)
PushConj ==
  /\ \A t \in Threads : pc[t] = "replace" => seen[t] = old[prop[t]]
  /\ \A t \in Threads : pc[t] = "push" => old[prop[t]] = val[t]
  /\ \A p \in Props : last[p] = old[p] \/ \E t \in Threads : pc[t] = "push" /\ prop[t] = p

(* A step that neither sets nor stores.                                    *)
LEMMA WriteSame ==
  ASSUME WriteConj, UNCHANGED <<phase, value, data>>,
         \A t \in Threads : pc[t] = "store" <=> pc'[t] = "store",
         \A t \in Threads : pc[t] = "store" => prop'[t] = prop[t] /\ val'[t] = val[t]
  PROVE  WriteConj'
BY DEF WriteConj

LEMMA WriteNext ==
  ASSUME StoreAssumption, OneThread, StoreInv, WriteConj, [Next]_vars PROVE WriteConj'
<1> USE Shape DEF StoreInv
<1>1. ASSUME NEW t \in Threads, NEW p \in Props, Get(t, p) PROVE WriteConj'
  BY <1>1, WriteSame DEF Get, Goto, memory, storage, PhaseConj, Typed
<1>2. ASSUME NEW t \in Threads, NEW p \in Props, NEW v \in Values, Set(t, p, v) PROVE WriteConj'
  <2>1. /\ phase = "up" /\ pc[t] = "idle" /\ value' = [value EXCEPT ![p] = v] /\ UNCHANGED data
        /\ prop' = [prop EXCEPT ![t] = p] /\ val' = [val EXCEPT ![t] = v]
        /\ pc' = [pc EXCEPT ![t] = IF p \in Saved THEN "store" ELSE "event"]
    BY <1>2 DEF Set, Goto, storage, Saved
  <2>2. \A q \in Persist : value[q] = data[q]
    BY <2>1 DEF WriteConj, OneThread
  <2>3. ASSUME NEW q \in Persist PROVE value'[q] = data'[q] \/ \E u \in Threads : pc'[u] = "store" /\ prop'[u] = q
    <3>1. CASE q = p
      BY <2>1, <3>1 DEF Typed, PhaseConj
    <3>2. CASE q # p
      BY <2>1, <2>2, <3>2 DEF Typed
    <3> QED
      BY <3>1, <3>2
  <2>4. \A u \in Threads : pc'[u] = "store" => val'[u] = value'[prop'[u]]
    BY <2>1 DEF OneThread, Typed, PhaseConj
  <2> QED
    BY <2>3, <2>4 DEF WriteConj
<1>3. ASSUME NEW t \in Procs, Store(t) PROVE WriteConj'
  <2>1. /\ pc[t] = "store" /\ data' = [data EXCEPT ![prop[t]] = val[t]] /\ UNCHANGED <<phase, value>>
    BY <1>3 DEF Store, memory
  <2> SUFFICES ASSUME phase = "up" PROVE WriteConj'
    BY <2>1 DEF WriteConj
  <2>2. t \in Threads /\ prop[t] \in Saved /\ val[t] = value[prop[t]]
    BY <2>1 DEF PhaseConj, StoreConj, WriteConj
  <2>3. pc' = [pc EXCEPT ![t] = "dump"] /\ \A u \in Threads : u = t
    BY <1>3, <2>2 DEF Store, Goto, OneThread
  <2>4. \A q \in Persist : q = prop[t] \/ value[q] = data[q]
    BY <2>3 DEF WriteConj
  <2>5. \A q \in Persist : value[q] = data'[q]
    BY <2>1, <2>2, <2>4 DEF Typed
  <2> QED
    BY <2>1, <2>3, <2>5 DEF WriteConj, PhaseConj
<1>4. ASSUME NEW t \in Procs, DumpRaises(t) PROVE WriteConj'
  BY <1>4, WriteSame DEF DumpRaises, Leave, Goto, memory, PhaseConj, Typed
<1>5. ASSUME NEW t \in Procs, Open(t) PROVE WriteConj'
  BY <1>5, WriteSame DEF Open, Goto, memory, call, PhaseConj, Typed
<1>6. ASSUME NEW t \in Procs, Write(t) PROVE WriteConj'
  BY <1>6, WriteSame DEF Write, Goto, memory, call, PhaseConj, Typed
<1>7. ASSUME NEW t \in Procs, ReadOld(t) PROVE WriteConj'
  BY <1>7, WriteSame DEF ReadOld, Goto, memory, storage, PhaseConj, Typed
<1>8. ASSUME NEW t \in Procs, ReplaceOld(t) PROVE WriteConj'
  <2>1. pc[t] = "replace" /\ UNCHANGED <<phase, value, storage>>
    BY <1>8 DEF ReplaceOld
  <2>2. CASE Leave(t)
    BY <2>1, <2>2, WriteSame DEF Leave, Goto, storage, PhaseConj, Typed
  <2>3. CASE Goto(t, "push") /\ UNCHANGED call
    BY <2>1, <2>3, WriteSame DEF Goto, call, storage, PhaseConj, Typed
  <2> QED
    BY <1>8, <2>2, <2>3 DEF ReplaceOld
<1>9. ASSUME NEW t \in Procs, PushEvent(t) PROVE WriteConj'
  BY <1>9, WriteSame DEF PushEvent, Leave, Goto, storage, PhaseConj, Typed
<1>10. CASE Crash \/ LoadRaises \/ Load
  <2>1. phase' # "up"
    BY <1>10 DEF Crash, LoadRaises, Load
  <2> QED
    BY <2>1 DEF WriteConj
<1>11. CASE LoadDone
  <2>1. todo = {} /\ phase = "loading" /\ UNCHANGED <<value, data>>
    BY <1>11 DEF LoadDone, memory, storage, PhaseConj
  <2>2. \A t \in Threads : pc'[t] = "idle"
    BY <1>11, <2>1 DEF LoadDone, Leave, Goto, PhaseConj
  <2> QED
    BY <2>1, <2>2 DEF WriteConj, LoadConj
<1>12. ASSUME NEW p \in Loaded, LoadSet(p) PROVE WriteConj'
  <2>1. phase' # "up"
    BY <1>12 DEF LoadSet, PhaseConj
  <2> QED
    BY <2>1 DEF WriteConj
<1>13. CASE UNCHANGED vars
  BY <1>13, WriteSame DEF vars
<1> QED
  BY <1>1, <1>2, <1>3, <1>4, <1>5, <1>6, <1>7, <1>8, <1>9, <1>10, <1>11, <1>12, <1>13 DEF Next

(* A step that does not push.                                              *)
LEMMA PushSame ==
  ASSUME PushConj, UNCHANGED <<old, last>>,
         \A t \in Threads : pc'[t] = "replace" => pc[t] = "replace" /\ prop'[t] = prop[t] /\ seen'[t] = seen[t],
         \A t \in Threads : pc[t] = "push" <=> pc'[t] = "push",
         \A t \in Threads : pc[t] = "push" => prop'[t] = prop[t] /\ val'[t] = val[t]
  PROVE  PushConj'
BY DEF PushConj

LEMMA PushNext ==
  ASSUME StoreAssumption, OneThread, StoreInv, PushConj, [Next]_vars PROVE PushConj'
<1> USE Shape DEF StoreInv
<1>1. ASSUME NEW t \in Threads, NEW p \in Props, Get(t, p) PROVE PushConj'
  BY <1>1, PushSame DEF Get, Goto, memory, PhaseConj, Typed
<1>2. ASSUME NEW t \in Threads, NEW p \in Props, NEW v \in Values, Set(t, p, v) PROVE PushConj'
  BY <1>2, PushSame DEF Set, Goto, PhaseConj, Typed
<1>3. ASSUME NEW t \in Procs, Store(t) PROVE PushConj'
  BY <1>3, PushSame DEF Store, Goto, memory, call, PhaseConj, Typed
<1>4. ASSUME NEW t \in Procs, DumpRaises(t) PROVE PushConj'
  BY <1>4, PushSame DEF DumpRaises, Leave, Goto, memory, PhaseConj, Typed
<1>5. ASSUME NEW t \in Procs, Open(t) PROVE PushConj'
  BY <1>5, PushSame DEF Open, Goto, memory, call, PhaseConj, Typed
<1>6. ASSUME NEW t \in Procs, Write(t) PROVE PushConj'
  BY <1>6, PushSame DEF Write, Goto, memory, call, PhaseConj, Typed
<1>7. ASSUME NEW t \in Procs, ReadOld(t) PROVE PushConj'
  <2>1. /\ pc[t] = "event" /\ seen' = [seen EXCEPT ![t] = old[prop[t]]] /\ pc' = [pc EXCEPT ![t] = "replace"]
        /\ UNCHANGED <<old, last, prop, val>>
    BY <1>7 DEF ReadOld, Goto, memory
  <2> QED
    BY <2>1 DEF PushConj, PhaseConj, Typed
<1>8. ASSUME NEW t \in Procs, ReplaceOld(t) PROVE PushConj'
  <2>1. /\ pc[t] = "replace" /\ old' = [old EXCEPT ![prop[t]] = val[t]] /\ UNCHANGED last
        /\ IF seen[t] = val[t] THEN Leave(t) ELSE Goto(t, "push") /\ UNCHANGED call
    BY <1>8 DEF ReplaceOld
  <2>2. t \in Threads /\ prop[t] \in Props /\ seen[t] = old[prop[t]]
    BY <2>1 DEF PhaseConj, StoreConj, PushConj
  <2>3. \A u \in Threads : u = t
    BY <2>2 DEF OneThread
  <2>4. \A p \in Props : last[p] = old[p]
    BY <2>1, <2>3 DEF PushConj
  <2>5. CASE seen[t] = val[t]
    <3>1. pc' = [pc EXCEPT ![t] = "idle"] /\ old' = old
      <4>1. old' = [old EXCEPT ![prop[t]] = old[prop[t]]]
        BY <2>1, <2>2, <2>5
      <4>2. old' = old
        BY <2>2, <4>1 DEF Typed
      <4> QED
        BY <2>1, <2>5, <4>2 DEF Leave, Goto
    <3> QED
      BY <2>1, <2>3, <2>4, <3>1 DEF PushConj, PhaseConj
  <2>6. CASE seen[t] # val[t]
    <3>1. pc' = [pc EXCEPT ![t] = "push"] /\ UNCHANGED <<prop, val>>
      BY <2>1, <2>6 DEF Goto, call
    <3>2. old'[prop[t]] = val[t] /\ \A p \in Props \ {prop[t]} : old'[p] = old[p]
      BY <2>1, <2>2 DEF Typed
    <3> QED
      BY <2>1, <2>2, <2>3, <2>4, <3>1, <3>2 DEF PushConj, PhaseConj
  <2> QED
    BY <2>5, <2>6
<1>9. ASSUME NEW t \in Procs, PushEvent(t) PROVE PushConj'
  <2>1. /\ pc[t] = "push" /\ last' = [last EXCEPT ![prop[t]] = val[t]] /\ UNCHANGED old
        /\ pc' = [pc EXCEPT ![t] = "idle"]
    BY <1>9 DEF PushEvent, Leave, Goto
  <2>2. t \in Threads /\ prop[t] \in Props /\ old[prop[t]] = val[t]
    BY <2>1 DEF PhaseConj, StoreConj, PushConj
  <2>3. \A u \in Threads : u = t
    BY <2>2 DEF OneThread
  <2>4. \A p \in Props \ {prop[t]} : last[p] = old[p]
    BY <2>1, <2>3 DEF PushConj
  <2>5. last'[prop[t]] = val[t] /\ \A p \in Props \ {prop[t]} : last'[p] = last[p]
    BY <2>1, <2>2 DEF Typed
  <2> QED
    BY <2>1, <2>2, <2>3, <2>4, <2>5 DEF PushConj, PhaseConj
<1>10. CASE Crash
  BY <1>10 DEF Crash, PushConj
<1>11. CASE LoadRaises
  BY <1>11, PushSame DEF LoadRaises, memory, call
<1>12. CASE Load
  BY <1>12, PushSame DEF Load, Goto, memory, call, PhaseConj
<1>13. CASE LoadDone
  BY <1>13, PushSame DEF LoadDone, Leave, Goto, memory, PhaseConj, Typed
<1>14. ASSUME NEW p \in Loaded, LoadSet(p) PROVE PushConj'
  BY <1>14, PushSame DEF LoadSet, Goto, PhaseConj, Typed
<1>15. CASE UNCHANGED vars
  BY <1>15, PushSame DEF vars
<1> QED
  BY <1>1, <1>2, <1>3, <1>4, <1>5, <1>6, <1>7, <1>8, <1>9, <1>10, <1>11, <1>12, <1>13, <1>14, <1>15 DEF Next

(* One thread: "every write is stored in a database" (property.py:116),    *)
(* also one that raises, and over crashes and creations.                   *)
THEOREM WritesStored == ASSUME StoreAssumption, OneThread PROVE Spec => []EveryWriteIsStored
<1>1. Init => WriteConj
  BY DEF Init, WriteConj
<1>2. StoreInv /\ WriteConj /\ [Next]_vars => WriteConj'
  BY WriteNext
<1>3. StoreInv /\ WriteConj => EveryWriteIsStored
  BY Shape DEF WriteConj, EveryWriteIsStored, Quiet
<1> QED
  BY <1>1, <1>2, <1>3, StoreAlways, PTL DEF Spec

(* One thread: a change event told the value of the last read or write     *)
(* ("if the value is different from the previous operation",               *)
(* property.py:108).                                                       *)
THEOREM LastWasPushed == ASSUME StoreAssumption, OneThread PROVE Spec => []LastOperationWasPushed
<1>1. Init => PushConj
  BY Shape DEF Init, PushConj
<1>2. StoreInv /\ PushConj /\ [Next]_vars => PushConj'
  BY PushNext
<1>3. StoreInv /\ PushConj => LastOperationWasPushed
  BY Shape DEF PushConj, LastOperationWasPushed, Quiet
<1> QED
  BY <1>1, <1>2, <1>3, StoreAlways, PTL DEF Spec
=============================================================================
