--------------------------- MODULE CrossLoopEvent ---------------------------
(***************************************************************************)
(* The event that coroutines of several asyncio loops wait for and that    *)
(* any thread sets (core/utils.py:18).  A waiter parks a future on its own *)
(* loop and enters it in a list; set() takes the list and posts to each    *)
(* loop, which resolves the future later, unless the waiter was cancelled  *)
(* or the loop is closed by then.                                          *)
(***************************************************************************)
EXTENDS FiniteSets

CONSTANTS
    Loops,
    Waiters,    \* coroutines that wait
    LoopOf,     \* [Waiters -> Loops]
    Setters     \* threads that call set()

EventAssumption == LoopOf \in [Waiters -> Loops]

VARIABLES
    isSet,      \* _is_set
    waiters,    \* _waiters
    await,      \* what each waiter does: "idle", "parked", "returned"
    future,     \* its future: "none", "pending", "resolved", "cancelled"
    todo,       \* [Setters -> SUBSET Waiters] taken by a set(), not yet posted
    posted,     \* _resolve() is posted to the waiter's loop
    closed      \* closed loops

vars == <<isSet, waiters, await, future, todo, posted, closed>>

TypeOK ==
    /\ isSet \in BOOLEAN
    /\ waiters \subseteq Waiters
    /\ await \in [Waiters -> {"idle", "parked", "returned"}]
    /\ future \in [Waiters -> {"none", "pending", "resolved", "cancelled"}]
    /\ todo \in [Setters -> SUBSET Waiters]
    /\ posted \subseteq Waiters
    /\ closed \subseteq Loops

Init ==
    /\ isSet = FALSE /\ waiters = {} /\ posted = {} /\ closed = {}
    /\ await = [w \in Waiters |-> "idle"]
    /\ future = [w \in Waiters |-> "none"]
    /\ todo = [t \in Setters |-> {}]

Open(w) == LoopOf[w] \notin closed

\* set(): the flag and the list under the lock.  Mutant: the list stays.
SetKeepsList(t) ==
    /\ todo[t] = {} /\ ~isSet
    /\ isSet' = TRUE
    /\ todo' = [todo EXCEPT ![t] = waiters]
    /\ UNCHANGED <<waiters, await, future, posted, closed>>

Set(t) ==
    /\ todo[t] = {} /\ ~isSet
    /\ isSet' = TRUE
    /\ todo' = [todo EXCEPT ![t] = waiters] /\ waiters' = {}
    /\ UNCHANGED <<await, future, posted, closed>>

\* call_soon_threadsafe(); a closed loop raises, which is passed over.
\* Mutant: the rest of the list is passed over as well.
PostOrGiveUp(t, w) ==
    /\ w \in todo[t]
    /\ todo' = [todo EXCEPT ![t] = IF Open(w) THEN @ \ {w} ELSE {}]
    /\ posted' = IF Open(w) THEN posted \cup {w} ELSE posted
    /\ UNCHANGED <<isSet, waiters, await, future, closed>>

Post(t, w) ==
    /\ w \in todo[t]
    /\ todo' = [todo EXCEPT ![t] = @ \ {w}]
    /\ posted' = IF Open(w) THEN posted \cup {w} ELSE posted
    /\ UNCHANGED <<isSet, waiters, await, future, closed>>

\* _resolve() on the waiter's loop.
Resolve(w) ==
    /\ w \in posted /\ Open(w)
    /\ posted' = posted \ {w}
    /\ future' = [future EXCEPT ![w] = IF @ = "pending" THEN "resolved" ELSE @]
    /\ UNCHANGED <<isSet, waiters, await, todo, closed>>

Clear ==
    /\ isSet' = FALSE
    /\ UNCHANGED <<waiters, await, future, todo, posted, closed>>

\* wait(), with a future of its own: a waiter that has nothing left of an
\* earlier wait.
Wait(w) ==
    /\ Open(w) /\ await[w] = "idle" /\ w \notin posted /\ \A t \in Setters : w \notin todo[t]
    /\ await' = [await EXCEPT ![w] = IF isSet THEN "returned" ELSE "parked"]
    /\ future' = [future EXCEPT ![w] = IF isSet THEN "none" ELSE "pending"]
    /\ waiters' = IF isSet THEN waiters ELSE waiters \cup {w}
    /\ UNCHANGED <<isSet, todo, posted, closed>>

\* The awaited future is resolved, and the waiter leaves the list.
Wake(w) ==
    /\ Open(w) /\ await[w] = "parked" /\ future[w] = "resolved"
    /\ await' = [await EXCEPT ![w] = "returned"]
    /\ waiters' = waiters \ {w}
    /\ UNCHANGED <<isSet, future, todo, posted, closed>>

\* Its task is cancelled while it waits.  Mutant: it stays in the list.
CancelKeepsEntry(w) ==
    /\ Open(w) /\ await[w] = "parked"
    /\ await' = [await EXCEPT ![w] = "idle"]
    /\ future' = [future EXCEPT ![w] = IF @ = "pending" THEN "cancelled" ELSE @]
    /\ UNCHANGED <<isSet, waiters, todo, posted, closed>>

Cancel(w) ==
    /\ Open(w) /\ await[w] = "parked"
    /\ await' = [await EXCEPT ![w] = "idle"]
    /\ future' = [future EXCEPT ![w] = IF @ = "pending" THEN "cancelled" ELSE @]
    /\ waiters' = waiters \ {w}
    /\ UNCHANGED <<isSet, todo, posted, closed>>

\* The caller of wait() goes on.
Leave(w) ==
    /\ await[w] = "returned"
    /\ await' = [await EXCEPT ![w] = "idle"]
    /\ UNCHANGED <<isSet, waiters, future, todo, posted, closed>>

\* A loop is closed, with whatever was parked on it.
Close(l) ==
    /\ l \notin closed
    /\ closed' = closed \cup {l}
    /\ UNCHANGED <<isSet, waiters, await, future, todo, posted>>

Next ==
    \/ Clear
    \/ \E t \in Setters : Set(t) \/ \E w \in Waiters : Post(t, w)
    \/ \E w \in Waiters : Resolve(w) \/ Wait(w) \/ Wake(w) \/ Cancel(w) \/ Leave(w)
    \/ \E l \in Loops : Close(l)

\* Threads and loops run what they have to run.
Fairness ==
    /\ \A t \in Setters, w \in Waiters : WF_vars(Post(t, w))
    /\ \A w \in Waiters : WF_vars(Resolve(w)) /\ WF_vars(Wake(w))

Spec == Init /\ [][Next]_vars /\ Fairness

(***************************************************************************)
(* Properties.                                                             *)
(***************************************************************************)
Taken(w) == w \in posted \/ \E t \in Setters : w \in todo[t]

\* Nobody waits in the list of a set event, so no set() that finds the flag
\* up and returns at once has missed a waiter (utils.py:61).
SetHasNoWaiters == isSet => waiters = {}

\* Who is in the list waits, and who waits is in the list, or in the hands of
\* a set(), or resolved, or on a closed loop: a cancelled waiter leaves
\* nothing behind, and none is left without a wake-up (utils.py:87).
WaitersAreParked ==
    /\ \A w \in waiters : await[w] = "parked" /\ future[w] = "pending"
    /\ \A w \in Waiters : await[w] = "parked" =>
         w \in waiters \/ Taken(w) \/ future[w] = "resolved" \/ ~Open(w)

\* What makes these inductive: who is taken is in the list no more, and who
\* waits has a future of this wait.
TakenLeftList == \A w \in waiters : ~Taken(w)
ParkedHasFuture == \A w \in Waiters : await[w] = "parked" => future[w] \in {"pending", "resolved"}
EventInvariant ==
    TypeOK /\ SetHasNoWaiters /\ WaitersAreParked /\ TakenLeftList /\ ParkedHasFuture

\* A waiter that a set() took wakes up although the event is cleared again,
\* unless it is cancelled or a loop closes (utils.py:68).
TakenWakes == \A w \in Waiters : []<>(await[w] = "parked" => w \in waiters \/ ~Open(w))

\* "Semantics match threading.Event" (utils.py:38).  A waiter on a closed loop
\* stays released for ever, as far as anyone can tell.
Abstractly(w) ==
    CASE await[w] = "parked" -> IF w \in waiters THEN "blocked" ELSE "released"
      [] OTHER -> await[w]
Promise == INSTANCE ThreadingEvent WITH waiter <- [w \in Waiters |-> Abstractly(w)]
KeepsEventPromise == Promise!EventSpec
=============================================================================
