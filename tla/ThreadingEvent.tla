--------------------------- MODULE ThreadingEvent ---------------------------
(***************************************************************************)
(* What threading.Event promises, whose semantics CrossLoopEvent claims    *)
(* (core/utils.py:38): set() releases everyone who is blocked, and who is  *)
(* released returns, although the event may be cleared by then.            *)
(***************************************************************************)
CONSTANT Waiters
VARIABLES isSet, waiter

eventVars == <<isSet, waiter>>

EventInit == isSet = FALSE /\ waiter = [w \in Waiters |-> "idle"]

AbstractSet ==
    /\ isSet' = TRUE
    /\ waiter' = [w \in Waiters |-> IF waiter[w] = "blocked" THEN "released" ELSE waiter[w]]

AbstractClear == isSet' = FALSE /\ UNCHANGED waiter

AbstractWait(w) ==
    /\ waiter[w] = "idle"
    /\ waiter' = [waiter EXCEPT ![w] = IF isSet THEN "returned" ELSE "blocked"]
    /\ UNCHANGED isSet

AbstractReturn(w) ==
    /\ waiter[w] = "released"
    /\ waiter' = [waiter EXCEPT ![w] = "returned"]
    /\ UNCHANGED isSet

\* The caller goes on, or its task is cancelled.
AbstractLeave(w) ==
    /\ waiter[w] # "idle"
    /\ waiter' = [waiter EXCEPT ![w] = "idle"]
    /\ UNCHANGED isSet

EventNext ==
    \/ AbstractSet \/ AbstractClear
    \/ \E w \in Waiters : AbstractWait(w) \/ AbstractReturn(w) \/ AbstractLeave(w)

EventSpec == EventInit /\ [][EventNext]_eventVars
=============================================================================
