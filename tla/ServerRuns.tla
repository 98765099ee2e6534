----------------------------- MODULE ServerRuns -----------------------------
(***************************************************************************)
(* run() and stop() (server/server.py): a run starts the event loops of    *)
(* its Things in threads, waits for them, registers itself under its ID,   *)
(* starts its servers and serves until a stop() sets its shutdown event;   *)
(* then it takes itself out of the register and stops servers and loops.   *)
(* Runs are forked into threads of their own; stop() may be called from    *)
(* any thread, and Thing.exit() stops an event loop only.                  *)
(***************************************************************************)
EXTENDS Naturals, FiniteSets

CONSTANTS
    Runs,
    IdOf,           \* [Runs -> IDs]
    EventLoops,
    LoopsOf,        \* [Runs -> SUBSET EventLoops] loops of the Things it serves
    Stoppers,       \* callers of stop()
    None

RunsAssumption ==
    /\ LoopsOf \in [Runs -> (SUBSET EventLoops) \ {{}}] /\ DOMAIN IdOf = Runs
    /\ None \notin Runs \cup {IdOf[r] : r \in Runs}

Ids == {IdOf[r] : r \in Runs}

\* Runs with an ID, and Things, of their own.
OwnIds == \A r, q \in Runs : IdOf[r] = IdOf[q] => r = q
OwnLoops == \A r, q \in Runs : LoopsOf[r] \cap LoopsOf[q] # {} => r = q

VARIABLES
    registry,   \* _runs: the run registered under each ID, or None
    stage,      \* where each run is
    up,         \* runs whose servers have started
    failed,     \* runs a server of which raised in its start()
    shutdown,   \* runs whose shutdown event is set
    interrupted, \* runs left by an exception (KeyboardInterrupt)
    thread,     \* state of the thread of each run and event loop
    running,    \* event loops whose `_run` is set
    stopper     \* what each call of stop() is doing

serverVars == <<up, failed>>
vars == <<registry, stage, serverVars, shutdown, interrupted, thread, running, stopper>>

TypeOK ==
    /\ registry \in [Ids -> Runs \cup {None}]
    /\ stage \in [Runs -> {"new", "waiting", "registering", "serving", "stopping",
                           "stopped", "joining", "returned", "raised"}]
    /\ {up, failed, shutdown, interrupted} \subseteq SUBSET Runs
    /\ thread \in [Runs \X EventLoops -> {"none", "starting", "running", "ended"}]
    /\ running \subseteq EventLoops
    /\ \A c \in Stoppers : stopper[c].at \in {"idle", "set", "wait", "returned", "warned"}

Init ==
    /\ registry = [i \in Ids |-> None] /\ stage = [r \in Runs |-> "new"]
    /\ up = {} /\ failed = {} /\ shutdown = {} /\ interrupted = {}
    /\ thread = [t \in Runs \X EventLoops |-> "none"] /\ running = {}
    /\ stopper = [c \in Stoppers |-> [at |-> "idle", run |-> None, waits |-> FALSE]]

(***************************************************************************)
(* Event loops, in their threads.                                          *)
(***************************************************************************)
\* run() of the event loop sets the flag and the event others wait for.
LoopStarts(r, e) ==
    /\ thread[<<r, e>>] = "starting"
    /\ thread' = [thread EXCEPT ![<<r, e>>] = "running"] /\ running' = running \cup {e}
    /\ UNCHANGED <<registry, stage, serverVars, shutdown, interrupted, stopper>>

\* The coroutines of the loop end once the flag is off.
LoopEnds(r, e) ==
    /\ thread[<<r, e>>] = "running" /\ e \notin running
    /\ thread' = [thread EXCEPT ![<<r, e>>] = "ended"]
    /\ UNCHANGED <<registry, stage, serverVars, shutdown, interrupted, running, stopper>>

\* The action exit() of a Thing.
ThingExits(e) ==
    /\ e \in running /\ running' = running \ {e}
    /\ UNCHANGED <<registry, stage, serverVars, shutdown, interrupted, thread, stopper>>

(***************************************************************************)
(* run()                                                                   *)
(***************************************************************************)
Goto(r, s) == stage' = [stage EXCEPT ![r] = s]

\* A run of Things whose loop runs already runs that loop in one more thread.
Begin(r) ==
    /\ stage[r] = "new" /\ Goto(r, "waiting")
    /\ thread' = [t \in DOMAIN thread |->
                    IF t[1] = r /\ t[2] \in LoopsOf[r] THEN "starting" ELSE thread[t]]
    /\ UNCHANGED <<registry, serverVars, shutdown, interrupted, running, stopper>>

LoopsRun(r) ==
    /\ stage[r] = "waiting" /\ LoopsOf[r] \subseteq running /\ Goto(r, "registering")
    /\ UNCHANGED <<registry, serverVars, shutdown, interrupted, thread, running, stopper>>

\* EVENTLOOP_START_TIMEOUT: all are stopped, also those that start later.
LoopsTimeOut(r) ==
    /\ stage[r] = "waiting" /\ ~(LoopsOf[r] \subseteq running) /\ Goto(r, "raised")
    /\ running' = running \ LoopsOf[r]
    /\ UNCHANGED <<registry, serverVars, shutdown, interrupted, thread, stopper>>

\* The ID of another run raises, and the loops go on.
Register(r) ==
    /\ stage[r] = "registering"
    /\ IF registry[IdOf[r]] = None
       THEN Goto(r, "serving") /\ registry' = [registry EXCEPT ![IdOf[r]] = r]
       ELSE Goto(r, "raised") /\ UNCHANGED registry
    /\ UNCHANGED <<serverVars, shutdown, interrupted, thread, running, stopper>>

\* The tasks of start() of the servers; nobody looks at what one raises.
StartServers(r) ==
    /\ stage[r] = "serving" /\ r \notin up \cup failed
    /\ \/ up' = up \cup {r} /\ UNCHANGED failed
       \/ failed' = failed \cup {r} /\ UNCHANGED up
    /\ UNCHANGED <<registry, stage, shutdown, interrupted, thread, running, stopper>>

Interrupt(r) ==
    /\ stage[r] = "serving" /\ interrupted' = interrupted \cup {r}
    /\ UNCHANGED <<registry, stage, serverVars, shutdown, thread, running, stopper>>

\* Mutant: the whole register is cleared.
UnregisterAll(r) ==
    /\ stage[r] = "serving" /\ r \in shutdown \cup interrupted /\ Goto(r, "stopping")
    /\ registry' = [i \in Ids |-> None]
    /\ UNCHANGED <<serverVars, shutdown, interrupted, thread, running, stopper>>

\* The run takes out whatever is registered under its ID.
Unregister(r) ==
    /\ stage[r] = "serving" /\ r \in shutdown \cup interrupted /\ Goto(r, "stopping")
    /\ registry' = [registry EXCEPT ![IdOf[r]] = None]
    /\ UNCHANGED <<serverVars, shutdown, interrupted, thread, running, stopper>>

StopServers(r) ==
    /\ stage[r] = "stopping" /\ Goto(r, "stopped") /\ up' = up \ {r}
    /\ UNCHANGED <<registry, failed, shutdown, interrupted, thread, running, stopper>>

StopLoops(r) ==
    /\ stage[r] = "stopped" /\ Goto(r, "joining") /\ running' = running \ LoopsOf[r]
    /\ UNCHANGED <<registry, serverVars, shutdown, interrupted, thread, stopper>>

\* The threads are joined, or EVENTLOOP_STOP_TIMEOUT goes by.
Return(r) ==
    /\ stage[r] = "joining" /\ Goto(r, "returned")
    /\ UNCHANGED <<registry, serverVars, shutdown, interrupted, thread, running, stopper>>

(***************************************************************************)
(* stop()                                                                  *)
(***************************************************************************)
Call(c, at, r) == stopper' = [stopper EXCEPT ![c].at = at, ![c].run = r]
Registered == {i \in Ids : registry[i] # None}

\* What stop(id) finds under the ID, or stop() if there is only one.
Stop(c, id, waits) ==
    LET i == IF id = None /\ Cardinality(Registered) = 1
             THEN CHOOSE j \in Registered : TRUE ELSE id IN
    /\ stopper[c].at = "idle"
    /\ IF i = None \/ i \notin Registered
       THEN Call(c, "warned", None) /\ UNCHANGED registry
       ELSE /\ stopper' = [stopper EXCEPT ![c] = [at |-> "set", run |-> registry[i], waits |-> waits]]
            /\ registry' = [registry EXCEPT ![i] = None]
    /\ UNCHANGED <<stage, serverVars, shutdown, interrupted, thread, running>>

\* Mutant: the event is forgotten when nobody waits.
SetIfWaiting(c) ==
    LET r == stopper[c].run IN
    /\ stopper[c].at = "set"
    /\ shutdown' = IF stopper[c].waits THEN shutdown \cup {r} ELSE shutdown
    /\ Call(c, IF stopper[c].waits THEN "wait" ELSE "returned", r)
    /\ UNCHANGED <<registry, stage, serverVars, interrupted, thread, running>>

SetShutdown(c) ==
    LET r == stopper[c].run IN
    /\ stopper[c].at = "set" /\ shutdown' = shutdown \cup {r}
    /\ Call(c, IF stopper[c].waits THEN "wait" ELSE "returned", r)
    /\ UNCHANGED <<registry, stage, serverVars, interrupted, thread, running>>

WaitStopped(c) ==
    /\ stopper[c].at = "wait"
    /\ Call(c, IF stage[stopper[c].run] = "returned" THEN "returned" ELSE "warned", stopper[c].run)
    /\ UNCHANGED <<registry, stage, serverVars, shutdown, interrupted, thread, running>>

Runner(r) ==
    \/ Begin(r) \/ LoopsRun(r) \/ Register(r) \/ StartServers(r) \/ Unregister(r)
    \/ StopServers(r) \/ StopLoops(r) \/ Return(r)

Next ==
    \/ \E r \in Runs : Runner(r) \/ LoopsTimeOut(r) \/ Interrupt(r)
    \/ \E r \in Runs, e \in EventLoops : LoopStarts(r, e) \/ LoopEnds(r, e)
    \/ \E e \in EventLoops : ThingExits(e)
    \/ \E c \in Stoppers :
         \/ \E i \in Ids \cup {None}, w \in BOOLEAN : Stop(c, i, w)
         \/ SetShutdown(c) \/ WaitStopped(c)

\* Threads are scheduled; nobody has to call run(), and nothing is said about
\* when loops start.
Fairness ==
    /\ \A r \in Runs : WF_vars(stage[r] # "new" /\ Runner(r))
    /\ \A c \in Stoppers : WF_vars(SetShutdown(c))
    /\ \A r \in Runs, e \in EventLoops : WF_vars(LoopEnds(r, e))

Spec == Init /\ [][Next]_vars /\ Fairness

(***************************************************************************)
(* Properties.                                                             *)
(***************************************************************************)

\* A run that serves can be stopped: it is registered until a stop() has found
\* it or it is interrupted ("Every run() currently serving, by id",
\* server.py:25).  Not so if a run takes over the ID of one that winds down.
ServingIsRegistered ==
    \A r \in Runs : stage[r] = "serving" /\ r \notin shutdown =>
        registry[IdOf[r]] = r \/ \E c \in Stoppers : stopper[c].at = "set" /\ stopper[c].run = r

\* A stop() that found a run makes it return, whether it waits or not
\* (server.py:143).
StoppedRunReturns ==
    \A r \in Runs :
        (\E c \in Stoppers : stopper[c].at # "idle" /\ stopper[c].run = r) ~> (stage[r] = "returned")

\* A run that has returned serves nothing: its servers are stopped, and so are
\* its loops unless another run has run them since (server.py:103).
ReturnedServesNothing ==
    \A r \in Runs : stage[r] = "returned" =>
        /\ r \notin up
        /\ \A e \in LoopsOf[r] \cap running :
             \E q \in Runs \ {r} : thread[<<q, e>>] = "running" /\ stage[q] # "new"

\* A run that raised leaves no event loop running.  Not so: the loops of a run
\* whose ID is taken go on, and so does one that starts after the timeout
\* (server.py:84).
RaisedLeavesNothing ==
    \A r \in Runs : stage[r] = "raised" /\ (\A q \in Runs \ {r} : stage[q] = "new") =>
        LoopsOf[r] \cap running = {}

\* "raises RuntimeError if a server cannot start" (server.py:53).
FailedStartRaises == failed = {}

\* exit() of its Things unblocks a run ("This method is blocking until `exit()`
\* is called", thing.py:372).
ExitUnblocks ==
    \A r \in Runs : (stage[r] = "serving" /\ LoopsOf[r] \cap running = {}) ~> (stage[r] # "serving")
=============================================================================
