----------------------------- MODULE ClientPool -----------------------------
(***************************************************************************)
(* MessageMappedZMQClientPool (server/zmq/brokers.py): asynchronous ZMQ    *)
(* clients whose sockets one poll task reads.  A request gets an event     *)
(* from AsyncioEventPool once it was sent; the poll task stores a response *)
(* under its message ID and sets the event.  A response that comes before  *)
(* the event is there gets a task of its own that looks for it; one that   *)
(* comes after its caller timed out is dropped.                            *)
(*                                                                         *)
(* All of it runs in one asyncio loop: an action is what runs between two  *)
(* awaits.  Reading a batch is one Read for each response, since a         *)
(* response is handled by itself.  A task that looks for an event does so  *)
(* for 2.5 s, more than a send that was answered already needs to return,  *)
(* so that it never gives up.  A message ID is waited for once.            *)
(***************************************************************************)
EXTENDS Naturals, Sequences, FiniteSets, SequencesExt

CONSTANTS
    Clients,        \* clients that may be in the pool
    First,          \* those the pool is made with, in their order
    Things,
    Messages,       \* requests, named by their message ID
    Timed,          \* those received with a timeout
    MayDisconnect,  \* servers may go away
    MaxStarts,      \* bound: calls of start_polling()
    MaxHandshakes,  \* bound: calls of handshake()
    None

PoolAssumption ==
    /\ First \in Seq(Clients) /\ IsInjective(First)
    /\ Timed \subseteq Messages /\ MayDisconnect \in BOOLEAN
    /\ MaxStarts \in Nat /\ MaxHandshakes \in Nat
    /\ None \notin Clients \cup Things

VARIABLES
    pool,       \* IDs of the clients, in the order of the dict
    polled,     \* clients whose socket is in the poller
    watched,    \* clients whose monitor socket is in the poller
    toClient,   \* _thing_to_client_map
    toThing,    \* _client_to_thing_map
    ready,      \* clients whose _handshake_event is set
    shaking,    \* clients whose _handshake() runs
    halted,     \* those whose _stop is set since, which only _handshake() reads
    monitor,    \* what a monitor socket has: "quiet", "event" or "read"
    to,         \* the client a request was sent through
    stage,      \* where the caller of a request is
    response,   \* where its response is
    events,     \* the event of a message in events_map
    free,       \* events in the event pool
    size,       \* events made so far
    isSet,      \* events that are set
    mapped,     \* messages in message_map
    cancelled,  \* cancelled_messages
    resolving,  \* messages with a task in _resolve_response()
    starting,   \* poll tasks that have not begun
    pollers,    \* poll tasks in their loop
    stopPoll,
    starts, handshakes  \* calls so far

registry == <<pool, polled, watched, toClient, toThing>>
shakes == <<ready, shaking, halted>>
calls == <<to, stage>>
eventPool == <<free, size>>
polling == <<starting, pollers, stopPoll, starts>>
poolVars == <<registry, shakes, monitor, calls, response, events, eventPool, isSet, mapped,
              cancelled, resolving, polling, handshakes>>

Init ==
    /\ pool = First /\ polled = ToSet(First) /\ watched = ToSet(First)
    /\ toClient = [t \in Things |-> None]
    /\ toThing = [c \in Clients |-> None]
    /\ ready = {} /\ shaking = ToSet(First) /\ halted = {}
    /\ monitor = [c \in Clients |-> "quiet"]
    /\ to = [m \in Messages |-> None]
    /\ stage = [m \in Messages |-> "new"]
    /\ response = [m \in Messages |-> "none"]
    /\ events = [m \in Messages |-> 0]
    /\ free = [i \in 1..Len(First) |-> i]
    /\ size = Len(First)
    /\ isSet = {} /\ mapped = {} /\ cancelled = {} /\ resolving = {}
    /\ starting = 0 /\ pollers = 0 /\ stopPoll = FALSE
    /\ starts = 0 /\ handshakes = 0

(***************************************************************************)
(* The clients of the pool.                                                *)
(***************************************************************************)
\* A client is put into the pool with its monitor socket only; it shakes hands.
CreateNew(c) ==
    /\ c \notin ToSet(pool)
    /\ pool' = Append(pool, c) /\ watched' = watched \cup {c}
    /\ shaking' = shaking \cup {c} /\ halted' = halted \ {c}
    /\ UNCHANGED <<polled, toClient, toThing, ready, monitor, calls, response, events,
                   eventPool, isSet, mapped, cancelled, resolving, polling, handshakes>>

\* A client that was made elsewhere, where it began to shake hands.
Register(c) ==
    /\ c \notin ToSet(pool)
    /\ pool' = Append(pool, c)
    /\ polled' = polled \cup {c} /\ watched' = watched \cup {c}
    /\ shaking' = shaking \cup {c} /\ halted' = halted \ {c}
    /\ UNCHANGED <<toClient, toThing, ready, monitor, calls, response, events,
                   eventPool, isSet, mapped, cancelled, resolving, polling, handshakes>>

\* register() of a client that is in the pool touches the two maps only.  They
\* keep what they had for the Thing's and the client's old partners.
RegisterThing(c, t) ==
    /\ c \in ToSet(pool)
    /\ toClient' = [toClient EXCEPT ![t] = c]
    /\ toThing' = [toThing EXCEPT ![c] = t]
    /\ UNCHANGED <<pool, polled, watched, shakes, monitor, calls, response, events, eventPool,
                   isSet, mapped, cancelled, resolving, polling, handshakes>>

\* The poller raises for a socket it does not have: the clients from there on
\* in the dict stay.
Exit ==
    LET reached == {pool[i] : i \in {j \in DOMAIN pool : \A k \in 1..j : pool[k] \in polled}}
    IN  /\ polled # {}
        /\ polled' = polled \ reached /\ watched' = watched \ reached
        /\ UNCHANGED <<pool, toClient, toThing, shakes, monitor, calls, response, events,
                       eventPool, isSet, mapped, cancelled, resolving, polling, handshakes>>

(***************************************************************************)
(* Handshakes.                                                             *)
(***************************************************************************)
Handshake ==
    /\ handshakes < MaxHandshakes
    /\ handshakes' = handshakes + 1
    /\ shaking' = shaking \cup ToSet(pool)
    /\ ready' = ready \ ToSet(pool) /\ halted' = halted \ ToSet(pool)
    /\ UNCHANGED <<registry, monitor, calls, response, events, eventPool, isSet, mapped,
                   cancelled, resolving, polling>>

\* The server answers.  An answer that the poll task of the pool reads first
\* is asked for again.
ShakeEnds(c) ==
    /\ c \in shaking \cap watched /\ c \notin halted /\ monitor[c] = "quiet"
    /\ shaking' = shaking \ {c} /\ ready' = ready \cup {c}
    /\ UNCHANGED <<registry, halted, monitor, calls, response, events, eventPool, isSet, mapped,
                   cancelled, resolving, polling, handshakes>>

\* stop() ends the loop, behind which the event is set all the same.
ShakeStops(c) ==
    /\ c \in shaking \cap watched \cap halted
    /\ shaking' = shaking \ {c} /\ ready' = ready \cup {c} /\ halted' = halted \ {c}
    /\ UNCHANGED <<registry, monitor, calls, response, events, eventPool, isSet, mapped,
                   cancelled, resolving, polling, handshakes>>

ShakeTimesOut(c) ==
    /\ c \in shaking
    /\ shaking' = shaking \ {c} /\ halted' = halted \ {c}
    /\ UNCHANGED <<registry, ready, monitor, calls, response, events, eventPool,
                   isSet, mapped, cancelled, resolving, polling, handshakes>>

\* _handshake() reads a response: it goes to the cache of the client, where
\* the pool does not look.
ShakeTakes(c, m) ==
    /\ c \in shaking \cap watched /\ to[m] = c /\ response[m] = "socket"
    /\ response' = [response EXCEPT ![m] = "taken"]
    /\ UNCHANGED <<registry, shakes, monitor, calls, events, eventPool, isSet, mapped, cancelled,
                   resolving, polling, handshakes>>

(***************************************************************************)
(* Requests.                                                               *)
(***************************************************************************)
Ready(t) == toClient[t] # None /\ toClient[t] \in ready \cap polled

\* A request to a client that is not ready raises and leaves nothing behind.
Send(m, t) ==
    /\ stage[m] = "new" /\ Ready(t)
    /\ stage' = [stage EXCEPT ![m] = "sending"]
    /\ to' = [to EXCEPT ![m] = toClient[t]]
    /\ UNCHANGED <<registry, shakes, monitor, response, events, eventPool, isSet, mapped,
                   cancelled, resolving, polling, handshakes>>

NextEvent == IF free = <<>> THEN size + 1 ELSE Head(free)

\* Mutant: the event is not cleared.
PopAsItWas ==
    /\ free' = IF free = <<>> THEN free ELSE Tail(free)
    /\ size' = IF free = <<>> THEN NextEvent ELSE size
    /\ UNCHANGED isSet

Pop ==
    /\ free' = IF free = <<>> THEN free ELSE Tail(free)
    /\ size' = IF free = <<>> THEN NextEvent ELSE size
    /\ isSet' = isSet \ {NextEvent}

Sent(m) ==
    /\ stage[m] = "sending"
    /\ stage' = [stage EXCEPT ![m] = "sent"]
    /\ events' = [events EXCEPT ![m] = NextEvent]
    /\ Pop
    /\ UNCHANGED <<registry, shakes, monitor, to, response, mapped, cancelled, resolving,
                   polling, handshakes>>

Receive(m) ==
    /\ stage[m] = "sent"
    /\ stage' = [stage EXCEPT ![m] = "waiting"]
    /\ UNCHANGED <<registry, shakes, monitor, to, response, events, eventPool, isSet, mapped,
                   cancelled, resolving, polling, handshakes>>

\* A response that is not in message_map raises.
Return(m) ==
    /\ stage[m] = "waiting" /\ events[m] \in isSet
    /\ stage' = [stage EXCEPT ![m] = IF m \in mapped THEN "returned" ELSE "raised"]
    /\ events' = [events EXCEPT ![m] = 0]
    /\ free' = Append(free, events[m])
    /\ mapped' = mapped \ {m}
    /\ UNCHANGED <<registry, shakes, monitor, to, response, size, isSet, cancelled, resolving,
                   polling, handshakes>>

\* A deadline that passes in the turn in which the event is set wins.
TimeOut(m) ==
    /\ m \in Timed /\ stage[m] = "waiting"
    /\ stage' = [stage EXCEPT ![m] = "timedout"]
    /\ cancelled' = cancelled \cup {m}
    /\ UNCHANGED <<registry, shakes, monitor, to, response, events, eventPool, isSet, mapped,
                   resolving, polling, handshakes>>

(***************************************************************************)
(* Servers.                                                                *)
(***************************************************************************)
Respond(m) ==
    /\ stage[m] # "new" /\ response[m] = "none"
    /\ monitor[to[m]] = "quiet"
    /\ response' = [response EXCEPT ![m] = "socket"]
    /\ UNCHANGED <<registry, shakes, monitor, calls, events, eventPool, isSet, mapped, cancelled,
                   resolving, polling, handshakes>>

Disconnect(c) ==
    /\ MayDisconnect /\ c \in ToSet(pool) /\ monitor[c] = "quiet"
    /\ monitor' = [monitor EXCEPT ![c] = "event"]
    /\ UNCHANGED <<registry, shakes, calls, response, events, eventPool, isSet, mapped, cancelled,
                   resolving, polling, handshakes>>

(***************************************************************************)
(* The poll task.                                                          *)
(***************************************************************************)
StartPolling ==
    /\ starts < MaxStarts
    /\ starts' = starts + 1 /\ starting' = starting + 1
    /\ UNCHANGED <<registry, shakes, monitor, calls, response, events, eventPool, isSet, mapped,
                   cancelled, resolving, pollers, stopPoll, handshakes>>

BeginPolling ==
    /\ starting > 0
    /\ starting' = starting - 1 /\ pollers' = pollers + 1
    /\ stopPoll' = FALSE
    /\ UNCHANGED <<registry, shakes, monitor, calls, response, events, eventPool, isSet, mapped,
                   cancelled, resolving, starts, handshakes>>

StopPolling ==
    /\ ~stopPoll
    /\ stopPoll' = TRUE /\ halted' = halted \cup shaking
    /\ UNCHANGED <<registry, ready, shaking, monitor, calls, response, events, eventPool,
                   isSet, mapped, cancelled, resolving, starting, pollers, starts, handshakes>>

EndPolling ==
    /\ pollers > 0 /\ stopPoll
    /\ pollers' = pollers - 1
    /\ UNCHANGED <<registry, shakes, monitor, calls, response, events, eventPool, isSet, mapped,
                   cancelled, resolving, starting, stopPoll, starts, handshakes>>

InReach(m) == pollers > 0 /\ response[m] = "socket" /\ to[m] \in polled

ReadCancelled(m) ==
    /\ InReach(m) /\ m \in cancelled
    /\ response' = [response EXCEPT ![m] = "read"]
    /\ cancelled' = cancelled \ {m}
    /\ UNCHANGED <<registry, shakes, monitor, calls, events, eventPool, isSet, mapped, resolving,
                   polling, handshakes>>

\* Mutant: a response without an event is left in the map.
ReadOnly(m) ==
    /\ InReach(m) /\ m \notin cancelled
    /\ response' = [response EXCEPT ![m] = "read"]
    /\ mapped' = mapped \cup {m}
    /\ isSet' = isSet \cup ({events[m]} \ {0})
    /\ UNCHANGED <<registry, shakes, monitor, calls, events, eventPool, cancelled, resolving,
                   polling, handshakes>>

\* Sets the event, or leaves it to a task to find one.
Read(m) ==
    /\ InReach(m) /\ m \notin cancelled
    /\ response' = [response EXCEPT ![m] = "read"]
    /\ mapped' = mapped \cup {m}
    /\ isSet' = isSet \cup ({events[m]} \ {0})
    /\ resolving' = IF events[m] = 0 THEN resolving \cup {m} ELSE resolving
    /\ UNCHANGED <<registry, shakes, monitor, calls, events, eventPool, cancelled, polling,
                   handshakes>>

\* _resolve_response() looks again, and the event is there.
Resolve(m) ==
    /\ m \in resolving /\ events[m] # 0
    /\ resolving' = resolving \ {m}
    /\ mapped' = mapped \cup {m} /\ isSet' = isSet \cup {events[m]}
    /\ UNCHANGED <<registry, shakes, monitor, calls, response, events, eventPool, cancelled,
                   polling, handshakes>>

\* handled_default_message_types() raises in the else clause, where no except
\* clause of the statement sees it: the poll task ends.
ReadMonitor(c) ==
    /\ pollers > 0 /\ c \in watched /\ monitor[c] = "event"
    /\ monitor' = [monitor EXCEPT ![c] = "read"]
    /\ pollers' = pollers - 1
    /\ UNCHANGED <<registry, shakes, calls, response, events, eventPool, isSet, mapped, cancelled,
                   resolving, starting, stopPoll, starts, handshakes>>

Next ==
    \/ \E c \in Clients : CreateNew(c) \/ Register(c) \/ ShakeEnds(c) \/ ShakeStops(c) \/ ShakeTimesOut(c)
    \/ \E c \in Clients, t \in Things : RegisterThing(c, t)
    \/ \E c \in Clients, m \in Messages : ShakeTakes(c, m)
    \/ \E m \in Messages, t \in Things : Send(m, t)
    \/ \E m \in Messages : Sent(m) \/ Receive(m) \/ Return(m) \/ TimeOut(m) \/ Respond(m)
    \/ \E m \in Messages : ReadCancelled(m) \/ Read(m) \/ Resolve(m)
    \/ \E c \in Clients : Disconnect(c) \/ ReadMonitor(c)
    \/ Exit \/ Handshake \/ StartPolling \/ BeginPolling \/ StopPolling \/ EndPolling

\* The tasks a request has, besides the poll task.
Runs(m) == Sent(m) \/ Resolve(m) \/ Return(m)

\* asyncio runs every task that can run; servers owe nothing.
Fairness ==
    /\ WF_poolVars(BeginPolling) /\ WF_poolVars(EndPolling)
    /\ \A m \in Messages : WF_poolVars(Read(m)) /\ WF_poolVars(Runs(m))

PoolSpec == Init /\ [][Next]_poolVars /\ Fairness

-----------------------------------------------------------------------------
(***************************************************************************)
(* Properties.                                                             *)
(***************************************************************************)
TypeOK ==
    /\ pool \in Seq(Clients) /\ IsInjective(pool)
    /\ polled \subseteq watched /\ watched \subseteq ToSet(pool)
    /\ toClient \in [Things -> Clients \cup {None}]
    /\ toThing \in [Clients -> Things \cup {None}]
    /\ {ready, shaking, halted} \subseteq SUBSET Clients
    /\ monitor \in [Clients -> {"quiet", "event", "read"}]
    /\ to \in [Messages -> Clients \cup {None}]
    /\ stage \in [Messages -> {"new", "sending", "sent", "waiting", "returned", "raised",
                               "timedout"}]
    /\ response \in [Messages -> {"none", "socket", "taken", "read"}]
    /\ events \in [Messages -> 0..size] /\ free \in Seq(1..size) /\ size \in Nat
    /\ isSet \subseteq 1..size
    /\ {mapped, cancelled, resolving} \subseteq SUBSET Messages
    /\ {starting, pollers, starts} \subseteq 0..MaxStarts /\ stopPoll \in BOOLEAN
    /\ handshakes \in 0..MaxHandshakes

\* Where a request stands while its caller may still get the response.
InCall == {"sending", "sent", "waiting"}

\* Whenever the response comes - before its event, before the caller waits,
\* after others took and returned events - the caller is woken: its event is
\* set or a task will set it, and the response is in the map (brokers.py:1978).
ReadWakes ==
    \A m \in Messages : response[m] = "read" /\ stage[m] \in InCall =>
        m \in mapped /\ (m \in resolving \/ (events[m] # 0 /\ events[m] \in isSet))

\* A caller is woken only for its own response, although events are used over
\* and over: none is in two hands, and one that is handed out is clear until
\* the response is there, so that the map has what the caller takes out of it
\* (brokers.py:2310 and :2123).
EventsApart ==
    /\ \A m, n \in Messages : events[m] # 0 /\ events[m] = events[n] => m = n
    /\ IsInjective(free) /\ \A m \in Messages : events[m] \notin ToSet(free)
    /\ \A m \in Messages : events[m] \in isSet => m \in mapped
    /\ \A m \in Messages : stage[m] # "raised"

\* While a poll task runs, a response in a socket it polls reaches the caller
\* that waits for it, or the caller times out (brokers.py:1971).
Due(m) == stage[m] = "waiting" /\ (response[m] = "read" \/ InReach(m))
ReadIsReturned == []<>(\A m \in Messages : ~Due(m))

\* brokers.py:1953: a disconnected client is unregistered "from poller
\* temporarily until server comes back": the task goes on for the others.
DisconnectIsSurvived == [][pollers' < pollers => stopPoll]_poolVars

\* brokers.py:2113: a caller that waits looks from time to time "to check if
\* server is also dead".
DeadServerIsNoticed ==
    \A m \in Messages : stage[m] = "waiting" /\ monitor[to[m]] # "quiet" ~> stage[m] # "waiting"

\* brokers.py:2314: "Put an event back into the pool."  A caller that is done
\* holds no event.
EventsComeBack ==
    \A m \in Messages : stage[m] \in {"returned", "timedout"} => events[m] = 0

\* brokers.py:2087: the reply is dropped if the timeout occurs: what was
\* cancelled waits for nothing that was read already.
CancelledIsUnread == \A m \in cancelled : response[m] # "read"

\* Responses reach the pool although a client shakes hands again
\* (brokers.py:1476).
NoneTaken == \A m \in Messages : response[m] # "taken"

\* brokers.py:1483: the event tells that a handshake is complete.
ReadyWasAnswered == [][\A c \in Clients : ~ShakeStops(c)]_poolVars

\* brokers.py:2180: after stop_polling() the poll tasks end.
StopEndsPolling == stopPoll ~> pollers = 0 /\ starting = 0

\* brokers.py:2199: async_execute_in_all() asks each Thing once.
EachThingOnce ==
    \A c, d \in Clients : toThing[c] # None /\ toThing[c] = toThing[d] => c = d

\* brokers.py:2255: exit() takes every client out of the poller.
ExitReachesAll == [][Exit => watched' = {}]_poolVars
=============================================================================
