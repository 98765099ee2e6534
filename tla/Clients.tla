------------------------------ MODULE Clients ------------------------------
(***************************************************************************)
(* Messages between clients and servers: a ZMQ client that callers share,  *)
(* a pool of clients that one task polls, the receive loops of a ZMQ       *)
(* server, listeners of events, the event that tasks of several loops wait *)
(* for, and proxies.  They share no variable.  One of them runs, `part`;   *)
(* the others keep an initial state.                                       *)
(***************************************************************************)
EXTENDS ZMQClient

CONSTANTS
    PoolClients, First, Things, Timed, MaxStarts, MaxHandshakes,        \* ClientPool
    Transports, Requests, Inputs, OtherThread,                          \* ZMQServing
    Listeners, Streams, MaxEvents, MaxUnsubscribes,                     \* EventListening
    EventLoops, Waiters, LoopOf, Setters,                               \* CrossLoopEvent
    Protocols, Properties, Actions, EventLists, Observable, ChangeEvent, \* ObjectProxies
    OwnAttributes, ClassProperties, Ids

VARIABLES
    part,
    things, subscribed, starts, polling, stopPoll, loop, late, queue, request, fate, reply, closed,
    listener, known, stopped, left, arrived, taken, poll, unsubscribing, published, unsubscribes,
    called, after,
    isSet, waiters, await, future, due, posted, shut,
    protocol, built, todo, attribute, replaced, caller, issued, answer, noblock, replyOp, last,
    pool, polled, watched, toClient, toThing, shaken, shaking, halted, gone, to, stage,
    response, events, free, size, flags, mapped, cancelled, resolving, starting, pollers,
    poolStop, poolStarts, handshakes

servingVars == <<things, subscribed, starts, polling, stopPoll, loop, late, queue, request, fate,
                 reply, closed>>
listeningVars == <<listener, known, stopped, left, arrived, taken, poll, unsubscribing, published,
                   unsubscribes, called, after>>
eventVars == <<isSet, waiters, await, future, due, posted, shut>>
proxyVars == <<protocol, built, todo, attribute, replaced, caller, issued, answer, noblock,
               replyOp, last>>
clientPoolVars == <<pool, polled, watched, toClient, toThing, shaken, shaking, halted,
                    gone, to, stage, response, events, free, size, flags, mapped, cancelled,
                    resolving, starting, pollers, poolStop, poolStarts, handshakes>>
allVars == <<part, vars, servingVars, listeningVars, eventVars, proxyVars, clientPoolVars>>

(***************************************************************************)
(* The components.  What they call by one name has one value: the callers  *)
(* of a client and of a proxy, the messages of a client and of a pool, and *)
(* the Things.                                                             *)
(***************************************************************************)
Serving == INSTANCE ZMQServing WITH inbox <- queue, answer <- reply

Listening == INSTANCE EventListening WITH
    stage <- listener, subscribed <- known, closed <- left

Event == INSTANCE CrossLoopEvent WITH Loops <- EventLoops, todo <- due, closed <- shut

Proxies == INSTANCE ObjectProxies

Pool == INSTANCE ClientPool WITH
    Clients <- PoolClients, ready <- shaken, monitor <- gone, isSet <- flags,
    stopPoll <- poolStop, starts <- poolStarts

ASSUME ClientsAssumption ==
    /\ Serving!ServingAssumption /\ Listening!ListeningAssumption /\ Event!EventAssumption
    /\ Proxies!ProxiesAssumption /\ Pool!PoolAssumption

(***************************************************************************)
(* The composition.                                                        *)
(***************************************************************************)
Parts == {"client", "pool", "serving", "listening", "event", "proxies"}

ClientsInit ==
    /\ part \in Parts
    /\ Init /\ Serving!Init /\ Listening!Init /\ Event!Init /\ Proxies!Init /\ Pool!Init
    /\ part # "proxies" =>
         /\ protocol = CHOOSE p \in Protocols : TRUE
         /\ todo = Proxies!Described(CHOOSE names \in EventLists : TRUE)

ClientsNext ==
    /\ UNCHANGED part
    /\ IF part = "client" THEN Next ELSE UNCHANGED vars
    /\ IF part = "pool" THEN Pool!Next ELSE UNCHANGED clientPoolVars
    /\ IF part = "serving" THEN Serving!Next ELSE UNCHANGED servingVars
    /\ IF part = "listening" THEN Listening!Next ELSE UNCHANGED listeningVars
    /\ IF part = "event" THEN Event!Next ELSE UNCHANGED eventVars
    /\ IF part = "proxies" THEN Proxies!Next ELSE UNCHANGED proxyVars

\* In its initial state no component has an action that fairness is about.
ClientsSpec ==
    /\ ClientsInit /\ [][ClientsNext]_allVars
    /\ Fairness /\ Serving!Fairness /\ Listening!Fairness /\ Event!Fairness /\ Proxies!Fairness
    /\ Pool!Fairness

(***************************************************************************)
(* Properties of the components, each for the part that runs.              *)
(***************************************************************************)

\* Whoever shares a ZMQ client, a response waits in the socket or in the cache
\* until its caller returns it, and the poller lock is held by a caller that
\* polls or has just done so (brokers.py:1256 and :1271).  A response that the
\* poll task of a pool has read wakes its caller and no other one, whether it
\* comes before the event it needs or after events went through many hands
\* (brokers.py:1971 and :2310).
ResponsesAreKept ==
    /\ part = "client" => TypeOK /\ NoResponseLost /\ LockHeldInside
    /\ part = "pool" => Pool!TypeOK /\ Pool!ReadWakes /\ Pool!EventsApart

\* Whoever receives it, a response the server has sent is returned to the
\* caller that waits for it; in a pool, as long as its poll task runs
\* (brokers.py:1245 and :1971).
AnswersArrive == AnsweredIsReturned /\ Pool!ReadIsReturned

\* A request that was read is answered if its client waits, with what fits
\* it, and a stop lets each loop take in one more batch at most
\* (brokers.py:700, zmq/server.py:203).
RequestsAreAnswered ==
    part = "serving" => /\ Serving!TypeOK /\ Serving!ReadIsAnswered
                        /\ Serving!RepliesFit /\ Serving!OneMoreBatch

\* When one receive loop of a server ends, or stop() is called, all end, and
\* so does every task they have begun (zmq/server.py:217).
LoopsEnd == Serving!TasksEnd /\ Serving!AllLoopsEnd

\* A listener gets the events in their order, none twice, no more than one
\* after it was told to stop, and leaves no socket behind (abstractions.py:497,
\* brokers.py:2578).
EventsAreHeard ==
    part = "listening" => /\ Listening!TypeOK /\ Listening!OneMoreEvent
                          /\ Listening!CalledInOrder /\ Listening!EndedIsReleased

\* What waits in a client ends: a listener that unsubscribe() has found, and a
\* caller of a proxy, unless over ZMQ its reply is lost or was read already
\* (consumed_interactions.py:163 and :568).
ClientsEnd == Listening!FoundListenersEnd /\ Proxies!WaitsEnd

\* Nobody waits in the list of a set event, a cancelled waiter is not left in
\* it, and no waiter is left out of it (utils.py:61 and :87).
WaitersAreParked ==
    part = "event" => Event!TypeOK /\ Event!SetHasNoWaiters /\ Event!WaitersAreParked

\* A waiter that a set() took wakes up although the event is cleared again
\* (utils.py:68).
TakenWakes == Event!TakenWakes

\* "Semantics match threading.Event" (utils.py:38).
KeepsEventPromise == Event!KeepsEventPromise

\* An ID that was issued can be read by read_reply(), and the response an
\* attribute keeps is one of its own requests (proxy.py:619,
\* consumed_interactions.py:210).
RepliesStay ==
    part = "proxies" => Proxies!TypeOK /\ Proxies!IssuedCanBeRead /\ Proxies!KeepsItsOwn
=============================================================================
