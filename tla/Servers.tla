------------------------------ MODULE Servers ------------------------------
(***************************************************************************)
(* The servers: routes and requests of the HTTP server, sockets of ZMQ     *)
(* servers and starts of one, publishers of the MQTT server, and run() and *)
(* stop() of all servers.  They share no variable.  One of them runs,      *)
(* `part`; the others keep their initial state.                            *)
(***************************************************************************)
EXTENDS Naturals, Sequences

CONSTANTS
    RoutedThings, ClassOf, MembersOf, KindOf, DefinedIn, ReadOnly,      \* HTTPRoutes
    Observable, ByHand, ThingModel, MaxByHand,
    RequestIds, HTTPInputs, MethodsOf, OnlyListedClients, Secured,      \* HTTPRequests
    AllowUnknown,
    ZMQServers, ServerIds, ProcessOf, SocketTransports, PortRequested,  \* ZMQSockets
    MaxPort, Foreign, SearchStart, SearchEnd,
    AllRuns, RunIds, EventLoops, LoopsOf, Stoppers,                     \* ServerRuns
    PublishedThings, TopicsOf, Unbound, MaxStarts, MaxEvents,           \* MQTTPublishing
    LoopTransports, LoopRequests, LoopInputs, ServedThings, OtherThread, \* ZMQServing
    None

VARIABLES
    part,
    rules, pending, things, broken, byHand,
    input, progress, status, operation, replies, serving, listening,
    stage, todo, try, address, holder, foreign,
    registry, run, up, failed, shutdown, interrupted, thread, running, stopper,
    starts, starting, registered, told, task, subscribed, waiting, taken,
    served, subscriptions, started, polling, stopPoll, loop, late, inbox, request, fate, answer, closed

routesVars == <<rules, pending, things, broken, byHand>>
requestsVars == <<input, progress, status, operation, replies, serving, listening>>
socketsVars == <<stage, todo, try, address, holder, foreign>>
runsVars == <<registry, run, up, failed, shutdown, interrupted, thread, running, stopper>>
topicsVars == <<starts, starting, registered, told, task, subscribed, waiting, taken>>
loopsVars == <<served, subscriptions, started, polling, stopPoll, loop, late, inbox, request, fate,
               answer, closed>>
allVars == <<part, routesVars, requestsVars, socketsVars, runsVars, topicsVars, loopsVars>>

(***************************************************************************)
(* The components.  How often MQTT publishers and ZMQ servers are started  *)
(* has one bound.                                                          *)
(***************************************************************************)
Routes == INSTANCE HTTPRoutes WITH
    Things <- RoutedThings, Members <- MembersOf, Kind <- KindOf

Asking == INSTANCE HTTPRequests WITH
    Requests <- RequestIds, Inputs <- HTTPInputs, AllowedMethods <- MethodsOf,
    stage <- progress, stored <- replies, running <- serving

Sockets == INSTANCE ZMQSockets WITH
    Servers <- ZMQServers, IdOf <- ServerIds, Process <- ProcessOf, Transports <- SocketTransports,
    Requested <- PortRequested

Running == INSTANCE ServerRuns WITH Runs <- AllRuns, IdOf <- RunIds, stage <- run

Publishing == INSTANCE MQTTPublishing WITH Things <- PublishedThings

Loops == INSTANCE ZMQServing WITH
    Transports <- LoopTransports, Requests <- LoopRequests, Inputs <- LoopInputs,
    Things <- ServedThings, things <- served, subscribed <- subscriptions, starts <- started

ASSUME ServersAssumption ==
    /\ Routes!RoutesAssumption /\ Asking!RequestsAssumption /\ Sockets!SocketsAssumption
    /\ Running!RunsAssumption /\ Publishing!PublishingAssumption /\ Loops!ServingAssumption

(***************************************************************************)
(* The composition.                                                        *)
(***************************************************************************)
Parts == {"routes", "requests", "sockets", "runs", "topics", "loops"}

ServersInit ==
    /\ part \in Parts
    /\ Routes!Init /\ Asking!Init /\ Sockets!Init /\ Running!Init /\ Publishing!Init /\ Loops!Init

ServersNext ==
    /\ UNCHANGED part
    /\ IF part = "routes" THEN Routes!Next ELSE UNCHANGED routesVars
    /\ IF part = "requests" THEN Asking!Next ELSE UNCHANGED requestsVars
    /\ IF part = "sockets" THEN Sockets!Next ELSE UNCHANGED socketsVars
    /\ IF part = "runs" THEN Running!Next ELSE UNCHANGED runsVars
    /\ IF part = "topics" THEN Publishing!Next ELSE UNCHANGED topicsVars
    /\ IF part = "loops" THEN Loops!Next ELSE UNCHANGED loopsVars

\* In its initial state no component has an action that fairness is about.
ServersSpec ==
    /\ ServersInit /\ [][ServersNext]_allVars
    /\ Running!Fairness /\ Publishing!Fairness

(***************************************************************************)
(* Properties of the components, each for the part that runs.              *)
(***************************************************************************)

\* Each form of a description leads to a route that runs its operation on its
\* object, each object of a Thing that is served has a route, and only its own
\* ones, whatever was routed by hand before (server.py:458, services.py:77).
RoutesLead ==
    part = "routes" => Routes!TypeOK /\ Routes!FormsAreServed /\ Routes!OwnObjectsRouted

\* A request that is refused has run nothing; the status of any other one says
\* what became of its operation; a reply that is to be collected is kept until
\* it is, or until the loop stops (handlers.py:421, :512 and :550).
FateIsTold ==
    part = "requests" => /\ Asking!TypeOK /\ Asking!RefusedRunsNothing
                         /\ Asking!StatusIsFate /\ Asking!RepliesKept

\* A socket of a living server holds the address it names, whoever searches
\* for ports at the same time, and a server that is gone holds none
\* (brokers.py:212 and :239, zmq/server.py:326).
AddressesAreHeld ==
    part = "sockets" => Sockets!TypeOK /\ Sockets!AddressIsHeld /\ Sockets!GoneHoldsNothing

\* A run that serves is registered until a stop() has found it, and one that
\* has returned serves nothing (server/server.py:25 and :103).
RunsAreRegistered ==
    part = "runs" => /\ Running!TypeOK /\ Running!ServingIsRegistered
                     /\ Running!ReturnedServesNothing

\* A stop() that found a run makes it return (server/server.py:143).
StoppedRunReturns == Running!StoppedRunReturns

\* However often servers are started and stopped: an MQTT publisher is
\* subscribed exactly while its task runs, and a ZMQ server once to each Thing
\* that was there at a start (mqtt/handlers.py:76, zmq/server.py:412).
SubscriptionsFit ==
    /\ part = "topics" => Publishing!TypeOK /\ Publishing!SubscribedWhileRunning
    /\ part = "loops" => Loops!SubscribedOnce

\* stop() tells the publishers of the first Thing, of starts that were not
\* repeated, and a publisher that was told ends (mqtt/server.py:195).
StopEndsPublishers == Publishing!StopReachesFirstThing /\ Publishing!ToldPublishersEnd
=============================================================================
