--------------------------- MODULE MQTTPublishing ---------------------------
(***************************************************************************)
(* The MQTT publisher (server/mqtt/server.py) and its publishers of events *)
(* and properties, one task per topic (server/mqtt/handlers.py).           *)
(*                                                                         *)
(* Each start() makes new publishers; those of an earlier start are        *)
(* forgotten when a topic is published anew.  A publisher is named by the  *)
(* topic and the number of the start.  The description of a Thing is       *)
(* published once, by a publisher without stop().                          *)
(***************************************************************************)
EXTENDS Naturals, Sequences, SequencesExt, FiniteSets

CONSTANTS
    Things,         \* sequence of the Things that are served
    TopicsOf,       \* [Things -> sequence of topics] events and properties
    Unbound,        \* Things without an event loop
    MaxStarts, MaxEvents

Topics == UNION {ToSet(TopicsOf[t]) : t \in ToSet(Things)}

\* A topic has the ID of its Thing and a name that the Thing has once.
PublishingAssumption ==
    /\ Things \in Seq(ToSet(Things)) /\ IsInjective(Things) /\ ToSet(Things) \subseteq DOMAIN TopicsOf
    /\ \A t \in ToSet(Things) : TopicsOf[t] \in Seq(Topics) /\ IsInjective(TopicsOf[t])
    /\ \A t, u \in ToSet(Things) : ToSet(TopicsOf[t]) \cap ToSet(TopicsOf[u]) # {} => t = u
    /\ "description" \notin Topics /\ Unbound \subseteq ToSet(Things) /\ {MaxStarts, MaxEvents} \subseteq Nat

Publishers == Topics \X (1..MaxStarts)
Description(t) == <<"description", t>>

VARIABLES
    starts,
    starting,   \* tasks of start_publishers() to run: a Thing and a start
    registered, \* the dictionary `publishers`, in its order: publishers, descriptions
    told,       \* publishers that were told to stop
    task,       \* what the task of each publisher is doing
    subscribed, \* publishers with a subscription at the event bus
    waiting,    \* events that wait in each subscription
    taken       \* history: events each publisher has taken, counted

publishing == <<told, task, subscribed, waiting, taken>>
vars == <<starts, starting, registered, publishing>>

TypeOK ==
    /\ starts \in 0..MaxStarts
    /\ ToSet(starting) \subseteq ToSet(Things) \X (1..MaxStarts)
    /\ ToSet(registered) \subseteq Publishers \cup {Description(t) : t \in ToSet(Things)}
    /\ IsInjective(registered)
    /\ told \subseteq Publishers /\ subscribed \subseteq Publishers
    /\ task \in [Publishers -> {"none", "created", "receiving", "publishing", "ended"}]
    /\ waiting \in [Publishers -> 0..MaxEvents] /\ taken \in [Publishers -> 0..MaxEvents]

Init ==
    /\ starts = 0 /\ starting = <<>> /\ registered = <<>>
    /\ told = {} /\ task = [p \in Publishers |-> "none"] /\ subscribed = {}
    /\ waiting = [p \in Publishers |-> 0] /\ taken = waiting

(***************************************************************************)
(* start(), setup() and start_publishers()                                 *)
(***************************************************************************)
\* The client connects, or is connected from an earlier start; a broker that is
\* not there makes start() raise, which is no step here.
Start ==
    /\ starts < MaxStarts /\ starts' = starts + 1
    /\ starting' = starting \o [i \in DOMAIN Things |-> <<Things[i], starts + 1>>]
    /\ UNCHANGED <<registered, publishing>>

\* A key that is there keeps its place, and its publisher is replaced; the keys
\* of a Thing have come together.
Put(dict, t, n) ==
    IF Description(t) \notin ToSet(dict)
    THEN Append(dict \o [i \in DOMAIN TopicsOf[t] |-> <<TopicsOf[t][i], n>>], Description(t))
    ELSE [i \in DOMAIN dict |->
            IF dict[i][1] \in ToSet(TopicsOf[t]) THEN <<dict[i][1], n>> ELSE dict[i]]

StartPublishers ==
    LET t == Head(starting)[1]  n == Head(starting)[2] IN
    /\ starting # <<>> /\ starting' = Tail(starting)
    /\ IF t \in Unbound THEN UNCHANGED <<registered, task>>
       ELSE /\ registered' = Put(registered, t, n)
            /\ task' = [p \in Publishers |->
                          IF p[1] \in ToSet(TopicsOf[t]) /\ p[2] = n THEN "created" ELSE task[p]]
    /\ UNCHANGED <<starts, told, subscribed, waiting, taken>>

(***************************************************************************)
(* publish()                                                               *)
(***************************************************************************)
Becomes(p, s) == task' = [task EXCEPT ![p] = s]

\* A subscription is made before the first look at the flag.
Begin(p) ==
    /\ task[p] = "created" /\ Becomes(p, "receiving")
    /\ subscribed' = subscribed \cup {p}
    /\ UNCHANGED <<starts, starting, registered, told, waiting, taken>>

\* An event or a change of the property, while it is not too many.
Push(x) ==
    LET at == {p \in subscribed : p[1] = x} IN
    /\ at # {} /\ \A p \in at : waiting[p] + taken[p] < MaxEvents
    /\ waiting' = [p \in Publishers |-> waiting[p] + (IF p \in at THEN 1 ELSE 0)]
    /\ UNCHANGED <<starts, starting, registered, told, task, subscribed, taken>>

Receive(p) ==
    /\ task[p] = "receiving" /\ p \notin told /\ waiting[p] > 0
    /\ waiting' = [waiting EXCEPT ![p] = @ - 1] /\ taken' = [taken EXCEPT ![p] = @ + 1]
    /\ Becomes(p, "publishing") /\ UNCHANGED <<starts, starting, registered, told, subscribed>>

\* The client publishes the message, or raises, which is logged.
Publish(p) ==
    /\ task[p] = "publishing" /\ Becomes(p, "receiving")
    /\ UNCHANGED <<starts, starting, registered, told, subscribed, waiting, taken>>

\* Mutant: what waits is to be received before.
EndDrained(p) ==
    /\ task[p] = "receiving" /\ p \in told /\ waiting[p] = 0 /\ Becomes(p, "ended")
    /\ subscribed' = subscribed \ {p}
    /\ UNCHANGED <<starts, starting, registered, told, waiting, taken>>

\* After a receive, of an event or with a timeout, the flag is looked at.
End(p) ==
    /\ task[p] = "receiving" /\ p \in told /\ Becomes(p, "ended")
    /\ subscribed' = subscribed \ {p} /\ waiting' = [waiting EXCEPT ![p] = 0]
    /\ UNCHANGED <<starts, starting, registered, told, taken>>

(***************************************************************************)
(* stop()                                                                  *)
(***************************************************************************)
\* Publishers are told one after the other; the first that is the description
\* of a Thing has no stop() to call.
Before(dict) ==
    LET bad == {i \in DOMAIN dict : dict[i][1] = "description"} IN
    IF bad = {} THEN dict ELSE SubSeq(dict, 1, (CHOOSE i \in bad : \A j \in bad : i <= j) - 1)

Stop ==
    /\ told' = told \cup ToSet(Before(registered))
    /\ UNCHANGED <<starts, starting, registered, task, subscribed, waiting, taken>>

Next ==
    \/ Start \/ Stop \/ StartPublishers
    \/ \E p \in Publishers : Begin(p) \/ Receive(p) \/ Publish(p) \/ End(p)
    \/ \E x \in Topics : Push(x)

\* asyncio runs the tasks, and receive() has a timeout.
Fairness == \A p \in Publishers : WF_vars(Begin(p)) /\ WF_vars(Publish(p)) /\ WF_vars(End(p))

Spec == Init /\ [][Next]_vars /\ Fairness

(***************************************************************************)
(* Properties.                                                             *)
(***************************************************************************)
Runs(p) == task[p] \in {"created", "receiving", "publishing"}

\* stop() tells every publisher of the first Thing that runs and was not
\* replaced by one of a later start (server.py:195).
StopReachesFirstThing ==
    [][Stop => \A p \in Publishers :
         Runs(p) /\ p \in ToSet(registered) /\ p[1] \in ToSet(TopicsOf[Things[1]]) => p \in told']_vars

\* A publisher that was told to stop ends (handlers.py:82).
ToldPublishersEnd ==
    []<>(\A p \in told : ~Runs(p))

\* "Stop publishing": after stop() every publisher that was there is told to
\* stop (server.py:194).  Not so with two Things: the call for the description
\* of the first raises.
StopReachesAll ==
    [][Stop => \A p \in Publishers : Runs(p) => p \in told']_vars

\* A publisher is subscribed exactly while its task runs (handlers.py:76).
SubscribedWhileRunning ==
    \A p \in Publishers : p \in subscribed <=> task[p] \in {"receiving", "publishing"}
=============================================================================
