------------------------------ MODULE EventBus ------------------------------
(***************************************************************************)
(* Events and property changes on their way from the Thing's thread that   *)
(* pushes them to whoever listens (hololinked/core/eventloop/pubsub.py):   *)
(* the bus with its one lock, a subscription with its bounded queue on the *)
(* listener's asyncio loop, the coroutine of the HTTP event stream or of   *)
(* the MQTT publisher that receives from it, and the callbacks that send   *)
(* on a ZMQ socket within the push.                                        *)
(***************************************************************************)
EXTENDS Naturals, Sequences, SequencesExt

CONSTANTS
  Events,     \* registered events
  Pushers,    \* threads of Things
  Listeners,  \* at most one subscription each
  EventOf,    \* [Listeners -> Events]
  Direct,     \* listeners called within the push (ZMQ event publishers)
  Fragile,    \* those of them whose callback may raise
  Streams,    \* listeners that are HTTP event streams; the others are MQTT publishers
  MaxSize,    \* EventSubscription.queue.maxsize
  MaxPushes,  \* bound on the pushes of a behaviour
  None        \* nobody holds the lock

ASSUME ConstantsAssumption ==
  /\ EventOf \in [Listeners -> Events]
  /\ Direct \subseteq Listeners /\ Fragile \subseteq Direct
  /\ Streams \subseteq Listeners \ Direct
  /\ MaxSize \in Nat \ {0} /\ MaxPushes \in Nat
  /\ None \notin Pushers

VARIABLES
  lock,         \* EventBus._lock while a push holds it
  subscribers,  \* EventBus._subscribers
  rest,         \* the callbacks that the push has still to call
  pushed,       \* number of pushes; the payload of a push is its number
  handler,      \* where the listener's coroutine stands
  posted,       \* payloads handed to the listener's loop, call_soon_threadsafe
  queue,        \* EventSubscription.queue
  dropped,      \* EventSubscription.dropped
  left,         \* the client of the stream left, or the publisher was told to stop
  offered, got, \* history: payloads that the callback was given, that were received
  raised        \* history: a callback has raised

vars == <<lock, subscribers, rest, pushed, handler, posted, queue, dropped, left, offered, got,
          raised>>
bus == <<lock, subscribers, rest, pushed>>

Payloads == 1 .. MaxPushes

TypeOK ==
  /\ lock \in Pushers \cup {None}
  /\ subscribers \in [Events -> Seq(Listeners)]
  /\ rest \in Seq(Listeners)
  /\ pushed \in 0 .. MaxPushes
  /\ handler \in [Listeners -> {"off", "subscribing", "direct", "receiving", "sending",
                                "leaving", "gone", "dead"}]
  /\ posted \in [Listeners -> Seq(Payloads)]
  /\ queue \in [Listeners -> Seq(Payloads)] /\ \A s \in Listeners : Len(queue[s]) <= MaxSize
  /\ dropped \in [Listeners -> Nat]
  /\ left \in [Listeners -> BOOLEAN]
  /\ offered \in [Listeners -> Seq(Payloads)]
  /\ got \in [Listeners -> Seq(Payloads)]
  /\ raised \in BOOLEAN

Init ==
  /\ lock = None /\ rest = <<>> /\ pushed = 0
  /\ subscribers = [e \in Events |-> <<>>]
  /\ handler = [s \in Listeners |-> "off"]
  /\ posted = [s \in Listeners |-> <<>>]
  /\ queue = [s \in Listeners |-> <<>>]
  /\ dropped = [s \in Listeners |-> 0]
  /\ left = [s \in Listeners |-> FALSE]
  /\ offered = [s \in Listeners |-> <<>>]
  /\ got = [s \in Listeners |-> <<>>]
  /\ raised = FALSE

-----------------------------------------------------------------------------
(* EventDispatcher.push() on a Thing's thread: EventBus.publish() holds    *)
(* the lock for the whole fan-out.                                         *)
Push(p, e) ==
  /\ lock = None /\ pushed < MaxPushes
  /\ lock' = p
  /\ pushed' = pushed + 1
  /\ rest' = subscribers[e]
  /\ UNCHANGED <<subscribers, handler, posted, queue, dropped, left, offered, got, raised>>

(* A subscription posts the payload to its loop, if that still runs; a     *)
(* direct callback sends it there and then.                                *)
Deliver(p) ==
  /\ lock = p /\ rest # <<>>
  /\ LET s == Head(rest) IN
       /\ offered' = [offered EXCEPT ![s] = Append(@, pushed)]
       /\ got' = IF s \in Direct THEN [got EXCEPT ![s] = Append(@, pushed)] ELSE got
       /\ posted' = IF s \in Direct \/ handler[s] = "dead" THEN posted
                    ELSE [posted EXCEPT ![s] = Append(@, pushed)]
  /\ rest' = Tail(rest)
  /\ UNCHANGED <<lock, subscribers, pushed, handler, queue, dropped, left, raised>>

(* A callback raises, and the push with it.                                *)
CallbackRaises(p) ==
  /\ lock = p /\ rest # <<>> /\ Head(rest) \in Fragile
  /\ lock' = None /\ rest' = <<>>
  /\ raised' = TRUE
  /\ UNCHANGED <<subscribers, pushed, handler, posted, queue, dropped, left, offered, got>>

PushReturns(p) ==
  /\ lock = p /\ rest = <<>>
  /\ lock' = None
  /\ UNCHANGED <<subscribers, rest, pushed, handler, posted, queue, dropped, left, offered, got, raised>>

-----------------------------------------------------------------------------
HandlerAt(s, from, to) ==
  /\ handler[s] = from
  /\ handler' = [handler EXCEPT ![s] = to]

(* EventSubscription(): event_for() and subscribe() take the lock in turn. *)
EventFor(s) ==
  /\ lock = None /\ HandlerAt(s, "off", "subscribing")
  /\ UNCHANGED <<bus, posted, queue, dropped, left, offered, got, raised>>

Subscribe(s) ==
  /\ lock = None
  /\ HandlerAt(s, "subscribing", IF s \in Direct THEN "direct" ELSE "receiving")
  /\ subscribers' = [subscribers EXCEPT ![EventOf[s]] = IF s \in ToSet(@) THEN @ ELSE Append(@, s)]
  /\ UNCHANGED <<lock, rest, pushed, posted, queue, dropped, left, offered, got, raised>>

(* _handle_event_publish() on the listener's loop                          *)
(* Mutant: the new payload is the one that goes.                           *)
DropNewest(q, v) == IF Len(q) = MaxSize THEN q ELSE Append(q, v)

DropOldest(q, v) == Append(IF Len(q) = MaxSize THEN Tail(q) ELSE q, v)

Handle(s) ==
  /\ posted[s] # <<>> /\ handler[s] # "dead"
  /\ posted' = [posted EXCEPT ![s] = Tail(@)]
  /\ queue' = [queue EXCEPT ![s] = DropOldest(@, Head(posted[s]))]
  /\ dropped' = [dropped EXCEPT ![s] = IF Len(queue[s]) = MaxSize THEN @ + 1 ELSE @]
  /\ UNCHANGED <<bus, handler, left, offered, got, raised>>

(* receive() returns a payload                                             *)
Receive(s) ==
  /\ queue[s] # <<>> /\ HandlerAt(s, "receiving", "sending")
  /\ got' = [got EXCEPT ![s] = Append(@, Head(queue[s]))]
  /\ queue' = [queue EXCEPT ![s] = Tail(@)]
  /\ UNCHANGED <<bus, posted, dropped, left, offered, raised>>

(* It was sent, or failed to be: a closed stream and a told publisher end, *)
(* any other failure costs the payload.                                    *)
Sent(s) ==
  /\ HandlerAt(s, "sending", IF left[s] THEN "leaving" ELSE "receiving")
  /\ UNCHANGED <<bus, posted, queue, dropped, left, offered, got, raised>>

(* Mutant: a timeout is not used to look for a stop.                       *)
ReceiveWaitsOn(s) ==
  /\ s \notin Streams /\ left[s] /\ handler[s] = "receiving"
  /\ UNCHANGED vars

(* receive() timed out. The MQTT publisher looks whether it was told to    *)
(* stop, the event stream writes nothing and waits again.                  *)
ReceiveTimesOut(s) ==
  /\ s \notin Streams /\ left[s]
  /\ HandlerAt(s, "receiving", "leaving")
  /\ UNCHANGED <<bus, posted, queue, dropped, left, offered, got, raised>>

(* Mutant: without the lock.                                               *)
UnsubscribeUnlocked(s) ==
  /\ HandlerAt(s, "leaving", "gone")
  /\ subscribers' = [subscribers EXCEPT ![EventOf[s]] = RemoveFirst(@, s)]
  /\ UNCHANGED <<lock, rest, pushed, posted, queue, dropped, left, offered, got, raised>>

(* finally: unsubscribe()                                                  *)
Unsubscribe(s) ==
  /\ lock = None /\ HandlerAt(s, "leaving", "gone")
  /\ subscribers' = [subscribers EXCEPT ![EventOf[s]] = RemoveFirst(@, s)]
  /\ UNCHANGED <<lock, rest, pushed, posted, queue, dropped, left, offered, got, raised>>

(* The client closes the stream, or MQTTPublisher.stop() is called.        *)
Leave(s) ==
  /\ handler[s] \in {"receiving", "sending"} /\ ~left[s]
  /\ left' = [left EXCEPT ![s] = TRUE]
  /\ UNCHANGED <<bus, handler, posted, queue, dropped, offered, got, raised>>

(* The listener's loop ends under it: call_soon_threadsafe raises.         *)
LoopDies(s) ==
  /\ s \notin Direct /\ handler[s] \in {"receiving", "sending"}
  /\ handler' = [handler EXCEPT ![s] = "dead"]
  /\ UNCHANGED <<bus, posted, queue, dropped, left, offered, got, raised>>

-----------------------------------------------------------------------------
Pushing(p) == Deliver(p) \/ CallbackRaises(p) \/ PushReturns(p)
Listening(s) == Receive(s) \/ Sent(s)

Next ==
  \/ \E p \in Pushers : (\E e \in Events : Push(p, e)) \/ Pushing(p)
  \/ \E s \in Listeners : EventFor(s) \/ Subscribe(s) \/ Handle(s) \/ Listening(s)
                            \/ ReceiveTimesOut(s) \/ Unsubscribe(s) \/ Leave(s) \/ LoopDies(s)

Spec == Init /\ [][Next]_vars

(* A push goes on, a listener's loop gets to what was posted and to its    *)
(* coroutine, a receive() times out. Nobody has to push or to leave. With  *)
(* finitely many pushes the lock is free in the end; threading.Lock itself *)
(* promises a waiting thread nothing.                                      *)
FairSpec ==
  /\ Spec
  /\ \A p \in Pushers : WF_vars(Pushing(p))
  /\ \A s \in Listeners : /\ WF_vars(Subscribe(s)) /\ WF_vars(Handle(s)) /\ WF_vars(Listening(s))
                          /\ WF_vars(ReceiveTimesOut(s)) /\ WF_vars(Unsubscribe(s))

-----------------------------------------------------------------------------
(* the payloads a listener has or will have, oldest first                  *)
Stream(s) == got[s] \o queue[s] \o posted[s]

(* Pushes of different Things reach a listener one after the other, in the *)
(* order in which they took the lock (publish(): "serializes concurrent    *)
(* pushes from different `Thing` threads onto each subscriber's wire").    *)
InOrder ==
  \A s \in Listeners : \A i, j \in 1 .. Len(Stream(s)) : i < j => Stream(s)[i] < Stream(s)[j]

(* A listener that is too slow is short of the oldest payloads only: the   *)
(* last one pushed is there for it (maxsize: "before dropping the oldest").*)
NewestSurvives ==
  \A s \in Listeners : handler[s] # "dead" /\ offered[s] # <<>> =>
    Stream(s) # <<>> /\ Last(Stream(s)) = Last(offered[s])

(* `dropped` tells how many it is short of.                                *)
DropsCounted ==
  \A s \in Listeners : handler[s] # "dead" => Len(offered[s]) = Len(Stream(s)) + dropped[s]

(* As long as no callback has raised, between pushes all subscribers of an  *)
(* event have been given the same payloads, from the moment each of them   *)
(* subscribed, however subscriptions and pushes meet (publish(): "Hand one *)
(* event's payload to its own subscribers").                               *)
SameForAll ==
  lock = None /\ ~raised =>
    \A e \in Events : \A i, j \in 1 .. Len(subscribers[e]) :
      i < j => IsSuffix(offered[subscribers[e][j]], offered[subscribers[e][i]])

(* Payloads reach a listener in the order of the pushes; one that is too   *)
(* slow is short of the oldest only, and is told of how many; and between  *)
(* pushes the subscribers of an event have been given the same (publish(), *)
(* receive()).                                                             *)
PayloadsFit == TypeOK /\ InOrder /\ NewestSurvives /\ DropsCounted /\ SameForAll

(* Once unsubscribe() has returned, no push that is under way calls back.  *)
SilentAfterUnsubscribe ==
  [][\A s \in Listeners : handler[s] = "gone" => offered'[s] = offered[s]]_vars

(* Whoever goes on listening gets what was pushed, or something newer.     *)
NewsArrives ==
  \A s \in Listeners \ Direct : \A n \in Payloads :
    n \in ToSet(offered[s]) ~> (\E m \in ToSet(got[s]) : m >= n) \/ left[s] \/ handler[s] = "dead"

(* An MQTT publisher that was told to stop does, even if nothing is pushed *)
(* any more ("go round and check for a stop").                             *)
PublisherStops ==
  \A s \in Listeners \ (Direct \cup Streams) : left[s] ~> handler[s] \in {"gone", "dead"}

(* Said of the event stream: the loop "handles heartbeat - raises          *)
(* StreamClosedError if the client left" (http/handlers.py:789).           *)
StreamEnds == \A s \in Streams : left[s] ~> handler[s] \in {"gone", "dead"}
=============================================================================
