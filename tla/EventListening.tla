--------------------------- MODULE EventListening ---------------------------
(***************************************************************************)
(* The listeners of one event in a client (client/abstractions.py, with    *)
(* client/zmq and client/http): each subscribe() starts a thread or a task *)
(* that opens a consumer, enters it in `_subscribed` and hands what it     *)
(* receives to the callbacks; unsubscribe() tells the listeners it finds   *)
(* there.  The ZMQ consumer is the one of brokers.py, whose sockets a call *)
(* of exit() from elsewhere may close under a poll.                        *)
(***************************************************************************)
EXTENDS Naturals, Sequences, SequencesExt

CONSTANTS
    Listeners,      \* calls of subscribe()
    Streams,        \* those that listen over HTTP; the others over ZMQ
    MaxEvents,
    MaxUnsubscribes

ListeningAssumption ==
    Streams \subseteq Listeners /\ {MaxEvents, MaxUnsubscribes} \subseteq Nat

VARIABLES
    stage,      \* where each listener is
    subscribed, \* listeners in `_subscribed`
    stopped,    \* their consumer was told to stop
    closed,     \* their sockets or response are closed
    arrived,    \* events that wait at each consumer
    taken,      \* the event each listener is handing to the callbacks, or 0
    poll,       \* ZMQ: who holds _poller_lock: "free", "polling"
    unsubscribing, \* listeners that unsubscribe() has still to stop
    published, unsubscribes,
    called,     \* history: events each listener has handed to its callbacks
    after       \* history: how many of them it took once it was told

listener == <<stage, taken, poll>>
history == <<called, after>>
vars == <<stage, subscribed, stopped, closed, arrived, taken, poll, unsubscribing, published,
          unsubscribes, called, after>>

TypeOK ==
    /\ stage \in [Listeners -> {"none", "starting", "listening", "handling", "leaving", "ended"}]
    /\ {subscribed, stopped, closed} \subseteq SUBSET Listeners
    /\ arrived \in [Listeners -> Seq(1..MaxEvents)]
    /\ taken \in [Listeners -> 0..MaxEvents]
    /\ poll \in [Listeners -> {"free", "polling"}]
    /\ unsubscribing \subseteq Listeners
    /\ published \in 0..MaxEvents /\ unsubscribes \in 0..MaxUnsubscribes
    /\ called \in [Listeners -> Seq(1..MaxEvents)] /\ after \in [Listeners -> Nat]

Init ==
    /\ stage = [l \in Listeners |-> "none"]
    /\ subscribed = {} /\ stopped = {} /\ closed = {} /\ unsubscribing = {}
    /\ arrived = [l \in Listeners |-> <<>>]
    /\ taken = [l \in Listeners |-> 0]
    /\ poll = [l \in Listeners |-> "free"]
    /\ published = 0 /\ unsubscribes = 0
    /\ called = [l \in Listeners |-> <<>>]
    /\ after = [l \in Listeners |-> 0]

Moves(l, from, to) == stage[l] = from /\ stage' = [stage EXCEPT ![l] = to]

(***************************************************************************)
(* subscribe() and listen().                                               *)
(***************************************************************************)
Subscribe(l) ==
    /\ Moves(l, "none", "starting")
    /\ UNCHANGED <<subscribed, stopped, closed, arrived, taken, poll, unsubscribing, published,
                   unsubscribes, history>>

\* The consumer is created and subscribes, or the response starts.
Open(l) ==
    /\ Moves(l, "starting", "listening")
    /\ subscribed' = subscribed \cup {l}
    /\ UNCHANGED <<stopped, closed, arrived, taken, poll, unsubscribing, published, unsubscribes, history>>

\* The server refuses the stream: listen() raises before it enters anything.
Refused(l) ==
    /\ l \in Streams /\ Moves(l, "starting", "ended")
    /\ UNCHANGED <<subscribed, stopped, closed, arrived, taken, poll, unsubscribing, published,
                   unsubscribes, history>>

Told(l) == l \in stopped \/ l \notin subscribed

\* receive() takes the lock and polls, unless it was told to stop.
Poll(l) ==
    /\ l \notin Streams /\ stage[l] = "listening" /\ poll[l] = "free"
    /\ ~Told(l) /\ l \notin closed
    /\ poll' = [poll EXCEPT ![l] = "polling"]
    /\ UNCHANGED <<stage, subscribed, stopped, closed, arrived, taken, unsubscribing, published,
                   unsubscribes, history>>

\* A message, or none before the poll times out, or a closed socket.
PollEnds(l) ==
    /\ poll[l] = "polling"
    /\ poll' = [poll EXCEPT ![l] = "free"]
    /\ \/ l \notin closed /\ arrived[l] # <<>>
          /\ Moves(l, "listening", "handling")
          /\ taken' = [taken EXCEPT ![l] = Head(arrived[l])]
          /\ arrived' = [arrived EXCEPT ![l] = Tail(@)]
          /\ UNCHANGED stopped
       \/ l \notin closed /\ arrived[l] = <<>>
          /\ UNCHANGED <<stage, taken, arrived, stopped>>
       \/ l \in closed
          /\ stopped' = stopped \cup {l}
          /\ UNCHANGED <<stage, taken, arrived>>
    /\ UNCHANGED <<subscribed, closed, unsubscribing, published, unsubscribes, history>>

\* iter_lines_interruptible() and the empty line that completes an event.
\* Mutant: the line is not dropped when the listener was told to stop.
ReadLineAnyway(l) ==
    /\ l \in Streams /\ arrived[l] # <<>>
    /\ Moves(l, "listening", "handling")
    /\ taken' = [taken EXCEPT ![l] = Head(arrived[l])]
    /\ arrived' = [arrived EXCEPT ![l] = Tail(@)]
    /\ UNCHANGED <<subscribed, stopped, closed, poll, unsubscribing, published, unsubscribes, history>>

ReadLine(l) ==
    /\ l \in Streams /\ arrived[l] # <<>> /\ ~Told(l)
    /\ Moves(l, "listening", "handling")
    /\ taken' = [taken EXCEPT ![l] = Head(arrived[l])]
    /\ arrived' = [arrived EXCEPT ![l] = Tail(@)]
    /\ UNCHANGED <<subscribed, stopped, closed, poll, unsubscribing, published, unsubscribes, history>>

\* schedule_callbacks() in turn; an exception of theirs is logged.
Handle(l) ==
    /\ Moves(l, "handling", "listening")
    /\ called' = [called EXCEPT ![l] = Append(@, taken[l])]
    /\ after' = [after EXCEPT ![l] = IF Told(l) THEN @ + 1 ELSE @]
    /\ taken' = [taken EXCEPT ![l] = 0]
    /\ UNCHANGED <<subscribed, stopped, closed, arrived, poll, unsubscribing, published, unsubscribes>>

\* BreakLoop, or the check at the head of the loop.
LeaveLoop(l) ==
    /\ Moves(l, "listening", "leaving") /\ poll[l] = "free"
    /\ Told(l) \/ l \in closed
    /\ UNCHANGED <<subscribed, stopped, closed, arrived, taken, poll, unsubscribing, published,
                   unsubscribes, history>>

\* The server ends the stream: the entry stays.
StreamEnds(l) ==
    /\ l \in Streams /\ Moves(l, "listening", "leaving")
    /\ UNCHANGED <<subscribed, stopped, closed, arrived, taken, poll, unsubscribing, published,
                   unsubscribes, history>>

\* The finally clause: the entry is removed and the consumer exits.
End(l) ==
    /\ Moves(l, "leaving", "ended")
    /\ subscribed' = IF l \in Streams THEN subscribed ELSE subscribed \ {l}
    /\ stopped' = IF l \in Streams THEN stopped ELSE stopped \cup {l}
    /\ closed' = closed \cup {l}
    /\ UNCHANGED <<arrived, taken, poll, unsubscribing, published, unsubscribes, history>>

(***************************************************************************)
(* unsubscribe(), and exit() of the consumer from another thread.          *)
(***************************************************************************)
Unsubscribe ==
    /\ unsubscribing = {} /\ unsubscribes < MaxUnsubscribes /\ subscribed # {}
    /\ unsubscribes' = unsubscribes + 1
    /\ unsubscribing' = subscribed
    /\ UNCHANGED <<listener, subscribed, stopped, closed, arrived, published, history>>

\* After the last one `_subscribed` is cleared, with what was entered since.
\* Mutant: nothing is cleared, and nobody is told.
StopNone(l) ==
    /\ l \in unsubscribing
    /\ unsubscribing' = unsubscribing \ {l}
    /\ closed' = IF l \in Streams THEN closed \cup {l} ELSE closed
    /\ UNCHANGED <<listener, subscribed, stopped, arrived, published, unsubscribes, history>>

StopListener(l) ==
    /\ l \in unsubscribing
    /\ unsubscribing' = unsubscribing \ {l}
    /\ stopped' = stopped \cup {l}
    /\ closed' = IF l \in Streams THEN closed \cup {l} ELSE closed
    /\ subscribed' = IF unsubscribing = {l} THEN {} ELSE subscribed
    /\ UNCHANGED <<listener, arrived, published, unsubscribes, history>>

\* It waits for the lock twice as long as a poll lasts, then closes anyway.
ExitConsumer(l) ==
    /\ l \notin Streams \cup closed /\ stage[l] \in {"listening", "handling"}
    /\ stopped' = stopped \cup {l}
    /\ closed' = closed \cup {l}
    /\ UNCHANGED <<listener, subscribed, arrived, unsubscribing, published, unsubscribes, history>>

-----------------------------------------------------------------------------
\* An event reaches some of those that listen: a subscription takes its time.
Publish(reached) ==
    /\ published < MaxEvents
    /\ published' = published + 1
    /\ reached \subseteq {l \in Listeners \ closed : stage[l] \in {"listening", "handling"}}
    /\ arrived' = [l \in Listeners |-> IF l \in reached THEN Append(arrived[l], published') ELSE arrived[l]]
    /\ UNCHANGED <<listener, subscribed, stopped, closed, unsubscribing, unsubscribes, history>>

Next ==
    \/ \E l \in Listeners :
         \/ Subscribe(l) \/ Open(l) \/ Refused(l) \/ Poll(l) \/ PollEnds(l) \/ ReadLine(l)
         \/ Handle(l) \/ LeaveLoop(l) \/ StreamEnds(l) \/ End(l) \/ StopListener(l) \/ ExitConsumer(l)
    \/ Unsubscribe
    \/ \E reached \in SUBSET Listeners : Publish(reached)

\* Threads and tasks run, and a poll has a timeout.
ListenerRuns(l) == PollEnds(l) \/ Handle(l) \/ LeaveLoop(l) \/ End(l)
Fairness == \A l \in Listeners : WF_vars(ListenerRuns(l)) /\ WF_vars(StopListener(l))

Spec == Init /\ [][Next]_vars /\ Fairness

(***************************************************************************)
(* Properties.                                                             *)
(***************************************************************************)

\* A listener that unsubscribe() has found ends, whatever it was doing, and
\* whatever else ends it (consumed_interactions.py:568).
FoundListenersEnd == \A l \in Listeners : (l \in unsubscribing) ~> (stage[l] = "ended")

\* A listener that was told takes no more than the event it was receiving
\* (brokers.py:2578, http/consumed_interactions.py:523).
OneMoreEvent == \A l \in Listeners : after[l] <= 1

\* The callbacks of a listener get the events in the order of their
\* publication, none twice (abstractions.py:497, not concurrent).
CalledInOrder ==
    \A l \in Listeners : \A i, j \in DOMAIN called[l] : i < j => called[l][i] < called[l][j]

\* An ended listener leaves no sockets behind, nor anything that unsubscribe()
\* would find over ZMQ (consumed_interactions.py:523).
EndedIsReleased ==
    \A l \in Listeners \ Streams : stage[l] = "ended" => l \notin subscribed /\ l \in closed /\ poll[l] = "free"

\* unsubscribe() ends every listener that was there.  Not so while the thread
\* of a subscribe() has not yet entered its consumer (abstractions.py:447).
UnsubscribeEndsAll ==
    \A l \in Listeners :
        (unsubscribing # {} /\ stage[l] # "none") ~> (stage[l] = "ended")
=============================================================================
