----------------------------- MODULE ZMQServing -----------------------------
(***************************************************************************)
(* A ZMQ server at work: one receive loop per transport reads requests and *)
(* makes a task of each (server/zmq/server.py), the transports' sockets    *)
(* answer what needs no task (AsyncZMQServer of server/zmq/brokers.py),    *)
(* and the publishers of the transports subscribe to the events of the     *)
(* Things.                                                                 *)
(*                                                                         *)
(* All coroutines run on one asyncio loop, and a receive loop lets others  *)
(* run only while it polls.  Where `OtherThread` holds, stop() is called   *)
(* from another thread, between any two steps of theirs.                   *)
(***************************************************************************)
EXTENDS Naturals, Sequences, SequencesExt

CONSTANTS
    Transports,
    Requests,
    Inputs,         \* messages that clients send
    Things,
    OtherThread,
    MaxStarts,
    None

InputType ==
    [kind : {"operation", "description", "unknown", "handshake", "short", "exit", "undecodable"},
     at : Transports, oneway : BOOLEAN]
ServingAssumption == Inputs \subseteq InputType /\ OtherThread \in BOOLEAN /\ MaxStarts \in Nat

Loops == Transports \X (1..MaxStarts)   \* the loop of a transport, from a start on
Transport(l) == l[1]

VARIABLES
    things,     \* the Things served since the last start
    subscribed, \* for each Thing the publishers' subscriptions, counted
    starts,
    polling,    \* ZMQServer.polling
    stopPoll,   \* stop_poll of each transport
    loop,       \* where each receive loop is
    late,       \* history: batches each loop read after the last stop
    inbox,      \* requests waiting at the socket of each transport
    request,    \* the message of each request, None before it is sent
    fate,       \* what became of each request
    answer,     \* the message its client got
    closed      \* exit() closed the sockets

serving == <<things, subscribed, starts>>
receiving == <<polling, stopPoll, loop, late>>
requests == <<inbox, request, fate, answer>>
vars == <<serving, receiving, requests, closed>>

TypeOK ==
    /\ things \subseteq Things /\ subscribed \in [Things -> 0..MaxStarts]
    /\ starts \in 0..MaxStarts /\ {polling, closed} \subseteq BOOLEAN
    /\ stopPoll \in [Transports -> BOOLEAN]
    /\ loop \in [Loops -> {"none", "created", "check", "reset", "poll", "ended"}]
    /\ inbox \in [Transports -> Seq(Requests)]
    /\ fate \in [Requests -> {"new", "sent", "dropped", "task", "executing", "done", "unsent"}]
    /\ answer \in [Requests -> {"none", "handshake", "reply", "timeout", "invalid"}]
    /\ \A x \in Transports : \A i \in DOMAIN inbox[x] :
         fate[inbox[x][i]] = "sent" /\ request[inbox[x][i]].at = x

Init ==
    /\ things = {} /\ subscribed = [t \in Things |-> 0] /\ starts = 0
    /\ polling = FALSE /\ stopPoll = [x \in Transports |-> FALSE]
    /\ loop = [l \in Loops |-> "none"] /\ late = [l \in Loops |-> 0]
    /\ inbox = [x \in Transports |-> <<>>] /\ request = [r \in Requests |-> None]
    /\ fate = [r \in Requests |-> "new"] /\ answer = [r \in Requests |-> "none"]
    /\ closed = FALSE

\* No receive loop but l, if any, is under way between two polls.
Yielded(l) == \A k \in Loops \ {l} : loop[k] \notin {"check", "reset"}

(***************************************************************************)
(* Starting and stopping.                                                  *)
(***************************************************************************)
StartWith(served, subscriptions) ==
    /\ starts < MaxStarts /\ ~closed /\ Yielded(None)
    /\ things \subseteq served /\ things' = served
    /\ subscribed' = [t \in Things |-> subscribed[t] + (IF t \in subscriptions THEN 1 ELSE 0)]
    /\ starts' = starts + 1 /\ polling' = TRUE
    /\ loop' = [l \in Loops |-> IF l[2] = starts + 1 THEN "created" ELSE loop[l]]
    /\ late' = [l \in Loops |-> 0]
    /\ UNCHANGED <<stopPoll, requests, closed>>

\* Mutant: a second setup() subscribes a second time.
StartAnew(served) == StartWith(served, served)

\* start() with the Things that were added by now: setup() subscribes to the
\* events it has not subscribed to.  stop() leaves the subscriptions.
Start(served) == StartWith(served, {t \in served : subscribed[t] = 0})

\* Mutant: only the loops are told.
StopLoopsOnly == polling' = FALSE /\ UNCHANGED stopPoll

StopPolling == polling' = FALSE /\ stopPoll' = [x \in Transports |-> TRUE]

\* stop(), and exit(), which closes the sockets as well.
Stop(close) ==
    /\ polling /\ StopPolling
    /\ OtherThread \/ Yielded(None)
    /\ closed' = (closed \/ close)
    /\ UNCHANGED <<serving, loop, late, requests>>

(***************************************************************************)
(* recv_requests() and poll_requests()                                     *)
(***************************************************************************)
Goto(l, s) == loop' = [loop EXCEPT ![l] = s]

Begin(l) ==
    /\ loop[l] = "created" /\ Yielded(l) /\ Goto(l, "check")
    /\ UNCHANGED <<serving, polling, stopPoll, late, requests, closed>>

\* A loop that ends stops those of all transports.
Check(l) ==
    /\ loop[l] = "check"
    /\ IF polling THEN Goto(l, "reset") /\ UNCHANGED <<polling, stopPoll>>
       ELSE Goto(l, "ended") /\ StopPolling
    /\ UNCHANGED <<serving, late, requests, closed>>

Reset(l) ==
    /\ loop[l] = "reset" /\ Goto(l, "poll")
    /\ stopPoll' = [stopPoll EXCEPT ![Transport(l)] = FALSE]
    /\ UNCHANGED <<serving, polling, late, requests, closed>>

\* The poller wakes up in vain, or raises for it is closed.
PollStops(l) ==
    /\ loop[l] = "poll" /\ Yielded(l) /\ (stopPoll[Transport(l)] \/ closed)
    /\ Goto(l, "check")
    /\ UNCHANGED <<serving, polling, stopPoll, late, requests, closed>>

\* What is read in one go ends with the last message, or with one that raises:
\* the operations read with that one are forgotten.
Kind(r) == request[r].kind
Breaks(r) == Kind(r) \in {"exit", "undecodable"}
ReadAtOnce(q) ==
    LET bad == {i \in DOMAIN q : Breaks(q[i])} IN
    IF bad = {} THEN q ELSE SubSeq(q, 1, CHOOSE i \in bad : \A j \in bad : i <= j)
NeedsTask(r) == Kind(r) \in {"operation", "description", "unknown"}

PollReads(l) ==
    LET x == Transport(l)
        batch == ReadAtOnce(inbox[x])
        taken == ToSet(batch)
        broken == Breaks(Last(batch)) IN
    /\ loop[l] = "poll" /\ Yielded(l) /\ inbox[x] # <<>> /\ ~closed
    /\ inbox' = [inbox EXCEPT ![x] = SubSeq(@, Len(batch) + 1, Len(@))]
    /\ fate' = [r \in Requests |->
         CASE r \in taken /\ NeedsTask(r) -> IF broken THEN "dropped" ELSE "task"
           [] r \in taken /\ ~NeedsTask(r) -> "done"
           [] OTHER -> fate[r]]
    /\ answer' = [r \in Requests |->
         CASE r \in taken /\ Kind(r) = "handshake" -> "handshake"
           [] r \in taken /\ Kind(r) = "short" -> "invalid"
           [] OTHER -> answer[r]]
    /\ IF broken /\ Kind(Last(batch)) = "exit" THEN Goto(l, "ended") /\ StopPolling
       ELSE /\ Goto(l, IF broken \/ \E r \in taken : NeedsTask(r) THEN "check" ELSE "poll")
            /\ UNCHANGED <<polling, stopPoll>>
    /\ late' = [late EXCEPT ![l] = IF polling \/ \A r \in taken : ~NeedsTask(r) THEN @ ELSE @ + 1]
    /\ UNCHANGED <<serving, request, closed>>

(***************************************************************************)
(* Clients, and process_request()                                          *)
(***************************************************************************)
Send(r) ==
    /\ fate[r] = "new" /\ fate' = [fate EXCEPT ![r] = "sent"]
    /\ \E i \in Inputs :
         /\ request' = [request EXCEPT ![r] = i]
         /\ inbox' = [inbox EXCEPT ![i.at] = Append(@, r)]
    /\ UNCHANGED <<serving, receiving, answer, closed>>

\* A send on a closed socket raises in the task.
Answer(r, message) ==
    /\ fate' = [fate EXCEPT ![r] = IF closed /\ message # "none" THEN "unsent" ELSE "done"]
    /\ answer' = [answer EXCEPT ![r] = IF closed THEN "none" ELSE message]

\* What a client gets once its request was executed.
Returned(r) == IF request[r].oneway THEN "none" ELSE "reply"

\* Mutant: once polling was stopped the request is passed over.
ProcessWhilePolling(r) ==
    /\ fate[r] = "task"
    /\ \/ polling /\ Kind(r) = "operation" /\ fate' = [fate EXCEPT ![r] = "executing"] /\ UNCHANGED answer
       \/ Answer(r, IF polling THEN "invalid" ELSE "none")
    /\ UNCHANGED <<serving, receiving, inbox, request, closed>>

\* The operation is submitted, or refused if the Thing's event loop does not
\* run; get_thing_description is answered in place.
Process(r) ==
    /\ fate[r] = "task"
    /\ \/ Kind(r) = "operation" /\ fate' = [fate EXCEPT ![r] = "executing"] /\ UNCHANGED answer
       \/ Answer(r, IF Kind(r) = "description" THEN Returned(r) ELSE "invalid")
    /\ UNCHANGED <<serving, receiving, inbox, request, closed>>

Reply(r) ==
    /\ fate[r] = "executing"
    /\ \/ Answer(r, "timeout")
       \/ Answer(r, Returned(r))
    /\ UNCHANGED <<serving, receiving, inbox, request, closed>>

Receives(l) == Begin(l) \/ Check(l) \/ Reset(l) \/ PollStops(l) \/ PollReads(l)

Next ==
    \/ \E served \in SUBSET Things : Start(served)
    \/ \E close \in BOOLEAN : Stop(close)
    \/ \E l \in Loops : Receives(l)
    \/ \E r \in Requests : Send(r) \/ Process(r) \/ Reply(r)

\* asyncio runs every coroutine that can run, and a poll has a timeout.
Fairness ==
    /\ \A l \in Loops : WF_vars(Receives(l))
    /\ \A r \in Requests : WF_vars(Process(r)) /\ WF_vars(Reply(r))

Spec == Init /\ [][Next]_vars /\ Fairness

(***************************************************************************)
(* Properties.                                                             *)
(***************************************************************************)
Awaited(r) == NeedsTask(r) /\ ~request[r].oneway

\* Whatever the transports read and when they stop, a request that was read
\* and whose client waits is answered, unless exit() closed the socket, or an
\* exit or undecodable message was read from the same socket with it
\* (brokers.py:700).
ReadIsAnswered ==
    \A r \in Requests :
        /\ fate[r] = "done" /\ Awaited(r) => answer[r] # "none"
        /\ fate[r] = "unsent" => closed
        /\ fate[r] = "dropped" =>
             \E q \in Requests : fate[q] = "done" /\ Breaks(q) /\ request[q].at = request[r].at

\* Every task comes to its end.
TasksEnd == []<>(\A r \in Requests : fate[r] \notin {"task", "executing"})

\* ... or for whatever reason.
NothingIsDropped == \A r \in Requests : fate[r] # "dropped"

\* When the receive loop of one transport ends, or stop() is called, those of
\* all transports end, if nobody starts them again.  Not so if stop() comes
\* from another thread: poll_requests() resets stop_poll (brokers.py:689).
AllLoopsEnd ==
    []<>((\E l \in Loops : loop[l] = "ended" /\ l[2] = starts) =>
           polling \/ \A l \in Loops : loop[l] \in {"none", "ended"})

\* After a stop each loop takes in one more batch of operations at most, also
\* if the stop came from another thread (server.py:203).
OneMoreBatch == \A l \in Loops : late[l] <= 1

\* However often the server is started, and whichever Things are added in
\* between, each publisher is subscribed once to a Thing that was there at a
\* start (server.py:412).
SubscribedOnce ==
    \A t \in Things : subscribed[t] = IF t \in things THEN 1 ELSE 0

\* Only an operation has a reply or a timeout, and a oneway one no reply.
RepliesFit ==
    \A r \in Requests : request[r] # None =>
        /\ answer[r] \in {"reply", "timeout"} => NeedsTask(r)
        /\ request[r].oneway => answer[r] # "reply"
=============================================================================
