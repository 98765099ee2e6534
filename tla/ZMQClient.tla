----------------------------- MODULE ZMQClient -----------------------------
(***************************************************************************)
(* One ZMQ client shared by many callers (server/zmq/brokers.py): the      *)
(* threads that use SyncZMQClient, or the tasks that use AsyncZMQClient.   *)
(* Each sends a request and waits in recv_response() for the response with *)
(* the request's message ID.  One caller at a time is meant to poll the    *)
(* socket; what it receives for another caller goes to a response cache,   *)
(* which every caller looks into once per turn of its loop.                *)
(*                                                                         *)
(* The client is modelled after its handshake.  The server answers each    *)
(* request once, in any order, until it disconnects, which the monitor     *)
(* socket tells once.  Two calls for the same message ID at the same time, *)
(* and a call for one already returned, are left out.                      *)
(***************************************************************************)
EXTENDS Naturals, Sequences, FiniteSets, SequencesExt

CONSTANTS
    Callers,        \* threads or tasks that share the client
    Messages,       \* requests, named by their message ID
    Blocking,       \* those sent by execute(), which waits at once
    Sync,           \* SyncZMQClient or AsyncZMQClient
    MayStop,        \* stop() may be called
    MayDisconnect,  \* the server may go away
    None

ASSUME ConstantsOK ==
    /\ Blocking \subseteq Messages
    /\ {Sync, MayStop, MayDisconnect} \subseteq BOOLEAN
    /\ None \notin Callers \cup Messages

VARIABLES
    sent,       \* requests on their way to the server or answered
    answered,   \* requests the server has sent its response of
    inbox,      \* responses that wait in the socket
    monitor,    \* "quiet", then "event" until it is read, then "read"
    cache,      \* _response_cache
    lock,       \* who acquired _poller_lock last, if it is locked
    stop,       \* _stop
    pc,         \* where each caller is in recv_response()
    want,       \* the message ID it waits for
    ready,      \* the sockets its last poll reported
    got,        \* its local response_message
    leaves,     \* how it will leave the try block
    returned,   \* history: how many times a response was returned
    told        \* history: callers that were waiting when stop() was called

vars == <<sent, answered, inbox, monitor, cache, lock, stop, pc, want, ready,
          got, leaves, returned, told>>

local == <<want, ready, got, leaves>>
socket == <<inbox, monitor>>
server == <<sent, answered>>
history == <<returned, told>>

Waiting(c) == pc[c] # "idle"

Init ==
    /\ sent = {} /\ answered = {} /\ inbox = <<>> /\ monitor = "quiet"
    /\ cache = {} /\ lock = None /\ stop = FALSE
    /\ pc = [c \in Callers |-> "idle"]
    /\ want = [c \in Callers |-> None]
    /\ ready = [c \in Callers |-> {}]
    /\ got = [c \in Callers |-> None]
    /\ leaves = [c \in Callers |-> "again"]
    /\ returned = [m \in Messages |-> 0]
    /\ told = {}

Goto(c, l) == pc' = [pc EXCEPT ![c] = l]

\* The caller leaves recv_response().
Leave(c) ==
    /\ Goto(c, "idle")
    /\ want' = [want EXCEPT ![c] = None]
    /\ told' = told \ {c}

(***************************************************************************)
(* Environment: the server, and a thread that calls stop().                *)
(***************************************************************************)
Respond(m) ==
    /\ monitor = "quiet" /\ m \in sent \ answered
    /\ answered' = answered \cup {m}
    /\ inbox' = Append(inbox, m)
    /\ UNCHANGED <<sent, monitor, cache, lock, stop, pc, local, history>>

Disconnect ==
    /\ MayDisconnect /\ monitor = "quiet"
    /\ monitor' = "event"
    /\ UNCHANGED <<server, inbox, cache, lock, stop, pc, local, history>>

Stop ==
    /\ MayStop /\ ~stop
    /\ stop' = TRUE
    /\ told' = {c \in Callers : pc[c] \notin {"idle", "begin"}}
    /\ UNCHANGED <<server, socket, cache, lock, pc, local, returned>>

(***************************************************************************)
(* The calls: execute(), a no-block send, read_reply().                    *)
(***************************************************************************)
Send(c, m) ==
    /\ pc[c] = "idle" /\ m \notin sent
    /\ sent' = sent \cup {m}
    /\ IF m \in Blocking
       THEN Goto(c, "begin") /\ want' = [want EXCEPT ![c] = m]
       ELSE UNCHANGED <<pc, want>>
    /\ UNCHANGED <<answered, socket, cache, lock, stop, ready, got, leaves, history>>

ReadReply(c, m) ==
    /\ pc[c] = "idle" /\ m \in sent \ Blocking /\ returned[m] = 0
    /\ \A d \in Callers : want[d] # m
    /\ Goto(c, "begin")
    /\ want' = [want EXCEPT ![c] = m]
    /\ UNCHANGED <<server, socket, cache, lock, stop, ready, got, leaves, history>>

(***************************************************************************)
(* recv_response().                                                        *)
(***************************************************************************)
\* Every call switches the flag back on, for all callers.
Begin(c) ==
    /\ pc[c] = "begin"
    /\ stop' = FALSE
    /\ Goto(c, "loop")
    /\ UNCHANGED <<server, socket, cache, lock, local, history>>

LoopStopped(c) ==
    /\ pc[c] = "loop" /\ stop
    /\ Leave(c)
    /\ UNCHANGED <<server, socket, cache, lock, stop, ready, got, leaves, returned>>

LoopCached(c) ==
    /\ pc[c] = "loop" /\ ~stop /\ want[c] \in cache
    /\ cache' = cache \ {want[c]}
    /\ returned' = [returned EXCEPT ![want[c]] = @ + 1]
    /\ Leave(c)
    /\ UNCHANGED <<server, socket, lock, stop, ready, got, leaves>>

LoopMiss(c) ==
    /\ pc[c] = "loop" /\ ~stop /\ want[c] \notin cache
    /\ Goto(c, "acquire")
    /\ UNCHANGED <<server, socket, cache, lock, stop, local, history>>

Acquire(c) ==
    /\ pc[c] = "acquire" /\ lock = None
    /\ lock' = c
    /\ Goto(c, "poll")
    /\ UNCHANGED <<server, socket, cache, stop, local, history>>

\* Mutant: the acquire has no timeout.
AcquireWaits(c) == FALSE /\ UNCHANGED vars

\* The timed out acquire continues the loop through the finally clause.
AcquireTimesOut(c) ==
    /\ pc[c] = "acquire" /\ lock # None
    /\ leaves' = [leaves EXCEPT ![c] = "again"]
    /\ Goto(c, "release")
    /\ UNCHANGED <<server, socket, cache, lock, stop, want, ready, got, history>>

Readable ==
    {s \in {"server", "monitor"} : IF s = "server" THEN inbox # <<>> ELSE monitor = "event"}

PollReady(c) ==
    /\ pc[c] = "poll" /\ Readable # {}
    /\ ready' = [ready EXCEPT ![c] = Readable]
    /\ got' = [got EXCEPT ![c] = None]
    /\ Goto(c, "server")
    /\ UNCHANGED <<server, socket, cache, lock, stop, want, leaves, history>>

PollTimesOut(c) ==
    /\ pc[c] = "poll" /\ Readable = {}
    /\ leaves' = [leaves EXCEPT ![c] = "again"]
    /\ Goto(c, "release")
    /\ UNCHANGED <<server, socket, cache, lock, stop, want, ready, got, history>>

\* The server's socket did not report, or another caller emptied it first.
ServerQuiet(c) ==
    /\ pc[c] = "server" /\ ("server" \notin ready[c] \/ inbox = <<>>)
    /\ Goto(c, "monitor")
    /\ UNCHANGED <<server, socket, cache, lock, stop, local, history>>

ServerMine(c) ==
    /\ pc[c] = "server" /\ "server" \in ready[c] /\ inbox # <<>>
    /\ Head(inbox) = want[c]
    /\ inbox' = Tail(inbox)
    /\ leaves' = [leaves EXCEPT ![c] = "returns"]
    /\ Goto(c, "release")
    /\ UNCHANGED <<server, monitor, cache, lock, stop, want, ready, got, history>>

\* Mutant: a response that is not the expected one is skipped.
ServerSkips(c) ==
    /\ pc[c] = "server" /\ "server" \in ready[c] /\ inbox # <<>>
    /\ Head(inbox) # want[c]
    /\ inbox' = Tail(inbox)
    /\ got' = [got EXCEPT ![c] = Head(inbox)]
    /\ Goto(c, "monitor")
    /\ UNCHANGED <<server, monitor, cache, lock, stop, want, ready, leaves, history>>

ServerOther(c) ==
    /\ pc[c] = "server" /\ "server" \in ready[c] /\ inbox # <<>>
    /\ Head(inbox) # want[c]
    /\ inbox' = Tail(inbox)
    /\ cache' = cache \cup {Head(inbox)}
    /\ got' = [got EXCEPT ![c] = Head(inbox)]
    /\ Goto(c, "monitor")
    /\ UNCHANGED <<server, monitor, lock, stop, want, ready, leaves, history>>

\* handled_default_message_types() raises ConnectionAbortedError.
MonitorAborts(c) ==
    /\ pc[c] = "monitor" /\ "monitor" \in ready[c] /\ monitor = "event"
    /\ monitor' = "read"
    /\ leaves' = [leaves EXCEPT ![c] = "aborts"]
    /\ Goto(c, "release")
    /\ UNCHANGED <<server, inbox, cache, lock, stop, want, ready, got, history>>

\* Nothing to read: the synchronous client then handles the message of the
\* other socket, still in response_message, a second time.
MonitorQuiet(c) ==
    /\ pc[c] = "monitor" /\ ("monitor" \notin ready[c] \/ monitor # "event")
    /\ cache' = IF Sync /\ "monitor" \in ready[c] THEN cache \cup ({got[c]} \ {None}) ELSE cache
    /\ leaves' = [leaves EXCEPT ![c] = "again"]
    /\ Goto(c, "release")
    /\ UNCHANGED <<server, socket, lock, stop, want, ready, got, history>>

\* The finally clause releases the lock, whoever acquired it; an exception
\* for an unlocked lock is swallowed.
Release(c) ==
    /\ pc[c] = "release"
    /\ lock' = None
    /\ returned' = IF leaves[c] = "returns" THEN [returned EXCEPT ![want[c]] = @ + 1]
                                            ELSE returned
    /\ IF leaves[c] = "again" THEN Goto(c, "loop") /\ UNCHANGED <<want, told>> ELSE Leave(c)
    /\ UNCHANGED <<server, socket, cache, stop, ready, got, leaves>>

Step(c) ==
    \/ Begin(c) \/ LoopStopped(c) \/ LoopCached(c) \/ LoopMiss(c)
    \/ Acquire(c) \/ AcquireTimesOut(c) \/ PollReady(c) \/ PollTimesOut(c)
    \/ ServerQuiet(c) \/ ServerMine(c) \/ ServerOther(c)
    \/ MonitorAborts(c) \/ MonitorQuiet(c) \/ Release(c)

Next ==
    \/ \E m \in Messages : Respond(m)
    \/ Disconnect \/ Stop
    \/ \E c \in Callers : Step(c)
    \/ \E c \in Callers, m \in Messages : Send(c, m) \/ ReadReply(c, m)

Spec == Init /\ [][Next]_vars

\* Threads and tasks are scheduled; no fairness of the server, of stop(), of
\* the callers' decisions.
Fairness == \A c \in Callers : WF_vars(Step(c))
FairSpec == Spec /\ Fairness

-----------------------------------------------------------------------------
(***************************************************************************)
(* Properties.                                                             *)
(***************************************************************************)
\* Types; a caller waits for a message exactly while it is in a call.
TypeOK ==
    /\ sent \subseteq Messages /\ answered \subseteq sent
    /\ inbox \in Seq(Messages) /\ cache \subseteq Messages
    /\ monitor \in {"quiet", "event", "read"}
    /\ lock \in Callers \cup {None} /\ stop \in BOOLEAN
    /\ pc \in [Callers -> {"idle", "begin", "loop", "acquire", "poll", "server",
                           "monitor", "release"}]
    /\ want \in [Callers -> Messages \cup {None}]
    /\ ready \in [Callers -> SUBSET {"server", "monitor"}]
    /\ got \in [Callers -> Messages \cup {None}]
    /\ leaves \in [Callers -> {"again", "returns", "aborts"}]
    /\ returned \in [Messages -> Nat] /\ told \subseteq Callers
    /\ \A c \in Callers : Waiting(c) <=> want[c] # None

\* The callers that are between acquire() and release().
Polling == {c \in Callers : pc[c] \in {"poll", "server", "monitor"}}

\* A response that a caller is about to return.
InHand(m) ==
    \E c \in Callers : pc[c] = "release" /\ leaves[c] = "returns" /\ want[c] = m

\* However callers share the socket, stop and fail, a response the server
\* sent waits in the socket or in the cache until it is returned.
NoResponseLost ==
    \A m \in answered : m \in ToSet(inbox) \cup cache \/ InHand(m) \/ returned[m] > 0

\* The lock is never left behind: whoever acquired it last is still in the
\* try block, so that the other callers can go on.
LockHeldInside ==
    lock # None => pc[lock] \in {"poll", "server", "monitor", "release"}

\* The cache holds nothing that was already returned, which no one would ever
\* take out again.  brokers.py:1223: "out of order messages are sent to a
\* cache which may be popped later".
CacheHoldsUnread == \A m \in cache : returned[m] = 0

\* A caller that waits for a response the server has sent gets it, whoever
\* receives it.
AnsweredIsReturned ==
    \A c \in Callers : []<>(want[c] \notin answered)

\* brokers.py:1225: recv_response() "blocks until the expected message is
\* received or `stop_polling()` is called from another thread".
StopEndsWait == \A c \in Callers : c \in told ~> c \notin told

\* brokers.py:1274: "no need to release an unacquired lock, which can happen
\* if another thread polling put the expected message in response message
\* cache": the lock keeps the other callers from the socket.
OnePoller == Cardinality(Polling) <= 1

\* brokers.py:1367: "sufficient to know when server dies only while receiving
\* messages": who is receiving then learns of it.
WaitersLearnOfDisconnect ==
    \A c \in Callers : monitor # "quiet" /\ Waiting(c) ~> ~Waiting(c)
=============================================================================
