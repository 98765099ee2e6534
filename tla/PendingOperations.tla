------------------------- MODULE PendingOperations -------------------------
(***************************************************************************)
(* The replies of no-block operations: class PendingOperations of          *)
(* core/eventloop/operations.py with the two HTTP requests that use it     *)
(* (server/http/handlers.py).  A first request submits an operation and    *)
(* stores its future under a message ID; a later request, quoting the ID,  *)
(* claims the future, waits for it outside the lock, and gives it back     *)
(* when it could not write the reply.  stop() of the event loop cancels    *)
(* and drops what is stored.                                               *)
(*                                                                         *)
(* The map is guarded by a lock held for one method, so add, claim and     *)
(* clear are one step each; everything between them interleaves.  How a    *)
(* future is answered is the business of module EventLoop: here it may be  *)
(* answered at any time after the submission.                              *)
(***************************************************************************)
EXTENDS Naturals, Sequences, FiniteSets, SequencesExt

CONSTANTS
    Servers,        \* HTTP servers: their server_id is the caller_id
    Messages,       \* no-block requests, named by their message ID
    ServerOf,       \* the server a no-block request is posted to
    Collectors,     \* the clients' requests for a stored reply
    MaxSize,        \* maxsize
    Bounded,        \* whether both default timeouts are set
    None

ASSUME ConstantsOK ==
    /\ ServerOf \in [Messages -> Servers]
    /\ MaxSize \in Nat \ {0}
    /\ Bounded \in BOOLEAN
    /\ None \notin Messages \cup {"refused"}

VARIABLES
    futures,    \* futures[s]: the ordered map of caller s, its tokens in order
    future,     \* future[m]: "none" before the submission, then its state
    post,       \* post[m]: the first request: "new", "submitted", "stored"
    holds,      \* holds[c]: the future a collecting request owns, if any
    stopped,    \* EventLoop.stop() has set _run to False
    written,    \* history: how many times the reply of m reached a client
    dropped     \* history: the messages evicted or cleared

vars == <<futures, future, post, holds, stopped, written, dropped>>

Stored(s) == ToSet(futures[s])

Held == {holds[c] : c \in Collectors} \ {None}

Init ==
    /\ futures = [s \in Servers |-> <<>>]
    /\ future = [m \in Messages |-> "none"]
    /\ post = [m \in Messages |-> "new"]
    /\ holds = [c \in Collectors |-> None]
    /\ stopped = FALSE
    /\ written = [m \in Messages |-> 0]
    /\ dropped = {}

(***************************************************************************)
(* The map.                                                                *)
(***************************************************************************)
\* Mutant: an off-by-one in the loop that evicts.
TrimmedLate(q) == IF Len(q) > MaxSize + 1 THEN Tail(q) ELSE q

\* Mutant: an off-by-one the other way: the map never fills.
TrimmedEarly(q) == IF Len(q) >= MaxSize THEN Tail(q) ELSE q

\* One entry is added at a time, so the loop runs at most once.
Trimmed(q) == IF Len(q) > MaxSize THEN Tail(q) ELSE q

\* PendingOperations.add
Add(m) ==
    LET s == ServerOf[m]
        q == Append(futures[s], m)
    IN  /\ futures' = [futures EXCEPT ![s] = Trimmed(q)]
        /\ dropped' = dropped \cup (ToSet(q) \ ToSet(Trimmed(q)))

(***************************************************************************)
(* The first request of handle_through_thing(): submit(), then add().      *)
(***************************************************************************)
\* submit() raises once the loop was stopped: the client gets a 500.
Submit(m) ==
    /\ post[m] = "new"
    /\ post' = [post EXCEPT ![m] = IF stopped THEN "refused" ELSE "submitted"]
    /\ future' = [future EXCEPT ![m] = IF stopped THEN "none" ELSE "running"]
    /\ UNCHANGED <<futures, holds, stopped, written, dropped>>

Store(m) ==
    /\ post[m] = "submitted"
    /\ post' = [post EXCEPT ![m] = "stored"]
    /\ Add(m)
    /\ UNCHANGED <<future, holds, stopped, written>>

\* Job.answer: the event loop resolves the future, if it is not done.
Answer(m) ==
    /\ future[m] = "running"
    /\ future' = [future EXCEPT ![m] = "answered"]
    /\ UNCHANGED <<futures, post, holds, stopped, written, dropped>>

(***************************************************************************)
(* The collecting request, handle_no_block_response().                     *)
(***************************************************************************)
\* Mutant: the future is looked up instead of popped.
ClaimByLookup(c, m) ==
    /\ holds[c] = None
    /\ m \in Stored(ServerOf[m])
    /\ holds' = [holds EXCEPT ![c] = m]
    /\ UNCHANGED <<futures, future, post, stopped, written, dropped>>

\* claim(): a message ID that is not there is a KeyError, a 404, no change.
Claim(c, m) ==
    /\ holds[c] = None
    /\ \E i \in DOMAIN futures[ServerOf[m]] :
        /\ futures[ServerOf[m]][i] = m
        /\ futures' = [futures EXCEPT ![ServerOf[m]] = RemoveAt(@, i)]
    /\ holds' = [holds EXCEPT ![c] = m]
    /\ UNCHANGED <<future, post, stopped, written, dropped>>

\* Mutant: the future is not forgotten after the reply was written.
WriteAndGiveBack(c) ==
    LET m == holds[c] IN
    /\ m # None
    /\ future[m] = "answered"
    /\ holds' = [holds EXCEPT ![c] = None]
    /\ written' = [written EXCEPT ![m] = @ + 1]
    /\ Add(m)
    /\ UNCHANGED <<future, post, stopped>>

\* The reply, a timed out one included, is written and the future forgotten.
Write(c) ==
    LET m == holds[c] IN
    /\ m # None
    /\ future[m] = "answered"
    /\ holds' = [holds EXCEPT ![c] = None]
    /\ written' = [written EXCEPT ![m] = @ + 1]
    /\ UNCHANGED <<futures, future, post, stopped, dropped>>

\* Mutant: the time-out leaves without the finally clause.
GiveUp(c) ==
    /\ holds[c] # None
    /\ Bounded \/ future[holds[c]] = "answered"
    /\ holds' = [holds EXCEPT ![c] = None]
    /\ UNCHANGED <<futures, future, post, stopped, written, dropped>>

\* The wait ends without a written reply - wait_for() times out, even while
\* the answer arrives, or write_reply() raises on an answer - and finally
\* gives the future back.
GiveBack(c) ==
    LET m == holds[c] IN
    /\ m # None
    /\ Bounded \/ future[m] = "answered"
    /\ holds' = [holds EXCEPT ![c] = None]
    /\ Add(m)
    /\ UNCHANGED <<future, post, stopped, written>>

(***************************************************************************)
(* EventLoop.stop(): the flag first, clear() last; it may be called again. *)
(***************************************************************************)
StopFlag ==
    /\ ~stopped
    /\ stopped' = TRUE
    /\ UNCHANGED <<futures, future, post, holds, written, dropped>>

\* clear(): cancel() has no effect on a future that is done.
Clear ==
    LET gone == UNION {Stored(s) : s \in Servers} IN
    /\ stopped
    /\ future' = [m \in Messages |->
                    IF m \in gone /\ future[m] = "running" THEN "cancelled" ELSE future[m]]
    /\ futures' = [s \in Servers |-> <<>>]
    /\ dropped' = dropped \cup gone
    /\ UNCHANGED <<post, holds, stopped, written>>

Next ==
    \/ \E m \in Messages : Submit(m) \/ Store(m) \/ Answer(m)
    \/ \E c \in Collectors, m \in Messages : Claim(c, m)
    \/ \E c \in Collectors : Write(c) \/ GiveBack(c)
    \/ StopFlag \/ Clear

Spec == Init /\ [][Next]_vars

(***************************************************************************)
(* Fairness.  The handlers' own steps happen; an operation is answered; a  *)
(* client keeps asking for its reply.  A wait on an answered future is     *)
(* over in a turn of the loop, so that the time-out does not win each      *)
(* time: strong fairness of Write, whose wait a GiveBack may end.          *)
(***************************************************************************)
Fairness ==
    \A m \in Messages :
        /\ WF_vars(Store(m)) /\ WF_vars(Answer(m))
        /\ SF_vars(\E c \in Collectors : Claim(c, m))
        /\ \A c \in Collectors : SF_vars(holds[c] = m /\ Write(c))

FairSpec == Spec /\ Fairness

-----------------------------------------------------------------------------
(***************************************************************************)
(* Properties.                                                             *)
(***************************************************************************)
\* Types, and the bound of each caller's map.
TypeOK ==
    /\ futures \in [Servers -> Seq(Messages)]
    /\ future \in [Messages -> {"none", "running", "answered", "cancelled"}]
    /\ post \in [Messages -> {"new", "refused", "submitted", "stored"}]
    /\ holds \in [Collectors -> Messages \cup {None}]
    /\ stopped \in BOOLEAN
    /\ written \in [Messages -> Nat]
    /\ dropped \subseteq Messages
    /\ \A s \in Servers : Len(futures[s]) <= MaxSize

\* The places an uncollected reply can be in: its caller's map, a collecting
\* request.
Places(m) == {s \in Servers : m \in Stored(s)} \cup {c \in Collectors : holds[c] = m}

\* However requests for it overlap, time out and fail, the reply of an
\* operation reaches a client at most once: claim() hands a future to one
\* request, and finally gives back only what was not answered.
WrittenOnce == \A m \in Messages : written[m] <= 1

\* No reply is lost: one that was stored, and neither written nor evicted
\* nor cleared, is in its caller's map or owned by a request that will write
\* it or give it back.
NothingLost ==
    \A m \in Messages :
        post[m] = "stored" /\ written[m] = 0 /\ m \notin dropped => Places(m) # {}

\* No request waits for a future that stop() cancels: CancelledError is not
\* an Exception, and would leave the handler past its except clauses.
NeverAwaitsCancelled == \A c \in Collectors : holds[c] # None => future[holds[c]] # "cancelled"

\* The operations of a server whose replies a client can still come for.
Uncollected(s) ==
    {m \in Messages : ServerOf[m] = s /\ post[m] = "stored" /\ written[m] = 0}

\* Until a stop, a reply is evicted only while its own server has more than
\* maxsize uncollected ones: neither another server's load nor a client that
\* polls for a slow operation evicts it.
NoNeedlessEviction ==
    [][\A m \in dropped' \ dropped :
        stopped \/ Cardinality(Uncollected(ServerOf[m])' \ dropped) > MaxSize]_vars

\* A client that keeps asking gets the reply, unless it was evicted or the
\* event loop stopped.
Unserved(m) == post[m] = "stored" /\ written[m] = 0 /\ m \notin dropped
PatientClientServed ==
    (\E m \in Messages : Unserved(m)) ~> (\A m \in Messages : ~Unserved(m))
=============================================================================
