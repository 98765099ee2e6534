---------------------------- MODULE ClientsProofs ----------------------------
(***************************************************************************)
(* Clients for every set of callers, messages, transports, listeners,      *)
(* loops, waiters, attributes and IDs.  One section for each component     *)
(* gives the inductive invariant its properties follow from, the first     *)
(* four for the client that callers share: the socket, types, the lock,    *)
(* and the responses; the last one carries them to the composition.        *)
(***************************************************************************)
EXTENDS Clients, SequenceFacts

(***************************************************************************)
(* Lemmas on the socket's queue.                                           *)
(***************************************************************************)
\* A response that comes is the only one that is new in the socket.
LEMMA ArrivedFacts ==
    ASSUME NEW q \in Seq(Messages), NEW m \in Messages
    PROVE  Append(q, m) \in Seq(Messages) /\ ToSet(Append(q, m)) = ToSet(q) \cup {m}
<1> DEFINE a == Append(q, m)
<1>1. a \in Seq(Messages) /\ Len(a) = Len(q) + 1
  BY AppendProperties
<1>2. /\ \A i \in 1..Len(q) : a[i] = q[i]
      /\ a[Len(q) + 1] = m
  BY AppendProperties
<1>3. DOMAIN a = 1..(Len(q) + 1) /\ DOMAIN q = 1..Len(q) /\ Len(q) \in Nat
  BY <1>1, LenProperties
<1> QED  BY <1>1, <1>2, <1>3 DEF ToSet

\* What is read is the one response that is in the socket no more.
LEMMA ReadFacts ==
    ASSUME NEW q \in Seq(Messages), q # <<>>
    PROVE  /\ Tail(q) \in Seq(Messages) /\ Head(q) \in Messages
           /\ ToSet(q) = ToSet(Tail(q)) \cup {Head(q)}
<1>1. /\ Tail(q) \in Seq(Messages) /\ Len(Tail(q)) = Len(q) - 1
      /\ \A i \in 1..Len(Tail(q)) : Tail(q)[i] = q[i + 1]
      /\ Head(q) \in Messages /\ Head(q) = q[1]
  BY HeadTailProperties
<1>2. /\ DOMAIN Tail(q) = 1..(Len(q) - 1) /\ DOMAIN q = 1..Len(q)
      /\ Len(q) \in Nat /\ Len(q) > 0
  BY <1>1, LenProperties, EmptySeq
<1>3. ASSUME NEW i \in DOMAIN q PROVE q[i] \in ToSet(Tail(q)) \cup {Head(q)}
  <2>1. CASE i = 1
    BY <2>1, <1>1
  <2>2. CASE i # 1
    <3>1. i - 1 \in DOMAIN Tail(q) /\ Tail(q)[i - 1] = q[i]
      BY <2>2, <1>1, <1>2
    <3> QED  BY <3>1 DEF ToSet
  <2> QED  BY <2>1, <2>2
<1>4. ASSUME NEW i \in DOMAIN Tail(q) PROVE Tail(q)[i] \in ToSet(q)
  BY <1>1, <1>2 DEF ToSet
<1>5. Head(q) \in ToSet(q)
  BY <1>1, <1>2 DEF ToSet
<1> QED  BY <1>1, <1>3, <1>4, <1>5 DEF ToSet

(***************************************************************************)
(* Types.                                                                  *)
(***************************************************************************)
\* The part of the types that is about the callers.
CallersTypeOK ==
    /\ pc \in [Callers -> {"idle", "begin", "loop", "acquire", "poll", "server",
                           "monitor", "release"}]
    /\ want \in [Callers -> Messages \cup {None}]
    /\ \A c \in Callers : Waiting(c) <=> want[c] # None

\* A caller that is in a call waits for a message.
LEMMA WaitsForMessage ==
    ASSUME TypeOK, NEW c \in Callers, pc[c] # "idle"
    PROVE  want[c] \in Messages
BY DEF TypeOK, Waiting

\* A caller that goes on in recv_response() waits for what it waited for.
LEMMA GotoTypes ==
    ASSUME TypeOK, NEW c \in Callers, Waiting(c), NEW l, Goto(c, l), UNCHANGED want,
           l \in {"begin", "loop", "acquire", "poll", "server", "monitor", "release"}
    PROVE  CallersTypeOK'
BY DEF TypeOK, CallersTypeOK, Waiting, Goto

\* A caller that leaves waits for nothing.
LEMMA LeaveTypes ==
    ASSUME TypeOK, NEW c \in Callers, Leave(c)
    PROVE  CallersTypeOK' /\ told' \subseteq Callers
BY DEF TypeOK, CallersTypeOK, Waiting, Leave, Goto

\* A caller that begins a call waits for the message of the call.
LEMMA CallTypes ==
    ASSUME TypeOK, NEW c \in Callers, NEW m \in Messages, Goto(c, "begin"),
           want' = [want EXCEPT ![c] = m]
    PROVE  CallersTypeOK'
BY ConstantsOK DEF TypeOK, CallersTypeOK, Waiting, Goto

\* Every step keeps the types.
LEMMA TypeStep == TypeOK /\ [Next]_vars => TypeOK'
<1> SUFFICES ASSUME TypeOK, [Next]_vars PROVE TypeOK'
    OBVIOUS
<1> USE ConstantsOK DEF TypeOK, CallersTypeOK, Waiting, local, socket, server, history
<1>1. ASSUME NEW m \in Messages, Respond(m) PROVE TypeOK'
    BY <1>1, ArrivedFacts DEF Respond
<1>2. CASE Disconnect \/ Stop
    BY <1>2 DEF Disconnect, Stop
<1>3. ASSUME NEW c \in Callers, NEW m \in Messages, Send(c, m) PROVE TypeOK'
  <2>1. /\ sent' \subseteq Messages /\ answered' \subseteq sent'
        /\ UNCHANGED <<answered, socket, cache, lock, stop, ready, got, leaves, history>>
    BY <1>3 DEF Send
  <2>2. CASE m \in Blocking
    BY <1>3, <2>1, <2>2, CallTypes DEF Send
  <2>3. CASE m \notin Blocking
    BY <1>3, <2>1, <2>3 DEF Send
  <2> QED  BY <2>2, <2>3
<1>4. ASSUME NEW c \in Callers, NEW m \in Messages, ReadReply(c, m) PROVE TypeOK'
    BY <1>4, CallTypes DEF ReadReply
<1>5. ASSUME NEW c \in Callers, Begin(c) \/ LoopMiss(c) PROVE TypeOK'
  <2>1. PICK l \in {"loop", "acquire"} : Goto(c, l)
    BY <1>5 DEF Begin, LoopMiss
  <2>2. /\ Waiting(c) /\ stop' \in BOOLEAN
        /\ UNCHANGED <<server, socket, cache, lock, local, history>>
    BY <1>5 DEF Begin, LoopMiss
  <2> QED  BY <2>1, <2>2, GotoTypes
<1>6. ASSUME NEW c \in Callers, LoopStopped(c) PROVE TypeOK'
    BY <1>6, LeaveTypes DEF LoopStopped
<1>7. ASSUME NEW c \in Callers, LoopCached(c) PROVE TypeOK'
    BY <1>7, WaitsForMessage, LeaveTypes DEF LoopCached
<1>8. ASSUME NEW c \in Callers, Acquire(c) PROVE TypeOK'
    BY <1>8, GotoTypes DEF Acquire
<1>9. ASSUME NEW c \in Callers, AcquireTimesOut(c) PROVE TypeOK'
    BY <1>9, GotoTypes DEF AcquireTimesOut
<1>10. ASSUME NEW c \in Callers, PollReady(c) PROVE TypeOK'
  <2>1. Readable \subseteq {"server", "monitor"}
    BY DEF Readable
  <2> QED  BY <1>10, <2>1, GotoTypes DEF PollReady
<1>11. ASSUME NEW c \in Callers, PollTimesOut(c) PROVE TypeOK'
    BY <1>11, GotoTypes DEF PollTimesOut
<1>12. ASSUME NEW c \in Callers, ServerQuiet(c) PROVE TypeOK'
    BY <1>12, GotoTypes DEF ServerQuiet
<1>13. ASSUME NEW c \in Callers, ServerMine(c) PROVE TypeOK'
  <2>1. inbox' \in Seq(Messages)
    BY <1>13, ReadFacts DEF ServerMine
  <2>2. CallersTypeOK'
    BY <1>13, GotoTypes DEF ServerMine
  <2> QED  BY <1>13, <2>1, <2>2 DEF ServerMine
<1>14. ASSUME NEW c \in Callers, ServerOther(c) PROVE TypeOK'
  <2>1. inbox' \in Seq(Messages) /\ Head(inbox) \in Messages
    BY <1>14, ReadFacts DEF ServerOther
  <2>2. CallersTypeOK'
    BY <1>14, GotoTypes DEF ServerOther
  <2>3. cache' \subseteq Messages /\ got' \in [Callers -> Messages \cup {None}]
    BY <1>14, <2>1 DEF ServerOther
  <2>4. UNCHANGED <<server, monitor, lock, stop, ready, leaves, history>>
    BY <1>14 DEF ServerOther
  <2> QED  BY <2>1, <2>2, <2>3, <2>4
<1>15. ASSUME NEW c \in Callers, MonitorAborts(c) PROVE TypeOK'
    BY <1>15, GotoTypes DEF MonitorAborts
<1>16. ASSUME NEW c \in Callers, MonitorQuiet(c) PROVE TypeOK'
  <2>1. cache' \subseteq Messages
    BY <1>16 DEF MonitorQuiet
  <2>2. /\ leaves' \in [Callers -> {"again", "returns", "aborts"}]
        /\ Waiting(c) /\ Goto(c, "release")
        /\ UNCHANGED <<server, socket, lock, stop, want, ready, got, history>>
    BY <1>16 DEF MonitorQuiet
  <2> QED  BY <2>1, <2>2, GotoTypes
<1>17. ASSUME NEW c \in Callers, Release(c) PROVE TypeOK'
  <2>1. /\ returned' \in [Messages -> Nat] /\ lock' = None /\ Waiting(c)
        /\ UNCHANGED <<server, socket, cache, stop, ready, got, leaves>>
    BY <1>17, WaitsForMessage DEF Release
  <2>2. CASE leaves[c] = "again"
    BY <1>17, <2>1, <2>2, GotoTypes DEF Release
  <2>3. CASE leaves[c] # "again"
    BY <1>17, <2>1, <2>3, LeaveTypes DEF Release
  <2> QED  BY <2>2, <2>3
<1>18. CASE UNCHANGED vars
    BY <1>18 DEF vars
<1> QED
    BY <1>1, <1>2, <1>3, <1>4, <1>5, <1>6, <1>7, <1>8, <1>9, <1>10, <1>11, <1>12, <1>13,
       <1>14, <1>15, <1>16, <1>17, <1>18 DEF Next, Step

(* Every variable of the client keeps its type, and a caller waits for a   *)
(* message exactly while it is in a call.                                  *)
THEOREM TypeCorrect == Spec => []TypeOK
<1>1. ASSUME Init PROVE TypeOK
  <2>1. inbox \in Seq(Messages)
    BY <1>1, EmptySeq DEF Init
  <2>2. CallersTypeOK
    BY <1>1 DEF Init, CallersTypeOK, Waiting
  <2> QED  BY <1>1, <2>1, <2>2, ConstantsOK DEF Init, TypeOK, CallersTypeOK
<1> QED
    BY <1>1, TypeStep, PTL DEF Spec

(***************************************************************************)
(* The lock.                                                               *)
(***************************************************************************)
\* Nobody but the one who releases leaves the try block.
LEMMA LockStep == TypeOK /\ LockHeldInside /\ [Next]_vars => LockHeldInside'
<1> SUFFICES ASSUME TypeOK, LockHeldInside, [Next]_vars PROVE LockHeldInside'
    OBVIOUS
<1> USE DEF TypeOK, LockHeldInside, local, socket, server, history, Goto, Leave
<1>1. CASE (\E m \in Messages : Respond(m)) \/ Disconnect \/ Stop \/ UNCHANGED vars
    BY <1>1 DEF Respond, Disconnect, Stop, vars
<1>2. ASSUME NEW c \in Callers, NEW m \in Messages, Send(c, m) \/ ReadReply(c, m)
      PROVE LockHeldInside'
    BY <1>2 DEF Send, ReadReply
<1>3. ASSUME NEW c \in Callers, Begin(c) \/ LoopStopped(c) \/ LoopCached(c) \/ LoopMiss(c)
      PROVE LockHeldInside'
    BY <1>3 DEF Begin, LoopStopped, LoopCached, LoopMiss
<1>4. ASSUME NEW c \in Callers, Acquire(c) \/ AcquireTimesOut(c) \/ PollReady(c) \/ PollTimesOut(c)
      PROVE LockHeldInside'
    BY <1>4 DEF Acquire, AcquireTimesOut, PollReady, PollTimesOut
<1>5. ASSUME NEW c \in Callers, ServerQuiet(c) \/ ServerMine(c) \/ ServerOther(c)
      PROVE LockHeldInside'
    BY <1>5 DEF ServerQuiet, ServerMine, ServerOther
<1>6. ASSUME NEW c \in Callers, MonitorAborts(c) \/ MonitorQuiet(c) \/ Release(c)
      PROVE LockHeldInside'
    BY <1>6 DEF MonitorAborts, MonitorQuiet, Release
<1> QED
    BY <1>1, <1>2, <1>3, <1>4, <1>5, <1>6 DEF Next, Step

(* Whoever acquired the lock last is still inside, although others release *)
(* it as well (brokers.py:1271).                                           *)
THEOREM LockIsHeldInside == Spec => []LockHeldInside
<1>1. Init => LockHeldInside
    BY DEF Init, LockHeldInside
<1> QED
    BY <1>1, TypeCorrect, LockStep, PTL DEF Spec

(***************************************************************************)
(* Responses.                                                              *)
(***************************************************************************)
\* Where a response that was answered can be.
Somewhere(m) == m \in ToSet(inbox) \cup cache \/ InHand(m) \/ returned[m] > 0

\* What a step that reads nothing and returns nothing leaves where it was.
LEMMA UntouchedStays ==
    ASSUME TypeOK, NEW m \in Messages, Somewhere(m),
           UNCHANGED <<inbox, returned>>, cache \subseteq cache',
           \A c \in Callers : pc[c] = "release" /\ leaves[c] = "returns" =>
               UNCHANGED <<pc[c], leaves[c], want[c]>>
    PROVE  Somewhere(m)'
BY DEF Somewhere, InHand

\* Every step keeps what was answered somewhere.
LEMMA ResponseStep == TypeOK /\ NoResponseLost /\ [Next]_vars => NoResponseLost'
<1> SUFFICES ASSUME TypeOK, NoResponseLost, [Next]_vars, NEW m \in answered' PROVE Somewhere(m)'
    BY DEF NoResponseLost, Somewhere
<1> USE DEF local, socket, server, history, Goto, Leave
<1>1. ASSUME m \notin answered PROVE Somewhere(m)'
  <2>1. PICK n \in Messages : Respond(n)
    BY <1>1 DEF Next, Step, Disconnect, Stop, Send, ReadReply, Begin, LoopStopped, LoopCached,
         LoopMiss, Acquire, AcquireTimesOut, PollReady, PollTimesOut, ServerQuiet, ServerMine,
         ServerOther, MonitorAborts, MonitorQuiet, Release, vars
  <2>2. n = m /\ inbox' = Append(inbox, m)
    BY <2>1, <1>1 DEF Respond
  <2> QED  BY <2>2, ArrivedFacts DEF Somewhere, TypeOK
<1>2. ASSUME m \in answered PROVE Somewhere(m)'
  <2>0. m \in Messages /\ Somewhere(m)
    BY <1>2 DEF NoResponseLost, Somewhere, TypeOK
  <2>1. ASSUME NEW n \in Messages, Respond(n) PROVE Somewhere(m)'
    <3>1. ToSet(inbox) \subseteq ToSet(inbox)' /\ UNCHANGED <<cache, pc, want, leaves, returned>>
      BY <2>1, ArrivedFacts DEF Respond, TypeOK
    <3> QED  BY <3>1, <2>0 DEF Somewhere, InHand
  <2>2. CASE Disconnect \/ Stop \/ UNCHANGED vars
    BY <2>0, <2>2, UntouchedStays DEF Disconnect, Stop, vars
  <2>3. ASSUME NEW c \in Callers, NEW n \in Messages, Send(c, n) \/ ReadReply(c, n)
        PROVE Somewhere(m)'
    BY <2>0, <2>3, UntouchedStays DEF Send, ReadReply, TypeOK
  <2>4. ASSUME NEW c \in Callers, Begin(c) \/ LoopStopped(c) \/ LoopMiss(c) PROVE Somewhere(m)'
    BY <2>0, <2>4, UntouchedStays DEF Begin, LoopStopped, LoopMiss, TypeOK
  <2>5. ASSUME NEW c \in Callers, LoopCached(c) PROVE Somewhere(m)'
    <3>1. want[c] \in Messages
      BY <2>5, WaitsForMessage DEF LoopCached
    <3>2. CASE m = want[c]
      BY <2>5, <3>1, <3>2 DEF LoopCached, TypeOK, Somewhere
    <3>3. CASE m # want[c]
      BY <2>0, <2>5, <3>1, <3>3 DEF LoopCached, TypeOK, Somewhere, InHand
    <3> QED  BY <3>2, <3>3
  <2>6. ASSUME NEW c \in Callers, Acquire(c) \/ AcquireTimesOut(c) \/ PollReady(c) \/ PollTimesOut(c)
        PROVE Somewhere(m)'
    BY <2>0, <2>6, UntouchedStays DEF Acquire, AcquireTimesOut, PollReady, PollTimesOut, TypeOK
  <2>7. ASSUME NEW c \in Callers, ServerQuiet(c) \/ MonitorAborts(c) \/ MonitorQuiet(c)
        PROVE Somewhere(m)'
    BY <2>0, <2>7, UntouchedStays DEF ServerQuiet, MonitorAborts, MonitorQuiet, TypeOK
  <2>8. ASSUME NEW c \in Callers, ServerMine(c) PROVE Somewhere(m)'
    <3>1. ToSet(inbox) = ToSet(inbox)' \cup {want[c]}
      BY <2>8, ReadFacts DEF ServerMine, TypeOK
    <3>2. CASE m = want[c]
      BY <2>8, <3>2 DEF ServerMine, TypeOK, Somewhere, InHand
    <3>3. CASE m # want[c]
      BY <2>0, <2>8, <3>1, <3>3 DEF ServerMine, TypeOK, Somewhere, InHand
    <3> QED  BY <3>2, <3>3
  <2>9. ASSUME NEW c \in Callers, ServerOther(c) PROVE Somewhere(m)'
    <3>1. ToSet(inbox) \cup cache \subseteq (ToSet(inbox) \cup cache)'
      BY <2>9, ReadFacts DEF ServerOther, TypeOK
    <3> QED  BY <2>0, <2>9, <3>1 DEF ServerOther, TypeOK, Somewhere, InHand
  <2>10. ASSUME NEW c \in Callers, Release(c) PROVE Somewhere(m)'
    <3>1. want[c] \in Messages /\ returned[m] \in Nat
      BY <2>0, <2>10, WaitsForMessage DEF Release, TypeOK
    <3>2. CASE leaves[c] = "returns" /\ want[c] = m
      <4>1. returned'[m] = returned[m] + 1
        BY <2>0, <2>10, <3>2 DEF Release, TypeOK
      <4> QED  BY <3>1, <4>1 DEF Somewhere
    <3>3. CASE ~(leaves[c] = "returns" /\ want[c] = m)
      <4>1. returned'[m] = returned[m] /\ UNCHANGED <<inbox, cache, leaves>>
        BY <2>0, <2>10, <3>3 DEF Release, TypeOK
      <4>2. \A d \in Callers \ {c} : pc'[d] = pc[d] /\ want'[d] = want[d]
        BY <2>10 DEF Release, TypeOK
      <4> QED  BY <2>0, <3>3, <4>1, <4>2 DEF Somewhere, InHand
    <3> QED  BY <3>2, <3>3
  <2> QED
    BY <2>1, <2>2, <2>3, <2>4, <2>5, <2>6, <2>7, <2>8, <2>9, <2>10 DEF Next, Step
<1> QED  BY <1>1, <1>2

(* Whoever polls, stops, times out or is disconnected: a response that the *)
(* server sent is in the socket, in the cache, in the hands of a caller,   *)
(* or returned (brokers.py:1222).                                          *)
THEOREM NothingIsLost == Spec => []NoResponseLost
<1>1. Init => NoResponseLost
    BY DEF Init, NoResponseLost
<1> QED
    BY <1>1, TypeCorrect, ResponseStep, PTL DEF Spec

(***************************************************************************)
(* The event that tasks of several loops wait for.                         *)
(***************************************************************************)
(* The initial state has no waiters.                                       *)
LEMMA EventInit == Event!Init => Event!EventInvariant
BY DEF Event!Init, Event!EventInvariant, Event!TypeOK, Event!SetHasNoWaiters, Event!WaitersAreParked, Event!TakenLeftList,
       Event!ParkedHasFuture, Event!Taken

(* Each step of a setter, a loop or a waiter keeps the invariant.          *)
LEMMA EventStep == Event!EventInvariant /\ [Event!Next]_Event!vars => Event!EventInvariant'
<1> SUFFICES ASSUME Event!EventInvariant, [Event!Next]_Event!vars PROVE Event!EventInvariant'
    OBVIOUS
<1> USE DEF Event!EventInvariant, Event!TypeOK, Event!SetHasNoWaiters, Event!WaitersAreParked, Event!TakenLeftList,
            Event!ParkedHasFuture, Event!Taken, Event!Open
<1>1. CASE Event!Clear
    BY <1>1 DEF Event!Clear
<1>2. ASSUME NEW t \in Setters, Event!Set(t) PROVE Event!EventInvariant'
    BY <1>2 DEF Event!Set
<1>3. ASSUME NEW t \in Setters, NEW w \in Waiters, Event!Post(t, w) PROVE Event!EventInvariant'
    BY <1>3 DEF Event!Post
<1>4. ASSUME NEW w \in Waiters, Event!Resolve(w) PROVE Event!EventInvariant'
    BY <1>4 DEF Event!Resolve
<1>5. ASSUME NEW w \in Waiters, Event!Wait(w) PROVE Event!EventInvariant'
    BY <1>5 DEF Event!Wait
<1>6. ASSUME NEW w \in Waiters, Event!Wake(w) PROVE Event!EventInvariant'
    BY <1>6 DEF Event!Wake
<1>7. ASSUME NEW w \in Waiters, Event!Cancel(w) PROVE Event!EventInvariant'
    BY <1>7 DEF Event!Cancel
<1>8. ASSUME NEW w \in Waiters, Event!Leave(w) PROVE Event!EventInvariant'
    BY <1>8 DEF Event!Leave
<1>9. ASSUME NEW l \in EventLoops, Event!Close(l) PROVE Event!EventInvariant'
    BY <1>9 DEF Event!Close
<1>10. CASE UNCHANGED Event!vars
    BY <1>10 DEF Event!vars
<1> QED
    BY <1>1, <1>2, <1>3, <1>4, <1>5, <1>6, <1>7, <1>8, <1>9, <1>10 DEF Event!Next

(* The invariant holds in every state of every behaviour.                  *)
LEMMA EventAlways == Event!Spec => []Event!EventInvariant
BY EventInit, EventStep, PTL DEF Event!Spec

-----------------------------------------------------------------------------
(* The abstract waiters, as the refinement mapping has them.               *)
AbstractWaiters == [w \in Waiters |-> Event!Abstractly(w)]

(* The initial state is one of threading.Event.                            *)
LEMMA InitMaps == Event!Init => Event!Promise!EventInit
BY DEF Event!Init, Event!Promise!EventInit, Event!Abstractly

(* A waiter that no step touches looks the same afterwards.                *)
LEMMA SameWaiters ==
    ASSUME UNCHANGED <<waiters, await>> PROVE UNCHANGED AbstractWaiters
BY DEF AbstractWaiters, Event!Abstractly

(* Each step is one of threading.Event or changes nothing there.           *)
LEMMA StepMaps ==
    ASSUME Event!EventInvariant, [Event!Next]_Event!vars
    PROVE  [Event!Promise!EventNext]_<<isSet, AbstractWaiters>>
<1> USE DEF Event!EventInvariant, Event!TypeOK
<1> DEFINE A == AbstractWaiters
<1>1. CASE Event!Clear
  <2>1. isSet' = FALSE /\ UNCHANGED A
      BY <1>1, SameWaiters DEF Event!Clear
  <2> QED
      BY <2>1 DEF Event!Promise!EventNext, Event!Promise!AbstractClear, AbstractWaiters
<1>2. ASSUME NEW t \in Setters, Event!Set(t) PROVE Event!Promise!EventNext
  <2>1. isSet' = TRUE /\ waiters' = {} /\ await' = await
      BY <1>2 DEF Event!Set
  <2>2. A' = [w \in Waiters |-> IF A[w] = "blocked" THEN "released" ELSE A[w]]
      BY <2>1 DEF AbstractWaiters, Event!Abstractly
  <2> QED
      BY <2>1, <2>2 DEF Event!Promise!EventNext, Event!Promise!AbstractSet, AbstractWaiters
<1>3. ASSUME NEW w \in Waiters, Event!Wait(w) PROVE Event!Promise!EventNext
  <2>1. A[w] = "idle" /\ UNCHANGED isSet
      BY <1>3 DEF Event!Wait, AbstractWaiters, Event!Abstractly
  <2>2. A' = [A EXCEPT ![w] = IF isSet THEN "returned" ELSE "blocked"]
      BY <1>3 DEF Event!Wait, AbstractWaiters, Event!Abstractly
  <2> QED
      BY <2>1, <2>2 DEF Event!Promise!EventNext, Event!Promise!AbstractWait, AbstractWaiters
<1>4. ASSUME NEW w \in Waiters, Event!Wake(w) PROVE Event!Promise!EventNext
  <2>1. w \notin waiters
      BY <1>4 DEF Event!Wake, Event!WaitersAreParked
  <2>2. A[w] = "released" /\ UNCHANGED isSet
      BY <1>4, <2>1 DEF Event!Wake, AbstractWaiters, Event!Abstractly
  <2>3. A' = [A EXCEPT ![w] = "returned"]
      BY <1>4, <2>1 DEF Event!Wake, AbstractWaiters, Event!Abstractly
  <2> QED
      BY <2>2, <2>3 DEF Event!Promise!EventNext, Event!Promise!AbstractReturn, AbstractWaiters
<1>5. ASSUME NEW w \in Waiters, Event!Cancel(w) \/ Event!Leave(w) PROVE Event!Promise!EventNext
  <2>1. A[w] # "idle" /\ UNCHANGED isSet
      BY <1>5 DEF Event!Cancel, Event!Leave, AbstractWaiters, Event!Abstractly
  <2>2. A' = [A EXCEPT ![w] = "idle"]
      BY <1>5 DEF Event!Cancel, Event!Leave, AbstractWaiters, Event!Abstractly, Event!WaitersAreParked
  <2> QED
      BY <2>1, <2>2 DEF Event!Promise!EventNext, Event!Promise!AbstractLeave, AbstractWaiters
<1>6. ASSUME \/ \E t \in Setters, w \in Waiters : Event!Post(t, w)
             \/ \E w \in Waiters : Event!Resolve(w)
             \/ \E l \in EventLoops : Event!Close(l)
             \/ UNCHANGED Event!vars
      PROVE  UNCHANGED <<isSet, A>>
  <2>1. UNCHANGED <<isSet, waiters, await>>
      BY <1>6 DEF Event!Post, Event!Resolve, Event!Close, Event!vars
  <2> QED
      BY <2>1, SameWaiters
<1> QED
    BY <1>1, <1>2, <1>3, <1>4, <1>5, <1>6 DEF Event!Next, Event!Promise!EventNext

(* "Semantics match threading.Event" (utils.py:38), for any number of      *)
(* loops, some of which close, and waiters, some of which are cancelled.   *)
THEOREM MatchesThreadingEvent == Event!Spec => Event!KeepsEventPromise
<1>1. Event!EventInvariant /\ [Event!Next]_Event!vars => [Event!Promise!EventNext]_Event!Promise!eventVars
    BY StepMaps DEF Event!Promise!eventVars, AbstractWaiters
<1> QED
    BY InitMaps, EventAlways, <1>1, PTL DEF Event!Spec, Event!KeepsEventPromise, Event!Promise!EventSpec

(***************************************************************************)
(* A pool of clients that one task polls.                                  *)
(***************************************************************************)
(* TypeOK but for the events, with the poll tasks counted together: each   *)
(* began with a call of start_polling().                                   *)
PoolTyped ==
  /\ pool \in Seq(PoolClients) /\ NoRepeat(pool)
  /\ polled \subseteq watched /\ watched \subseteq ToSet(pool)
  /\ toClient \in [Things -> PoolClients \cup {None}] /\ toThing \in [PoolClients -> Things \cup {None}]
  /\ shaken \subseteq PoolClients /\ shaking \subseteq PoolClients /\ halted \subseteq PoolClients
  /\ gone \in [PoolClients -> {"quiet", "event", "read"}]
  /\ to \in [Messages -> PoolClients \cup {None}]
  /\ stage \in [Messages -> {"new", "sending", "sent", "waiting", "returned", "raised", "timedout"}]
  /\ response \in [Messages -> {"none", "socket", "taken", "read"}]
  /\ mapped \subseteq Messages /\ cancelled \subseteq Messages /\ resolving \subseteq Messages
  /\ poolStop \in BOOLEAN /\ handshakes \in 0 .. MaxHandshakes
  /\ poolStarts \in 0 .. MaxStarts /\ starting \in Nat /\ pollers \in Nat /\ starting + pollers <= poolStarts

(* The events that were made, and where one may be.                        *)
PoolEvents ==
  /\ size \in Nat /\ events \in [Messages -> 0 .. size] /\ free \in Seq(1 .. size) /\ flags \subseteq 1 .. size

(* What an instance has of the community modules is what they have.        *)
LEMMA SameSets == \A q : Pool!ToSet(q) = ToSet(q)
BY DEF Pool!ToSet, ToSet

LEMMA SameInjections == \A q : Pool!IsInjective(q) <=> NoRepeat(q)
BY DEF Pool!IsInjective, NoRepeat

LEMMA PoolTypedInit == ASSUME Pool!PoolAssumption, Pool!Init PROVE PoolTyped
<1>1. pool = First /\ First \in Seq(PoolClients) /\ NoRepeat(First)
  BY SameInjections DEF Pool!Init, Pool!PoolAssumption
<1>2. ToSet(First) \subseteq PoolClients
  BY <1>1, LenProperties DEF ToSet
<1>3. MaxStarts \in Nat /\ MaxHandshakes \in Nat
  BY DEF Pool!PoolAssumption
<1>4. poolStop \in BOOLEAN
  BY Zenon DEF Pool!Init
<1> QED
  BY <1>1, <1>2, <1>3, <1>4, SameSets DEF Pool!Init, PoolTyped

(* The pool has clients only, one more with each that joins it.            *)
LEMMA PoolHasClients ==
  ASSUME PoolTyped PROVE ToSet(pool) \subseteq PoolClients
<1>1. DOMAIN pool = 1 .. Len(pool)
  BY LenProperties DEF PoolTyped
<1> QED
  BY <1>1 DEF PoolTyped, ToSet

LEMMA JoinPool ==
  ASSUME PoolTyped, NEW c \in PoolClients, c \notin ToSet(pool), pool' = Append(pool, c)
  PROVE  pool' \in Seq(PoolClients) /\ NoRepeat(pool') /\ ToSet(pool') = ToSet(pool) \cup {c}
BY AppendFacts DEF PoolTyped

LEMMA PoolTypedNext == ASSUME Pool!PoolAssumption, PoolTyped, [Pool!Next]_Pool!poolVars PROVE PoolTyped'
<1> USE DEF PoolTyped
<1>0. MaxStarts \in Nat /\ MaxHandshakes \in Nat
  BY DEF Pool!PoolAssumption
<1>1. ASSUME NEW c \in PoolClients, Pool!CreateNew(c) PROVE PoolTyped'
  <2>1. pool' \in Seq(PoolClients) /\ NoRepeat(pool') /\ ToSet(pool') = ToSet(pool) \cup {c}
    BY <1>1, JoinPool, SameSets DEF Pool!CreateNew
  <2> QED
    BY <1>1, <2>1 DEF Pool!CreateNew, Pool!calls, Pool!polling
<1>2. ASSUME NEW c \in PoolClients, Pool!Register(c) PROVE PoolTyped'
  <2>1. pool' \in Seq(PoolClients) /\ NoRepeat(pool') /\ ToSet(pool') = ToSet(pool) \cup {c}
    BY <1>2, JoinPool, SameSets DEF Pool!Register
  <2> QED
    BY <1>2, <2>1 DEF Pool!Register, Pool!calls, Pool!polling
<1>3. ASSUME NEW c \in PoolClients, NEW t \in Things, Pool!RegisterThing(c, t) PROVE PoolTyped'
  BY <1>3 DEF Pool!RegisterThing, Pool!shakes, Pool!calls, Pool!polling
<1>4. CASE Pool!Exit
  <2>1. polled' \subseteq watched' /\ watched' \subseteq watched
    BY <1>4 DEF Pool!Exit
  <2>2. UNCHANGED <<pool, toClient, toThing, Pool!shakes, gone, Pool!calls, response, mapped, cancelled, resolving, Pool!polling, handshakes>>
    BY <1>4 DEF Pool!Exit
  <2> QED
    BY <2>1, <2>2 DEF Pool!shakes, Pool!calls, Pool!polling
<1>5. CASE Pool!Handshake
  BY <1>0, <1>5, PoolHasClients, SameSets DEF Pool!Handshake, Pool!registry, Pool!calls, Pool!polling
<1>6. ASSUME NEW c \in PoolClients, Pool!ShakeEnds(c) \/ Pool!ShakeStops(c) \/ Pool!ShakeTimesOut(c) PROVE PoolTyped'
  BY <1>6 DEF Pool!ShakeEnds, Pool!ShakeStops, Pool!ShakeTimesOut, Pool!registry, Pool!calls, Pool!polling
<1>7. ASSUME NEW c \in PoolClients, NEW m \in Messages, Pool!ShakeTakes(c, m) PROVE PoolTyped'
  BY <1>7 DEF Pool!ShakeTakes, Pool!registry, Pool!shakes, Pool!calls, Pool!polling
<1>8. ASSUME NEW m \in Messages, NEW t \in Things, Pool!Send(m, t) PROVE PoolTyped'
  BY <1>8 DEF Pool!Send, Pool!registry, Pool!shakes, Pool!polling
<1>9. ASSUME NEW m \in Messages, Pool!Sent(m) PROVE PoolTyped'
  BY <1>9 DEF Pool!Sent, Pool!registry, Pool!shakes, Pool!polling
<1>10. ASSUME NEW m \in Messages, Pool!Receive(m) PROVE PoolTyped'
  BY <1>10 DEF Pool!Receive, Pool!registry, Pool!shakes, Pool!polling
<1>11. ASSUME NEW m \in Messages, Pool!Return(m) PROVE PoolTyped'
  BY <1>11 DEF Pool!Return, Pool!registry, Pool!shakes, Pool!polling
<1>12. ASSUME NEW m \in Messages, Pool!TimeOut(m) PROVE PoolTyped'
  BY <1>12 DEF Pool!TimeOut, Pool!registry, Pool!shakes, Pool!polling
<1>13. ASSUME NEW m \in Messages, Pool!Respond(m) PROVE PoolTyped'
  BY <1>13 DEF Pool!Respond, Pool!registry, Pool!shakes, Pool!calls, Pool!polling
<1>14. ASSUME NEW m \in Messages, Pool!ReadCancelled(m) PROVE PoolTyped'
  BY <1>14 DEF Pool!ReadCancelled, Pool!registry, Pool!shakes, Pool!calls, Pool!polling
<1>15. ASSUME NEW m \in Messages, Pool!Read(m) PROVE PoolTyped'
  BY <1>15 DEF Pool!Read, Pool!registry, Pool!shakes, Pool!calls, Pool!polling
<1>16. ASSUME NEW m \in Messages, Pool!Resolve(m) PROVE PoolTyped'
  BY <1>16 DEF Pool!Resolve, Pool!registry, Pool!shakes, Pool!calls, Pool!polling
<1>17. ASSUME NEW c \in PoolClients, Pool!Disconnect(c) PROVE PoolTyped'
  BY <1>17 DEF Pool!Disconnect, Pool!registry, Pool!shakes, Pool!calls, Pool!polling
<1>18. ASSUME NEW c \in PoolClients, Pool!ReadMonitor(c) PROVE PoolTyped'
  BY <1>0, <1>18 DEF Pool!ReadMonitor, Pool!registry, Pool!shakes, Pool!calls
<1>19. CASE Pool!StartPolling
  BY <1>0, <1>19 DEF Pool!StartPolling, Pool!registry, Pool!shakes, Pool!calls
<1>20. CASE Pool!BeginPolling
  <2>1. poolStop' \in BOOLEAN
    BY <1>20, Zenon DEF Pool!BeginPolling
  <2>2. /\ starting > 0 /\ starting' = starting - 1 /\ pollers' = pollers + 1
        /\ UNCHANGED <<Pool!registry, Pool!shakes, gone, Pool!calls, response, mapped, cancelled, resolving, poolStarts, handshakes>>
    BY <1>20 DEF Pool!BeginPolling
  <2> QED
    BY <1>0, <2>1, <2>2 DEF Pool!registry, Pool!shakes, Pool!calls
<1>21. CASE Pool!StopPolling
  <2>1. poolStop' \in BOOLEAN
    BY <1>21, Zenon DEF Pool!StopPolling
  <2>2. /\ halted' = halted \cup shaking
        /\ UNCHANGED <<Pool!registry, shaken, shaking, gone, Pool!calls, response, mapped, cancelled, resolving,
                       starting, pollers, poolStarts, handshakes>>
    BY <1>21 DEF Pool!StopPolling
  <2> QED
    BY <1>0, <2>1, <2>2 DEF Pool!registry, Pool!calls
<1>22. CASE Pool!EndPolling
  BY <1>0, <1>22 DEF Pool!EndPolling, Pool!registry, Pool!shakes, Pool!calls
<1>23. CASE UNCHANGED Pool!poolVars
  BY <1>23 DEF Pool!poolVars, Pool!registry, Pool!shakes, Pool!calls, Pool!polling
<1> QED
  BY <1>1, <1>2, <1>3, <1>4, <1>5, <1>6, <1>7, <1>8, <1>9, <1>10, <1>11, <1>12, <1>13, <1>14, <1>15, <1>16,
     <1>17, <1>18, <1>19, <1>20, <1>21, <1>22, <1>23 DEF Pool!Next

-----------------------------------------------------------------------------
(* An event is in one place: in the hands of one caller, from the time its *)
(* request was sent, or in the pool. One that is handed out is set only    *)
(* when the response is in the map.                                        *)
HandsConj ==
  /\ \A m, n \in Messages : events[m] # 0 /\ events[m] = events[n] => m = n
  /\ NoRepeat(free) /\ \A m \in Messages : events[m] \notin ToSet(free)
  /\ \A m \in Messages : events[m] \in flags => m \in mapped
  /\ \A m \in Messages : stage[m] \in {"new", "sending"} => events[m] = 0

(* Who waits for a response that was read is woken, so that no caller      *)
(* finds the map without it; only a caller that timed out cancels.         *)
CallsConj ==
  /\ Pool!ReadWakes
  /\ \A m \in Messages : stage[m] # "raised" /\ (stage[m] = "new" => response[m] = "none")
  /\ \A m \in cancelled : stage[m] = "timedout"

(* Taking the front of the pool, and where the elements of a sequence are. *)
LEMMA TailRepeatsNot ==
  ASSUME NEW S, NEW q \in Seq(S), q # <<>>, NoRepeat(q)
  PROVE  /\ Head(q) \in ToSet(q) /\ Head(q) \in S /\ Tail(q) \in Seq(S) /\ NoRepeat(Tail(q))
         /\ ToSet(Tail(q)) = ToSet(q) \ {Head(q)}
<1>1. IsRest(q, q)
  BY RestOfItself
<1>2. IsRest(Tail(q), q) /\ Tail(q) \in Seq(S)
  BY <1>1, RestTail, TailOf
<1> QED
  BY <1>2, RestOf, TailOf

LEMMA SetOfSeq ==
  ASSUME NEW S, NEW q \in Seq(S) PROVE ToSet(q) \subseteq S
<1>1. DOMAIN q = 1 .. Len(q) /\ \A i \in 1 .. Len(q) : q[i] \in S
  BY LenProperties
<1> QED
  BY <1>1 DEF ToSet

(* pop(): the event that is handed out is new or leaves the pool.          *)
LEMMA Popped ==
  ASSUME PoolEvents, NoRepeat(free), Pool!Pop
  PROVE  /\ size' \in Nat /\ size <= size' /\ Pool!NextEvent \in 1 .. size'
         /\ free' \in Seq(1 .. size') /\ NoRepeat(free') /\ Pool!NextEvent \notin ToSet(free')
         /\ ToSet(free') \subseteq ToSet(free)
         /\ Pool!NextEvent = size + 1 \/ Pool!NextEvent \in ToSet(free)
         /\ ToSet(free) \subseteq 1 .. size
<1>0. ToSet(free) \subseteq 1 .. size
  <2>1. PICK S : S = 1 .. size
    OBVIOUS
  <2>2. free \in Seq(S)
    BY <2>1 DEF PoolEvents
  <2> QED
    BY <2>1, <2>2, SetOfSeq
<1>1. CASE free = <<>>
  <2>1. size' = size + 1 /\ Pool!NextEvent = size + 1 /\ free' = <<>>
    BY <1>1 DEF Pool!Pop, Pool!NextEvent
  <2>2. ToSet(<<>>) = {} /\ <<>> \in Seq(1 .. size') /\ NoRepeat(<<>>)
    BY DEF ToSet, NoRepeat
  <2> QED
    BY <1>0, <1>1, <2>1, <2>2 DEF PoolEvents
<1>2. CASE free # <<>>
  <2>1. size' = size /\ Pool!NextEvent = Head(free) /\ free' = Tail(free)
    BY <1>2 DEF Pool!Pop, Pool!NextEvent
  <2>2. /\ Head(free) \in ToSet(free) /\ Head(free) \in 1 .. size /\ Tail(free) \in Seq(1 .. size)
        /\ NoRepeat(Tail(free)) /\ ToSet(Tail(free)) = ToSet(free) \ {Head(free)}
    BY <1>2, TailRepeatsNot DEF PoolEvents
  <2> QED
    BY <1>0, <2>1, <2>2 DEF PoolEvents
<1> QED
  BY <1>1, <1>2

(* completed(): an event in the hands of a caller is not in the pool yet.  *)
LEMMA GivenBack ==
  ASSUME PoolEvents, HandsConj, NEW m \in Messages, events[m] # 0, free' = Append(free, events[m])
  PROVE  free' \in Seq(1 .. size) /\ NoRepeat(free') /\ ToSet(free') = ToSet(free) \cup {events[m]}
<1>1. events[m] \in 1 .. size /\ events[m] \notin ToSet(free) /\ free \in Seq(1 .. size) /\ NoRepeat(free)
  BY DEF PoolEvents, HandsConj
<1>2. PICK S : S = 1 .. size
  OBVIOUS
<1>3. PICK q \in Seq(S), e \in S : q = free /\ e = events[m]
  BY <1>1, <1>2
<1>4. Append(q, e) \in Seq(S) /\ NoRepeat(Append(q, e)) /\ ToSet(Append(q, e)) = ToSet(q) \cup {e}
  BY <1>1, <1>3, AppendFacts
<1> QED
  BY <1>2, <1>3, <1>4

LEMMA HandsInit == ASSUME Pool!PoolAssumption, Pool!Init PROVE PoolEvents /\ HandsConj /\ CallsConj
<1>1. PICK n \in Nat : n = Len(First)
  BY LenProperties DEF Pool!PoolAssumption
<1>2. /\ size = n /\ free = [i \in 1 .. n |-> i] /\ flags = {} /\ cancelled = {}
      /\ \A m \in Messages : events[m] = 0 /\ stage[m] = "new" /\ response[m] = "none"
      /\ events = [m \in Messages |-> 0]
  BY <1>1 DEF Pool!Init
<1>3. free \in Seq(1 .. n) /\ DOMAIN free = 1 .. n /\ \A i \in 1 .. n : free[i] = i
  BY <1>2
<1>4. NoRepeat(free) /\ 0 \notin ToSet(free)
  BY <1>3 DEF NoRepeat, ToSet
<1>5. PoolEvents
  BY <1>2, <1>3 DEF PoolEvents
<1>6. HandsConj
  BY <1>2, <1>4 DEF HandsConj
<1>7. CallsConj
  BY <1>2 DEF CallsConj, Pool!ReadWakes
<1> QED
  BY <1>5, <1>6, <1>7

(* Steps that leave the events alone, which most do.                       *)
LEMMA HandsSame ==
  ASSUME PoolEvents, HandsConj, UNCHANGED <<events, Pool!eventPool, flags>>, mapped \subseteq mapped',
         \A m \in Messages : stage'[m] \in {"new", "sending"} => stage[m] \in {"new", "sending"}
  PROVE  PoolEvents' /\ HandsConj'
<1>1. UNCHANGED <<free, size>>
  BY DEF Pool!eventPool
<1> QED
  BY <1>1 DEF PoolEvents, HandsConj

LEMMA HandsNext ==
  ASSUME Pool!PoolAssumption, PoolTyped, PoolEvents, HandsConj, [Pool!Next]_Pool!poolVars
  PROVE  PoolEvents' /\ HandsConj'
<1>1. ASSUME UNCHANGED <<events, Pool!eventPool, flags, mapped, stage>> PROVE PoolEvents' /\ HandsConj'
  BY <1>1, HandsSame
<1>2. ASSUME NEW c \in PoolClients, \/ Pool!CreateNew(c) \/ Pool!Register(c) \/ Pool!ShakeEnds(c) \/ Pool!ShakeStops(c)
                                \/ Pool!ShakeTimesOut(c) \/ Pool!Disconnect(c) \/ Pool!ReadMonitor(c)
      PROVE  PoolEvents' /\ HandsConj'
  <2>1. UNCHANGED <<events, Pool!eventPool, flags, mapped, Pool!calls>>
    BY <1>2 DEF Pool!CreateNew, Pool!Register, Pool!ShakeEnds, Pool!ShakeStops, Pool!ShakeTimesOut, Pool!Disconnect, Pool!ReadMonitor
  <2> QED
    BY <1>1, <2>1 DEF Pool!calls
<1>3. CASE Pool!Exit \/ Pool!Handshake \/ Pool!StartPolling \/ Pool!BeginPolling \/ Pool!StopPolling \/ Pool!EndPolling
  <2>1. UNCHANGED <<events, Pool!eventPool, flags, mapped, Pool!calls>>
    BY <1>3 DEF Pool!Exit, Pool!Handshake, Pool!StartPolling, Pool!BeginPolling, Pool!StopPolling, Pool!EndPolling
  <2> QED
    BY <1>1, <2>1 DEF Pool!calls
<1>4. ASSUME NEW c \in PoolClients, NEW t \in Things, Pool!RegisterThing(c, t) PROVE PoolEvents' /\ HandsConj'
  BY <1>1, <1>4 DEF Pool!RegisterThing, Pool!calls
<1>5. ASSUME NEW c \in PoolClients, NEW m \in Messages, Pool!ShakeTakes(c, m) PROVE PoolEvents' /\ HandsConj'
  BY <1>1, <1>5 DEF Pool!ShakeTakes, Pool!calls
<1>6. ASSUME NEW m \in Messages, Pool!Respond(m) \/ Pool!ReadCancelled(m) PROVE PoolEvents' /\ HandsConj'
  BY <1>1, <1>6 DEF Pool!Respond, Pool!ReadCancelled, Pool!calls
<1>7. ASSUME NEW m \in Messages, NEW t \in Things, Pool!Send(m, t) PROVE PoolEvents' /\ HandsConj'
  BY <1>7, HandsSame DEF Pool!Send, PoolTyped
<1>8. ASSUME NEW m \in Messages, Pool!Receive(m) \/ Pool!TimeOut(m) PROVE PoolEvents' /\ HandsConj'
  BY <1>8, HandsSame DEF Pool!Receive, Pool!TimeOut, PoolTyped
<1>9. ASSUME NEW m \in Messages, Pool!Sent(m) PROVE PoolEvents' /\ HandsConj'
  <2>1. /\ stage[m] = "sending" /\ stage' = [stage EXCEPT ![m] = "sent"] /\ Pool!Pop /\ UNCHANGED mapped
        /\ events' = [events EXCEPT ![m] = Pool!NextEvent] /\ flags' = flags \ {Pool!NextEvent}
    BY <1>9 DEF Pool!Sent, Pool!Pop
  <2>2. /\ size' \in Nat /\ size <= size' /\ Pool!NextEvent \in 1 .. size'
        /\ free' \in Seq(1 .. size') /\ NoRepeat(free') /\ Pool!NextEvent \notin ToSet(free')
        /\ ToSet(free') \subseteq ToSet(free)
        /\ Pool!NextEvent = size + 1 \/ Pool!NextEvent \in ToSet(free)
        /\ ToSet(free) \subseteq 1 .. size
    BY <2>1, Popped DEF HandsConj
  <2>3. PICK e \in Nat, s \in Nat, s2 \in Nat : e = Pool!NextEvent /\ s = size /\ s2 = size' /\ e # 0
    BY <2>2 DEF PoolEvents
  <2>4. /\ events'[m] = e /\ \A n \in Messages \ {m} : events'[n] = events[n]
        /\ events' \in [Messages -> 0 .. size']
    <3>1. events \in [Messages -> 0 .. s]
      BY <2>3 DEF PoolEvents
    <3>2. 0 .. s \subseteq 0 .. s2 /\ e \in 0 .. s2
      BY <2>2, <2>3
    <3> QED
      BY <2>1, <2>3, <3>1, <3>2
  <2>5. \A n \in Messages : events[n] # e
    BY <2>2, <2>3 DEF PoolEvents, HandsConj
  <2>6. flags' \subseteq 1 .. size'
    BY <2>1, <2>2 DEF PoolEvents
  <2>7. PoolEvents'
    BY <2>2, <2>4, <2>6 DEF PoolEvents
  <2>8. \A n, k \in Messages : events'[n] # 0 /\ events'[n] = events'[k] => n = k
    BY <2>4, <2>5 DEF HandsConj
  <2>9. \A n \in Messages : events'[n] \notin ToSet(free')
    BY <2>2, <2>3, <2>4 DEF HandsConj
  <2>10. \A n \in Messages : events'[n] \in flags' => n \in mapped'
    BY <2>1, <2>3, <2>4 DEF HandsConj
  <2>11. \A n \in Messages : stage'[n] \in {"new", "sending"} => events'[n] = 0
    BY <2>1, <2>4 DEF HandsConj, PoolTyped
  <2> QED
    BY <2>2, <2>7, <2>8, <2>9, <2>10, <2>11 DEF HandsConj
<1>10. ASSUME NEW m \in Messages, Pool!Return(m) PROVE PoolEvents' /\ HandsConj'
  <2>1. /\ stage[m] = "waiting" /\ events[m] \in flags
        /\ stage' = [stage EXCEPT ![m] = IF m \in mapped THEN "returned" ELSE "raised"]
        /\ events' = [events EXCEPT ![m] = 0] /\ free' = Append(free, events[m])
        /\ mapped' = mapped \ {m} /\ UNCHANGED <<size, flags>>
    BY <1>10 DEF Pool!Return
  <2>2. events[m] # 0
    BY <2>1 DEF PoolEvents
  <2>3. free' \in Seq(1 .. size) /\ NoRepeat(free') /\ ToSet(free') = ToSet(free) \cup {events[m]}
    BY <2>1, <2>2, GivenBack
  <2>4. events'[m] = 0 /\ \A n \in Messages \ {m} : events'[n] = events[n]
    BY <2>1 DEF PoolEvents
  <2>5. PoolEvents'
    <3>1. events' \in [Messages -> 0 .. size]
      BY <2>1 DEF PoolEvents
    <3> QED
      BY <2>1, <2>3, <3>1 DEF PoolEvents
  <2>6. 0 \notin ToSet(free')
    <3>1. 0 \notin ToSet(free)
      BY LenProperties DEF PoolEvents, ToSet
    <3> QED
      BY <2>2, <2>3, <3>1
  <2>7. \A n \in Messages : events'[n] \notin ToSet(free')
    BY <2>2, <2>3, <2>4, <2>6 DEF HandsConj
  <2>8. \A n, k \in Messages : events'[n] # 0 /\ events'[n] = events'[k] => n = k
    BY <2>4 DEF HandsConj
  <2>9. \A n \in Messages : events'[n] \in flags' => n \in mapped'
    BY <2>1, <2>4 DEF HandsConj, PoolEvents
  <2>10. \A n \in Messages : stage'[n] \in {"new", "sending"} => events'[n] = 0
    BY <2>1, <2>4 DEF HandsConj, PoolTyped
  <2> QED
    BY <2>3, <2>5, <2>7, <2>8, <2>9, <2>10 DEF HandsConj
<1>11. ASSUME NEW m \in Messages, Pool!Read(m) PROVE PoolEvents' /\ HandsConj'
  <2>1. /\ mapped' = mapped \cup {m} /\ flags' = flags \cup ({events[m]} \ {0})
        /\ UNCHANGED <<events, Pool!eventPool, stage>>
    BY <1>11 DEF Pool!Read, Pool!calls
  <2>2. flags' \subseteq 1 .. size
    <3>1. flags \subseteq 1 .. size /\ {events[m]} \ {0} \subseteq 1 .. size
      <4>1. events[m] \in 0 .. size /\ size \in Nat
        BY DEF PoolEvents
      <4> QED
        BY <4>1 DEF PoolEvents
    <3>2. events[m] # 0 => flags \cup {events[m]} = flags \cup ({events[m]} \ {0})
      OBVIOUS
    <3> QED
      BY <2>1, <3>1, <3>2
  <2> QED
    BY <2>1, <2>2 DEF PoolEvents, HandsConj, Pool!eventPool
<1>12. ASSUME NEW m \in Messages, Pool!Resolve(m) PROVE PoolEvents' /\ HandsConj'
  <2>1. /\ mapped' = mapped \cup {m} /\ flags' = flags \cup {events[m]} /\ events[m] # 0
        /\ UNCHANGED <<events, Pool!eventPool, stage>>
    BY <1>12 DEF Pool!Resolve, Pool!calls
  <2>2. flags' \subseteq 1 .. size
    <3>1. flags \subseteq 1 .. size /\ {events[m]} \ {0} \subseteq 1 .. size
      <4>1. events[m] \in 0 .. size /\ size \in Nat
        BY DEF PoolEvents
      <4> QED
        BY <4>1 DEF PoolEvents
    <3>2. events[m] # 0 => flags \cup {events[m]} = flags \cup ({events[m]} \ {0})
      OBVIOUS
    <3> QED
      BY <2>1, <3>1, <3>2
  <2> QED
    BY <2>1, <2>2 DEF PoolEvents, HandsConj, Pool!eventPool
<1>13. CASE UNCHANGED Pool!poolVars
  BY <1>1, <1>13 DEF Pool!poolVars, Pool!calls
<1> QED
  BY <1>2, <1>3, <1>4, <1>5, <1>6, <1>7, <1>8, <1>9, <1>10, <1>11, <1>12, <1>13 DEF Pool!Next

(* Steps that set events and fill the map disturb no caller.               *)
LEMMA CallsSame ==
  ASSUME PoolTyped, CallsConj, UNCHANGED <<stage, events, response, resolving, cancelled>>,
         mapped \subseteq mapped', flags \subseteq flags'
  PROVE  CallsConj'
BY DEF CallsConj, Pool!ReadWakes, Pool!InCall

LEMMA CallsNext ==
  ASSUME Pool!PoolAssumption, PoolTyped, PoolEvents, HandsConj, CallsConj, [Pool!Next]_Pool!poolVars
  PROVE  CallsConj'
<1>1. ASSUME UNCHANGED <<stage, events, response, resolving, cancelled, mapped, flags>> PROVE CallsConj'
  BY <1>1, CallsSame
<1>2. ASSUME NEW c \in PoolClients, \/ Pool!CreateNew(c) \/ Pool!Register(c) \/ Pool!ShakeEnds(c) \/ Pool!ShakeStops(c)
                                \/ Pool!ShakeTimesOut(c) \/ Pool!Disconnect(c) \/ Pool!ReadMonitor(c)
      PROVE  CallsConj'
  <2>1. UNCHANGED <<Pool!calls, events, response, resolving, cancelled, mapped, flags>>
    BY <1>2 DEF Pool!CreateNew, Pool!Register, Pool!ShakeEnds, Pool!ShakeStops, Pool!ShakeTimesOut, Pool!Disconnect, Pool!ReadMonitor
  <2> QED
    BY <1>1, <2>1 DEF Pool!calls
<1>3. CASE Pool!Exit \/ Pool!Handshake \/ Pool!StartPolling \/ Pool!BeginPolling \/ Pool!StopPolling \/ Pool!EndPolling
  <2>1. UNCHANGED <<Pool!calls, events, response, resolving, cancelled, mapped, flags>>
    BY <1>3 DEF Pool!Exit, Pool!Handshake, Pool!StartPolling, Pool!BeginPolling, Pool!StopPolling, Pool!EndPolling
  <2> QED
    BY <1>1, <2>1 DEF Pool!calls
<1>4. ASSUME NEW c \in PoolClients, NEW t \in Things, Pool!RegisterThing(c, t) PROVE CallsConj'
  BY <1>1, <1>4 DEF Pool!RegisterThing, Pool!calls
<1>5. ASSUME NEW c \in PoolClients, NEW m \in Messages, Pool!ShakeTakes(c, m) PROVE CallsConj'
  <2>1. /\ response[m] = "socket" /\ response' = [response EXCEPT ![m] = "taken"]
        /\ UNCHANGED <<stage, events, resolving, cancelled, mapped, flags>>
    BY <1>5 DEF Pool!ShakeTakes, Pool!calls
  <2> QED
    BY <2>1 DEF CallsConj, Pool!ReadWakes, Pool!InCall, PoolTyped
<1>6. ASSUME NEW m \in Messages, Pool!Respond(m) PROVE CallsConj'
  <2>1. /\ stage[m] # "new" /\ response' = [response EXCEPT ![m] = "socket"]
        /\ UNCHANGED <<stage, events, resolving, cancelled, mapped, flags>>
    BY <1>6 DEF Pool!Respond, Pool!calls
  <2> QED
    BY <2>1 DEF CallsConj, Pool!ReadWakes, Pool!InCall, PoolTyped
<1>7. ASSUME NEW m \in Messages, Pool!ReadCancelled(m) PROVE CallsConj'
  <2>1. /\ m \in cancelled /\ response[m] = "socket" /\ response' = [response EXCEPT ![m] = "read"]
        /\ cancelled' = cancelled \ {m} /\ UNCHANGED <<stage, events, resolving, mapped, flags>>
    BY <1>7 DEF Pool!ReadCancelled, Pool!InReach, Pool!calls
  <2>2. stage[m] = "timedout"
    BY <2>1 DEF CallsConj
  <2> QED
    BY <2>1, <2>2 DEF CallsConj, Pool!ReadWakes, Pool!InCall, PoolTyped
<1>8. ASSUME NEW m \in Messages, NEW t \in Things, Pool!Send(m, t) PROVE CallsConj'
  <2>1. /\ stage[m] = "new" /\ stage' = [stage EXCEPT ![m] = "sending"]
        /\ UNCHANGED <<response, events, resolving, cancelled, mapped, flags>>
    BY <1>8 DEF Pool!Send
  <2>2. response[m] = "none" /\ m \notin cancelled
    BY <2>1 DEF CallsConj
  <2> QED
    BY <2>1, <2>2 DEF CallsConj, Pool!ReadWakes, Pool!InCall, PoolTyped
<1>9. ASSUME NEW m \in Messages, Pool!Receive(m) PROVE CallsConj'
  <2>1. /\ stage[m] = "sent" /\ stage' = [stage EXCEPT ![m] = "waiting"]
        /\ UNCHANGED <<response, events, resolving, cancelled, mapped, flags>>
    BY <1>9 DEF Pool!Receive
  <2> QED
    BY <2>1 DEF CallsConj, Pool!ReadWakes, Pool!InCall, PoolTyped
<1>10. ASSUME NEW m \in Messages, Pool!TimeOut(m) PROVE CallsConj'
  <2>1. /\ stage[m] = "waiting" /\ stage' = [stage EXCEPT ![m] = "timedout"]
        /\ cancelled' = cancelled \cup {m}
        /\ UNCHANGED <<response, events, resolving, mapped, flags>>
    BY <1>10 DEF Pool!TimeOut
  <2> QED
    BY <2>1 DEF CallsConj, Pool!ReadWakes, Pool!InCall, PoolTyped
<1>11. ASSUME NEW m \in Messages, Pool!Sent(m) PROVE CallsConj'
  <2>1. /\ stage[m] = "sending" /\ stage' = [stage EXCEPT ![m] = "sent"] /\ Pool!Pop
        /\ events' = [events EXCEPT ![m] = Pool!NextEvent] /\ flags' = flags \ {Pool!NextEvent}
        /\ UNCHANGED <<response, mapped, cancelled, resolving>>
    BY <1>11 DEF Pool!Sent, Pool!Pop
  <2>2. PICK e : e = Pool!NextEvent
    OBVIOUS
  <2>3. \A n \in Messages : events[n] # e
    <3>1. Pool!NextEvent = size + 1 \/ Pool!NextEvent \in ToSet(free)
      BY <2>1, Popped DEF HandsConj
    <3> QED
      BY <2>2, <3>1 DEF PoolEvents, HandsConj
  <2>4. \A n \in Messages \ {m} : stage'[n] = stage[n] /\ events'[n] = events[n]
    BY <2>1 DEF PoolTyped, PoolEvents
  <2>5. events[m] = 0 /\ stage'[m] = "sent"
    BY <2>1 DEF HandsConj, PoolTyped
  <2>6. m \notin cancelled
    BY <2>1 DEF CallsConj
  <2>7. ASSUME NEW n \in Messages, response[n] = "read", stage'[n] \in Pool!InCall
        PROVE  n \in mapped /\ (n \in resolving \/ (events'[n] # 0 /\ events'[n] \in flags'))
    <3>1. CASE n = m
      BY <2>1, <2>5, <2>7, <3>1 DEF CallsConj, Pool!ReadWakes, Pool!InCall
    <3>2. CASE n # m
      BY <2>1, <2>2, <2>3, <2>4, <2>7, <3>2 DEF CallsConj, Pool!ReadWakes
    <3> QED
      BY <3>1, <3>2
  <2>8. Pool!ReadWakes'
    BY <2>1, <2>7 DEF Pool!ReadWakes
  <2> QED
    BY <2>1, <2>4, <2>5, <2>6, <2>8 DEF CallsConj
<1>12. ASSUME NEW m \in Messages, Pool!Return(m) PROVE CallsConj'
  <2>1. /\ stage[m] = "waiting" /\ events[m] \in flags
        /\ stage' = [stage EXCEPT ![m] = IF m \in mapped THEN "returned" ELSE "raised"]
        /\ events' = [events EXCEPT ![m] = 0]
        /\ mapped' = mapped \ {m} /\ UNCHANGED <<response, flags, cancelled, resolving>>
    BY <1>12 DEF Pool!Return
  <2>2. m \in mapped
    BY <2>1 DEF HandsConj
  <2>3. stage'[m] = "returned" /\ \A n \in Messages \ {m} : stage'[n] = stage[n] /\ events'[n] = events[n]
    BY <2>1, <2>2 DEF PoolTyped, PoolEvents
  <2>4. m \notin cancelled
    BY <2>1 DEF CallsConj
  <2> QED
    BY <2>1, <2>3, <2>4 DEF CallsConj, Pool!ReadWakes, Pool!InCall
<1>13. ASSUME NEW m \in Messages, Pool!Read(m) PROVE CallsConj'
  <2>1. /\ response[m] = "socket" /\ response' = [response EXCEPT ![m] = "read"]
        /\ mapped' = mapped \cup {m} /\ flags' = flags \cup ({events[m]} \ {0})
        /\ resolving' = IF events[m] = 0 THEN resolving \cup {m} ELSE resolving
        /\ UNCHANGED <<events, stage, cancelled>>
    BY <1>13 DEF Pool!Read, Pool!InReach, Pool!calls
  <2>2. response'[m] = "read" /\ \A n \in Messages \ {m} : response'[n] = response[n]
    BY <2>1 DEF PoolTyped
  <2>3. resolving \subseteq resolving' /\ (m \in resolving' \/ (events[m] # 0 /\ events[m] \in flags'))
    BY <2>1
  <2>4. stage[m] # "new"
    BY <2>1 DEF CallsConj
  <2> QED
    BY <2>1, <2>2, <2>3, <2>4 DEF CallsConj, Pool!ReadWakes
<1>14. ASSUME NEW m \in Messages, Pool!Resolve(m) PROVE CallsConj'
  <2>1. /\ events[m] # 0 /\ resolving' = resolving \ {m}
        /\ mapped' = mapped \cup {m} /\ flags' = flags \cup {events[m]}
        /\ UNCHANGED <<events, stage, response, cancelled>>
    BY <1>14 DEF Pool!Resolve, Pool!calls
  <2> QED
    BY <2>1 DEF CallsConj, Pool!ReadWakes
<1>15. CASE UNCHANGED Pool!poolVars
  BY <1>1, <1>15 DEF Pool!poolVars, Pool!calls
<1> QED
  BY <1>2, <1>3, <1>4, <1>5, <1>6, <1>7, <1>8, <1>9, <1>10, <1>11, <1>12, <1>13, <1>14, <1>15 DEF Pool!Next

-----------------------------------------------------------------------------
(* The inductive invariant.                                                *)
PoolInv == PoolTyped /\ PoolEvents /\ HandsConj /\ CallsConj

(* PoolInv holds in every behaviour, fair or not, of any clients, Things   *)
(* and messages.                                                           *)
THEOREM PoolCorrect == ASSUME Pool!PoolAssumption PROVE Pool!PoolSpec => []PoolInv
<1>1. Pool!Init => PoolInv
  BY PoolTypedInit, HandsInit DEF PoolInv
<1>2. PoolInv /\ [Pool!Next]_Pool!poolVars => PoolInv'
  <2> SUFFICES ASSUME PoolInv, [Pool!Next]_Pool!poolVars PROVE PoolInv'
    OBVIOUS
  <2>1. PoolTyped /\ PoolEvents /\ HandsConj /\ CallsConj
    BY DEF PoolInv
  <2>2. PoolTyped'
    BY <2>1, PoolTypedNext
  <2>3. PoolEvents' /\ HandsConj'
    BY <2>1, HandsNext
  <2>4. CallsConj'
    BY <2>1, CallsNext
  <2> QED
    BY <2>2, <2>3, <2>4 DEF PoolInv
<1> QED
  BY <1>1, <1>2, PTL DEF Pool!PoolSpec

(* Types: the clients of the pool, in the poller and out of it, and the    *)
(* events, of which none is made beyond those counted.                     *)
THEOREM PoolTypeCorrect == ASSUME Pool!PoolAssumption PROVE Pool!PoolSpec => []Pool!TypeOK
<1>1. ASSUME PoolInv PROVE Pool!TypeOK
  <2>1. PoolTyped /\ PoolEvents /\ HandsConj
    BY <1>1 DEF PoolInv
  <2>2. Pool!IsInjective(pool)
    BY <2>1, SameInjections DEF PoolTyped
  <2>3. starting \in 0 .. MaxStarts /\ pollers \in 0 .. MaxStarts
    BY <2>1 DEF PoolTyped, Pool!PoolAssumption
  <2> QED
    BY <2>1, <2>2, <2>3, SameSets DEF PoolTyped, PoolEvents, Pool!TypeOK
<1> QED
  BY <1>1, PoolCorrect, PTL

(* "Whenever the response comes": before its event is there, before the    *)
(* caller waits, after others took events and gave them back, the caller   *)
(* is woken and finds the response in the map, for every number of         *)
(* clients, requests, time-outs and poll tasks (brokers.py:1978).          *)
THEOREM WokenByRead == ASSUME Pool!PoolAssumption PROVE Pool!PoolSpec => []Pool!ReadWakes
<1>1. PoolInv => Pool!ReadWakes
  BY DEF PoolInv, CallsConj
<1> QED
  BY <1>1, PoolCorrect, PTL

(* Although events are used over and over, none is in two hands, none is   *)
(* set before the response of its holder is there, and no caller that is   *)
(* woken raises (brokers.py:2310 and :2123).                               *)
THEOREM EventsStayApart == ASSUME Pool!PoolAssumption PROVE Pool!PoolSpec => []Pool!EventsApart
<1>1. ASSUME PoolInv PROVE Pool!EventsApart
  <2>1. HandsConj /\ CallsConj
    BY <1>1 DEF PoolInv
  <2>2. Pool!IsInjective(free)
    BY <2>1, SameInjections DEF HandsConj
  <2> QED
    BY <2>1, <2>2, SameSets DEF HandsConj, CallsConj, Pool!EventsApart
<1> QED
  BY <1>1, PoolCorrect, PTL

(***************************************************************************)
(* Listeners of events.                                                    *)
(***************************************************************************)
(* The events of a queue are in the order of their publication.            *)
Ascends(q) == \A i, j \in DOMAIN q : i < j => q[i] < q[j]

LEMMA LaterEvent ==
  ASSUME NEW max, NEW q \in Seq(1 .. max), NEW e \in 1 .. max, Ascends(q), \A x \in ToSet(q) : x < e
  PROVE  Append(q, e) \in Seq(1 .. max) /\ Ascends(Append(q, e)) /\ ToSet(Append(q, e)) = ToSet(q) \cup {e}
<1> DEFINE a == Append(q, e)
<1>1. a \in Seq(1 .. max) /\ Len(a) = Len(q) + 1 /\ a[Len(q) + 1] = e /\ \A i \in 1 .. Len(q) : a[i] = q[i]
  BY AppendProperties
<1>2. PICK n \in Nat : n = Len(q) /\ DOMAIN q = 1 .. n /\ DOMAIN a = 1 .. n + 1
  BY <1>1, LenProperties
<1>3. ToSet(a) = ToSet(q) \cup {e}
  BY <1>1, <1>2 DEF ToSet
<1> HIDE DEF a
<1>4. ASSUME NEW i \in 1 .. n + 1, NEW j \in 1 .. n + 1, i < j PROVE a[i] < a[j]
  <2>1. i \in 1 .. n /\ a[i] = q[i] /\ q[i] \in ToSet(q)
    BY <1>1, <1>2, <1>4 DEF ToSet
  <2>2. CASE j = n + 1
    BY <1>1, <1>2, <2>1, <2>2
  <2>3. CASE j \in 1 .. n
    BY <1>1, <1>2, <1>4, <2>1, <2>3 DEF Ascends
  <2> QED
    BY <2>2, <2>3
<1> QED
  BY <1>1, <1>2, <1>3, <1>4 DEF Ascends, a

LEMMA AscendsTail ==
  ASSUME NEW S, S \subseteq Nat, NEW q \in Seq(S), Ascends(q), q # <<>>
  PROVE  /\ Tail(q) \in Seq(S) /\ Ascends(Tail(q)) /\ Head(q) \in S
         /\ ToSet(q) = ToSet(Tail(q)) \cup {Head(q)}
         /\ \A x \in ToSet(Tail(q)) : Head(q) < x
<1> DEFINE t == Tail(q)
<1>1. PICK n \in Nat : n = Len(q) /\ n # 0 /\ DOMAIN q = 1 .. n
  BY EmptySeq, LenProperties
<1>2. /\ t \in Seq(S) /\ DOMAIN t = 1 .. n - 1 /\ Head(q) \in S /\ Head(q) = q[1]
      /\ \A i \in 1 .. n - 1 : t[i] = q[i + 1]
  BY <1>1, HeadTailProperties, LenProperties
<1>3. \A i, j \in 1 .. n : i < j => q[i] < q[j]
  BY <1>1 DEF Ascends
<1>4. Ascends(t)
  <2>1. ASSUME NEW i \in 1 .. n - 1, NEW j \in 1 .. n - 1, i < j PROVE t[i] < t[j]
    <3>1. PICK u \in 1 .. n, v \in 1 .. n : u = i + 1 /\ v = j + 1 /\ u < v
      BY <2>1
    <3> QED
      BY <1>2, <1>3, <3>1
  <2> QED
    BY <1>2, <2>1 DEF Ascends
<1>5. ASSUME NEW i \in 1 .. n - 1 PROVE q[1] < t[i] /\ t[i] \in ToSet(q)
  <2>1. PICK u \in 1 .. n : u = i + 1 /\ 1 < u
    OBVIOUS
  <2> QED
    BY <1>1, <1>2, <1>3, <2>1 DEF ToSet
<1>6. ASSUME NEW j \in 1 .. n PROVE q[j] \in ToSet(t) \cup {q[1]}
  <2>1. CASE j # 1
    <3>1. PICK i \in 1 .. n - 1 : j = i + 1
      BY <2>1
    <3> QED
      BY <1>2, <3>1 DEF ToSet
  <2> QED
    BY <2>1
<1>7. q[1] \in ToSet(q)
  BY <1>1 DEF ToSet
<1> QED
  BY <1>1, <1>2, <1>4, <1>5, <1>6, <1>7 DEF ToSet

-----------------------------------------------------------------------------
(* What a listener was handed, holds and has still to read are in turn, up *)
(* to the last event there was.                                            *)
InTurn(l) ==
  /\ Ascends(called[l]) /\ Ascends(arrived[l])
  /\ \A x \in ToSet(called[l]), y \in ToSet(arrived[l]) : x < y
  /\ taken[l] # 0 => /\ \A x \in ToSet(called[l]) : x < taken[l]
                     /\ \A y \in ToSet(arrived[l]) : taken[l] < y
  /\ \A x \in ToSet(called[l]) \cup ToSet(arrived[l]) \cup {taken[l]} : x <= published

(* Where a listener is tells what it holds: an event while it hands it on, *)
(* the lock while it listens over ZMQ; one that took an event after it was *)
(* told takes no other one.                                                *)
StageFits(l) ==
  /\ listener[l] = "handling" <=> taken[l] # 0
  /\ poll[l] = "polling" => listener[l] = "listening" /\ l \notin Streams
  /\ listener[l] \in {"none", "starting"} => l \notin known
  /\ listener[l] = "ended" /\ l \notin Streams => l \notin known /\ l \in left
  /\ after[l] <= 1
  /\ after[l] # 0 => Listening!Told(l) /\ poll[l] = "free" /\ listener[l] \in {"listening", "leaving", "ended"}

ListeningInvariant == Listening!TypeOK /\ \A l \in Listeners : InTurn(l) /\ StageFits(l)

LEMMA ListeningInit == ASSUME Listening!ListeningAssumption, Listening!Init PROVE ListeningInvariant
<1>1. <<>> \in Seq(1 .. MaxEvents) /\ DOMAIN <<>> = {}
  BY EmptySeq
<1>2. ToSet(<<>>) = {} /\ Ascends(<<>>)
  BY <1>1 DEF ToSet, Ascends
<1>3. Listening!TypeOK
  BY <1>1 DEF Listening!ListeningAssumption, Listening!Init, Listening!TypeOK
<1>4. \A l \in Listeners : InTurn(l)
  BY <1>2 DEF Listening!Init, InTurn
<1>5. \A l \in Listeners : StageFits(l)
  BY DEF Listening!Init, StageFits
<1> QED
  BY <1>3, <1>4, <1>5 DEF ListeningInvariant

LEMMA NaturalQueue ==
  ASSUME Listening!ListeningAssumption PROVE \A q \in Seq(1 .. MaxEvents) : \A x \in ToSet(q) : x \in Nat
<1>1. PICK S : S = 1 .. MaxEvents /\ S \subseteq Nat
  BY DEF Listening!ListeningAssumption
<1>2. ASSUME NEW q \in Seq(S) PROVE \A x \in ToSet(q) : x \in S
  BY LenProperties DEF ToSet
<1> QED
  BY <1>1, <1>2

(* A step that leaves the events of a listener leaves them in turn.        *)
LEMMA SameTurn ==
  ASSUME Listening!ListeningAssumption, Listening!TypeOK, NEW k \in Listeners, InTurn(k), published' \in Nat, published <= published',
         UNCHANGED <<called[k], arrived[k], taken[k]>>
  PROVE  InTurn(k)'
<1>1. \A x \in ToSet(called[k]) \cup ToSet(arrived[k]) \cup {taken[k]} : x \in Nat /\ published \in Nat
  <2>1. /\ called[k] \in Seq(1 .. MaxEvents) /\ arrived[k] \in Seq(1 .. MaxEvents) /\ taken[k] \in Nat
        /\ published \in Nat
    BY DEF Listening!TypeOK
  <2>2. \A q \in Seq(1 .. MaxEvents) : \A x \in ToSet(q) : x \in Nat
    BY NaturalQueue
  <2> QED
    BY <2>1, <2>2
<1> QED
  BY <1>1 DEF InTurn

(* Taking an event from the front, and handing it on.                      *)
LEMMA TakenTurn ==
  ASSUME Listening!ListeningAssumption, Listening!TypeOK, NEW l \in Listeners, InTurn(l), taken[l] = 0, arrived[l] # <<>>,
         taken' = [taken EXCEPT ![l] = Head(arrived[l])],
         arrived' = [arrived EXCEPT ![l] = Tail(@)], UNCHANGED <<called, published>>
  PROVE  /\ arrived' \in [Listeners -> Seq(1 .. MaxEvents)] /\ taken' \in [Listeners -> 0 .. MaxEvents]
         /\ taken'[l] # 0 /\ InTurn(l)' /\ \A k \in Listeners \ {l} : InTurn(k) => InTurn(k)'
<1>1. PICK q \in Seq(1 .. MaxEvents) : q = arrived[l]
  BY DEF Listening!TypeOK
<1>2. /\ Tail(q) \in Seq(1 .. MaxEvents) /\ Ascends(Tail(q)) /\ Head(q) \in 1 .. MaxEvents
      /\ ToSet(q) = ToSet(Tail(q)) \cup {Head(q)} /\ \A x \in ToSet(Tail(q)) : Head(q) < x
  <2>1. 1 .. MaxEvents \subseteq Nat /\ Ascends(q) /\ q # <<>>
    BY <1>1 DEF InTurn
  <2> QED
    BY <2>1, AscendsTail
<1>3. /\ arrived' \in [Listeners -> Seq(1 .. MaxEvents)] /\ arrived'[l] = Tail(q)
      /\ taken' \in [Listeners -> 0 .. MaxEvents] /\ taken'[l] = Head(q) /\ Head(q) # 0
      /\ \A k \in Listeners \ {l} : arrived'[k] = arrived[k] /\ taken'[k] = taken[k]
  <2>1. MaxEvents \in Nat /\ Head(q) \in 0 .. MaxEvents /\ Head(q) # 0
    BY <1>2 DEF Listening!ListeningAssumption
  <2> QED
    BY <1>1, <1>2, <2>1 DEF Listening!TypeOK
<1>4. InTurn(l)'
  BY <1>1, <1>2, <1>3 DEF InTurn
<1>5. ASSUME NEW k \in Listeners \ {l}, InTurn(k) PROVE InTurn(k)'
  BY <1>3, <1>5, SameTurn DEF Listening!TypeOK
<1> QED
  BY <1>3, <1>4, <1>5

LEMMA HandledTurn ==
  ASSUME Listening!ListeningAssumption, Listening!TypeOK, NEW l \in Listeners, InTurn(l), taken[l] # 0,
         called' = [called EXCEPT ![l] = Append(@, taken[l])], taken' = [taken EXCEPT ![l] = 0],
         UNCHANGED <<arrived, published>>
  PROVE  /\ called' \in [Listeners -> Seq(1 .. MaxEvents)] /\ taken' \in [Listeners -> 0 .. MaxEvents]
         /\ taken'[l] = 0 /\ InTurn(l)' /\ \A k \in Listeners \ {l} : InTurn(k) => InTurn(k)'
<1>1. PICK q \in Seq(1 .. MaxEvents), e \in 1 .. MaxEvents : q = called[l] /\ e = taken[l]
  <2>1. taken[l] \in 1 .. MaxEvents
    BY DEF Listening!TypeOK
  <2> QED
    BY <2>1 DEF Listening!TypeOK
<1>2. Append(q, e) \in Seq(1 .. MaxEvents) /\ Ascends(Append(q, e)) /\ ToSet(Append(q, e)) = ToSet(q) \cup {e}
  <2>1. Ascends(q) /\ \A x \in ToSet(q) : x < e
    BY <1>1 DEF InTurn
  <2> QED
    BY <2>1, LaterEvent
<1>3. /\ called' \in [Listeners -> Seq(1 .. MaxEvents)] /\ called'[l] = Append(q, e)
      /\ taken' \in [Listeners -> 0 .. MaxEvents] /\ taken'[l] = 0
      /\ \A k \in Listeners \ {l} : called'[k] = called[k] /\ taken'[k] = taken[k]
  BY <1>1, <1>2 DEF Listening!TypeOK, Listening!ListeningAssumption
<1>4. InTurn(l)'
  <2>1. /\ Ascends(q) /\ Ascends(arrived[l]) /\ \A x \in ToSet(q), y \in ToSet(arrived[l]) : x < y
        /\ \A y \in ToSet(arrived[l]) : e < y
        /\ \A x \in ToSet(q) \cup ToSet(arrived[l]) \cup {e} : x <= published
    BY <1>1 DEF InTurn
  <2>2. 0 <= published
    BY DEF Listening!TypeOK
  <2> QED
    BY <1>2, <1>3, <2>1, <2>2 DEF InTurn
<1>5. ASSUME NEW k \in Listeners \ {l}, InTurn(k) PROVE InTurn(k)'
  BY <1>3, <1>5, SameTurn DEF Listening!TypeOK
<1> QED
  BY <1>3, <1>4, <1>5

(* A new event is later than all the others.                               *)
LEMMA PublishedTurn ==
  ASSUME Listening!ListeningAssumption, Listening!TypeOK, \A l \in Listeners : InTurn(l), NEW reached \in SUBSET Listeners,
         Listening!Publish(reached)
  PROVE  arrived' \in [Listeners -> Seq(1 .. MaxEvents)] /\ \A l \in Listeners : InTurn(l)'
<1>1. PICK e \in 1 .. MaxEvents : /\ e = published + 1 /\ e = published'
                                 /\ MaxEvents \in Nat /\ published \in Nat
  BY DEF Listening!Publish, Listening!TypeOK, Listening!ListeningAssumption
<1>2. arrived' = [l \in Listeners |-> IF l \in reached THEN Append(arrived[l], e) ELSE arrived[l]]
  BY <1>1 DEF Listening!Publish
<1>3. UNCHANGED <<called, taken>>
  BY DEF Listening!Publish, Listening!listener, Listening!history
<1>4. ASSUME NEW l \in Listeners PROVE arrived'[l] \in Seq(1 .. MaxEvents) /\ InTurn(l)'
  <2>1. CASE l \notin reached
    <3>1. UNCHANGED <<called[l], arrived[l], taken[l]>> /\ arrived[l] \in Seq(1 .. MaxEvents)
      BY <1>2, <1>3, <2>1 DEF Listening!TypeOK
    <3> QED
      BY <1>1, <3>1, SameTurn
  <2>2. CASE l \in reached
    <3>1. PICK q \in Seq(1 .. MaxEvents) : q = arrived[l]
      BY DEF Listening!TypeOK
    <3>2. arrived'[l] = Append(q, e)
      BY <1>2, <2>2, <3>1
    <3>3. /\ Ascends(called[l]) /\ Ascends(q) /\ \A x \in ToSet(called[l]), y \in ToSet(q) : x < y
          /\ taken[l] # 0 => /\ \A x \in ToSet(called[l]) : x < taken[l]
                             /\ \A y \in ToSet(q) : taken[l] < y
          /\ \A x \in ToSet(called[l]) \cup ToSet(q) \cup {taken[l]} : x <= published
      BY <3>1 DEF InTurn
    <3>4. \A p \in Seq(1 .. MaxEvents) : \A x \in ToSet(p) : x \in Nat
      BY NaturalQueue
    <3>5. \A x \in ToSet(called[l]) \cup ToSet(q) \cup {taken[l]} : x < e /\ x <= e
      <4>1. called[l] \in Seq(1 .. MaxEvents) /\ taken[l] \in Nat
        BY DEF Listening!TypeOK
      <4> QED
        BY <1>1, <3>3, <3>4, <4>1
    <3>6. Append(q, e) \in Seq(1 .. MaxEvents) /\ Ascends(Append(q, e)) /\ ToSet(Append(q, e)) = ToSet(q) \cup {e}
      <4>1. Ascends(q) /\ \A x \in ToSet(q) : x < e
        BY <3>3, <3>5
      <4> QED
        BY <4>1, LaterEvent
    <3> QED
      BY <1>1, <1>3, <3>2, <3>3, <3>5, <3>6 DEF InTurn
  <2> QED
    BY <2>1, <2>2
<1>5. arrived' \in [Listeners -> Seq(1 .. MaxEvents)]
  BY <1>2, <1>4
<1> QED
  BY <1>4, <1>5

(* A step that neither reads nor hands on an event.                        *)
LEMMA QuietTurn ==
  ASSUME Listening!ListeningAssumption, Listening!TypeOK, \A l \in Listeners : InTurn(l), UNCHANGED <<called, arrived, taken, published>>
  PROVE  \A l \in Listeners : InTurn(l)'
BY SameTurn DEF Listening!TypeOK

LEMMA ListeningNext == ASSUME Listening!ListeningAssumption, ListeningInvariant, [Listening!Next]_Listening!vars PROVE ListeningInvariant'
<1>0. Listening!TypeOK /\ \A l \in Listeners : InTurn(l) /\ StageFits(l)
  BY DEF ListeningInvariant
<1>a. MaxEvents \in Nat /\ MaxUnsubscribes \in Nat
  BY DEF Listening!ListeningAssumption
<1> USE DEF Listening!TypeOK, StageFits, Listening!Told, Listening!Moves, Listening!listener, Listening!history
<1>1. ASSUME NEW l \in Listeners, Listening!Subscribe(l) \/ Listening!Open(l) \/ Listening!Refused(l) PROVE ListeningInvariant'
  <2>1. UNCHANGED <<called, arrived, taken, published>>
    BY <1>1 DEF Listening!Subscribe, Listening!Open, Listening!Refused
  <2>2. ASSUME NEW s \in {"starting", "listening", "ended"}, listener' = [listener EXCEPT ![l] = s],
               listener[l] \in {"none", "starting"}, UNCHANGED <<poll, stopped, left, after, unsubscribing, unsubscribes>>,
               \/ s = "listening" /\ known' = known \cup {l}
               \/ (s = "ended" => l \in Streams) /\ known' = known
        PROVE  Listening!TypeOK' /\ \A k \in Listeners : StageFits(k)'
    BY <1>0, <2>1, <2>2
  <2>3. Listening!TypeOK' /\ \A k \in Listeners : StageFits(k)'
    BY <1>1, <2>2 DEF Listening!Subscribe, Listening!Open, Listening!Refused
  <2> QED
    BY <1>0, <2>1, <2>3, QuietTurn DEF ListeningInvariant
<1>2. ASSUME NEW l \in Listeners, Listening!Poll(l) PROVE ListeningInvariant'
  <2>1. UNCHANGED <<called, arrived, taken, published>>
    BY <1>2 DEF Listening!Poll
  <2>2. Listening!TypeOK' /\ \A k \in Listeners : StageFits(k)'
    BY <1>0, <1>2 DEF Listening!Poll
  <2> QED
    BY <1>0, <2>1, <2>2, QuietTurn DEF ListeningInvariant
<1>3. ASSUME NEW l \in Listeners, Listening!PollEnds(l), l \in left \/ arrived[l] = <<>> PROVE ListeningInvariant'
  <2>1. UNCHANGED <<called, arrived, taken, published>>
    BY <1>3 DEF Listening!PollEnds
  <2>2. Listening!TypeOK' /\ \A k \in Listeners : StageFits(k)'
    BY <1>0, <1>3 DEF Listening!PollEnds
  <2> QED
    BY <1>0, <2>1, <2>2, QuietTurn DEF ListeningInvariant
<1>4. ASSUME NEW l \in Listeners, \/ Listening!PollEnds(l) /\ ~(l \in left \/ arrived[l] = <<>>)
                                  \/ Listening!ReadLine(l)
      PROVE ListeningInvariant'
  <2>1. /\ listener[l] = "listening" /\ listener' = [listener EXCEPT ![l] = "handling"] /\ arrived[l] # <<>>
        /\ taken' = [taken EXCEPT ![l] = Head(arrived[l])] /\ arrived' = [arrived EXCEPT ![l] = Tail(@)]
        /\ UNCHANGED <<known, stopped, left, unsubscribing, published, unsubscribes, called, after>>
    BY <1>4 DEF Listening!PollEnds, Listening!ReadLine
  <2>2. \/ poll[l] = "polling" /\ poll' = [poll EXCEPT ![l] = "free"]
        \/ l \in Streams /\ poll' = poll /\ ~Listening!Told(l)
    BY <1>4 DEF Listening!PollEnds, Listening!ReadLine
  <2>3. taken[l] = 0 /\ after[l] = 0 /\ poll' \in [Listeners -> {"free", "polling"}] /\ poll'[l] = "free"
    BY <1>0, <2>1, <2>2
  <2>4. /\ arrived' \in [Listeners -> Seq(1 .. MaxEvents)] /\ taken' \in [Listeners -> 0 .. MaxEvents]
        /\ taken'[l] # 0 /\ \A k \in Listeners : InTurn(k)'
    <3> HIDE DEF Listening!TypeOK, StageFits
    <3> QED
      BY <1>0, <2>1, <2>3, TakenTurn
  <2>5. Listening!TypeOK' /\ \A k \in Listeners : StageFits(k)'
    BY <1>0, <2>1, <2>2, <2>3, <2>4
  <2> QED
    BY <2>4, <2>5 DEF ListeningInvariant
<1>5. ASSUME NEW l \in Listeners, Listening!Handle(l) PROVE ListeningInvariant'
  <2>1. taken[l] # 0 /\ after[l] = 0 /\ poll[l] = "free"
    BY <1>0, <1>5 DEF Listening!Handle
  <2>2. /\ called' \in [Listeners -> Seq(1 .. MaxEvents)] /\ taken' \in [Listeners -> 0 .. MaxEvents]
        /\ taken'[l] = 0 /\ \A k \in Listeners : InTurn(k)'
    <3>1. called' = [called EXCEPT ![l] = Append(@, taken[l])] /\ taken' = [taken EXCEPT ![l] = 0]
          /\ UNCHANGED <<arrived, published>>
      BY <1>5 DEF Listening!Handle
    <3> HIDE DEF Listening!TypeOK, StageFits
    <3> QED
      BY <1>0, <2>1, <3>1, HandledTurn
  <2>3. Listening!TypeOK' /\ \A k \in Listeners : StageFits(k)'
    BY <1>0, <1>5, <2>1, <2>2 DEF Listening!Handle
  <2> QED
    BY <2>2, <2>3 DEF ListeningInvariant
<1>6. ASSUME NEW l \in Listeners, Listening!LeaveLoop(l) \/ Listening!StreamEnds(l) \/ Listening!End(l) PROVE ListeningInvariant'
  <2>1. UNCHANGED <<called, arrived, taken, published>>
    BY <1>6 DEF Listening!LeaveLoop, Listening!StreamEnds, Listening!End, Listening!history
  <2>2. CASE Listening!LeaveLoop(l) \/ Listening!StreamEnds(l)
    <3>1. /\ listener[l] = "listening" /\ listener' = [listener EXCEPT ![l] = "leaving"]
          /\ poll[l] = "free" \/ l \in Streams
          /\ UNCHANGED <<arrived, taken, poll, known, stopped, left, unsubscribing, published,
                         unsubscribes, called, after>>
      BY <2>2 DEF Listening!LeaveLoop, Listening!StreamEnds
    <3>2. Listening!TypeOK' /\ \A k \in Listeners : StageFits(k)'
      BY <1>0, <3>1
    <3> QED
      BY <1>0, <2>1, <3>2, QuietTurn DEF ListeningInvariant
  <2>3. CASE Listening!End(l)
    <3>1. /\ listener[l] = "leaving" /\ listener' = [listener EXCEPT ![l] = "ended"]
          /\ known' \subseteq known /\ known \subseteq known' \cup {l}
          /\ stopped \subseteq stopped' /\ stopped' \subseteq stopped \cup {l} /\ left' = left \cup {l}
          /\ l \notin Streams => l \notin known'
          /\ UNCHANGED <<arrived, taken, poll, unsubscribing, published, unsubscribes, called, after>>
      BY <2>3 DEF Listening!End
    <3>2. Listening!TypeOK' /\ \A k \in Listeners : StageFits(k)'
      BY <1>0, <3>1
    <3> QED
      BY <1>0, <2>1, <3>2, QuietTurn DEF ListeningInvariant
  <2> QED
    BY <1>6, <2>2, <2>3
<1>7. ASSUME Listening!Unsubscribe \/ \E l \in Listeners : Listening!StopListener(l) \/ Listening!ExitConsumer(l) PROVE ListeningInvariant'
  <2>1. UNCHANGED <<called, arrived, taken, published>>
    BY <1>7 DEF Listening!Unsubscribe, Listening!StopListener, Listening!ExitConsumer
  <2>2. /\ known' \subseteq known /\ stopped \subseteq stopped' /\ stopped' \subseteq Listeners
        /\ left \subseteq left' /\ left' \subseteq Listeners /\ unsubscribing' \subseteq Listeners
        /\ unsubscribes' \in 0 .. MaxUnsubscribes /\ UNCHANGED <<listener, poll, after>>
    BY <1>0, <1>a, <1>7 DEF Listening!Unsubscribe, Listening!StopListener, Listening!ExitConsumer
  <2>3. Listening!TypeOK' /\ \A k \in Listeners : StageFits(k)'
    BY <1>0, <2>1, <2>2
  <2> QED
    BY <1>0, <2>1, <2>3, QuietTurn DEF ListeningInvariant
<1>8. ASSUME NEW reached \in SUBSET Listeners, Listening!Publish(reached) PROVE ListeningInvariant'
  <2>1. arrived' \in [Listeners -> Seq(1 .. MaxEvents)] /\ \A l \in Listeners : InTurn(l)'
    <3> HIDE DEF Listening!TypeOK, StageFits
    <3> QED
      BY <1>0, <1>8, PublishedTurn
  <2>2. published' \in 0 .. MaxEvents
        /\ UNCHANGED <<listener, taken, poll, known, stopped, left, unsubscribing, unsubscribes, called, after>>
    BY <1>0, <1>a, <1>8 DEF Listening!Publish
  <2>3. Listening!TypeOK' /\ \A k \in Listeners : StageFits(k)'
    BY <1>0, <2>1, <2>2
  <2> QED
    BY <2>1, <2>3 DEF ListeningInvariant
<1>9. CASE UNCHANGED Listening!vars
  <2>1. UNCHANGED <<called, arrived, taken, published>>
    BY <1>9 DEF Listening!vars
  <2>2. Listening!TypeOK' /\ \A k \in Listeners : StageFits(k)'
    BY <1>0, <1>9 DEF Listening!vars
  <2> QED
    BY <1>0, <2>1, <2>2, QuietTurn DEF ListeningInvariant
<1> QED
  BY <1>1, <1>2, <1>3, <1>4, <1>5, <1>6, <1>7, <1>8, <1>9 DEF Listening!Next

LEMMA ListeningHolds ==
  ASSUME ListeningInvariant PROVE Listening!TypeOK /\ Listening!OneMoreEvent /\ Listening!CalledInOrder /\ Listening!EndedIsReleased
<1>1. Listening!TypeOK /\ \A l \in Listeners : InTurn(l) /\ StageFits(l)
  BY DEF ListeningInvariant
<1>2. Listening!OneMoreEvent
  BY <1>1 DEF Listening!OneMoreEvent, StageFits
<1>3. Listening!CalledInOrder
  BY <1>1 DEF Listening!CalledInOrder, InTurn, Ascends
<1>4. Listening!EndedIsReleased
  BY <1>1 DEF Listening!EndedIsReleased, StageFits, Listening!TypeOK
<1> QED
  BY <1>1, <1>2, <1>3, <1>4

(***************************************************************************)
(* The receive loops of a ZMQ server.                                      *)
(***************************************************************************)
(* What is read at once is the beginning of what waits.                    *)
LEMMA BatchFacts ==
  ASSUME NEW q \in Seq(Requests), q # <<>>
  PROVE  \E k \in 1 .. Len(q) : Serving!ReadAtOnce(q) = SubSeq(q, 1, k)
<1> DEFINE bad == {i \in DOMAIN q : Serving!Breaks(q[i])}
<1>1. PICK n \in Nat : n = Len(q) /\ DOMAIN q = 1 .. n /\ n # 0
  BY LenProperties, EmptySeq
<1>2. CASE bad = {}
  <2>1. Serving!ReadAtOnce(q) = q
    BY <1>2 DEF Serving!ReadAtOnce
  <2>2. SubSeq(q, 1, n) = q /\ n \in 1 .. n
    <3>1. /\ SubSeq(q, 1, n) \in Seq(Requests) /\ Len(SubSeq(q, 1, n)) = n
          /\ \A i \in 1 .. n : SubSeq(q, 1, n)[i] = q[i]
      BY <1>1, SubSeqProperties
    <3> QED
      BY <1>1, <3>1, SeqEqual
  <2> QED
    BY <1>1, <2>1, <2>2
<1>3. CASE bad # {}
  <2>1. bad \subseteq Nat /\ bad \subseteq 1 .. n
    BY <1>1
  <2>2. \E i \in bad : \A j \in bad : i <= j
    BY <1>3, <2>1, LeastOf
  <2> DEFINE k == CHOOSE i \in bad : \A j \in bad : i <= j
  <2>3. k \in bad
    BY <2>2
  <2>4. Serving!ReadAtOnce(q) = SubSeq(q, 1, k)
    BY <1>3 DEF Serving!ReadAtOnce
  <2> QED
    BY <1>1, <2>1, <2>3, <2>4
<1> QED
  BY <1>2, <1>3

-----------------------------------------------------------------------------
(* The types but for those of what waits at the sockets.                   *)
ServingTyped ==
  /\ things \subseteq Things /\ subscribed \in [Things -> 0 .. MaxStarts]
  /\ starts \in 0 .. MaxStarts
  /\ stopPoll \in [Transports -> BOOLEAN]
  /\ loop \in [Serving!Loops -> {"none", "created", "check", "reset", "poll", "ended"}]
  /\ queue \in [Transports -> Seq(Requests)]
  /\ request \in [Requests -> Inputs \cup {None}]
  /\ fate \in [Requests -> {"new", "sent", "dropped", "task", "executing", "done", "unsent"}]
  /\ reply \in [Requests -> {"none", "handshake", "reply", "timeout", "invalid"}]
  /\ late \in [Serving!Loops -> Nat]

Flags == polling \in BOOLEAN /\ closed \in BOOLEAN

(* What waits at a socket was sent there and is not read, and nothing      *)
(* waits twice.                                                            *)
Waits(x) ==
  /\ NoRepeat(queue[x])
  /\ \A r \in ToSet(queue[x]) : fate[r] = "sent" /\ request[r].at = x

(* What the answer to a request and what became of it have in common.      *)
Fitting(r) ==
  /\ fate[r] # "new" => request[r] \in Inputs
  /\ fate[r] \in {"new", "sent", "dropped", "task", "executing"} => reply[r] = "none"
  /\ fate[r] \in {"dropped", "task", "executing"} => Serving!NeedsTask(r)
  /\ fate[r] = "done" /\ Serving!Awaited(r) => reply[r] # "none"
  /\ fate[r] = "unsent" => closed
  /\ fate[r] = "dropped" =>
       \E q \in Requests : fate[q] = "done" /\ Serving!Breaks(q) /\ request[q].at = request[r].at
  /\ reply[r] \in {"reply", "timeout"} => Serving!NeedsTask(r)
  /\ reply[r] = "reply" => ~request[r].oneway

(* A loop that read a batch after the stop has ended or is about to.       *)
Stopping(l) ==
  /\ late[l] <= 1
  /\ late[l] # 0 => loop[l] \in {"check", "ended"} /\ ~polling

ServingInvariant ==
  /\ ServingTyped /\ Flags /\ \A x \in Transports : Waits(x)
  /\ \A r \in Requests : Fitting(r)
  /\ \A l \in Serving!Loops : Stopping(l)

LEMMA SameServed == \A q : Serving!ToSet(q) = ToSet(q) /\ Serving!Last(q) = Last(q)
BY DEF Serving!ToSet, ToSet, Serving!Last, Last

LEMMA ServingInit == ASSUME Serving!ServingAssumption, Serving!Init PROVE ServingInvariant
<1>1. <<>> \in Seq(Requests) /\ DOMAIN <<>> = {}
  BY EmptySeq
<1>2. ServingTyped
  BY <1>1 DEF Serving!Init, ServingTyped, Serving!ServingAssumption
<1>3. Flags
  BY Zenon DEF Serving!Init, Flags
<1>4. ASSUME NEW x \in Transports PROVE Waits(x)
  BY <1>1 DEF Serving!Init, Waits, NoRepeat, ToSet
<1>5. ASSUME NEW r \in Requests PROVE Fitting(r)
  BY DEF Serving!Init, Fitting
<1>6. ASSUME NEW l \in Serving!Loops PROVE Stopping(l)
  BY DEF Serving!Init, Stopping
<1> QED
  BY <1>2, <1>3, <1>4, <1>5, <1>6 DEF ServingInvariant

(* A step that leaves the requests and opens nothing that was closed.      *)
LEMMA SameFitting ==
  ASSUME NEW r \in Requests, Fitting(r), UNCHANGED <<fate[r], reply[r], request[r]>>, closed => closed',
         \A q \in Requests : fate[q] = "done" => fate'[q] = "done" /\ request'[q] = request[q]
  PROVE  Fitting(r)'
BY DEF Fitting, Serving!NeedsTask, Serving!Awaited, Serving!Breaks, Serving!Kind

LEMMA SameRequests ==
  ASSUME \A x \in Transports : Waits(x), \A r \in Requests : Fitting(r), UNCHANGED Serving!requests, closed => closed'
  PROVE  (\A x \in Transports : Waits(x)') /\ (\A r \in Requests : Fitting(r)')
<1>1. UNCHANGED <<queue, request, fate, reply>>
  BY DEF Serving!requests
<1>2. ASSUME NEW r \in Requests PROVE Fitting(r)'
  BY <1>1, SameFitting
<1>3. ASSUME NEW x \in Transports PROVE Waits(x)'
  BY <1>1 DEF Waits
<1> QED
  BY <1>2, <1>3

(* Once a loop has read a batch.                                           *)
LEMMA ReadStep ==
  ASSUME Serving!ServingAssumption, ServingInvariant, NEW l \in Serving!Loops, Serving!PollReads(l) PROVE ServingInvariant'
<1> DEFINE x == Serving!Transport(l)
<1>0. x \in Transports /\ queue[x] \in Seq(Requests) /\ queue[x] # <<>>
  BY DEF Serving!PollReads, Serving!Loops, Serving!Transport, ServingInvariant, ServingTyped
<1> HIDE DEF x
<1>1. PICK q \in Seq(Requests) : q = queue[x] /\ q # <<>>
  BY <1>0
<1>2. PICK k \in 1 .. Len(q) : Serving!ReadAtOnce(q) = SubSeq(q, 1, k)
  BY <1>1, BatchFacts
<1>3. PICK batch \in Seq(Requests) : batch = SubSeq(q, 1, k)
  <2>1. NoRepeat(q)
    BY <1>0, <1>1 DEF ServingInvariant, Waits
  <2> QED
    BY <2>1, CutFacts
<1>4. PICK rest \in Seq(Requests) : rest = SubSeq(q, k + 1, Len(q))
  <2>1. NoRepeat(q)
    BY <1>0, <1>1 DEF ServingInvariant, Waits
  <2> QED
    BY <2>1, CutFacts
<1>5. PICK removed \in SUBSET Requests, final \in Requests :
        /\ removed = ToSet(batch) /\ final \in removed /\ final = Last(batch) /\ Len(batch) = k
        /\ NoRepeat(rest) /\ ToSet(rest) \subseteq ToSet(q) \ removed /\ removed \subseteq ToSet(q)
  <2>1. NoRepeat(q)
    BY <1>0, <1>1 DEF ServingInvariant, Waits
  <2>2. /\ NoRepeat(rest) /\ ToSet(rest) \subseteq ToSet(q) \ ToSet(batch) /\ ToSet(batch) \subseteq ToSet(q)
        /\ Len(batch) = k /\ Last(batch) \in ToSet(batch)
    BY <1>3, <1>4, <2>1, CutFacts
  <2>3. ToSet(q) \subseteq Requests
    BY LenProperties DEF ToSet
  <2> QED
    BY <2>2, <2>3
<1>6. Serving!ReadAtOnce(queue[x]) = batch /\ Serving!Breaks(Last(batch)) = Serving!Breaks(final)
  BY <1>1, <1>2, <1>3, <1>5
<1>7. /\ loop[l] = "poll" /\ ~closed
      /\ queue' = [queue EXCEPT ![x] = rest]
      /\ fate' = [r \in Requests |->
           CASE r \in removed /\ Serving!NeedsTask(r) -> IF Serving!Breaks(final) THEN "dropped" ELSE "task"
             [] r \in removed /\ ~Serving!NeedsTask(r) -> "done"
             [] OTHER -> fate[r]]
      /\ reply' = [r \in Requests |->
           CASE r \in removed /\ Serving!Kind(r) = "handshake" -> "handshake"
             [] r \in removed /\ Serving!Kind(r) = "short" -> "invalid"
             [] OTHER -> reply[r]]
      /\ UNCHANGED <<things, subscribed, starts, request, closed>>
  BY <1>1, <1>2, <1>3, <1>4, <1>5, <1>6, SameServed DEF Serving!PollReads, x, Serving!serving
<1>8. /\ \/ loop' = [loop EXCEPT ![l] = "ended"] /\ polling' = FALSE /\ stopPoll' = [y \in Transports |-> TRUE]
         \/ /\ UNCHANGED <<polling, stopPoll>>
            /\ \/ loop' = [loop EXCEPT ![l] = "check"]
               \/ loop' = [loop EXCEPT ![l] = "poll"] /\ \A r \in removed : ~Serving!NeedsTask(r)
      /\ late' = [late EXCEPT ![l] = IF polling \/ \A r \in removed : ~Serving!NeedsTask(r) THEN @ ELSE @ + 1]
  BY <1>1, <1>2, <1>3, <1>5, <1>6, SameServed DEF Serving!PollReads, x, Serving!Goto, Serving!StopPolling
<1>9. \A r \in removed : fate[r] = "sent" /\ request[r].at = x
  BY <1>0, <1>1, <1>5 DEF ServingInvariant, Waits
<1>10. ServingTyped' /\ Flags'
  <2>0. stopPoll' \in [Transports -> BOOLEAN]
    <3>1. stopPoll' = stopPoll \/ stopPoll' = [y \in Transports |-> TRUE]
      BY <1>8
    <3> QED
      BY <3>1 DEF ServingInvariant, ServingTyped
  <2>1. /\ loop' \in [Serving!Loops -> {"none", "created", "check", "reset", "poll", "ended"}]
        /\ late' \in [Serving!Loops -> Nat]
    <3>1. PICK s \in {"check", "poll", "ended"} : loop' = [loop EXCEPT ![l] = s]
      BY <1>8
    <3>2. PICK n \in Nat : late' = [late EXCEPT ![l] = n]
      <4>1. late[l] \in Nat
        BY DEF ServingInvariant, ServingTyped
      <4>2. late' = [late EXCEPT ![l] = late[l]] \/ late' = [late EXCEPT ![l] = late[l] + 1]
        BY <1>8
      <4>3. late[l] + 1 \in Nat
        BY <4>1
      <4> QED
        BY <4>1, <4>2, <4>3, Zenon
    <3> QED
      BY <3>1, <3>2 DEF ServingInvariant, ServingTyped
  <2>2. queue' \in [Transports -> Seq(Requests)]
    BY <1>7 DEF ServingInvariant, ServingTyped
  <2>3. /\ fate' \in [Requests -> {"new", "sent", "dropped", "task", "executing", "done", "unsent"}]
        /\ reply' \in [Requests -> {"none", "handshake", "reply", "timeout", "invalid"}]
    BY <1>7 DEF ServingInvariant, ServingTyped
  <2>4. Flags'
    <3>1. closed' \in BOOLEAN
      BY <1>7, Zenon DEF ServingInvariant, Flags
    <3>2. polling' \in BOOLEAN
      BY <1>8, Zenon DEF ServingInvariant, Flags
    <3> QED
      BY <3>1, <3>2 DEF Flags
  <2> QED
    BY <1>7, <2>0, <2>1, <2>2, <2>3, <2>4 DEF ServingInvariant, ServingTyped
<1>11. ASSUME NEW y \in Transports PROVE Waits(y)'
  <2>1. CASE y = x
    <3>1. queue'[y] = rest
      BY <1>0, <1>7, <2>1 DEF ServingInvariant, ServingTyped
    <3>2. ASSUME NEW r \in ToSet(rest) PROVE fate'[r] = "sent" /\ request'[r].at = x
      <4>1. r \in Requests /\ r \notin removed /\ r \in ToSet(q)
        <5>1. ToSet(q) \subseteq Requests
          BY LenProperties DEF ToSet
        <5> QED
          BY <1>5, <5>1
      <4>2. fate[r] = "sent" /\ request[r].at = x
        BY <1>0, <1>1, <4>1 DEF ServingInvariant, Waits
      <4> QED
        BY <1>7, <4>1, <4>2
    <3> QED
      BY <1>5, <2>1, <3>1, <3>2 DEF Waits
  <2>2. CASE y # x
    <3>1. queue'[y] = queue[y] /\ queue[y] \in Seq(Requests)
      BY <1>0, <1>7, <2>2 DEF ServingInvariant, ServingTyped
    <3>2. ASSUME NEW r \in ToSet(queue[y]) PROVE fate'[r] = "sent" /\ request'[r].at = y
      <4>1. r \in Requests
        BY <3>1, LenProperties DEF ToSet
      <4>2. fate[r] = "sent" /\ request[r].at = y
        BY DEF ServingInvariant, Waits
      <4>3. r \notin removed
        BY <1>9, <2>2, <4>2
      <4> QED
        BY <1>7, <4>1, <4>2, <4>3
    <3> QED
      BY <3>1, <3>2 DEF ServingInvariant, Waits
  <2> QED
    BY <2>1, <2>2
<1>12. ASSUME NEW r \in Requests PROVE Fitting(r)'
  <2>0. \A p \in Requests : fate[p] = "done" => p \notin removed /\ fate'[p] = "done" /\ request'[p] = request[p]
    BY <1>7, <1>9
  <2>1. CASE r \notin removed
    <3>1. UNCHANGED <<fate[r], reply[r], request[r], closed>>
      BY <1>7, <2>1
    <3> QED
      BY <2>0, <3>1, SameFitting DEF ServingInvariant
  <2>2. CASE r \in removed
    <3>1. fate[r] = "sent" /\ reply[r] = "none" /\ request[r] \in Inputs /\ request'[r] = request[r]
      BY <1>7, <1>9, <2>2 DEF ServingInvariant, Fitting
    <3>2. /\ fate'[r] = IF Serving!NeedsTask(r) THEN (IF Serving!Breaks(final) THEN "dropped" ELSE "task") ELSE "done"
          /\ reply'[r] \in {"none", "handshake", "invalid"}
          /\ Serving!NeedsTask(r) => reply'[r] = "none"
      BY <1>7, <2>2, <3>1 DEF Serving!NeedsTask
    <3>3. ASSUME Serving!Breaks(final)
          PROVE  final \in Requests /\ fate'[final] = "done" /\ Serving!Breaks(final)' /\ request'[final].at = request'[r].at
      <4>1. final \in removed /\ final \in Requests /\ ~Serving!NeedsTask(final)
        BY <1>5, <3>3 DEF Serving!NeedsTask, Serving!Breaks
      <4>2. fate'[final] = "done" /\ request' = request
        BY <1>7, <4>1
      <4> QED
        BY <1>9, <2>2, <3>3, <4>1, <4>2 DEF Serving!Breaks, Serving!Kind
    <3>4. Serving!NeedsTask(r)' <=> Serving!NeedsTask(r)
      BY <3>1 DEF Serving!NeedsTask, Serving!Kind
    <3> QED
      <4>1. fate'[r] = "dropped" =>
              \E p \in Requests : fate'[p] = "done" /\ Serving!Breaks(p)' /\ request'[p].at = request'[r].at
        BY <3>2, <3>3
      <4>2. /\ fate'[r] \in {"dropped", "task"} => Serving!NeedsTask(r)' /\ reply'[r] = "none"
            /\ fate'[r] \in {"dropped", "task", "done"}
            /\ reply'[r] \in {"none", "handshake", "invalid"}
            /\ fate'[r] = "done" => ~Serving!NeedsTask(r)'
        <5>1. CASE Serving!NeedsTask(r)
          BY <3>2, <3>4, <5>1
        <5>2. CASE ~Serving!NeedsTask(r)
          BY <3>2, <3>4, <5>2
        <5> QED
          BY <5>1, <5>2
      <4> QED
        BY <3>1, <4>1, <4>2 DEF Fitting, Serving!Awaited
  <2> QED
    BY <2>1, <2>2
<1>13. ASSUME NEW m \in Serving!Loops PROVE Stopping(m)'
  <2>1. Stopping(m) /\ Stopping(l) /\ late[m] \in Nat /\ late[l] \in Nat
    BY DEF ServingInvariant, ServingTyped
  <2>2. late[l] = 0
    BY <1>7, <2>1 DEF Stopping
  <2>3. CASE m # l
    <3>1. late'[m] = late[m] /\ loop'[m] = loop[m] /\ (polling' => polling)
      BY <1>8, <2>3 DEF ServingInvariant, ServingTyped
    <3> QED
      BY <2>1, <3>1 DEF Stopping
  <2>4. CASE m = l
    <3>1. CASE polling \/ \A r \in removed : ~Serving!NeedsTask(r)
      <4>1. late'[l] = 0
        BY <1>8, <2>2, <3>1 DEF ServingInvariant, ServingTyped
      <4> QED
        BY <2>4, <4>1 DEF Stopping
    <3>2. CASE ~(polling \/ \A r \in removed : ~Serving!NeedsTask(r))
      <4>1. late'[l] = 1
        BY <1>8, <2>2, <3>2 DEF ServingInvariant, ServingTyped
      <4>2. loop'[l] \in {"check", "ended"} /\ ~polling'
        BY <1>8, <3>2 DEF ServingInvariant, ServingTyped
      <4> QED
        BY <2>4, <4>1, <4>2 DEF Stopping
    <3> QED
      BY <3>1, <3>2
  <2> QED
    BY <2>3, <2>4
<1> QED
  BY <1>10, <1>11, <1>12, <1>13 DEF ServingInvariant

(* A loop that goes on without reading, when nobody has stopped the server *)
(* or it is on its way to the end.                                         *)
LEMMA GoOn ==
  ASSUME ServingInvariant, NEW l \in Serving!Loops, NEW s \in {"check", "reset", "poll", "ended"}, Serving!Goto(l, s),
         UNCHANGED <<late, Serving!requests, things, subscribed, starts>>, stopPoll' \in [Transports -> BOOLEAN], Flags',
         closed' = closed, polling' => polling, loop[l] # "check" \/ polling \/ s = "ended",
         loop[l] # "ended", loop[l] = "check" => (polling => s = "reset")
  PROVE  ServingInvariant'
<1>1. (\A x \in Transports : Waits(x)') /\ (\A r \in Requests : Fitting(r)')
  BY SameRequests DEF ServingInvariant
<1>2. ServingTyped'
  BY DEF ServingInvariant, ServingTyped, Serving!Goto, Serving!requests
<1>3. ASSUME NEW m \in Serving!Loops PROVE Stopping(m)'
  <2>1. CASE m # l
    <3>1. loop'[m] = loop[m] /\ late'[m] = late[m]
      BY <2>1 DEF ServingInvariant, ServingTyped, Serving!Goto
    <3> QED
      BY <3>1 DEF ServingInvariant, Stopping
  <2>2. CASE m = l
    <3>1. loop'[m] = s /\ late'[m] = late[m]
      BY <2>2 DEF ServingInvariant, ServingTyped, Serving!Goto
    <3> QED
      BY <2>2, <3>1 DEF ServingInvariant, Stopping
  <2> QED
    BY <2>1, <2>2
<1> QED
  BY <1>1, <1>2, <1>3 DEF ServingInvariant

LEMMA ReceiveStep ==
  ASSUME Serving!ServingAssumption, ServingInvariant, NEW l \in Serving!Loops, Serving!Receives(l) PROVE ServingInvariant'
<1>1. stopPoll \in [Transports -> BOOLEAN] /\ polling \in BOOLEAN /\ closed \in BOOLEAN /\ Serving!Transport(l) \in Transports
  BY DEF ServingInvariant, ServingTyped, Flags, Serving!Loops, Serving!Transport
<1>2. CASE Serving!Begin(l) \/ Serving!PollStops(l)
  <2>1. /\ loop[l] \in {"created", "poll"}
        /\ Serving!Goto(l, "check")
        /\ UNCHANGED <<late, Serving!requests, things, subscribed, starts, stopPoll, closed, polling>>
    BY <1>2 DEF Serving!Begin, Serving!PollStops, Serving!serving
  <2>2. Flags'
    BY <2>1, Zenon DEF ServingInvariant, Flags
  <2> QED
    BY <1>1, <2>1, <2>2, GoOn
<1>3. CASE Serving!Check(l)
  <2>1. loop[l] = "check" /\ UNCHANGED <<late, Serving!requests, things, subscribed, starts, closed>>
    BY <1>3 DEF Serving!Check, Serving!serving
  <2>2. CASE polling
    <3>1. Serving!Goto(l, "reset") /\ UNCHANGED <<polling, stopPoll>>
      BY <1>3, <2>2 DEF Serving!Check
    <3>2. Flags'
      BY <2>1, <3>1, Zenon DEF ServingInvariant, Flags
    <3> QED
      BY <1>1, <2>1, <2>2, <3>1, <3>2, GoOn
  <2>3. CASE ~polling
    <3>1. Serving!Goto(l, "ended") /\ polling' = FALSE /\ stopPoll' = [x \in Transports |-> TRUE]
      BY <1>3, <2>3 DEF Serving!Check, Serving!StopPolling
    <3>2. Flags'
      BY <2>1, <3>1, Zenon DEF ServingInvariant, Flags
    <3> QED
      BY <1>1, <2>1, <2>3, <3>1, <3>2, GoOn
  <2> QED
    BY <2>2, <2>3
<1>4. CASE Serving!Reset(l)
  <2>1. /\ loop[l] = "reset" /\ Serving!Goto(l, "poll") /\ stopPoll' = [stopPoll EXCEPT ![Serving!Transport(l)] = FALSE]
        /\ UNCHANGED <<late, Serving!requests, things, subscribed, starts, polling, closed>>
    BY <1>4 DEF Serving!Reset, Serving!serving
  <2>2. Flags'
    BY <2>1, Zenon DEF ServingInvariant, Flags
  <2> QED
    BY <1>1, <2>1, <2>2, GoOn
<1>5. CASE Serving!PollReads(l)
  BY <1>5, ReadStep
<1> QED
  BY <1>2, <1>3, <1>4, <1>5 DEF Serving!Receives

LEMMA StartServing ==
  ASSUME Serving!ServingAssumption, ServingInvariant, NEW served \in SUBSET Things, Serving!Start(served) PROVE ServingInvariant'
<1>1. /\ starts < MaxStarts /\ things' = served /\ starts' = starts + 1 /\ polling' = TRUE
      /\ subscribed' = [t \in Things |-> subscribed[t] + (IF t \in {u \in served : subscribed[u] = 0} THEN 1 ELSE 0)]
      /\ loop' = [l \in Serving!Loops |-> IF l[2] = starts + 1 THEN "created" ELSE loop[l]]
      /\ late' = [l \in Serving!Loops |-> 0]
      /\ UNCHANGED <<stopPoll, Serving!requests, closed>>
  BY DEF Serving!Start, Serving!StartWith
<1>2. /\ MaxStarts \in Nat /\ starts \in 0 .. MaxStarts /\ subscribed \in [Things -> 0 .. MaxStarts]
      /\ loop \in [Serving!Loops -> {"none", "created", "check", "reset", "poll", "ended"}]
  BY DEF Serving!ServingAssumption, ServingInvariant, ServingTyped
<1>3. subscribed' \in [Things -> 0 .. MaxStarts] /\ starts' \in 0 .. MaxStarts
  <2>1. ASSUME NEW t \in Things
        PROVE  subscribed[t] + (IF t \in {u \in served : subscribed[u] = 0} THEN 1 ELSE 0) \in 0 .. MaxStarts
    BY <1>1, <1>2
  <2> QED
    BY <1>1, <1>2, <2>1
<1>4. loop' \in [Serving!Loops -> {"none", "created", "check", "reset", "poll", "ended"}] /\ late' \in [Serving!Loops -> Nat]
  BY <1>1, <1>2
<1>5. ServingTyped'
  BY <1>1, <1>3, <1>4 DEF ServingInvariant, ServingTyped, Serving!requests
<1>6. Flags'
  BY <1>1, Zenon DEF ServingInvariant, Flags
<1>7. (\A x \in Transports : Waits(x)') /\ (\A r \in Requests : Fitting(r)')
  BY <1>1, SameRequests DEF ServingInvariant
<1>8. ASSUME NEW l \in Serving!Loops PROVE Stopping(l)'
  BY <1>1 DEF Stopping
<1> QED
  BY <1>5, <1>6, <1>7, <1>8 DEF ServingInvariant

LEMMA StopServing ==
  ASSUME Serving!ServingAssumption, ServingInvariant, NEW close \in BOOLEAN, Serving!Stop(close) PROVE ServingInvariant'
<1>1. /\ polling' = FALSE /\ stopPoll' = [x \in Transports |-> TRUE] /\ closed' = (closed \/ close)
      /\ UNCHANGED <<things, subscribed, starts, loop, late, Serving!requests>>
  BY DEF Serving!Stop, Serving!StopPolling, Serving!serving
<1>2. ServingTyped'
  BY <1>1 DEF ServingInvariant, ServingTyped, Serving!requests
<1>3. Flags'
  BY <1>1, Zenon DEF ServingInvariant, Flags
<1>4. (\A x \in Transports : Waits(x)') /\ (\A r \in Requests : Fitting(r)')
  BY <1>1, SameRequests DEF ServingInvariant
<1>5. ASSUME NEW l \in Serving!Loops PROVE Stopping(l)'
  BY <1>1 DEF ServingInvariant, Stopping
<1> QED
  BY <1>2, <1>3, <1>4, <1>5 DEF ServingInvariant

LEMMA AskStep ==
  ASSUME Serving!ServingAssumption, ServingInvariant, NEW r \in Requests, Serving!Send(r) PROVE ServingInvariant'
<1>1. PICK i \in Inputs : request' = [request EXCEPT ![r] = i] /\ queue' = [queue EXCEPT ![i.at] = Append(@, r)]
  BY DEF Serving!Send
<1>2. /\ fate[r] = "new" /\ fate' = [fate EXCEPT ![r] = "sent"]
      /\ UNCHANGED <<things, subscribed, starts, polling, stopPoll, loop, late, reply, closed>>
  BY DEF Serving!Send, Serving!serving, Serving!receiving
<1>3. i.at \in Transports
  BY DEF Serving!ServingAssumption, Serving!InputType
<1>4. /\ queue \in [Transports -> Seq(Requests)] /\ request \in [Requests -> Inputs \cup {None}]
      /\ fate \in [Requests -> {"new", "sent", "dropped", "task", "executing", "done", "unsent"}]
  BY DEF ServingInvariant, ServingTyped
<1>5. /\ Append(queue[i.at], r) \in Seq(Requests) /\ NoRepeat(Append(queue[i.at], r))
      /\ ToSet(Append(queue[i.at], r)) = ToSet(queue[i.at]) \cup {r}
  <2>1. PICK q \in Seq(Requests) : q = queue[i.at]
    BY <1>3, <1>4
  <2>2. NoRepeat(q) /\ r \notin ToSet(q)
    BY <1>2, <1>3, <2>1 DEF ServingInvariant, Waits
  <2>3. /\ Append(q, r) \in Seq(Requests) /\ NoRepeat(Append(q, r))
        /\ ToSet(Append(q, r)) = ToSet(q) \cup {r}
    BY <2>2, AppendFacts
  <2> QED
    BY <2>1, <2>3
<1>6. queue' \in [Transports -> Seq(Requests)] /\ request' \in [Requests -> Inputs \cup {None}]
      /\ fate' \in [Requests -> {"new", "sent", "dropped", "task", "executing", "done", "unsent"}]
  BY <1>1, <1>2, <1>3, <1>4, <1>5
<1>7. ServingTyped'
  BY <1>2, <1>6 DEF ServingInvariant, ServingTyped
<1>8. Flags'
  BY <1>2, Zenon DEF ServingInvariant, Flags
<1>9. ASSUME NEW x \in Transports PROVE Waits(x)'
  <2>1. ASSUME NEW p \in ToSet(queue[x]) PROVE fate'[p] = "sent" /\ request'[p].at = x
    <3>1. p \in Requests /\ fate[p] = "sent" /\ request[p].at = x
      <4>1. PICK q \in Seq(Requests) : q = queue[x]
        BY <1>4
      <4>2. \A e \in ToSet(q) : e \in Requests
        BY LenProperties DEF ToSet
      <4> QED
        BY <4>1, <4>2 DEF ServingInvariant, Waits
    <3>2. p # r
      BY <1>2, <3>1
    <3> QED
      BY <1>1, <1>2, <1>4, <3>1, <3>2
  <2>2. fate'[r] = "sent" /\ request'[r] = i
    BY <1>1, <1>2, <1>4
  <2>3. CASE x = i.at
    <3>1. queue'[x] = Append(queue[i.at], r)
      BY <1>1, <1>3, <1>4, <2>3
    <3> QED
      BY <1>5, <2>1, <2>2, <2>3, <3>1 DEF Waits
  <2>4. CASE x # i.at
    <3>1. queue'[x] = queue[x]
      BY <1>1, <1>3, <1>4, <2>4
    <3> QED
      BY <2>1, <3>1 DEF ServingInvariant, Waits
  <2> QED
    BY <2>3, <2>4
<1>10. ASSUME NEW p \in Requests PROVE Fitting(p)'
  <2>1. \A q \in Requests : fate[q] = "done" => fate'[q] = "done" /\ request'[q] = request[q]
    BY <1>1, <1>2, <1>4
  <2>2. CASE p # r
    <3>1. UNCHANGED <<fate[p], reply[p], request[p], closed>>
      BY <1>1, <1>2, <1>4, <2>2
    <3> QED
      BY <2>1, <3>1, SameFitting DEF ServingInvariant
  <2>3. CASE p = r
    <3>1. reply[r] = "none"
      BY <1>2 DEF ServingInvariant, Fitting
    <3>2. fate'[p] = "sent" /\ reply'[p] = "none" /\ request'[p] \in Inputs
      BY <1>1, <1>2, <1>4, <2>3, <3>1
    <3> QED
      BY <3>2 DEF Fitting
  <2> QED
    BY <2>2, <2>3
<1>11. ASSUME NEW l \in Serving!Loops PROVE Stopping(l)'
  BY <1>2 DEF ServingInvariant, Stopping
<1> QED
  BY <1>7, <1>8, <1>9, <1>10, <1>11 DEF ServingInvariant

(* A task of a request: what becomes of it.                                *)
LEMMA TaskStep ==
  ASSUME Serving!ServingAssumption, ServingInvariant, NEW r \in Requests, fate[r] \in {"task", "executing"},
         NEW f \in {"executing", "done", "unsent"}, NEW a \in {"none", "reply", "timeout", "invalid"},
         fate' = [fate EXCEPT ![r] = f], reply' = [reply EXCEPT ![r] = a],
         UNCHANGED <<Serving!serving, Serving!receiving, queue, request, closed>>,
         f = "executing" => a = "none", f = "done" /\ Serving!Awaited(r) => a # "none", f = "unsent" => closed,
         a = "reply" => ~request[r].oneway
  PROVE  ServingInvariant'
<1>1. UNCHANGED <<things, subscribed, starts, polling, stopPoll, loop, late, queue, request, closed>>
  BY DEF Serving!serving, Serving!receiving
<1>2. ServingTyped'
  BY <1>1 DEF ServingInvariant, ServingTyped
<1>3. Flags'
  BY <1>1, Zenon DEF ServingInvariant, Flags
<1>4. ASSUME NEW x \in Transports PROVE Waits(x)'
  <2>1. ASSUME NEW p \in ToSet(queue[x]) PROVE fate'[p] = "sent" /\ request'[p].at = x
    <3>1. fate[p] = "sent" /\ request[p].at = x
      BY DEF ServingInvariant, Waits
    <3>2. p # r
      BY <3>1
    <3>3. p \in Requests
      <4>1. PICK q \in Seq(Requests) : q = queue[x]
        BY DEF ServingInvariant, ServingTyped
      <4>2. \A e \in ToSet(q) : e \in Requests
        BY LenProperties DEF ToSet
      <4> QED
        BY <4>1, <4>2
    <3> QED
      BY <1>1, <3>1, <3>2, <3>3 DEF ServingInvariant, ServingTyped
  <2> QED
    BY <1>1, <2>1 DEF ServingInvariant, Waits
<1>5. ASSUME NEW p \in Requests PROVE Fitting(p)'
  <2>1. \A q \in Requests : fate[q] = "done" => fate'[q] = "done" /\ request'[q] = request[q]
    BY <1>1 DEF ServingInvariant, ServingTyped
  <2>2. CASE p # r
    <3>1. UNCHANGED <<fate[p], reply[p], request[p], closed>>
      BY <1>1, <2>2 DEF ServingInvariant, ServingTyped
    <3> QED
      BY <2>1, <3>1, SameFitting DEF ServingInvariant
  <2>3. CASE p = r
    <3>1. Serving!NeedsTask(r) /\ request[r] \in Inputs
      BY DEF ServingInvariant, Fitting
    <3>2. fate'[r] = f /\ reply'[r] = a /\ request'[r] = request[r] /\ (Serving!NeedsTask(r)' <=> Serving!NeedsTask(r))
      BY <1>1 DEF ServingInvariant, ServingTyped, Serving!NeedsTask, Serving!Kind
    <3>3. Serving!Awaited(r)' <=> Serving!Awaited(r)
      BY <3>2 DEF Serving!Awaited
    <3> QED
      BY <1>1, <2>3, <3>1, <3>2, <3>3 DEF Fitting
  <2> QED
    BY <2>2, <2>3
<1>6. ASSUME NEW l \in Serving!Loops PROVE Stopping(l)'
  BY <1>1 DEF ServingInvariant, Stopping
<1> QED
  BY <1>2, <1>3, <1>4, <1>5, <1>6 DEF ServingInvariant

(* An answer of a message: nobody who waits is left without, but if the    *)
(* socket is closed.                                                       *)
LEMMA AnswerStep ==
  ASSUME Serving!ServingAssumption, ServingInvariant, NEW r \in Requests, fate[r] \in {"task", "executing"},
         NEW message \in {"none", "reply", "timeout", "invalid"}, Serving!Answer(r, message),
         UNCHANGED <<Serving!serving, Serving!receiving, queue, request, closed>>,
         message = "none" => ~Serving!Awaited(r), message = "reply" => ~request[r].oneway
  PROVE  ServingInvariant'
<1>1. CASE closed /\ message # "none"
  <2>1. fate' = [fate EXCEPT ![r] = "unsent"] /\ reply' = [reply EXCEPT ![r] = "none"]
    BY <1>1 DEF Serving!Answer
  <2> QED
    BY <1>1, <2>1, TaskStep
<1>2. CASE closed /\ message = "none"
  <2>1. fate' = [fate EXCEPT ![r] = "done"] /\ reply' = [reply EXCEPT ![r] = "none"]
    BY <1>2 DEF Serving!Answer
  <2> QED
    BY <1>2, <2>1, TaskStep
<1>3. CASE ~closed
  <2>1. fate' = [fate EXCEPT ![r] = "done"] /\ reply' = [reply EXCEPT ![r] = message]
    BY <1>3 DEF Serving!Answer
  <2> QED
    BY <2>1, TaskStep
<1> QED
  BY <1>1, <1>2, <1>3

LEMMA ServingNext == ASSUME Serving!ServingAssumption, ServingInvariant, [Serving!Next]_Serving!vars PROVE ServingInvariant'
<1>1. ASSUME NEW served \in SUBSET Things, Serving!Start(served) PROVE ServingInvariant'
  BY <1>1, StartServing
<1>2. ASSUME NEW close \in BOOLEAN, Serving!Stop(close) PROVE ServingInvariant'
  BY <1>2, StopServing
<1>3. ASSUME NEW l \in Serving!Loops, Serving!Receives(l) PROVE ServingInvariant'
  BY <1>3, ReceiveStep
<1>4. ASSUME NEW r \in Requests, Serving!Send(r) PROVE ServingInvariant'
  BY <1>4, AskStep
<1>5. ASSUME NEW r \in Requests, Serving!Process(r) PROVE ServingInvariant'
  <2>1. fate[r] = "task" /\ UNCHANGED <<Serving!serving, Serving!receiving, queue, request, closed>>
    BY <1>5 DEF Serving!Process
  <2>2. Serving!NeedsTask(r) /\ reply[r] = "none"
    BY <2>1 DEF ServingInvariant, Fitting
  <2>3. CASE fate' = [fate EXCEPT ![r] = "executing"] /\ UNCHANGED reply
    <3>1. reply' = [reply EXCEPT ![r] = "none"]
      BY <2>2, <2>3 DEF ServingInvariant, ServingTyped
    <3> QED
      BY <2>1, <2>3, <3>1, TaskStep
  <2>4. ASSUME NEW message \in {"none", "reply", "invalid"}, message = "none" => request[r].oneway,
               message = "reply" => ~request[r].oneway, Serving!Answer(r, message)
        PROVE  ServingInvariant'
    BY <2>1, <2>4, AnswerStep DEF Serving!Awaited
  <2> QED
    BY <1>5, <2>3, <2>4 DEF Serving!Process, Serving!Returned
<1>6. ASSUME NEW r \in Requests, Serving!Reply(r) PROVE ServingInvariant'
  <2>1. fate[r] = "executing" /\ UNCHANGED <<Serving!serving, Serving!receiving, queue, request, closed>>
    BY <1>6 DEF Serving!Reply
  <2>2. ASSUME NEW message \in {"none", "reply", "timeout"}, message = "none" => request[r].oneway,
               message = "reply" => ~request[r].oneway, Serving!Answer(r, message)
        PROVE  ServingInvariant'
    BY <2>1, <2>2, AnswerStep DEF Serving!Awaited
  <2> QED
    BY <1>6, <2>2 DEF Serving!Reply, Serving!Returned
<1>7. CASE UNCHANGED Serving!vars
  <2>1. UNCHANGED <<things, subscribed, starts, polling, stopPoll, loop, late, Serving!requests, closed>>
    BY <1>7 DEF Serving!vars, Serving!serving, Serving!receiving
  <2>2. Flags'
    BY <2>1, Zenon DEF ServingInvariant, Flags
  <2>3. (\A x \in Transports : Waits(x)') /\ (\A r \in Requests : Fitting(r)')
    BY <2>1, SameRequests DEF ServingInvariant
  <2>4. ServingTyped'
    BY <2>1 DEF ServingInvariant, ServingTyped, Serving!requests
  <2>5. ASSUME NEW l \in Serving!Loops PROVE Stopping(l)'
    BY <2>1 DEF ServingInvariant, Stopping
  <2> QED
    BY <2>2, <2>3, <2>4, <2>5 DEF ServingInvariant
<1> QED
  BY <1>1, <1>2, <1>3, <1>4, <1>5, <1>6, <1>7 DEF Serving!Next

LEMMA ServingHolds ==
  ASSUME ServingInvariant PROVE Serving!TypeOK /\ Serving!ReadIsAnswered /\ Serving!RepliesFit /\ Serving!OneMoreBatch
<1>1. Serving!TypeOK
  <2>1. polling \in BOOLEAN /\ closed \in BOOLEAN
    BY Zenon DEF ServingInvariant, Flags
  <2>2. {polling, closed} \subseteq BOOLEAN
    BY <2>1, Zenon
  <2>3. ASSUME NEW x \in Transports, NEW i \in DOMAIN queue[x]
        PROVE  fate[queue[x][i]] = "sent" /\ request[queue[x][i]].at = x
    BY DEF ServingInvariant, Waits, ToSet
  <2> QED
    BY <2>2, <2>3 DEF ServingInvariant, ServingTyped, Serving!TypeOK
<1>2. Serving!ReadIsAnswered
  BY DEF ServingInvariant, Fitting, Serving!ReadIsAnswered
<1>3. Serving!RepliesFit
  BY DEF ServingInvariant, Fitting, Serving!RepliesFit
<1>4. Serving!OneMoreBatch
  BY DEF ServingInvariant, Stopping, Serving!OneMoreBatch
<1> QED
  BY <1>1, <1>2, <1>3, <1>4

(***************************************************************************)
(* Proxies.                                                                *)
(***************************************************************************)
Attributes == Proxies!Names \X Proxies!Kinds

(* What the factory and the callers keep, and who waits for what.          *)
ProxiesTyped ==
  /\ protocol \in Protocols /\ built \in {"building", "built", "failed"}
  /\ todo \in Seq(Attributes) /\ replaced \subseteq OwnAttributes
  /\ attribute \in [Proxies!Names -> Proxies!Kinds \cup {None}]
  /\ caller \in [Callers -> [at : {"idle", "waiting", "registering", "reading"},
                             id : Ids \cup {None},
                             mode : {"reply", "async", "noblock", None}]]
  /\ issued \in [Ids -> Proxies!Request \cup {None}]
  /\ answer \in [Ids -> {"none", "arrived", "taken", "lost"}]
  /\ noblock \in [Ids -> Proxies!Names \cup {None}] /\ replyOp \in [Ids -> Proxies!Operations \cup {None}]
  /\ last \in [Proxies!Names -> Ids \cup {None}]

(* Whoever is not idle has an ID that was issued, for what it does: what   *)
(* is registered or read is a no-block request, and the entry is its own.  *)
Holding(c, i) ==
  caller[c].id = i =>
    /\ caller[c].at = "waiting" => issued[i] \in Proxies!Request /\ issued[i].mode \in {"reply", "async"}
    /\ caller[c].at \in {"registering", "reading"} =>
         issued[i] \in Proxies!Request /\ issued[i].mode = "noblock"
    /\ caller[c].at = "reading" => noblock[i] = issued[i].name

Owned ==
  /\ \A c \in Callers : caller[c].at # "idle" => caller[c].id \in Ids
  /\ \A c \in Callers, i \in Ids : Holding(c, i)

Entered ==
  \A i \in Ids :
    /\ noblock[i] # None =>
         issued[i] \in Proxies!Request /\ issued[i].mode = "noblock" /\ noblock[i] = issued[i].name
    /\ replyOp[i] # None => issued[i] \in Proxies!Request /\ replyOp[i] = issued[i].op

Kept ==
  \A n \in Proxies!Names : last[n] # None =>
    issued[last[n]] \in Proxies!Request /\ issued[last[n]].name = n /\ issued[last[n]].mode # "oneway"

ProxiesInvariant == ProxiesTyped /\ Owned /\ Entered /\ Kept /\ Proxies!IssuedCanBeRead

(* What an instance has of the community modules is what they have.        *)
LEMMA SameRanges == \A f : Proxies!Range(f) = Range(f)
BY DEF Proxies!Range, Range

LEMMA SameFlatten == \A q : Proxies!FlattenSeq(q) = FlattenSeq(q)
BY DEF Proxies!FlattenSeq, FlattenSeq

(* The TD gives pairs of a name and what it names.                         *)
LEMMA NamesOf == ASSUME NEW q, q \in Seq(Range(q)) PROVE \A i \in DOMAIN q : q[i] \in Range(q)
BY DEF Range

LEMMA AllNamed ==
  ASSUME NEW q, q \in Seq(Range(q)), Range(q) \subseteq Proxies!Names, NEW k \in Proxies!Kinds
  PROVE  Proxies!All(q, k) \in Seq(Attributes)
<1>1. Proxies!All(q, k) = [i \in 1 .. Len(q) |-> <<q[i], k>>] /\ Len(q) \in Nat
  BY DEF Proxies!All
<1>2. \A i \in 1 .. Len(q) : <<q[i], k>> \in Attributes
  BY DEF Range, Attributes
<1> QED
  BY <1>1, <1>2

LEMMA DescribedTyped ==
  ASSUME Proxies!ProxiesAssumption, NEW e \in EventLists
  PROVE  Proxies!Described(e) \in Seq(Attributes)
<1> DEFINE own == FlattenSeq([i \in DOMAIN Properties |-> Proxies!OfProperty(Properties[i])])
           acts == IF protocol = "mqtt" THEN <<>> ELSE Proxies!All(Actions, "action")
           tools == IF protocol = "zmq" THEN Proxies!All(<<"_get_properties", "_set_properties">>, "action")
                    ELSE <<>>
<1>1. own \in Seq(Attributes)
  <2>1. ASSUME NEW p \in Range(Properties) PROVE Proxies!OfProperty(p) \in Seq(Attributes)
    <3>1. <<p, "property">> \in Attributes /\ <<p, "event">> \in Attributes
      BY SameRanges DEF Attributes, Proxies!Names, Proxies!Kinds
    <3>2. CASE p \in Observable
      <4>1. <<ChangeEvent[p], "event">> \in Attributes
        <5>1. ChangeEvent[p] \in Proxies!Names
          BY <3>2 DEF Proxies!Names
        <5> QED
          BY <5>1 DEF Attributes, Proxies!Kinds
      <4>2. /\ <<<<ChangeEvent[p], "event">>>> \in Seq(Attributes)
            /\ <<<<p, "property">>>> \in Seq(Attributes)
        BY <3>1, <4>1
      <4>3. Proxies!OfProperty(p) = IF protocol # "mqtt"
                            THEN <<<<p, "property">>>> \o <<<<ChangeEvent[p], "event">>>>
                            ELSE <<<<ChangeEvent[p], "event">>>>
        BY <3>2 DEF Proxies!OfProperty
      <4> QED
        BY <4>2, <4>3, ConcatProperties
    <3>3. CASE p \notin Observable
      <4>1. <<>> \in Seq(Attributes) /\ <<<<p, "property">>>> \in Seq(Attributes)
              /\ <<<<p, "event">>>> \in Seq(Attributes)
        BY <3>1
      <4>2. Proxies!OfProperty(p) = IF protocol # "mqtt" THEN <<<<p, "property">>>> \o <<>>
                            ELSE <<<<p, "event">>>>
        BY <3>3 DEF Proxies!OfProperty
      <4> QED
        BY <4>1, <4>2, ConcatProperties
    <3> QED
      BY <3>2, <3>3
  <2>2. Properties \in Seq(Range(Properties))
    BY SameRanges DEF Proxies!ProxiesAssumption
  <2>3. \A i \in DOMAIN Properties : Proxies!OfProperty(Properties[i]) \in Seq(Attributes)
    BY <2>1, <2>2, NamesOf
  <2>4. [i \in DOMAIN Properties |-> Proxies!OfProperty(Properties[i])] \in Seq(Seq(Attributes))
    <3>1. DOMAIN Properties = 1 .. Len(Properties) /\ Len(Properties) \in Nat
      BY <2>2
    <3> QED
      BY <2>3, <3>1
  <2> QED
    BY <2>4, FlattenFacts
<1>2. acts \in Seq(Attributes)
  <2>1. Actions \in Seq(Range(Actions)) /\ Range(Actions) \subseteq Proxies!Names
    BY SameRanges DEF Proxies!ProxiesAssumption, Proxies!Names
  <2>2. Proxies!All(Actions, "action") \in Seq(Attributes)
    BY <2>1, AllNamed DEF Proxies!Kinds
  <2> QED
    BY <2>2
<1>3. Proxies!All(e, "event") \in Seq(Attributes)
  <2>1. e \in Seq(Range(e)) /\ Range(e) \subseteq Proxies!Names
    BY SameRanges DEF Proxies!ProxiesAssumption, Proxies!Names
  <2> QED
    BY <2>1, AllNamed DEF Proxies!Kinds
<1>4. tools \in Seq(Attributes)
  <2> DEFINE both == <<"_get_properties", "_set_properties">>
  <2>0. "_get_properties" \in Proxies!Names /\ "_set_properties" \in Proxies!Names
    BY DEF Proxies!Names
  <2>1. \A i \in 1 .. 2 : <<both[i], "action">> \in Attributes
    <3>1. <<both[1], "action">> \in Attributes /\ <<both[2], "action">> \in Attributes
      BY <2>0 DEF Attributes, Proxies!Kinds
    <3> QED
      BY <3>1
  <2>2. Proxies!All(both, "action") = [i \in 1 .. 2 |-> <<both[i], "action">>]
    BY DEF Proxies!All
  <2>3. Proxies!All(both, "action") \in Seq(Attributes)
    <3> DEFINE pair == [i \in 1 .. 2 |-> <<both[i], "action">>]
    <3>1. \A i \in 1 .. 2 : pair[i] \in Attributes
      BY <2>1
    <3>2. pair \in Seq(Attributes)
      BY <3>1
    <3> QED
      BY <2>2, <3>2
  <2> QED
    BY <2>3
<1> HIDE DEF own, acts, tools
<1>5. own \o acts \o Proxies!All(e, "event") \o tools \in Seq(Attributes)
  BY <1>1, <1>2, <1>3, <1>4, ConcatProperties
<1> QED
  BY <1>5, SameFlatten DEF Proxies!Described, own, acts, tools

LEMMA ProxiesInit == ASSUME Proxies!ProxiesAssumption, Proxies!Init PROVE ProxiesInvariant
<1>1. PICK e \in EventLists : todo = Proxies!Described(e)
  BY DEF Proxies!Init
<1>2. todo \in Seq(Attributes)
  BY <1>1, DescribedTyped
<1>3. ProxiesTyped
  <2>1. \A c \in Callers : caller[c] = [at |-> "idle", id |-> None, mode |-> None]
    BY DEF Proxies!Init, Proxies!Idle
  <2>2. noblock = [i \in Ids |-> None] /\ replyOp = [i \in Ids |-> None] /\ last = [n \in Proxies!Names |-> None]
    BY DEF Proxies!Init
  <2> QED
    BY <1>2, <2>1, <2>2 DEF Proxies!Init, ProxiesTyped, Proxies!Idle
<1>4. Owned /\ Entered /\ Kept /\ Proxies!IssuedCanBeRead
  BY DEF Proxies!Init, Proxies!Idle, Owned, Holding, Entered, Kept, Proxies!IssuedCanBeRead
<1> QED
  BY <1>3, <1>4 DEF ProxiesInvariant

(* The factory sets attributes; no caller has begun.                       *)
LEMMA SetStep ==
  ASSUME ProxiesInvariant, Proxies!SetAttribute \/ Proxies!Finish
  PROVE  ProxiesInvariant'
<1>1. UNCHANGED Proxies!calling
  BY DEF Proxies!SetAttribute, Proxies!Finish
<1>2. ProxiesTyped'
  <2>1. todo \in Seq(Attributes) /\ attribute \in [Proxies!Names -> Proxies!Kinds \cup {None}] /\ replaced \subseteq OwnAttributes
    BY DEF ProxiesInvariant, ProxiesTyped
  <2>2. todo' \in Seq(Attributes) /\ attribute' \in [Proxies!Names -> Proxies!Kinds \cup {None}]
          /\ replaced' \subseteq OwnAttributes
    <3>1. CASE Proxies!Finish
      BY <2>1, <3>1 DEF Proxies!Finish
    <3>2. CASE Proxies!SetAttribute
      <4>1. todo # <<>>
        BY <3>2 DEF Proxies!SetAttribute
      <4>2. Head(todo) \in Attributes /\ Tail(todo) \in Seq(Attributes)
        BY <2>1, <4>1, HeadTailProperties
      <4>3. Head(todo)[1] \in Proxies!Names /\ Head(todo)[2] \in Proxies!Kinds
        BY <4>2 DEF Attributes
      <4>4. todo' \in {todo, Tail(todo)}
              /\ attribute' \in {attribute, [attribute EXCEPT ![Head(todo)[1]] = Head(todo)[2]]}
              /\ replaced' \in {replaced, replaced \cup ({Head(todo)[1]} \cap OwnAttributes)}
        BY <3>2 DEF Proxies!SetAttribute
      <4> QED
        BY <2>1, <4>2, <4>3, <4>4
    <3> QED
      BY <3>1, <3>2
  <2>3. protocol' = protocol /\ built' \in {"building", "built", "failed"}
    BY DEF Proxies!SetAttribute, Proxies!Finish, ProxiesInvariant, ProxiesTyped
  <2> QED
    BY <1>1, <2>2, <2>3 DEF Proxies!calling, ProxiesInvariant, ProxiesTyped
<1>3. Owned' /\ Entered' /\ Kept' /\ Proxies!IssuedCanBeRead'
  BY <1>1 DEF Proxies!calling, ProxiesInvariant, Owned, Holding, Entered, Kept, Proxies!IssuedCanBeRead
<1> QED
  BY <1>2, <1>3 DEF ProxiesInvariant

(* A request is new under its ID: nothing is kept for it yet.              *)
LEMMA SendStep ==
  ASSUME Proxies!ProxiesAssumption, ProxiesInvariant, NEW c \in Callers, NEW i \in Ids, NEW r \in Proxies!Request,
         Proxies!Sends(c, i, r),
         \/ r.mode = "oneway" /\ UNCHANGED caller
         \/ r.mode = "noblock" /\ Proxies!Become(c, "registering", i, "noblock")
         \/ r.mode \in {"reply", "async"} /\ Proxies!Become(c, "waiting", i, r.mode)
  PROVE  ProxiesInvariant'
<1> DEFINE States == {"idle", "waiting", "registering", "reading"}
           Modes == {"reply", "async", "noblock", None}
<1> USE DEF ProxiesInvariant
<1>1. /\ issued[i] = None /\ issued' = [issued EXCEPT ![i] = r] /\ caller[c].at = "idle"
      /\ UNCHANGED <<Proxies!building, answer, noblock, replyOp, last>>
  BY DEF Proxies!Sends
<1>2. None \notin Proxies!Request
  BY SameRanges DEF Proxies!ProxiesAssumption
<1>3. \A j \in Ids : j # i => issued'[j] = issued[j]
  BY <1>1 DEF ProxiesTyped
<1>4. issued'[i] = r
  BY <1>1 DEF ProxiesTyped
<1>5. noblock[i] = None /\ replyOp[i] = None
  BY <1>1, <1>2 DEF Entered
<1>6. \A n \in Proxies!Names : last[n] # i
  <2>1. i # None
    BY SameRanges DEF Proxies!ProxiesAssumption
  <2> QED
    BY <1>1, <1>2, <2>1 DEF Kept
<1>7. \A d \in Callers : caller[d].at # "idle" => caller[d].id # i
  BY <1>1, <1>2 DEF Owned, Holding, ProxiesTyped
<1>8. PICK v \in [at : States, id : Ids \cup {None}, mode : Modes] :
        /\ caller' = [caller EXCEPT ![c] = v]
        /\ \/ v = caller[c] /\ r.mode = "oneway"
           \/ v.at = "registering" /\ v.id = i /\ r.mode = "noblock"
           \/ v.at = "waiting" /\ v.id = i /\ r.mode \in {"reply", "async"}
  <2>1. CASE r.mode = "oneway" /\ UNCHANGED caller
    <3>1. caller[c] \in [at : States, id : Ids \cup {None}, mode : Modes]
            /\ caller' = [caller EXCEPT ![c] = caller[c]]
      BY <2>1 DEF ProxiesTyped
    <3> QED
      BY <2>1, <3>1
  <2>2. CASE r.mode = "noblock" /\ Proxies!Become(c, "registering", i, "noblock")
    <3>1. [at |-> "registering", id |-> i, mode |-> "noblock"] \in [at : States, id : Ids \cup {None}, mode : Modes]
      OBVIOUS
    <3> QED
      BY <2>2, <3>1 DEF Proxies!Become
  <2>3. CASE r.mode \in {"reply", "async"} /\ Proxies!Become(c, "waiting", i, r.mode)
    <3>1. [at |-> "waiting", id |-> i, mode |-> r.mode] \in [at : States, id : Ids \cup {None}, mode : Modes]
      BY <2>3
    <3> QED
      BY <2>3, <3>1 DEF Proxies!Become
  <2> QED
    BY <2>1, <2>2, <2>3
<1>9. caller'[c] = v /\ \A d \in Callers : d # c => caller'[d] = caller[d]
  BY <1>8 DEF ProxiesTyped
<1>10. ProxiesTyped'
  <2>1. caller' \in [Callers -> [at : States, id : Ids \cup {None}, mode : Modes]]
    BY <1>8 DEF ProxiesTyped
  <2>2. issued' \in [Ids -> Proxies!Request \cup {None}]
    BY <1>1 DEF ProxiesTyped
  <2> QED
    BY <1>1, <2>1, <2>2 DEF Proxies!building, ProxiesTyped
<1>11. Owned'
  <2>1. ASSUME NEW d \in Callers, caller'[d].at # "idle" PROVE caller'[d].id \in Ids
    BY <1>1, <1>8, <1>9, <2>1 DEF Owned
  <2>2. ASSUME NEW d \in Callers, NEW j \in Ids PROVE Holding(d, j)'
    <3>1. noblock' = noblock
      BY <1>1
    <3>2. CASE d = c
      BY <1>1, <1>4, <1>8, <1>9, <3>1, <3>2 DEF Holding
    <3>3. CASE d # c
      <4>1. caller'[d] = caller[d] /\ Holding(d, j)
        BY <1>9, <3>3 DEF Owned
      <4>2. CASE j = i
        <5>1. caller[d].id = i => caller[d].at = "idle"
          BY <1>7
        <5> QED
          BY <4>1, <4>2, <5>1 DEF Holding
      <4>3. CASE j # i
        BY <1>3, <3>1, <4>1, <4>3 DEF Holding
      <4> QED
        BY <4>2, <4>3
    <3> QED
      BY <3>2, <3>3
  <2> QED
    BY <2>1, <2>2 DEF Owned
<1>12. Entered'
  BY <1>1, <1>3, <1>5 DEF Entered
<1>13. Kept'
  <2>1. ASSUME NEW n \in Proxies!Names, last[n] # None PROVE last[n] \in Ids /\ last[n] # i
    BY <1>6, <2>1 DEF ProxiesTyped
  <2> QED
    BY <1>1, <1>3, <2>1 DEF Kept
<1>14. Proxies!IssuedCanBeRead'
  <2>1. ASSUME NEW j \in Ids, issued'[j] # None, issued'[j].mode = "noblock",
               \A d \in Callers : caller'[d].at = "registering" => caller'[d].id # j
        PROVE  noblock'[j] = issued'[j].name /\ replyOp'[j] \in {None, issued'[j].op}
    <3>1. CASE j = i
      BY <1>4, <1>8, <1>9, <2>1, <3>1
    <3>2. CASE j # i
      <4>1. \A d \in Callers : caller[d].at = "registering" => caller[d].id # j
        BY <1>1, <1>9, <2>1
      <4> QED
        BY <1>1, <1>3, <2>1, <3>2, <4>1 DEF Proxies!IssuedCanBeRead
    <3> QED
      BY <3>1, <3>2
  <2> QED
    BY <2>1 DEF Proxies!IssuedCanBeRead
<1> QED
  BY <1>10, <1>11, <1>12, <1>13, <1>14

LEMMA RegisterStep ==
  ASSUME Proxies!ProxiesAssumption, ProxiesInvariant, NEW c \in Callers, Proxies!Register(c)
  PROVE  ProxiesInvariant'
<1> USE DEF ProxiesInvariant
<1>1. PICK i \in Ids : i = caller[c].id
  BY DEF Proxies!Register, Owned
<1>2. /\ caller[c].at = "registering" /\ caller' = [caller EXCEPT ![c] = Proxies!Idle]
      /\ noblock' = [noblock EXCEPT ![i] = issued[i].name]
      /\ replyOp' \in {replyOp, [replyOp EXCEPT ![i] = issued[i].op]}
      /\ UNCHANGED <<Proxies!building, issued, answer, last>>
  BY <1>1 DEF Proxies!Register
<1>3. issued[i] \in Proxies!Request /\ issued[i].mode = "noblock"
  BY <1>1, <1>2 DEF Owned, Holding
<1>4. Proxies!Idle.at = "idle" /\ Proxies!Idle.id = None
        /\ Proxies!Idle \in [at : {"idle", "waiting", "registering", "reading"}, id : Ids \cup {None},
                     mode : {"reply", "async", "noblock", None}]
  BY DEF Proxies!Idle
<1>5. caller'[c] = Proxies!Idle /\ \A d \in Callers : d # c => caller'[d] = caller[d]
  BY <1>2 DEF ProxiesTyped
<1>6. /\ noblock'[i] = issued[i].name /\ \A j \in Ids : j # i => noblock'[j] = noblock[j]
      /\ replyOp'[i] \in {replyOp[i], issued[i].op}
      /\ \A j \in Ids : j # i => replyOp'[j] = replyOp[j]
  BY <1>2 DEF ProxiesTyped
<1>7. ProxiesTyped'
  <2>1. caller' \in [Callers -> [at : {"idle", "waiting", "registering", "reading"}, id : Ids \cup {None},
                                 mode : {"reply", "async", "noblock", None}]]
    BY <1>2, <1>4 DEF ProxiesTyped
  <2>2. issued[i].name \in Proxies!Names /\ issued[i].op \in Proxies!Operations
    BY <1>3 DEF Proxies!Request
  <2>3. noblock' \in [Ids -> Proxies!Names \cup {None}] /\ replyOp' \in [Ids -> Proxies!Operations \cup {None}]
    BY <1>2, <2>2 DEF ProxiesTyped
  <2> QED
    BY <1>2, <2>1, <2>3 DEF Proxies!building, ProxiesTyped
<1>8. Owned'
  <2>1. ASSUME NEW d \in Callers, caller'[d].at # "idle" PROVE d # c /\ caller'[d].id \in Ids
    BY <1>4, <1>5, <2>1 DEF Owned
  <2>2. ASSUME NEW d \in Callers, NEW j \in Ids PROVE Holding(d, j)'
    <3>1. CASE d = c
      BY <1>4, <1>5, <3>1 DEF Holding
    <3>2. CASE d # c
      <4>1. caller'[d] = caller[d] /\ Holding(d, j) /\ issued' = issued
        BY <1>2, <1>5, <3>2 DEF Owned
      <4>2. noblock'[j] = noblock[j] \/ noblock'[j] = issued[j].name
        BY <1>6
      <4> QED
        BY <4>1, <4>2 DEF Holding
    <3> QED
      BY <3>1, <3>2
  <2> QED
    BY <2>1, <2>2 DEF Owned
<1>9. Entered'
  <2>1. ASSUME NEW j \in Ids
        PROVE  /\ noblock'[j] # None => issued[j] \in Proxies!Request /\ issued[j].mode = "noblock"
                                          /\ noblock'[j] = issued[j].name
               /\ replyOp'[j] # None => issued[j] \in Proxies!Request /\ replyOp'[j] = issued[j].op
    BY <1>3, <1>6 DEF Entered
  <2> QED
    BY <1>2, <2>1 DEF Entered
<1>10. Kept'
  BY <1>2 DEF Kept
<1>11. Proxies!IssuedCanBeRead'
  <2>1. ASSUME NEW j \in Ids, issued[j] # None, issued[j].mode = "noblock",
               \A d \in Callers : caller'[d].at = "registering" => caller'[d].id # j
        PROVE  noblock'[j] = issued[j].name /\ replyOp'[j] \in {None, issued[j].op}
    <3>1. CASE j = i
      BY <1>6, <3>1 DEF Entered
    <3>2. CASE j # i
      <4>1. \A d \in Callers : caller[d].at = "registering" => caller[d].id # j
        BY <1>1, <1>5, <2>1, <3>2
      <4> QED
        BY <1>6, <2>1, <3>2, <4>1 DEF Proxies!IssuedCanBeRead
    <3> QED
      BY <3>1, <3>2
  <2> QED
    BY <1>2, <2>1 DEF Proxies!IssuedCanBeRead
<1> QED
  BY <1>7, <1>8, <1>9, <1>10, <1>11

(* A caller goes on, or reads what is registered, or a reply comes.        *)
LEMMA ReplyStep ==
  ASSUME Proxies!ProxiesAssumption, ProxiesInvariant,
         \/ \E i \in Ids : Proxies!Answer(i)
         \/ \E c \in Callers : Proxies!Receive(c) \/ Proxies!TimeOut(c) \/ \E i \in Ids : Proxies!ReadReply(c, i)
  PROVE  ProxiesInvariant'
<1> USE DEF ProxiesInvariant
<1> DEFINE Doing == [at : {"idle", "waiting", "registering", "reading"}, id : Ids \cup {None},
                     mode : {"reply", "async", "noblock", None}]
<1>1. UNCHANGED <<Proxies!building, issued, noblock, replyOp>>
  BY DEF Proxies!Answer, Proxies!Receive, Proxies!TimeOut, Proxies!ReadReply
<1>2. answer' \in [Ids -> {"none", "arrived", "taken", "lost"}]
  BY DEF Proxies!Answer, Proxies!Receive, Proxies!TimeOut, Proxies!ReadReply, ProxiesTyped, Owned
<1>3. /\ caller' \in [Callers -> Doing]
      /\ \A c \in Callers :
           \/ caller'[c] = caller[c]
           \/ caller[c].at \in {"waiting", "reading"} /\ caller'[c].at = "idle"
           \/ /\ caller[c].at = "idle" /\ caller'[c].at = "reading" /\ caller'[c].id \in Ids
              /\ noblock[caller'[c].id] # None
  <2>1. CASE \E i \in Ids : Proxies!Answer(i)
    BY <2>1 DEF Proxies!Answer, ProxiesTyped
  <2>2. ASSUME NEW c \in Callers, Proxies!Receive(c) \/ Proxies!TimeOut(c) PROVE <1>3
    <3>1. caller[c].at \in {"waiting", "reading"} /\ caller' = [caller EXCEPT ![c] = Proxies!Idle]
      BY <2>2 DEF Proxies!Receive, Proxies!TimeOut
    <3>2. Proxies!Idle \in Doing /\ Proxies!Idle.at = "idle"
      BY DEF Proxies!Idle
    <3> QED
      BY <3>1, <3>2 DEF ProxiesTyped
  <2>3. ASSUME NEW c \in Callers, NEW i \in Ids, Proxies!ReadReply(c, i) PROVE <1>3
    <3> DEFINE v == [at |-> "reading", id |-> i, mode |-> None]
    <3>1. caller[c].at = "idle" /\ noblock[i] # None /\ caller' = [caller EXCEPT ![c] = v]
      BY <2>3 DEF Proxies!ReadReply, Proxies!Become
    <3>2. v \in Doing /\ v.at = "reading" /\ v.id = i
      OBVIOUS
    <3> HIDE DEF v
    <3> QED
      BY <3>1, <3>2 DEF ProxiesTyped
  <2> QED
    BY <2>1, <2>2, <2>3
<1>4. last' \in [Proxies!Names -> Ids \cup {None}] /\ Kept'
  <2>1. last \in [Proxies!Names -> Ids \cup {None}] /\ Kept
    BY DEF ProxiesTyped
  <2>2. CASE last' = last
    BY <1>1, <2>1, <2>2 DEF Kept
  <2>3. CASE last' # last
    <3>1. PICK c \in Callers : Proxies!Receive(c)
      BY <2>3 DEF Proxies!Answer, Proxies!TimeOut, Proxies!ReadReply
    <3>2. PICK i \in Ids : i = caller[c].id
      BY <3>1 DEF Proxies!Receive, Owned
    <3>3. last' = [last EXCEPT ![Proxies!For(c)] = i] /\ caller[c].at \in {"waiting", "reading"}
      BY <2>3, <3>1, <3>2 DEF Proxies!Receive
    <3>4. issued[i] \in Proxies!Request /\ issued[i].mode # "oneway" /\ Proxies!For(c) = issued[i].name
      <4>1. Holding(c, i)
        BY DEF Owned
      <4> QED
        BY <3>2, <3>3, <4>1 DEF Holding, Proxies!For
    <3>5. PICK n \in Proxies!Names : n = issued[i].name
      BY <3>4 DEF Proxies!Request
    <3>6. last' = [last EXCEPT ![n] = i]
      BY <3>3, <3>4, <3>5
    <3>7. ASSUME NEW m \in Proxies!Names, last'[m] # None
          PROVE  issued[last'[m]] \in Proxies!Request /\ issued[last'[m]].name = m /\ issued[last'[m]].mode # "oneway"
      <4>1. CASE m = n
        BY <2>1, <3>4, <3>5, <3>6, <4>1
      <4>2. CASE m # n
        BY <2>1, <3>6, <3>7, <4>2 DEF Kept
      <4> QED
        BY <4>1, <4>2
    <3>8. last' \in [Proxies!Names -> Ids \cup {None}]
      BY <2>1, <3>6
    <3> QED
      BY <1>1, <3>7, <3>8 DEF Kept
  <2> QED
    BY <2>2, <2>3
<1>5. ProxiesTyped'
  BY <1>1, <1>2, <1>3, <1>4 DEF Proxies!building, ProxiesTyped
<1>6. Owned'
  <2>1. ASSUME NEW d \in Callers, caller'[d].at # "idle" PROVE caller'[d].id \in Ids
    BY <1>3, <2>1 DEF Owned
  <2>2. ASSUME NEW d \in Callers, NEW j \in Ids PROVE Holding(d, j)'
    <3>1. Holding(d, j) /\ (noblock[j] # None => issued[j] \in Proxies!Request /\ issued[j].mode = "noblock"
                                                   /\ noblock[j] = issued[j].name)
      BY DEF Owned, Entered
    <3>2. CASE caller'[d] = caller[d]
      BY <1>1, <3>1, <3>2 DEF Holding
    <3>3. CASE caller'[d] # caller[d]
      BY <1>1, <1>3, <3>1, <3>3 DEF Holding
    <3> QED
      BY <3>2, <3>3
  <2> QED
    BY <2>1, <2>2 DEF Owned
<1>7. Entered'
  BY <1>1 DEF Entered
<1>8. Proxies!IssuedCanBeRead'
  <2>1. \A d \in Callers : caller[d].at = "registering" => caller'[d] = caller[d]
    BY <1>3
  <2> QED
    BY <1>1, <2>1 DEF Proxies!IssuedCanBeRead
<1> QED
  BY <1>4, <1>5, <1>6, <1>7, <1>8

LEMMA ProxiesNext ==
  ASSUME Proxies!ProxiesAssumption, ProxiesInvariant, [Proxies!Next]_Proxies!vars
  PROVE  ProxiesInvariant'
<1>1. CASE Proxies!SetAttribute \/ Proxies!Finish
  BY <1>1, SetStep
<1>2. ASSUME NEW c \in Callers, NEW n \in Proxies!Names, NEW op \in Proxies!Operations, NEW i \in Ids,
             \/ \E mode \in {"reply", "async"} : Proxies!Execute(c, n, op, i, mode)
             \/ Proxies!OneWay(c, n, op, i) \/ Proxies!NoBlock(c, n, op, i)
      PROVE  ProxiesInvariant'
  <2> DEFINE r(mode) == [name |-> n, op |-> op, mode |-> mode]
  <2>1. ASSUME NEW mode \in {"reply", "async", "oneway", "noblock"}
        PROVE  r(mode) \in Proxies!Request /\ r(mode).mode = mode
    BY DEF Proxies!Request
  <2>2. ASSUME NEW mode \in {"reply", "async"}, Proxies!Execute(c, n, op, i, mode) PROVE ProxiesInvariant'
    <3>1. Proxies!Sends(c, i, r(mode)) /\ Proxies!Become(c, "waiting", i, mode)
      BY <2>2 DEF Proxies!Execute
    <3>2. r(mode) \in Proxies!Request /\ r(mode).mode = mode
      BY <2>1
    <3> HIDE DEF r
    <3> QED
      BY <3>1, <3>2, SendStep
  <2>3. CASE Proxies!OneWay(c, n, op, i)
    <3>1. Proxies!Sends(c, i, r("oneway")) /\ UNCHANGED caller
      BY <2>3 DEF Proxies!OneWay
    <3>2. r("oneway") \in Proxies!Request /\ r("oneway").mode = "oneway"
      BY <2>1
    <3> HIDE DEF r
    <3> QED
      BY <3>1, <3>2, SendStep
  <2>4. CASE Proxies!NoBlock(c, n, op, i)
    <3>1. Proxies!Sends(c, i, r("noblock")) /\ Proxies!Become(c, "registering", i, "noblock")
      BY <2>4 DEF Proxies!NoBlock
    <3>2. r("noblock") \in Proxies!Request /\ r("noblock").mode = "noblock"
      BY <2>1
    <3> HIDE DEF r
    <3> QED
      BY <3>1, <3>2, SendStep
  <2> QED
    BY <1>2, <2>2, <2>3, <2>4
<1>3. ASSUME NEW c \in Callers, NEW n \in Proxies!Names, NEW i \in Ids, Proxies!InvokeProperty(c, n, i)
      PROVE  ProxiesInvariant'
  <2> DEFINE r == [name |-> n, op |-> "readproperty", mode |-> "reply"]
  <2>1. Proxies!Sends(c, i, r) /\ Proxies!Become(c, "waiting", i, "reply")
    BY <1>3 DEF Proxies!InvokeProperty
  <2>2. r \in Proxies!Request /\ r.mode = "reply"
    BY DEF Proxies!Request, Proxies!Operations
  <2> HIDE DEF r
  <2> QED
    BY <2>1, <2>2, SendStep
<1>4. CASE \E c \in Callers : Proxies!Register(c)
  BY <1>4, RegisterStep
<1>5. CASE \/ \E i \in Ids : Proxies!Answer(i)
           \/ \E c \in Callers : Proxies!Receive(c) \/ Proxies!TimeOut(c) \/ \E i \in Ids : Proxies!ReadReply(c, i)
  BY <1>5, ReplyStep
<1>6. CASE UNCHANGED Proxies!vars
  BY <1>6 DEF Proxies!vars, Proxies!building, Proxies!calling, ProxiesInvariant, ProxiesTyped, Owned, Holding, Entered, Kept,
              Proxies!IssuedCanBeRead
<1> QED
  BY <1>1, <1>2, <1>3, <1>4, <1>5, <1>6 DEF Proxies!Next

LEMMA ProxiesHold ==
  ASSUME ProxiesInvariant
  PROVE  Proxies!TypeOK /\ Proxies!IssuedCanBeRead /\ Proxies!KeepsItsOwn
<1>1. Proxies!TypeOK
  BY DEF ProxiesInvariant, ProxiesTyped, Proxies!TypeOK, Attributes
<1>2. Proxies!KeepsItsOwn
  BY DEF ProxiesInvariant, Kept, Proxies!KeepsItsOwn
<1> QED
  BY <1>1, <1>2 DEF ProxiesInvariant

(***************************************************************************)
(* The composition.  A component that does not run keeps its state, so     *)
(* each behaviour of Clients is one of every component, and what holds of  *)
(* a component for itself holds in the composition.                        *)
(***************************************************************************)
LEMMA ClientBehaves == ClientsSpec => Spec
<1>1. ClientsInit => Init
  BY DEF ClientsInit
<1>2. [ClientsNext]_allVars => [Next]_vars
  BY DEF ClientsNext, allVars
<1> QED
  BY <1>1, <1>2, PTL DEF ClientsSpec, Spec

LEMMA PoolBehaves == ClientsSpec => Pool!PoolSpec
<1>1. ClientsInit => Pool!Init
  BY DEF ClientsInit
<1>2. [ClientsNext]_allVars => [Pool!Next]_Pool!poolVars
  BY DEF ClientsNext, allVars, clientPoolVars, Pool!poolVars, Pool!registry, Pool!shakes, Pool!calls,
         Pool!eventPool, Pool!polling
<1> QED
  BY <1>1, <1>2, PTL DEF ClientsSpec, Pool!PoolSpec

LEMMA EventBehaves == ClientsSpec => Event!Spec
<1>1. ClientsInit => Event!Init
  BY DEF ClientsInit
<1>2. [ClientsNext]_allVars => [Event!Next]_Event!vars
  BY DEF ClientsNext, allVars, eventVars, Event!vars
<1> QED
  BY <1>1, <1>2, PTL DEF ClientsSpec, Event!Spec

(* Whoever shares a ZMQ client, no response is lost and the poller lock is *)
(* held by a caller that polls; in a pool, a response that was read wakes  *)
(* its caller and no other (brokers.py:1256, :1971 and :2310).             *)
THEOREM AllResponsesAreKept == ClientsSpec => []ResponsesAreKept
<1>1. TypeOK /\ NoResponseLost /\ LockHeldInside /\ Pool!TypeOK /\ Pool!ReadWakes /\ Pool!EventsApart
        => ResponsesAreKept
  BY DEF ResponsesAreKept
<1>2. Pool!PoolSpec => []Pool!TypeOK /\ []Pool!ReadWakes /\ []Pool!EventsApart
  BY ClientsAssumption, PoolTypeCorrect, WokenByRead, EventsStayApart
<1> QED
  BY <1>1, <1>2, ClientBehaves, PoolBehaves, TypeCorrect, NothingIsLost, LockIsHeldInside, PTL

(* A request that a server has read is answered, unless its client does    *)
(* not wait, with what fits it, whatever the batches, the messages they    *)
(* end with and the transports (brokers.py:700 and zmq/server.py:203).     *)
THEOREM AllRequestsAreAnswered == ClientsSpec => []RequestsAreAnswered
<1>1. ClientsInit => ServingInvariant
  BY ClientsAssumption, ServingInit DEF ClientsInit
<1>2. ServingInvariant /\ [ClientsNext]_allVars => ServingInvariant'
  <2>1. [ClientsNext]_allVars => [Serving!Next]_Serving!vars
    BY DEF ClientsNext, allVars, servingVars, Serving!vars, Serving!serving,
           Serving!receiving, Serving!requests
  <2> QED
    BY <2>1, ClientsAssumption, ServingNext
<1>3. ServingInvariant => RequestsAreAnswered
  BY ServingHolds DEF RequestsAreAnswered
<1> QED
  BY <1>1, <1>2, <1>3, PTL DEF ClientsSpec

(* Every listener is called with the events it receives in their order,    *)
(* none twice, at most once after it was told to stop, and leaves no       *)
(* socket behind, for any number of listeners, events and calls of         *)
(* unsubscribe() (abstractions.py:497 and brokers.py:2578).                *)
THEOREM AllEventsAreHeard == ClientsSpec => []EventsAreHeard
<1>1. ClientsInit => ListeningInvariant
  BY ClientsAssumption, ListeningInit DEF ClientsInit
<1>2. ListeningInvariant /\ [ClientsNext]_allVars => ListeningInvariant'
  <2>1. [ClientsNext]_allVars => [Listening!Next]_Listening!vars
    BY DEF ClientsNext, allVars, listeningVars, Listening!vars
  <2> QED
    BY <2>1, ClientsAssumption, ListeningNext
<1>3. ListeningInvariant => EventsAreHeard
  BY ListeningHolds DEF EventsAreHeard
<1> QED
  BY <1>1, <1>2, <1>3, PTL DEF ClientsSpec

(* Nobody waits in the list of a set event, and whoever waits on an open   *)
(* loop is in the list, in the hands of a set() or resolved (utils.py:61). *)
THEOREM AllWaitersAreParked == ClientsSpec => []WaitersAreParked
<1>1. Event!EventInvariant => WaitersAreParked
  BY DEF Event!EventInvariant, WaitersAreParked
<1> QED
  BY <1>1, EventBehaves, EventAlways, PTL

(* "Semantics match threading.Event" (utils.py:38), for any number of      *)
(* loops, some of which close, and waiters, some of which are cancelled.   *)
THEOREM EventPromiseIsKept == ClientsSpec => KeepsEventPromise
BY EventBehaves, MatchesThreadingEvent, PTL DEF KeepsEventPromise

(* Whatever the callers of a proxy do at the same time, an ID they were    *)
(* given is registered where it was issued, and an attribute keeps the     *)
(* response of one of its own requests (proxy.py:619).                     *)
THEOREM AllRepliesStay == ClientsSpec => []RepliesStay
<1>1. ClientsInit => ProxiesInvariant
  BY ClientsAssumption, ProxiesInit DEF ClientsInit
<1>2. ProxiesInvariant /\ [ClientsNext]_allVars => ProxiesInvariant'
  <2>1. [ClientsNext]_allVars => [Proxies!Next]_Proxies!vars
    BY DEF ClientsNext, allVars, proxyVars, Proxies!vars, Proxies!building, Proxies!calling
  <2> QED
    BY <2>1, ClientsAssumption, ProxiesNext
<1>3. ProxiesInvariant => RepliesStay
  BY ProxiesHold DEF RepliesStay
<1> QED
  BY <1>1, <1>2, <1>3, PTL DEF ClientsSpec
=============================================================================
