---------------------------- MODULE EventBusProofs --------------------------
(***************************************************************************)
(* Proofs about EventBus, for every number of threads, events and          *)
(* listeners, every maxsize and every number of pushes: what the           *)
(* subscribers of an event are given, in which order, and what a slow one  *)
(* loses.                                                                  *)
(***************************************************************************)
EXTENDS EventBus, SequenceFacts

(* x is what a listener has or will have of o, what its callback was       *)
(* given, where n is the last push: oldest first, all of it given, the     *)
(* newest among it and d of them dropped. It is due while its turn in      *)
(* push n has not come.                                                    *)
Fits(x, o, d, n, due, alive) ==
  /\ \A i, j \in 1 .. Len(x) : i < j => x[i] < x[j]
  /\ \A i \in 1 .. Len(x) : x[i] <= n /\ (due => x[i] < n)
  /\ alive => /\ o # <<>> => x # <<>> /\ Last(x) = Last(o)
              /\ Len(o) = Len(x) + d

(* Given the push it is due: the push is newer than all it has.            *)
LEMMA FitsOffered ==
  ASSUME NEW S \in SUBSET Nat, NEW x \in Seq(S), NEW o \in Seq(S), NEW d \in Nat, NEW n \in S,
         NEW alive, Fits(x, o, d, n, TRUE, alive)
  PROVE  Fits(Append(x, n), Append(o, n), d, n, FALSE, alive)
<1> DEFINE y == Append(x, n)  w == Append(o, n)
<1>1. PICK k \in Nat, l \in Nat : k = Len(x) /\ l = Len(o)
  OBVIOUS
<1>2. /\ Len(y) = k + 1 /\ y[k + 1] = n /\ \A i \in 1 .. k : y[i] = x[i]
      /\ Len(w) = l + 1 /\ w[l + 1] = n /\ y # <<>>
  BY <1>1, AppendProperties
<1>3. \A i \in 1 .. k : x[i] \in Nat /\ x[i] < n
  <2>1. \A i \in 1 .. k : x[i] \in S
    BY <1>1
  <2> QED
    BY <1>1, <2>1 DEF Fits
<1>4. \A i \in 1 .. k + 1 : i \in 1 .. k \/ i = k + 1
  OBVIOUS
<1> HIDE DEF y, w
<1>5. \A i, j \in 1 .. k + 1 : i < j => y[i] < y[j]
  <2> SUFFICES ASSUME NEW i \in 1 .. k + 1, NEW j \in 1 .. k + 1, i < j PROVE y[i] < y[j]
    OBVIOUS
  <2>1. i \in 1 .. k
    OBVIOUS
  <2>2. CASE j = k + 1
    BY <1>2, <1>3, <2>1, <2>2
  <2>3. CASE j \in 1 .. k
    BY <1>1, <1>2, <2>1, <2>3 DEF Fits
  <2> QED
    BY <1>4, <2>2, <2>3
<1>6. \A i \in 1 .. k + 1 : y[i] <= n
  BY <1>2, <1>3, <1>4
<1>7. Last(y) = Last(w)
  BY <1>2 DEF Last
<1>8. alive => l + 1 = (k + 1) + d
  BY <1>1 DEF Fits
<1>9. Fits(y, w, d, n, FALSE, alive)
  BY <1>2, <1>5, <1>6, <1>7, <1>8 DEF Fits
<1> QED
  BY <1>9 DEF y, w

(* A push begins, and what all the listeners have is older.                *)
LEMMA FitsPushed ==
  ASSUME NEW S \in SUBSET Nat, NEW x \in Seq(S), NEW o, NEW d, NEW n \in Nat,
         NEW due, NEW then, NEW alive, Fits(x, o, d, n, due, alive)
  PROVE  Fits(x, o, d, n + 1, then, alive)
<1>1. \A i \in 1 .. Len(x) : x[i] \in Nat /\ x[i] <= n
  <2>1. \A i \in 1 .. Len(x) : x[i] \in S
    OBVIOUS
  <2> QED
    BY <2>1 DEF Fits
<1>2. \A i \in 1 .. Len(x) : x[i] <= n + 1 /\ x[i] < n + 1
  BY <1>1
<1> QED
  BY <1>2 DEF Fits

(* A queue that is full drops one payload that is not the newest.          *)
LEMMA FitsDropped ==
  ASSUME NEW S \in SUBSET Nat, NEW x \in Seq(S), NEW o \in Seq(S), NEW d \in Nat, NEW n \in Nat,
         NEW due, NEW alive, NEW k \in DOMAIN x, k < Len(x),
         Fits(x, o, d, n, due, alive)
  PROVE  Fits(RemoveAt(x, k), o, d + 1, n, due, alive)
<1>1. PICK m \in Nat : m = Len(x) /\ k \in 1 .. m /\ k < m
  BY LenProperties
<1> DEFINE y == RemoveAt(x, k)
           at(i) == IF i <= k - 1 THEN i ELSE i + 1
<1>2. y \in Seq(S) /\ Len(y) = m - 1 /\ \A i \in 1 .. m - 1 : y[i] = x[at(i)]
  BY <1>1, RemoveAtIndex
<1>3. /\ \A i \in 1 .. m - 1 : at(i) \in 1 .. m
      /\ \A i, j \in 1 .. m - 1 : i < j => at(i) < at(j)
      /\ m - 1 \in 1 .. m - 1 /\ at(m - 1) = m
  BY <1>1
<1> HIDE DEF y, at
<1>4. /\ \A i, j \in 1 .. m - 1 : i < j => y[i] < y[j]
      /\ \A i \in 1 .. m - 1 : y[i] <= n /\ (due => y[i] < n)
  BY <1>1, <1>2, <1>3 DEF Fits
<1>5. y # <<>> /\ Last(y) = Last(x)
  <2>1. m - 1 # 0
    BY <1>1
  <2>2. y # <<>>
    BY <1>2, <2>1, EmptySeq
  <2> QED
    BY <1>1, <1>2, <1>3, <2>2 DEF Last
<1>6. alive => Len(o) = (m - 1) + (d + 1)
  <2>1. alive => Len(o) = m + d
    BY <1>1 DEF Fits
  <2> QED
    BY <2>1
<1>7. Fits(y, o, d + 1, n, due, alive)
  BY <1>2, <1>4, <1>5, <1>6 DEF Fits
<1> QED
  BY <1>7 DEF y

-----------------------------------------------------------------------------
(* The inductive invariant, in three parts. A push goes through the rest   *)
(* of one event's subscribers, none of them twice, and nobody subscribes   *)
(* or leaves under it.                                                     *)
Subscribed == {"direct", "receiving", "sending", "leaving", "dead"}

LockConj ==
  /\ lock = None => rest = <<>>
  /\ rest # <<>> => pushed \in Payloads /\ \E e \in Events : IsRest(rest, subscribers[e])
  /\ \A e \in Events : NoRepeat(subscribers[e])
  /\ \A e \in Events : \A s \in ToSet(subscribers[e]) : EventOf[s] = e /\ handler[s] \in Subscribed

(* Each listener has what fits (Fits); what was called within the push     *)
(* was never queued; who has not subscribed was given nothing.             *)
Streaming(s) ==
  /\ Fits(Stream(s), offered[s], dropped[s], pushed, s \in ToSet(rest), handler[s] # "dead")
  /\ s \in Direct => /\ handler[s] \in {"off", "subscribing", "direct"}
                     /\ queue[s] = <<>> /\ posted[s] = <<>>
  /\ handler[s] \in {"off", "subscribing"} => offered[s] = <<>>

StreamConj == \A s \in Listeners : Streaming(s)

(* What a listener will have been given when the push under way is over:   *)
(* all subscribers of an event are told the same, from the later           *)
(* subscription on, although the push gives it to one after the other.     *)
Will(s) == IF s \in ToSet(rest) THEN Append(offered[s], pushed) ELSE offered[s]

SameConj ==
  ~raised => \A e \in Events : \A i, j \in 1 .. Len(subscribers[e]) :
               i < j => IsRest(Will(subscribers[e][j]), Will(subscribers[e][i]))

BusInv == TypeOK /\ LockConj /\ StreamConj /\ SameConj

(* The listener that Deliver is about to call has subscribed.              *)
LEMMA Due ==
  ASSUME TypeOK, LockConj, rest # <<>>
  PROVE  /\ Head(rest) \in Listeners /\ handler[Head(rest)] \in Subscribed
         /\ Tail(rest) \in Seq(Listeners) /\ ToSet(Tail(rest)) = ToSet(rest) \ {Head(rest)}
         /\ Head(rest) \in ToSet(rest)
         /\ \E e \in Events : IsRest(Tail(rest), subscribers[e])
<1>1. rest \in Seq(Listeners) /\ \A e \in Events : subscribers[e] \in Seq(Listeners)
  BY DEF TypeOK
<1>2. PICK e \in Events : IsRest(rest, subscribers[e])
  BY DEF LockConj
<1>3. NoRepeat(rest) /\ ToSet(rest) \subseteq ToSet(subscribers[e])
  BY <1>1, <1>2, RestOf DEF LockConj
<1>4. /\ Head(rest) \in ToSet(rest) /\ Head(rest) \in Listeners /\ Tail(rest) \in Seq(Listeners)
      /\ ToSet(Tail(rest)) = ToSet(rest) \ {Head(rest)}
  BY <1>1, <1>3, TailOf
<1>5. handler[Head(rest)] \in Subscribed
  BY <1>3, <1>4 DEF LockConj
<1>6. IsRest(Tail(rest), subscribers[e])
  BY <1>1, <1>2, RestTail
<1> QED
  BY <1>4, <1>5, <1>6

LEMMA TypeNext == TypeOK /\ LockConj /\ [Next]_vars => TypeOK'
<1> SUFFICES ASSUME TypeOK, LockConj, [Next]_vars PROVE TypeOK'
  OBVIOUS
<1> USE ConstantsAssumption DEF TypeOK
<1>1. ASSUME NEW p \in Pushers, NEW e \in Events, Push(p, e) PROVE TypeOK'
  BY <1>1 DEF Push
<1>2. ASSUME NEW p \in Pushers, Deliver(p) PROVE TypeOK'
  <2>1. PICK s \in Listeners : s = Head(rest)
    BY <1>2, Due DEF Deliver
  <2>2. pushed \in Payloads
    BY <1>2 DEF Deliver, LockConj
  <2>3. /\ offered' = [offered EXCEPT ![s] = Append(offered[s], pushed)]
        /\ got' = [got EXCEPT ![s] = Append(got[s], pushed)] \/ got' = got
        /\ posted' = [posted EXCEPT ![s] = Append(posted[s], pushed)] \/ posted' = posted
        /\ rest' = Tail(rest)
        /\ UNCHANGED <<lock, subscribers, pushed, handler, queue, dropped, left, raised>>
    BY <1>2, <2>1 DEF Deliver
  <2>4. rest' \in Seq(Listeners)
    BY <1>2, <2>3, Due DEF Deliver
  <2>5. offered' \in [Listeners -> Seq(Payloads)]
    BY <2>2, <2>3
  <2>6. got' \in [Listeners -> Seq(Payloads)]
    <3>1. CASE got' = got
      BY <3>1
    <3>2. CASE got' = [got EXCEPT ![s] = Append(got[s], pushed)]
      BY <2>2, <3>2
    <3> QED
      BY <2>3, <3>1, <3>2
  <2>7. posted' \in [Listeners -> Seq(Payloads)]
    <3>1. CASE posted' = posted
      BY <3>1
    <3>2. CASE posted' = [posted EXCEPT ![s] = Append(posted[s], pushed)]
      BY <2>2, <3>2
    <3> QED
      BY <2>3, <3>1, <3>2
  <2> QED
    BY <2>3, <2>4, <2>5, <2>6, <2>7
<1>3. ASSUME NEW p \in Pushers, CallbackRaises(p) \/ PushReturns(p) PROVE TypeOK'
  <2>1. rest' \in Seq(Listeners)
    <3>1. rest' = <<>> \/ rest' = rest
      BY <1>3, Zenon DEF CallbackRaises, PushReturns
    <3>2. <<>> \in Seq(Listeners)
      OBVIOUS
    <3> QED
      BY <3>1, <3>2
  <2>2. lock' = None /\ (raised' = TRUE \/ raised' = raised)
    BY <1>3, Zenon DEF CallbackRaises, PushReturns
  <2>3. UNCHANGED <<subscribers, pushed, handler, posted, queue, dropped, left, offered, got>>
    BY <1>3 DEF CallbackRaises, PushReturns
  <2> QED
    BY <2>1, <2>2, <2>3
<1>4. ASSUME NEW s \in Listeners, EventFor(s) PROVE TypeOK'
  BY <1>4 DEF EventFor, HandlerAt, bus
<1>5. ASSUME NEW s \in Listeners, Subscribe(s) PROVE TypeOK'
  BY <1>5 DEF Subscribe, HandlerAt
<1>6. ASSUME NEW s \in Listeners, Handle(s) PROVE TypeOK'
  <2>1. /\ Head(posted[s]) \in Payloads /\ Tail(posted[s]) \in Seq(Payloads)
        /\ queue[s] \in Seq(Payloads) /\ Len(queue[s]) <= MaxSize
    BY <1>6 DEF Handle
  <2>2. DropOldest(queue[s], Head(posted[s])) \in Seq(Payloads) /\ Len(DropOldest(queue[s], Head(posted[s]))) <= MaxSize
    <3>1. CASE Len(queue[s]) = MaxSize
      BY <2>1, <3>1 DEF DropOldest
    <3>2. CASE Len(queue[s]) # MaxSize
      BY <2>1, <3>2 DEF DropOldest
    <3> QED
      BY <3>1, <3>2
  <2>3. /\ posted' = [posted EXCEPT ![s] = Tail(posted[s])]
        /\ queue' = [queue EXCEPT ![s] = DropOldest(queue[s], Head(posted[s]))]
        /\ dropped' = [dropped EXCEPT ![s] = dropped[s] + 1] \/ dropped' = dropped
        /\ UNCHANGED <<lock, subscribers, rest, pushed, handler, left, offered, got, raised>>
    BY <1>6 DEF Handle, bus
  <2>4. posted' \in [Listeners -> Seq(Payloads)]
    BY <2>1, <2>3
  <2>6. dropped' \in [Listeners -> Nat]
    <3>1. CASE dropped' = dropped
      BY <3>1
    <3>2. CASE dropped' = [dropped EXCEPT ![s] = dropped[s] + 1]
      BY <3>2
    <3> QED
      BY <2>3, <3>1, <3>2
  <2>5. queue' \in [Listeners -> Seq(Payloads)] /\ \A l \in Listeners : Len(queue'[l]) <= MaxSize
    BY <2>2, <2>3
  <2> QED
    BY <2>3, <2>4, <2>5, <2>6
<1>7. ASSUME NEW s \in Listeners, Receive(s) PROVE TypeOK'
  <2>1. /\ Head(queue[s]) \in Payloads /\ Tail(queue[s]) \in Seq(Payloads)
        /\ Len(Tail(queue[s])) <= MaxSize
    BY <1>7 DEF Receive
  <2>2. /\ got' = [got EXCEPT ![s] = Append(got[s], Head(queue[s]))]
        /\ queue' = [queue EXCEPT ![s] = Tail(queue[s])]
        /\ handler' = [handler EXCEPT ![s] = "sending"]
        /\ UNCHANGED <<lock, subscribers, rest, pushed, posted, dropped, left, offered, raised>>
    BY <1>7 DEF Receive, HandlerAt, bus
  <2>3. got' \in [Listeners -> Seq(Payloads)] /\ queue' \in [Listeners -> Seq(Payloads)]
    BY <2>1, <2>2
  <2>4. \A l \in Listeners : Len(queue'[l]) <= MaxSize
    BY <2>1, <2>2
  <2> QED
    BY <2>2, <2>3, <2>4
<1>8. ASSUME NEW s \in Listeners, Sent(s) \/ ReceiveTimesOut(s) \/ LoopDies(s) \/ Leave(s) PROVE TypeOK'
  BY <1>8 DEF Sent, ReceiveTimesOut, LoopDies, Leave, HandlerAt, bus
<1>9. ASSUME NEW s \in Listeners, Unsubscribe(s) PROVE TypeOK'
  <2>1. subscribers[EventOf[s]] \in Seq(Listeners) /\ NoRepeat(subscribers[EventOf[s]])
    BY DEF LockConj
  <2>2. RemoveFirst(subscribers[EventOf[s]], s) \in Seq(Listeners)
    <3> DEFINE q == subscribers[EventOf[s]]
    <3> HIDE DEF q
    <3>1. ASSUME NEW k \in DOMAIN q PROVE RemoveAt(q, k) \in Seq(Listeners)
      BY <2>1, RemoveAtIndex DEF q
    <3>2. RemoveFirst(q, s) = q \/ \E k \in DOMAIN q : RemoveFirst(q, s) = RemoveAt(q, k)
      BY <2>1, RemoveFirstIsRemoveAt DEF q
    <3> QED
      BY <2>1, <3>1, <3>2 DEF q
  <2>3. /\ subscribers' = [subscribers EXCEPT ![EventOf[s]] = RemoveFirst(subscribers[EventOf[s]], s)]
        /\ handler' = [handler EXCEPT ![s] = "gone"]
        /\ UNCHANGED <<lock, rest, pushed, posted, queue, dropped, left, offered, got, raised>>
    BY <1>9 DEF Unsubscribe, HandlerAt
  <2>4. subscribers' \in [Events -> Seq(Listeners)]
    BY <2>2, <2>3
  <2> QED
    BY <2>3, <2>4
<1>10. CASE UNCHANGED vars
  BY <1>10 DEF vars
<1> QED
  BY <1>1, <1>2, <1>3, <1>4, <1>5, <1>6, <1>7, <1>8, <1>9, <1>10 DEF Next, Pushing, Listening

-----------------------------------------------------------------------------
(* A handler that moves on among the states of a subscriber keeps          *)
(* LockConj.                                                               *)
LEMMA LockHandler ==
  ASSUME TypeOK, LockConj, UNCHANGED bus,
         \A s \in Listeners : handler[s] \in Subscribed => handler'[s] \in Subscribed
  PROVE  LockConj'
<1>1. \A e \in Events : ToSet(subscribers[e]) \subseteq Listeners
  BY DEF TypeOK, ToSet
<1> QED
  BY <1>1 DEF LockConj, bus

(* The lock keeps the fan-out and the subscriptions apart.                 *)
LEMMA LockNext == TypeOK /\ LockConj /\ [Next]_vars => LockConj'
<1> SUFFICES ASSUME TypeOK, LockConj, [Next]_vars PROVE LockConj'
  OBVIOUS
<1>0. \A e \in Events : subscribers[e] \in Seq(Listeners) /\ ToSet(subscribers[e]) \subseteq Listeners
  BY DEF TypeOK, ToSet
<1>1. ASSUME NEW p \in Pushers, NEW e \in Events, Push(p, e) PROVE LockConj'
  <2>1. lock' # None /\ pushed' \in Payloads /\ IsRest(rest', subscribers'[e])
    BY <1>0, <1>1, ConstantsAssumption, RestOfItself DEF Push, TypeOK, Payloads
  <2>2. UNCHANGED <<subscribers, handler>>
    BY <1>1 DEF Push
  <2> QED
    BY <2>1, <2>2 DEF LockConj
<1>2. ASSUME NEW p \in Pushers, Deliver(p) PROVE LockConj'
  <2>1. rest # <<>> /\ lock' # None /\ rest' = Tail(rest) /\ UNCHANGED <<subscribers, handler, pushed>>
    BY <1>2, ConstantsAssumption DEF Deliver
  <2>2. PICK e \in Events : IsRest(Tail(rest), subscribers[e])
    BY <2>1, Due
  <2> QED
    BY <2>1, <2>2 DEF LockConj
<1>3. ASSUME NEW p \in Pushers, CallbackRaises(p) \/ PushReturns(p) PROVE LockConj'
  <2>1. rest' = <<>> /\ UNCHANGED <<subscribers, handler>>
    BY <1>3, Zenon DEF CallbackRaises, PushReturns
  <2> QED
    BY <2>1 DEF LockConj
<1>4. ASSUME NEW s \in Listeners, EventFor(s) \/ Sent(s) \/ Receive(s) \/ ReceiveTimesOut(s) \/ LoopDies(s)
      PROVE  LockConj'
  <2>1. UNCHANGED bus
    BY <1>4 DEF EventFor, Sent, Receive, ReceiveTimesOut, LoopDies
  <2>2. \A l \in Listeners : handler[l] \in Subscribed => handler'[l] \in Subscribed
    BY <1>4 DEF EventFor, Sent, Receive, ReceiveTimesOut, LoopDies, HandlerAt, Subscribed, TypeOK
  <2> QED
    BY <2>1, <2>2, LockHandler
<1>5. ASSUME NEW s \in Listeners, Handle(s) \/ Leave(s) PROVE LockConj'
  BY <1>5, LockHandler DEF Handle, Leave
<1>6. ASSUME NEW s \in Listeners, Subscribe(s) PROVE LockConj'
  <2> DEFINE e == EventOf[s]  q == subscribers[e]
  <2>1. e \in Events /\ q \in Seq(Listeners) /\ NoRepeat(q) /\ s \notin ToSet(q)
    <3>1. handler[s] \notin Subscribed
      BY <1>6 DEF Subscribe, HandlerAt, Subscribed
    <3> QED
      BY <1>0, <3>1, ConstantsAssumption DEF LockConj
  <2>2. /\ subscribers' = [subscribers EXCEPT ![e] = Append(q, s)]
        /\ UNCHANGED <<lock, rest, pushed>>
    BY <1>6, <2>1 DEF Subscribe
  <2>3. NoRepeat(Append(q, s)) /\ ToSet(Append(q, s)) = ToSet(q) \cup {s}
    BY <2>1, AppendFacts
  <2>4. /\ handler'[s] \in Subscribed
        /\ \A l \in Listeners : handler[l] \in Subscribed => handler'[l] \in Subscribed
    BY <1>6 DEF Subscribe, HandlerAt, Subscribed, TypeOK
  <2>5. subscribers'[e] = Append(q, s) /\ \A f \in Events \ {e} : subscribers'[f] = subscribers[f]
    BY <2>1, <2>2 DEF TypeOK
  <2>6. rest = <<>> /\ rest' = <<>>
    BY <1>6 DEF Subscribe, LockConj
  <2> HIDE DEF q
  <2>7. \A f \in Events : NoRepeat(subscribers'[f])
    BY <2>3, <2>5 DEF LockConj
  <2>8. ASSUME NEW f \in Events, NEW l \in ToSet(subscribers'[f])
        PROVE  EventOf[l] = f /\ handler'[l] \in Subscribed
    <3>1. CASE l \in ToSet(subscribers[f])
      BY <1>0, <2>4, <3>1 DEF LockConj
    <3>2. CASE l = s /\ f = e
      BY <2>4, <3>2
    <3> QED
      BY <2>3, <2>5, <3>1, <3>2 DEF q
  <2> QED
    BY <2>2, <2>6, <2>7, <2>8 DEF LockConj
<1>7. ASSUME NEW s \in Listeners, Unsubscribe(s) PROVE LockConj'
  <2> DEFINE e == EventOf[s]  q == subscribers[e]  r == RemoveFirst(q, s)
  <2>1. e \in Events /\ q \in Seq(Listeners) /\ NoRepeat(q)
    BY <1>0, ConstantsAssumption DEF LockConj
  <2>2. NoRepeat(r) /\ ToSet(r) = ToSet(q) \ {s}
    BY <2>1, RemoveFirstFacts
  <2>3. subscribers' = [subscribers EXCEPT ![e] = r] /\ UNCHANGED <<lock, rest, pushed>>
    BY <1>7 DEF Unsubscribe
  <2>4. subscribers'[e] = r /\ \A f \in Events \ {e} : subscribers'[f] = subscribers[f]
    BY <2>1, <2>3 DEF TypeOK
  <2>5. rest = <<>> /\ rest' = <<>>
    BY <1>7 DEF Unsubscribe, LockConj
  <2>6. \A l \in Listeners \ {s} : handler'[l] = handler[l]
    BY <1>7 DEF Unsubscribe, HandlerAt, TypeOK
  <2> HIDE DEF r
  <2>7. \A f \in Events : NoRepeat(subscribers'[f])
    BY <2>2, <2>4 DEF LockConj
  <2>8. ASSUME NEW f \in Events, NEW l \in ToSet(subscribers'[f])
        PROVE  EventOf[l] = f /\ handler'[l] \in Subscribed
    <3>1. l \in ToSet(subscribers[f]) /\ l # s
      <4>1. CASE f = e
        BY <2>2, <2>4, <4>1
      <4>2. CASE f # e
        <5>1. l \in ToSet(subscribers[f])
          BY <2>4, <4>2
        <5>2. EventOf[l] = f
          BY <5>1 DEF LockConj
        <5> QED
          BY <4>2, <5>1, <5>2
      <4> QED
        BY <4>1, <4>2
    <3> QED
      BY <1>0, <2>6, <3>1 DEF LockConj
  <2> QED
    BY <2>3, <2>5, <2>7, <2>8 DEF LockConj
<1>8. CASE UNCHANGED vars
  BY <1>8, LockHandler DEF vars, bus
<1> QED
  BY <1>1, <1>2, <1>3, <1>4, <1>5, <1>6, <1>7, <1>8 DEF Next, Pushing, Listening

-----------------------------------------------------------------------------
(* Stream(s) in terms of Joined, and its types.                            *)
LEMMA StreamIs == \A s \in Listeners : /\ Stream(s) = Joined(got[s], queue[s], posted[s])
                                      /\ Stream(s)' = Joined(got'[s], queue'[s], posted'[s])
  BY DEF Stream, Joined

LEMMA StreamTypes ==
  ASSUME TypeOK, NEW s \in Listeners
  PROVE  /\ got[s] \in Seq(Payloads) /\ queue[s] \in Seq(Payloads) /\ posted[s] \in Seq(Payloads)
         /\ Stream(s) \in Seq(Payloads) /\ offered[s] \in Seq(Payloads)
         /\ dropped[s] \in Nat /\ pushed \in Nat /\ Payloads \in SUBSET Nat
         /\ Len(queue[s]) <= MaxSize
<1>1. /\ got[s] \in Seq(Payloads) /\ queue[s] \in Seq(Payloads) /\ posted[s] \in Seq(Payloads)
      /\ offered[s] \in Seq(Payloads) /\ Len(queue[s]) <= MaxSize
      /\ dropped[s] \in Nat /\ pushed \in Nat
  BY ConstantsAssumption DEF TypeOK
<1>2. Stream(s) \in Seq(Payloads)
  <2>1. PICK g \in Seq(Payloads), q \in Seq(Payloads), w \in Seq(Payloads) :
          g = got[s] /\ q = queue[s] /\ w = posted[s]
    BY <1>1
  <2>2. Joined(g, q, w) \in Seq(Payloads)
    BY JoinedFacts
  <2> QED
    BY <2>1, <2>2, StreamIs
<1>3. Payloads \in SUBSET Nat
  BY ConstantsAssumption DEF Payloads
<1> QED
  BY <1>1, <1>2, <1>3

(* A step that leaves a listener as it is keeps what fits.                 *)
LEMMA StreamKept ==
  ASSUME NEW s \in Listeners, Streaming(s), got'[s] = got[s], queue'[s] = queue[s], posted'[s] = posted[s],
         offered'[s] = offered[s], dropped'[s] = dropped[s], pushed' = pushed,
         s \in ToSet(rest') => s \in ToSet(rest),
         handler[s] = "dead" => handler'[s] = "dead",
         s \in Direct => handler'[s] \in {"off", "subscribing", "direct"},
         handler'[s] \in {"off", "subscribing"} => handler[s] \in {"off", "subscribing"}
  PROVE  Streaming(s)'
<1>1. Stream(s)' = Stream(s)
  BY DEF Stream
<1>2. Fits(Stream(s), offered[s], dropped[s], pushed, s \in ToSet(rest'), handler'[s] # "dead")
  BY DEF Streaming, Fits
<1> QED
  BY <1>1, <1>2 DEF Streaming

LEMMA StreamPush ==
  ASSUME TypeOK, StreamConj, NEW p \in Pushers, NEW e \in Events, Push(p, e), NEW s \in Listeners
  PROVE  Streaming(s)'
<1>1. pushed' = pushed + 1 /\ UNCHANGED <<got, queue, posted, offered, dropped, handler>>
  BY DEF Push
<1>2. Fits(Stream(s), offered[s], dropped[s], pushed + 1, s \in ToSet(rest'), handler[s] # "dead")
  BY StreamTypes, FitsPushed DEF StreamConj, Streaming
<1>3. Stream(s)' = Stream(s)
  BY <1>1 DEF Stream
<1> QED
  BY <1>1, <1>2, <1>3 DEF StreamConj, Streaming

LEMMA StreamDeliver ==
  ASSUME TypeOK, LockConj, StreamConj, NEW p \in Pushers, Deliver(p), NEW l \in Listeners
  PROVE  Streaming(l)'
<1>0. rest # <<>>
  BY DEF Deliver
<1>1. PICK s \in Listeners : s = Head(rest)
  BY <1>0, Due
<1>2. /\ s \in ToSet(rest) /\ handler[s] \in Subscribed /\ ToSet(rest') = ToSet(rest) \ {s}
      /\ pushed \in Payloads
  BY <1>0, <1>1, Due DEF Deliver, LockConj
<1>3. /\ offered' = [offered EXCEPT ![s] = Append(offered[s], pushed)]
      /\ got' = IF s \in Direct THEN [got EXCEPT ![s] = Append(got[s], pushed)] ELSE got
      /\ posted' = IF s \in Direct \/ handler[s] = "dead" THEN posted
                   ELSE [posted EXCEPT ![s] = Append(posted[s], pushed)]
      /\ UNCHANGED <<pushed, handler, queue, dropped>>
  BY <1>1 DEF Deliver
<1>4. CASE l # s
  <2>1. got'[l] = got[l] /\ posted'[l] = posted[l] /\ offered'[l] = offered[l]
    BY <1>3, <1>4 DEF TypeOK
  <2> QED
    BY <1>2, <1>3, <2>1, StreamKept DEF StreamConj, Streaming
<1>5. ASSUME l = s PROVE Streaming(s)'
  <2>1. offered'[s] = Append(offered[s], pushed)
    BY <1>3 DEF TypeOK
  <2>2. ~(s \in ToSet(rest'))
    BY <1>2
  <2>3. Fits(Stream(s), offered[s], dropped[s], pushed, TRUE, handler[s] # "dead")
    BY <1>2 DEF StreamConj, Streaming
  <2>4. Fits(Append(Stream(s), pushed), Append(offered[s], pushed), dropped[s], pushed, FALSE, handler[s] # "dead")
    BY <1>2, <2>3, StreamTypes, FitsOffered
  <2>5. CASE s \in Direct
    <3>1. got'[s] = Append(got[s], pushed) /\ posted'[s] = <<>> /\ queue'[s] = <<>> /\ queue[s] = <<>> /\ posted[s] = <<>>
      BY <1>3, <2>5 DEF StreamConj, Streaming, TypeOK
    <3>2. got[s] \in Seq(Payloads) /\ got'[s] \in Seq(Payloads)
      BY <1>2, <3>1, StreamTypes, AppendProperties
    <3>3. Stream(s) = got[s] /\ Stream(s)' = Append(got[s], pushed)
      <4>1. PICK z \in Seq(Payloads) : z = <<>>
        BY <3>1, StreamTypes
      <4>2. ASSUME NEW g \in Seq(Payloads) PROVE Joined(g, z, z) = g
        BY <4>1, JoinedFacts
      <4> QED
        BY <3>1, <3>2, <4>1, <4>2, StreamIs
    <3>4. handler'[s] = "direct"
      BY <1>2, <1>3, <2>5 DEF StreamConj, Streaming, Subscribed
    <3>5. Fits(Stream(s)', offered'[s], dropped'[s], pushed', s \in ToSet(rest'), handler'[s] # "dead")
      BY <1>3, <2>1, <2>2, <2>4, <3>3 DEF Fits
    <3> QED
      BY <3>1, <3>4, <3>5 DEF Streaming
  <2>6. CASE s \notin Direct /\ handler[s] = "dead"
    <3>1. Stream(s)' = Stream(s)
      BY <1>3, <2>6 DEF Stream
    <3>2. Fits(Stream(s), offered'[s], dropped[s], pushed, FALSE, FALSE)
      BY <2>3 DEF Fits
    <3>3. Fits(Stream(s)', offered'[s], dropped'[s], pushed', s \in ToSet(rest'), handler'[s] # "dead")
      BY <1>3, <2>2, <2>6, <3>1, <3>2 DEF Fits
    <3> QED
      BY <1>3, <2>6, <3>3 DEF Streaming
  <2>7. CASE s \notin Direct /\ handler[s] # "dead"
    <3>1. posted'[s] = Append(posted[s], pushed) /\ got'[s] = got[s] /\ queue'[s] = queue[s]
      BY <1>3, <2>7 DEF TypeOK
    <3>2. Stream(s)' = Append(Stream(s), pushed)
      <4>1. PICK g \in Seq(Payloads), q \in Seq(Payloads), w \in Seq(Payloads), n \in Payloads :
              g = got[s] /\ q = queue[s] /\ w = posted[s] /\ n = pushed
        BY <1>2, StreamTypes
      <4>2. Joined(g, q, Append(w, n)) = Append(Joined(g, q, w), n)
        BY JoinedAppend
      <4> QED
        BY <3>1, <4>1, <4>2, StreamIs
    <3>3. Fits(Stream(s)', offered'[s], dropped'[s], pushed', s \in ToSet(rest'), handler'[s] # "dead")
      BY <1>3, <2>1, <2>2, <2>4, <3>2 DEF Fits
    <3>4. handler'[s] \notin {"off", "subscribing"}
      BY <1>2, <1>3 DEF Subscribed
    <3> QED
      BY <2>7, <3>3, <3>4 DEF Streaming
  <2> QED
    BY <2>5, <2>6, <2>7
<1> QED
  BY <1>4, <1>5

LEMMA StreamHandled ==
  ASSUME TypeOK, StreamConj, NEW s \in Listeners, Handle(s), NEW l \in Listeners
  PROVE  Streaming(l)'
<1>1. /\ posted[s] # <<>> /\ handler[s] # "dead"
      /\ posted' = [posted EXCEPT ![s] = Tail(posted[s])]
      /\ queue' = [queue EXCEPT ![s] = DropOldest(queue[s], Head(posted[s]))]
      /\ dropped' = [dropped EXCEPT ![s] = IF Len(queue[s]) = MaxSize THEN dropped[s] + 1 ELSE dropped[s]]
      /\ UNCHANGED <<rest, pushed, handler, offered, got>>
  BY DEF Handle, bus
<1>2. CASE l # s
  <2>1. queue'[l] = queue[l] /\ posted'[l] = posted[l] /\ dropped'[l] = dropped[l]
    BY <1>1, <1>2 DEF TypeOK
  <2> QED
    BY <1>1, <2>1, StreamKept DEF StreamConj, Streaming
<1>3. Streaming(s)'
  <2>1. PICK g \in Seq(Payloads), q \in Seq(Payloads), w \in Seq(Payloads) :
          g = got[s] /\ q = queue[s] /\ w = posted[s] /\ w # <<>>
    BY <1>1, StreamTypes
  <2> DEFINE x == Joined(g, q, w)
  <2>2. Stream(s) = x /\ x \in Seq(Payloads)
    BY <2>1, StreamTypes, StreamIs
  <2>3. s \notin Direct
    BY <1>1 DEF StreamConj, Streaming
  <2>4. /\ got'[s] = g /\ posted'[s] = Tail(w) /\ queue'[s] = DropOldest(q, Head(w))
        /\ Head(w) \in Payloads /\ Tail(w) \in Seq(Payloads)
    BY <1>1, <2>1 DEF TypeOK
  <2>5. Fits(x, offered[s], dropped[s], pushed, s \in ToSet(rest), TRUE)
    BY <1>1, <2>2 DEF StreamConj, Streaming, Fits
  <2>6. ASSUME Fits(Stream(s)', offered[s], dropped'[s], pushed, s \in ToSet(rest), TRUE)
        PROVE  Streaming(s)'
    <3>1. Fits(Stream(s)', offered'[s], dropped'[s], pushed', s \in ToSet(rest'), handler'[s] # "dead")
      BY <1>1, <2>6 DEF Fits
    <3> QED
      BY <1>1, <2>3, <3>1 DEF StreamConj, Streaming
  <2>7. CASE Len(q) # MaxSize
    <3>1. DropOldest(q, Head(w)) = Append(q, Head(w))
      BY <2>7 DEF DropOldest
    <3>2. Joined(g, Append(q, Head(w)), Tail(w)) = x
      BY <2>1, JoinedPassed
    <3>3. Stream(s)' = x
      BY <2>4, <3>1, <3>2, StreamIs
    <3>4. dropped'[s] = dropped[s]
      BY <1>1, <2>1, <2>7 DEF TypeOK
    <3> QED
      BY <2>5, <2>6, <3>3, <3>4
  <2>8. CASE Len(q) = MaxSize
    <3>1. q # <<>> /\ DropOldest(q, Head(w)) = Append(Tail(q), Head(w)) /\ Tail(q) \in Seq(Payloads)
      BY <2>8, ConstantsAssumption DEF DropOldest
    <3>2. PICK t \in Seq(Payloads) : t = Tail(q)
      BY <3>1
    <3>3. Joined(g, Append(t, Head(w)), Tail(w)) = Joined(g, t, w)
      BY <2>1, JoinedPassed
    <3>4. Joined(g, Tail(q), w) = RemoveAt(x, Len(g) + 1) /\ Len(g) + 1 \in DOMAIN x
      BY <3>1, JoinedDropped
    <3>5. Stream(s)' = RemoveAt(x, Len(g) + 1)
      BY <2>4, <3>1, <3>2, <3>3, <3>4, StreamIs
    <3>6. Len(g) + 1 < Len(x)
      <4>1. Len(x) = (Len(g) + Len(q)) + Len(w)
        BY JoinedFacts
      <4>2. Len(g) \in Nat /\ Len(q) \in Nat \ {0} /\ Len(w) \in Nat \ {0}
        BY <2>1, <3>1, EmptySeq
      <4> QED
        BY <4>1, <4>2
    <3>7. dropped'[s] = dropped[s] + 1
      BY <1>1, <2>1, <2>8 DEF TypeOK
    <3>8. Fits(RemoveAt(x, Len(g) + 1), offered[s], dropped[s] + 1, pushed, s \in ToSet(rest), TRUE)
      <4>1. /\ offered[s] \in Seq(Payloads) /\ dropped[s] \in Nat /\ pushed \in Nat /\ Payloads \in SUBSET Nat
        BY StreamTypes
      <4> HIDE DEF x
      <4>2. PICK k \in DOMAIN x : k = Len(g) + 1 /\ k < Len(x)
        BY <3>4, <3>6
      <4>3. Fits(RemoveAt(x, k), offered[s], dropped[s] + 1, pushed, s \in ToSet(rest), TRUE)
        BY <2>2, <2>5, <4>1, <4>2, FitsDropped
      <4> QED
        BY <4>2, <4>3
    <3> QED
      BY <2>6, <3>5, <3>7, <3>8
  <2> QED
    BY <2>7, <2>8
<1> QED
  BY <1>2, <1>3

LEMMA StreamReceived ==
  ASSUME TypeOK, StreamConj, NEW s \in Listeners, Receive(s), NEW l \in Listeners
  PROVE  Streaming(l)'
<1>1. /\ queue[s] # <<>> /\ handler[s] = "receiving" /\ handler' = [handler EXCEPT ![s] = "sending"]
      /\ got' = [got EXCEPT ![s] = Append(got[s], Head(queue[s]))]
      /\ queue' = [queue EXCEPT ![s] = Tail(queue[s])]
      /\ UNCHANGED <<rest, pushed, posted, dropped, offered>>
  BY DEF Receive, HandlerAt, bus
<1>2. CASE l # s
  <2>1. queue'[l] = queue[l] /\ got'[l] = got[l] /\ handler'[l] = handler[l]
    BY <1>1, <1>2 DEF TypeOK
  <2> QED
    BY <1>1, <2>1, StreamKept DEF StreamConj, Streaming
<1>3. Streaming(s)'
  <2>1. PICK g \in Seq(Payloads), q \in Seq(Payloads), w \in Seq(Payloads) :
          g = got[s] /\ q = queue[s] /\ w = posted[s] /\ q # <<>>
    BY <1>1, StreamTypes
  <2>2. got'[s] = Append(g, Head(q)) /\ queue'[s] = Tail(q) /\ handler'[s] = "sending"
    BY <1>1, <2>1 DEF TypeOK
  <2>3. Joined(Append(g, Head(q)), Tail(q), w) = Joined(g, q, w)
    BY <2>1, JoinedTaken
  <2>4. Stream(s)' = Stream(s)
    BY <1>1, <2>1, <2>2, <2>3, StreamIs
  <2>5. s \notin Direct
    BY <1>1 DEF StreamConj, Streaming
  <2>6. Fits(Stream(s)', offered'[s], dropped'[s], pushed', s \in ToSet(rest'), handler'[s] # "dead")
    BY <1>1, <2>2, <2>4 DEF StreamConj, Streaming, Fits
  <2> QED
    BY <2>2, <2>5, <2>6 DEF Streaming
<1> QED
  BY <1>2, <1>3

(* Every step leaves every listener with what fits.                        *)
LEMMA StreamNext == TypeOK /\ LockConj /\ StreamConj /\ [Next]_vars => StreamConj'
<1> SUFFICES ASSUME TypeOK, LockConj, StreamConj, [Next]_vars, NEW l \in Listeners PROVE Streaming(l)'
  BY DEF StreamConj
<1>0. Streaming(l)
  BY DEF StreamConj
<1>1. ASSUME NEW p \in Pushers, CallbackRaises(p) \/ PushReturns(p) PROVE Streaming(l)'
  <2>1. rest' = <<>> /\ UNCHANGED <<pushed, handler, posted, queue, dropped, offered, got>>
    BY <1>1, Zenon DEF CallbackRaises, PushReturns
  <2>2. l \notin ToSet(rest')
    BY <2>1 DEF ToSet
  <2> QED
    BY <1>0, <2>1, <2>2, StreamKept DEF Streaming
<1>2. ASSUME NEW s \in Listeners, EventFor(s) \/ Subscribe(s) \/ Sent(s) \/ ReceiveTimesOut(s) \/ Unsubscribe(s)
                                  \/ LoopDies(s) \/ Leave(s)
      PROVE  Streaming(l)'
  <2>1. UNCHANGED <<rest, pushed, posted, queue, dropped, offered, got>>
    BY <1>2 DEF EventFor, Subscribe, Sent, ReceiveTimesOut, Unsubscribe, LoopDies, Leave, bus
  <2>2. /\ handler[l] = "dead" => handler'[l] = "dead"
        /\ l \in Direct => handler'[l] \in {"off", "subscribing", "direct"}
        /\ handler'[l] \in {"off", "subscribing"} => handler[l] \in {"off", "subscribing"}
    BY <1>0, <1>2 DEF EventFor, Subscribe, Sent, ReceiveTimesOut, Unsubscribe, LoopDies, Leave,
       HandlerAt, TypeOK, Streaming
  <2> QED
    BY <1>0, <2>1, <2>2, StreamKept
<1>3. CASE UNCHANGED vars
  BY <1>0, <1>3, StreamKept DEF vars, Streaming
<1> QED
  BY <1>1, <1>2, <1>3, StreamPush, StreamDeliver, StreamHandled, StreamReceived DEF Next, Pushing, Listening

-----------------------------------------------------------------------------
LEMMA SameTypes ==
  ASSUME TypeOK
  PROVE  /\ \A e \in Events : subscribers[e] \in Seq(Listeners)
         /\ \A e \in Events : \A i \in 1 .. Len(subscribers[e]) :
              subscribers[e][i] \in Listeners /\ subscribers[e][i] \in ToSet(subscribers[e])
<1>1. \A e \in Events : subscribers[e] \in Seq(Listeners)
  BY DEF TypeOK
<1>2. ASSUME NEW e \in Events, NEW i \in 1 .. Len(subscribers[e])
      PROVE  subscribers[e][i] \in Listeners /\ subscribers[e][i] \in ToSet(subscribers[e])
  <2>1. i \in DOMAIN subscribers[e]
    BY <1>1, LenProperties
  <2>2. subscribers[e][i] \in ToSet(subscribers[e])
    BY <2>1, Zenon DEF ToSet
  <2> QED
    BY <1>1, <2>2
<1> QED
  BY <1>1, <1>2

(* What changes neither the subscribers nor what they will have been       *)
(* given.                                                                  *)
LEMMA SameKept ==
  ASSUME TypeOK, SameConj, UNCHANGED subscribers, ~raised' => ~raised,
         \A s \in Listeners : Will(s)' = Will(s)
  PROVE  SameConj'
  BY SameTypes DEF SameConj

(* Push: the subscribers of e will all be given one more.                  *)
LEMMA SamePush ==
  ASSUME TypeOK, LockConj, SameConj, NEW p \in Pushers, NEW e \in Events, Push(p, e)
  PROVE  SameConj'
<1>1. /\ rest = <<>> /\ pushed' = pushed + 1 /\ rest' = subscribers[e]
      /\ UNCHANGED <<subscribers, offered, raised>>
  BY DEF Push, LockConj
<1>2. \A s \in Listeners : Will(s) = offered[s]
  BY <1>1 DEF Will, ToSet
<1>3. \A s \in Listeners : Will(s)' = IF s \in ToSet(subscribers[e]) THEN Append(offered[s], pushed + 1) ELSE offered[s]
  BY <1>1 DEF Will
<1>4. pushed + 1 \in Payloads
  BY ConstantsAssumption DEF Push, TypeOK, Payloads
<1> SUFFICES ASSUME ~raised, NEW f \in Events,
                    NEW i \in 1 .. Len(subscribers[f]), NEW j \in 1 .. Len(subscribers[f]), i < j
             PROVE  IsRest(Will(subscribers[f][j])', Will(subscribers[f][i])')
  BY <1>1 DEF SameConj
<1>5. PICK a \in Listeners, b \in Listeners : /\ a = subscribers[f][j] /\ b = subscribers[f][i]
                                              /\ a \in ToSet(subscribers[f]) /\ b \in ToSet(subscribers[f])
  BY SameTypes
<1>6. IsRest(offered[a], offered[b])
  BY <1>2, <1>5 DEF SameConj
<1>7. CASE f = e
  <2>1. IsRest(Append(offered[a], pushed + 1), Append(offered[b], pushed + 1))
    BY <1>4, <1>6, RestAppend, StreamTypes
  <2> QED
    BY <1>1, <1>3, <1>5, <1>7, <2>1
<1>8. CASE f # e
  <2>1. a \notin ToSet(subscribers[e]) /\ b \notin ToSet(subscribers[e])
    BY <1>5, <1>8 DEF LockConj
  <2> QED
    BY <1>1, <1>3, <1>5, <1>6, <2>1
<1> QED
  BY <1>7, <1>8

(* Deliver: one of them has been given it.                                 *)
LEMMA SameDeliver ==
  ASSUME TypeOK, LockConj, SameConj, NEW p \in Pushers, Deliver(p)
  PROVE  SameConj'
<1>0. rest # <<>>
  BY DEF Deliver
<1>1. PICK s \in Listeners : s = Head(rest)
  BY <1>0, Due
<1>2. s \in ToSet(rest) /\ ToSet(rest') = ToSet(rest) \ {s}
  BY <1>0, <1>1, Due DEF Deliver
<1>3. /\ offered' = [offered EXCEPT ![s] = Append(offered[s], pushed)]
      /\ UNCHANGED <<pushed, subscribers, raised>>
  BY <1>1 DEF Deliver
<1>4. Will(s)' = Will(s)
  <2>1. offered'[s] = Append(offered[s], pushed)
    BY <1>3 DEF TypeOK
  <2> QED
    BY <1>2, <2>1 DEF Will
<1>5. ASSUME NEW l \in Listeners \ {s} PROVE Will(l)' = Will(l)
  <2>1. offered'[l] = offered[l] /\ (l \in ToSet(rest') <=> l \in ToSet(rest))
    BY <1>2, <1>3 DEF TypeOK
  <2> QED
    BY <1>3, <2>1 DEF Will
<1> QED
  BY <1>3, <1>4, <1>5, SameKept

(* Between pushes they will have been given what they were given.          *)
LEMMA SameQuiet ==
  ASSUME TypeOK, TypeOK', rest' = <<>>, UNCHANGED offered,
         ~raised' => \A e \in Events : \A i, j \in 1 .. Len(subscribers'[e]) :
                       i < j => IsRest(offered[subscribers'[e][j]], offered[subscribers'[e][i]])
  PROVE  SameConj'
<1>1. \A l \in Listeners : Will(l)' = offered[l]
  BY DEF Will, ToSet
<1>2. \A e \in Events : \A i \in 1 .. Len(subscribers'[e]) : subscribers'[e][i] \in Listeners
  <2>1. \A e \in Events : subscribers'[e] \in Seq(Listeners)
    BY DEF TypeOK
  <2> QED
    BY <2>1
<1> SUFFICES ASSUME ~raised', NEW e \in Events,
                    NEW i \in 1 .. Len(subscribers'[e]), NEW j \in 1 .. Len(subscribers'[e]), i < j
             PROVE  IsRest(Will(subscribers[e][j]), Will(subscribers[e][i]))'
  BY DEF SameConj
<1>3. PICK a \in Listeners, b \in Listeners : a = subscribers'[e][j] /\ b = subscribers'[e][i]
  BY <1>2
<1>4. IsRest(offered[a], offered[b])
  BY <1>3
<1>5. Will(a)' = offered[a] /\ Will(b)' = offered[b]
  BY <1>1
<1> QED
  BY <1>3, <1>4, <1>5

LEMMA SameFree ==
  ASSUME SameConj, TypeOK, rest = <<>>, ~raised,
         NEW e \in Events, NEW i \in 1 .. Len(subscribers[e]), NEW j \in 1 .. Len(subscribers[e]), i < j
  PROVE  IsRest(offered[subscribers[e][j]], offered[subscribers[e][i]])
BY SameTypes DEF SameConj, Will, ToSet

(* The new subscriber is the last, and was given nothing.                  *)
LEMMA SameSubscribe ==
  ASSUME TypeOK, TypeOK', LockConj, StreamConj, SameConj, NEW s \in Listeners, Subscribe(s)
  PROVE  SameConj'
<1>1. PICK e \in Events, q \in Seq(Listeners) : e = EventOf[s] /\ q = subscribers[e]
  BY SameTypes, ConstantsAssumption
<1>2. s \notin ToSet(q) /\ offered[s] = <<>> /\ rest = <<>> /\ rest' = <<>>
  <2>1. handler[s] = "subscribing" /\ lock = None /\ rest' = rest
    BY DEF Subscribe, HandlerAt
  <2> QED
    BY <1>1, <2>1 DEF LockConj, StreamConj, Streaming, Subscribed
<1>3. /\ subscribers' = [subscribers EXCEPT ![e] = Append(q, s)]
      /\ UNCHANGED <<offered, raised>>
  BY <1>1, <1>2 DEF Subscribe
<1>4. subscribers'[e] = Append(q, s) /\ \A f \in Events \ {e} : subscribers'[f] = subscribers[f]
  BY <1>1, <1>3 DEF TypeOK
<1> DEFINE Told(f, i, j) == IsRest(offered[subscribers'[f][j]], offered[subscribers'[f][i]])
<1>5. ASSUME ~raised, NEW f \in Events \ {e},
             NEW i \in 1 .. Len(subscribers'[f]), NEW j \in 1 .. Len(subscribers'[f]), i < j
      PROVE  Told(f, i, j)
  BY <1>2, <1>4, <1>5, SameFree
<1>6. PICK n \in Nat : n = Len(q)
  OBVIOUS
<1>7. Len(subscribers'[e]) = n + 1 /\ subscribers'[e][n + 1] = s /\ \A i \in 1 .. n : subscribers'[e][i] = q[i]
  BY <1>4, <1>6
<1>8. ASSUME ~raised, NEW i \in 1 .. n + 1, NEW j \in 1 .. n + 1, i < j PROVE Told(e, i, j)
  <2>1. i \in 1 .. n
    BY <1>8
  <2>2. CASE j = n + 1
    <3>1. subscribers'[e][j] = s /\ q[i] \in Listeners /\ subscribers'[e][i] = q[i]
      BY <1>6, <1>7, <2>1, <2>2
    <3>2. offered[q[i]] \in Seq(Payloads)
      BY <3>1, StreamTypes
    <3>3. IsRest(<<>>, offered[q[i]])
      BY <3>2 DEF IsRest
    <3> QED
      BY <1>2, <3>1, <3>3
  <2>3. CASE j \in 1 .. n
    <3>1. IsRest(offered[q[j]], offered[q[i]])
      BY <1>1, <1>2, <1>6, <1>8, <2>1, <2>3, SameFree
    <3> QED
      BY <1>7, <2>1, <2>3, <3>1
  <2> QED
    BY <2>2, <2>3
<1>9. ASSUME ~raised, NEW f \in Events, NEW i \in 1 .. Len(subscribers'[f]), NEW j \in 1 .. Len(subscribers'[f]), i < j
      PROVE  Told(f, i, j)
  BY <1>5, <1>7, <1>8, <1>9
<1> QED
  BY <1>2, <1>3, <1>9, SameQuiet

(* The others keep their order.                                            *)
LEMMA SameUnsubscribe ==
  ASSUME TypeOK, TypeOK', LockConj, SameConj, NEW s \in Listeners, Unsubscribe(s)
  PROVE  SameConj'
<1>1. PICK e \in Events, q \in Seq(Listeners) : e = EventOf[s] /\ q = subscribers[e] /\ NoRepeat(q)
  BY SameTypes, ConstantsAssumption DEF LockConj
<1>2. /\ rest = <<>> /\ rest' = <<>>
      /\ subscribers' = [subscribers EXCEPT ![e] = RemoveFirst(q, s)]
      /\ UNCHANGED <<offered, raised>>
  BY <1>1 DEF Unsubscribe, LockConj
<1>3. subscribers'[e] = RemoveFirst(q, s) /\ \A f \in Events \ {e} : subscribers'[f] = subscribers[f]
  BY <1>1, <1>2 DEF TypeOK
<1> DEFINE Told(f, i, j) == IsRest(offered[subscribers'[f][j]], offered[subscribers'[f][i]])
<1>4. ASSUME ~raised, NEW f \in Events, subscribers'[f] = subscribers[f],
             NEW i \in 1 .. Len(subscribers'[f]), NEW j \in 1 .. Len(subscribers'[f]), i < j
      PROVE  Told(f, i, j)
  BY <1>2, <1>4, SameFree
<1>5. ASSUME ~raised, subscribers'[e] # q, NEW i \in 1 .. Len(subscribers'[e]), NEW j \in 1 .. Len(subscribers'[e]), i < j
      PROVE  Told(e, i, j)
  <2>1. PICK k \in DOMAIN q : RemoveFirst(q, s) = RemoveAt(q, k)
    BY <1>1, <1>3, <1>5, RemoveFirstIsRemoveAt
  <2> DEFINE r == RemoveAt(q, k)
             at(h) == IF h <= k - 1 THEN h ELSE h + 1
  <2>2. PICK n \in Nat : n = Len(q) /\ k \in 1 .. n
    BY LenProperties
  <2>3. Len(r) = n - 1 /\ \A h \in 1 .. n - 1 : r[h] = q[at(h)]
    BY <2>2, RemoveAtIndex
  <2>4. /\ \A h \in 1 .. n - 1 : at(h) \in 1 .. n
        /\ \A h, g \in 1 .. n - 1 : h < g => at(h) < at(g)
    BY <2>2
  <2>5. subscribers'[e] = r
    BY <1>3, <2>1
  <2> HIDE DEF r, at
  <2>6. i \in 1 .. n - 1 /\ j \in 1 .. n - 1
    BY <2>3, <2>5
  <2>7. PICK u \in 1 .. n, v \in 1 .. n : u < v /\ r[i] = q[u] /\ r[j] = q[v]
    BY <1>5, <2>3, <2>4, <2>6
  <2>8. IsRest(offered[q[v]], offered[q[u]])
    BY <1>1, <1>2, <1>5, <2>2, <2>7, SameFree
  <2> QED
    BY <2>5, <2>7, <2>8
<1>6. ASSUME ~raised, NEW f \in Events, NEW i \in 1 .. Len(subscribers'[f]), NEW j \in 1 .. Len(subscribers'[f]), i < j
      PROVE  Told(f, i, j)
  BY <1>1, <1>3, <1>4, <1>5, <1>6
<1> QED
  BY <1>2, <1>6, SameQuiet

LEMMA SameNext == TypeOK /\ TypeOK' /\ LockConj /\ StreamConj /\ SameConj /\ [Next]_vars => SameConj'
<1> SUFFICES ASSUME TypeOK, TypeOK', LockConj, StreamConj, SameConj, [Next]_vars PROVE SameConj'
  OBVIOUS
<1>1. ASSUME NEW p \in Pushers, CallbackRaises(p) PROVE SameConj'
  BY <1>1, Zenon DEF CallbackRaises, SameConj
<1>2. ASSUME UNCHANGED <<rest, pushed, offered, subscribers, raised>> PROVE SameConj'
  <2>1. \A l \in Listeners : Will(l)' = Will(l)
    BY <1>2 DEF Will
  <2> QED
    BY <1>2, <2>1, SameKept
<1>3. ASSUME NEW p \in Pushers, PushReturns(p) PROVE SameConj'
  BY <1>2, <1>3 DEF PushReturns
<1>4. ASSUME NEW s \in Listeners, EventFor(s) \/ Handle(s) \/ Receive(s) \/ Sent(s) \/ ReceiveTimesOut(s)
                                  \/ LoopDies(s) \/ Leave(s)
      PROVE  SameConj'
  BY <1>2, <1>4 DEF EventFor, Handle, Receive, Sent, ReceiveTimesOut, LoopDies, Leave, bus
<1>5. CASE UNCHANGED vars
  BY <1>2, <1>5 DEF vars
<1> QED
  BY <1>1, <1>3, <1>4, <1>5, SamePush, SameDeliver, SameSubscribe, SameUnsubscribe DEF Next, Pushing, Listening

-----------------------------------------------------------------------------
LEMMA BusInit == Init => BusInv
<1> SUFFICES ASSUME Init PROVE BusInv
  OBVIOUS
<1>1. TypeOK
  <2>1. <<>> \in Seq(Listeners) /\ <<>> \in Seq(Payloads) /\ Len(<<>>) = 0
    BY EmptySeq
  <2>2. /\ lock \in Pushers \cup {None} /\ rest \in Seq(Listeners) /\ pushed \in 0 .. MaxPushes
        /\ subscribers \in [Events -> Seq(Listeners)] /\ dropped \in [Listeners -> Nat]
    BY <2>1, ConstantsAssumption DEF Init
  <2>3. /\ posted \in [Listeners -> Seq(Payloads)] /\ queue \in [Listeners -> Seq(Payloads)]
        /\ offered \in [Listeners -> Seq(Payloads)] /\ got \in [Listeners -> Seq(Payloads)]
    BY <2>1 DEF Init
  <2>4. \A s \in Listeners : Len(queue[s]) <= MaxSize
    BY <2>1, ConstantsAssumption DEF Init
  <2>5. handler \in [Listeners -> {"off", "subscribing", "direct", "receiving", "sending",
                                    "leaving", "gone", "dead"}]
    BY DEF Init
  <2>6. left \in [Listeners -> BOOLEAN] /\ raised \in BOOLEAN
    BY Zenon DEF Init
  <2> QED
    BY <2>2, <2>3, <2>4, <2>5, <2>6 DEF TypeOK
<1>2. /\ rest = <<>> /\ ToSet(<<>>) = {}
      /\ \A e \in Events : /\ subscribers[e] = <<>> /\ Len(subscribers[e]) = 0
                           /\ ToSet(subscribers[e]) = {} /\ NoRepeat(subscribers[e])
  BY DEF Init, ToSet, NoRepeat
<1>3. LockConj
  BY <1>2, Zenon DEF LockConj
<1>4. ASSUME NEW s \in Listeners PROVE Streaming(s)
  <2>1. /\ got[s] = <<>> /\ queue[s] = <<>> /\ posted[s] = <<>> /\ offered[s] = <<>>
        /\ handler[s] = "off" /\ dropped[s] = 0 /\ pushed = 0
    BY DEF Init
  <2>2. Stream(s) = <<>> /\ Len(Stream(s)) = 0
    <3>1. Stream(s) = Joined(<<>>, <<>>, <<>>)
      BY <2>1, StreamIs
    <3>2. <<>> \in Seq(Payloads)
      OBVIOUS
    <3>3. Joined(<<>>, <<>>, <<>>) = <<>>
      BY <3>2, JoinedFacts
    <3> QED
      BY <3>1, <3>3
  <2>3. Fits(Stream(s), offered[s], dropped[s], pushed, s \in ToSet(rest), handler[s] # "dead")
    BY <2>1, <2>2 DEF Fits
  <2> QED
    BY <2>1, <2>3 DEF Streaming
<1>5. SameConj
  BY <1>2 DEF SameConj
<1> QED
  BY <1>1, <1>3, <1>4, <1>5 DEF BusInv, StreamConj

LEMMA BusNext == BusInv /\ [Next]_vars => BusInv'
BY TypeNext, LockNext, StreamNext, SameNext DEF BusInv

(* The invariant holds in every reachable state, for any number of         *)
(* threads, events and listeners: the bus keeps them apart by its one      *)
(* lock.                                                                   *)
THEOREM BusCorrect == Spec => []BusInv
<1> QED
  BY BusInit, BusNext, PTL DEF Spec

LEMMA BusFits == BusInv => PayloadsFit
<1> SUFFICES ASSUME BusInv PROVE PayloadsFit
  OBVIOUS
<1> USE DEF BusInv
<1>1. \A s \in Listeners : Fits(Stream(s), offered[s], dropped[s], pushed, s \in ToSet(rest), handler[s] # "dead")
  BY DEF StreamConj, Streaming
<1>2. InOrder
  BY <1>1 DEF Fits, InOrder
<1>3. NewestSurvives
  BY <1>1 DEF Fits, NewestSurvives
<1>4. DropsCounted
  BY <1>1 DEF Fits, DropsCounted
<1>5. SameForAll
  <2> SUFFICES ASSUME lock = None, ~raised, NEW e \in Events,
                      NEW i \in 1 .. Len(subscribers[e]), NEW j \in 1 .. Len(subscribers[e]), i < j
               PROVE  IsSuffix(offered[subscribers[e][j]], offered[subscribers[e][i]])
    BY DEF SameForAll
  <2>1. rest = <<>>
    BY DEF LockConj
  <2>2. IsRest(offered[subscribers[e][j]], offered[subscribers[e][i]])
    BY <2>1, SameFree
  <2>3. offered[subscribers[e][j]] \in Seq(Payloads) /\ offered[subscribers[e][i]] \in Seq(Payloads)
    BY SameTypes, StreamTypes
  <2> QED
    BY <2>2, <2>3, SuffixIsRest
<1> QED
  BY <1>2, <1>3, <1>4, <1>5 DEF PayloadsFit

(* Payloads reach every listener in the order of the pushes, a slow one    *)
(* loses the oldest only and is told of how many, and between pushes the   *)
(* subscribers of an event have been given the same (publish(),            *)
(* receive()).                                                             *)
THEOREM PayloadsKept == Spec => []PayloadsFit
<1> QED
  BY BusCorrect, BusFits, PTL

(* Who is gone is not among the subscribers, and a push under way calls    *)
(* subscribers only.                                                       *)
LEMMA SilentStep ==
  BusInv /\ [Next]_vars => \A s \in Listeners : handler[s] = "gone" => offered'[s] = offered[s]
<1> SUFFICES ASSUME BusInv, [Next]_vars, NEW s \in Listeners, handler[s] = "gone"
             PROVE  offered'[s] = offered[s]
  OBVIOUS
<1>1. ASSUME NEW p \in Pushers, Deliver(p) PROVE offered'[s] = offered[s]
  <2>1. Head(rest) # s
    BY <1>1, Due DEF Deliver, BusInv, Subscribed
  <2>2. PICK t : t = Head(rest)
    OBVIOUS
  <2>3. offered' = [offered EXCEPT ![t] = Append(offered[t], pushed)] /\ t # s
    BY <1>1, <2>1, <2>2 DEF Deliver
  <2> QED
    BY <2>3 DEF BusInv, TypeOK
<1>2. ASSUME NEW p \in Pushers, (\E e \in Events : Push(p, e)) \/ CallbackRaises(p) \/ PushReturns(p)
      PROVE  offered' = offered
  BY <1>2 DEF Push, CallbackRaises, PushReturns
<1>3. ASSUME NEW t \in Listeners, \/ EventFor(t) \/ Subscribe(t) \/ Handle(t) \/ Receive(t) \/ Sent(t)
                                  \/ ReceiveTimesOut(t) \/ Unsubscribe(t) \/ Leave(t) \/ LoopDies(t)
      PROVE  offered' = offered
  BY <1>3 DEF EventFor, Subscribe, Handle, Receive, Sent, ReceiveTimesOut, Unsubscribe, Leave, LoopDies
<1>4. CASE UNCHANGED vars
  BY <1>4 DEF vars
<1> QED
  BY <1>1, <1>2, <1>3, <1>4 DEF Next, Pushing, Listening

(* Once unsubscribe() has returned, no push that is under way calls the    *)
(* listener back: unsubscribe() waits for the lock that publish() holds.   *)
THEOREM NoCallAfterUnsubscribe == Spec => SilentAfterUnsubscribe
<1>1. BusInv /\ [Next]_vars => [\A s \in Listeners : handler[s] = "gone" => offered'[s] = offered[s]]_vars
  BY SilentStep
<1> QED
  BY BusCorrect, <1>1, PTL DEF Spec, SilentAfterUnsubscribe
=============================================================================
