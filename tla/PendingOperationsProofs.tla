---------------------- MODULE PendingOperationsProofs ----------------------
(***************************************************************************)
(* Proofs about PendingOperations, for every number of servers, requests   *)
(* and collectors and every maxsize.  An uncollected reply is in exactly   *)
(* one place: its caller's map, or one collecting request.  That is the    *)
(* inductive invariant; WrittenOnce, NothingLost and NeverAwaitsCancelled  *)
(* follow from it.                                                         *)
(***************************************************************************)
EXTENDS PendingOperations, SequenceFacts

(***************************************************************************)
(* The ordered map, see SequenceFacts.                                     *)
(***************************************************************************)
\* Evicting keeps distinct tokens of the map, and at most maxsize of them.
LEMMA TrimmedFacts ==
    ASSUME NEW q \in Seq(Messages), NoRepeat(q)
    PROVE  /\ Trimmed(q) \in Seq(Messages)
           /\ NoRepeat(Trimmed(q))
           /\ ToSet(Trimmed(q)) \subseteq ToSet(q)
           /\ Len(q) <= MaxSize + 1 => Len(Trimmed(q)) <= MaxSize
<1>1. CASE Len(q) > MaxSize
  <2>1. q # <<>> /\ Trimmed(q) = Tail(q)
    BY <1>1, ConstantsOK, EmptySeq DEF Trimmed
  <2>2. /\ Tail(q) \in Seq(Messages) /\ Len(Tail(q)) = Len(q) - 1
        /\ \A i \in 1..Len(Tail(q)) : Tail(q)[i] = q[i + 1]
    BY <2>1, HeadTailProperties
  <2>3. /\ DOMAIN Tail(q) = 1..(Len(q) - 1) /\ DOMAIN q = 1..Len(q)
        /\ Len(q) \in Nat /\ MaxSize \in Nat
    BY <2>2, LenProperties, ConstantsOK
  <2>4. ToSet(Tail(q)) \subseteq ToSet(q)
    BY <2>2, <2>3 DEF ToSet
  <2>5. NoRepeat(Tail(q))
    BY <2>2, <2>3 DEF NoRepeat
  <2> QED  BY <2>1, <2>2, <2>3, <2>4, <2>5
<1>2. CASE ~(Len(q) > MaxSize)
  <2>1. Trimmed(q) = q
    BY <1>2 DEF Trimmed
  <2> QED  BY <2>1, <1>2, ConstantsOK, LenProperties
<1> QED  BY <1>1, <1>2

-----------------------------------------------------------------------------
(***************************************************************************)
(* The inductive invariant.                                                *)
(***************************************************************************)
\* A token in a map is that of an uncollected operation of its own caller.
MapsOK ==
    \A s \in Servers :
        /\ NoRepeat(futures[s])
        /\ \A m \in ToSet(futures[s]) :
            /\ ServerOf[m] = s /\ post[m] = "stored"
            /\ written[m] = 0 /\ m \notin dropped

\* A future owned by a request is that of an uncollected operation, is in no
\* map, and no other request owns it.
HoldersOK ==
    \A c \in Collectors : \A m \in Messages : holds[c] = m =>
        /\ post[m] = "stored" /\ written[m] = 0 /\ m \notin dropped
        /\ \A s \in Servers : m \notin ToSet(futures[s])
        /\ \A d \in Collectors : holds[d] = m => d = c

\* What was not stored was neither written nor dropped.
FreshOK == \A m \in Messages : post[m] # "stored" => written[m] = 0 /\ m \notin dropped

\* Only what clear() drops is cancelled.
CancelledOK == \A m \in Messages : future[m] = "cancelled" => m \in dropped

IInv ==
    /\ TypeOK /\ MapsOK /\ HoldersOK /\ FreshOK /\ CancelledOK
    /\ WrittenOnce /\ NothingLost

LEMMA InitInv == Init => IInv
<1> SUFFICES ASSUME Init PROVE IInv
  OBVIOUS
<1> USE ConstantsOK DEF Init
<1>1. \A s \in Servers : /\ futures[s] = <<>> /\ futures[s] \in Seq(Messages)
                          /\ Len(futures[s]) = 0 /\ DOMAIN futures[s] = {}
                          /\ ToSet(futures[s]) = {}
  BY EmptySeq DEF ToSet
<1>2. TypeOK
  <2>1. futures \in [Servers -> Seq(Messages)]
    BY <1>1
  <2>2. \A s \in Servers : Len(futures[s]) <= MaxSize
    BY <1>1
  <2> QED  BY <2>1, <2>2 DEF TypeOK
<1>3. MapsOK
  BY <1>1 DEF MapsOK, NoRepeat
<1>4. HoldersOK /\ FreshOK /\ CancelledOK /\ WrittenOnce /\ NothingLost
  BY DEF HoldersOK, FreshOK, CancelledOK, WrittenOnce, NothingLost
<1> QED  BY <1>2, <1>3, <1>4 DEF IInv

\* What add() does to the maps: the new token and the old ones are still in
\* their map, except the evicted ones, which are in no map.
LEMMA AddFacts ==
    ASSUME IInv, NEW m \in Messages, Add(m), m \notin dropped,
           m \notin Stored(ServerOf[m])
    PROVE  /\ futures' \in [Servers -> Seq(Messages)]
           /\ \A s \in Servers : Len(futures'[s]) <= MaxSize /\ NoRepeat(futures'[s])
           /\ \A s \in Servers : ToSet(futures'[s]) \subseteq ToSet(futures[s]) \cup {m}
           /\ \A s \in Servers : m \in ToSet(futures'[s]) => s = ServerOf[m]
           /\ \A s \in Servers : \A n \in ToSet(futures'[s]) : n \notin dropped'
           /\ \A s \in Servers : \A n \in ToSet(futures[s]) :
                n \in ToSet(futures'[s]) \/ n \in dropped'
           /\ m \in ToSet(futures'[ServerOf[m]]) \/ m \in dropped'
           /\ dropped' \subseteq Messages /\ dropped \subseteq dropped'
           /\ dropped' \ dropped \subseteq ToSet(futures[ServerOf[m]]) \cup {m}
<1> DEFINE S == ServerOf[m]
           q == Append(futures[S], m)
           t == Trimmed(q)
<1>0. /\ S \in Servers /\ futures \in [Servers -> Seq(Messages)]
      /\ futures[S] \in Seq(Messages) /\ NoRepeat(futures[S])
      /\ m \notin ToSet(futures[S]) /\ Len(futures[S]) <= MaxSize
      /\ Len(futures[S]) \in Nat /\ MaxSize \in Nat /\ dropped \subseteq Messages
  BY ConstantsOK, LenProperties DEF IInv, TypeOK, MapsOK, Stored
<1>1. /\ q \in Seq(Messages) /\ Len(q) = Len(futures[S]) + 1
      /\ NoRepeat(q) /\ ToSet(q) = ToSet(futures[S]) \cup {m}
  BY <1>0, AppendFacts
<1>2. /\ t \in Seq(Messages) /\ NoRepeat(t)
      /\ ToSet(t) \subseteq ToSet(q) /\ Len(t) <= MaxSize
  <2>1. Len(q) <= MaxSize + 1
    BY <1>0, <1>1
  <2> QED  BY <2>1, <1>1, TrimmedFacts
<1>3. /\ futures' = [futures EXCEPT ![S] = t]
      /\ dropped' = dropped \cup (ToSet(q) \ ToSet(t))
  BY DEF Add
<1>4. futures'[S] = t /\ \A s \in Servers \ {S} : futures'[s] = futures[s]
  BY <1>0, <1>3
<1>5. \A s \in Servers : /\ NoRepeat(futures[s]) /\ Len(futures[s]) <= MaxSize
                          /\ \A n \in ToSet(futures[s]) : ServerOf[n] = s /\ n \notin dropped
  BY DEF IInv, TypeOK, MapsOK
<1>6. futures' \in [Servers -> Seq(Messages)]
  BY <1>0, <1>2, <1>3
<1>7. \A s \in Servers : Len(futures'[s]) <= MaxSize /\ NoRepeat(futures'[s])
  BY <1>2, <1>4, <1>5
<1>8. \A s \in Servers : ToSet(futures'[s]) \subseteq ToSet(futures[s]) \cup {m}
  BY <1>1, <1>2, <1>4
<1>9. \A s \in Servers : m \in ToSet(futures'[s]) => s = S
  BY <1>4, <1>5
<1>10. \A s \in Servers : \A n \in ToSet(futures'[s]) : n \notin dropped'
  <2> SUFFICES ASSUME NEW s \in Servers, NEW n \in ToSet(futures'[s])
               PROVE  n \notin dropped'
    OBVIOUS
  <2>1. CASE s = S
    BY <2>1, <1>1, <1>2, <1>3, <1>4, <1>5
  <2>2. CASE s # S
    <3>1. n \in ToSet(futures[s]) /\ ServerOf[n] = s /\ n \notin dropped
      BY <2>2, <1>4, <1>5
    <3>2. n \notin ToSet(q)
      BY <3>1, <2>2, <1>0, <1>1, <1>5
    <3> QED  BY <3>1, <3>2, <1>3
  <2> QED  BY <2>1, <2>2
<1>11. \A s \in Servers : \A n \in ToSet(futures[s]) :
         n \in ToSet(futures'[s]) \/ n \in dropped'
  BY <1>1, <1>3, <1>4
<1>12. m \in ToSet(futures'[S]) \/ m \in dropped'
  BY <1>1, <1>3, <1>4
<1>13. dropped' \subseteq Messages /\ dropped \subseteq dropped'
       /\ dropped' \ dropped \subseteq ToSet(futures[S]) \cup {m}
  <2>1. ToSet(q) \subseteq Messages
    <3>1. ToSet(futures[S]) \subseteq Messages
      BY <1>0, ElementOfSeq, LenProperties DEF ToSet
    <3> QED  BY <3>1, <1>1
  <2> QED  BY <2>1, <1>0, <1>1, <1>3
<1> QED  BY <1>6, <1>7, <1>8, <1>9, <1>10, <1>11, <1>12, <1>13

LEMMA StoreStep ==
    ASSUME IInv, NEW m \in Messages, Store(m)
    PROVE  IInv'
<1> DEFINE S == ServerOf[m]
<1>1. post[m] = "submitted" /\ post' = [post EXCEPT ![m] = "stored"] /\ Add(m)
  BY DEF Store
<1>2. UNCHANGED <<future, holds, stopped, written>>
  BY DEF Store
<1>3. TypeOK /\ MapsOK /\ HoldersOK /\ FreshOK /\ CancelledOK /\ WrittenOnce /\ NothingLost
  BY DEF IInv
<1>4. /\ m \notin dropped /\ written[m] = 0 /\ S \in Servers
      /\ \A s \in Servers : m \notin ToSet(futures[s])
      /\ \A c \in Collectors : holds[c] # m
  BY <1>1, <1>3, ConstantsOK DEF FreshOK, MapsOK, HoldersOK
<1>5. /\ futures' \in [Servers -> Seq(Messages)]
      /\ \A s \in Servers : Len(futures'[s]) <= MaxSize /\ NoRepeat(futures'[s])
      /\ \A s \in Servers : ToSet(futures'[s]) \subseteq ToSet(futures[s]) \cup {m}
      /\ \A s \in Servers : m \in ToSet(futures'[s]) => s = S
      /\ \A s \in Servers : \A n \in ToSet(futures'[s]) : n \notin dropped'
      /\ \A s \in Servers : \A n \in ToSet(futures[s]) :
            n \in ToSet(futures'[s]) \/ n \in dropped'
      /\ m \in ToSet(futures'[S]) \/ m \in dropped'
      /\ dropped' \subseteq Messages /\ dropped \subseteq dropped'
      /\ dropped' \ dropped \subseteq ToSet(futures[S]) \cup {m}
  BY <1>1, <1>4, AddFacts DEF Stored
<1>6. /\ post'[m] = "stored" /\ \A n \in Messages \ {m} : post'[n] = post[n]
      /\ post' \in [Messages -> {"new", "refused", "submitted", "stored"}]
  BY <1>1, <1>3 DEF TypeOK
<1>7. \A n \in dropped' : n \in dropped \/ post'[n] = "stored"
  BY <1>3, <1>4, <1>5, <1>6 DEF MapsOK, TypeOK
<1>8. TypeOK'
  BY <1>2, <1>3, <1>5, <1>6 DEF TypeOK
<1>9. MapsOK'
  <2> SUFFICES ASSUME NEW s \in Servers, NEW n \in ToSet(futures'[s])
               PROVE  ServerOf[n] = s /\ post'[n] = "stored" /\ written[n] = 0
    BY <1>2, <1>5 DEF MapsOK
  <2>1. CASE n = m
    BY <2>1, <1>4, <1>5, <1>6
  <2>2. CASE n # m
    <3>1. n \in ToSet(futures[s])
      BY <2>2, <1>5
    <3>2. ServerOf[n] = s /\ post[n] = "stored" /\ written[n] = 0
      BY <3>1, <1>3 DEF MapsOK
    <3> QED  BY <3>2, <1>1, <1>3 DEF TypeOK
  <2> QED  BY <2>1, <2>2
<1>10. HoldersOK'
  <2> SUFFICES ASSUME NEW c \in Collectors, NEW n \in Messages, holds[c] = n
               PROVE  /\ post'[n] = "stored" /\ written[n] = 0 /\ n \notin dropped'
                      /\ \A s \in Servers : n \notin ToSet(futures'[s])
                      /\ \A d \in Collectors : holds[d] = n => d = c
    BY <1>2 DEF HoldersOK
  <2>1. n # m /\ n \notin dropped /\ \A s \in Servers : n \notin ToSet(futures[s])
    BY <1>3, <1>4 DEF HoldersOK
  <2> QED  BY <2>1, <1>3, <1>4, <1>5, <1>6 DEF HoldersOK
<1>11. FreshOK'
  BY <1>2, <1>3, <1>4, <1>6, <1>7 DEF FreshOK
<1>12. CancelledOK' /\ WrittenOnce'
  BY <1>2, <1>3, <1>5 DEF CancelledOK, WrittenOnce
<1>13. NothingLost'
  <2> SUFFICES ASSUME NEW n \in Messages, post'[n] = "stored", written[n] = 0, n \notin dropped'
               PROVE  \/ \E s \in Servers : n \in ToSet(futures'[s])
                      \/ \E c \in Collectors : holds[c] = n
    BY <1>2 DEF NothingLost, Places, Stored
  <2>1. CASE n = m
    BY <2>1, <1>4, <1>5
  <2>2. CASE n # m
    <3>1. post[n] = "stored" /\ n \notin dropped
      BY <2>2, <1>5, <1>6
    <3>2. \/ \E s \in Servers : n \in ToSet(futures[s])
          \/ \E c \in Collectors : holds[c] = n
      BY <3>1, <1>3 DEF NothingLost, Places, Stored
    <3> QED  BY <3>2, <1>5
  <2> QED  BY <2>1, <2>2
<1> QED  BY <1>8, <1>9, <1>10, <1>11, <1>12, <1>13 DEF IInv

LEMMA GiveBackStep ==
    ASSUME IInv, NEW c \in Collectors, GiveBack(c)
    PROVE  IInv'
<1> DEFINE m == holds[c]
           S == ServerOf[m]
<1>1. m # None /\ holds' = [holds EXCEPT ![c] = None] /\ Add(m)
  BY DEF GiveBack
<1>2. UNCHANGED <<future, post, stopped, written>>
  BY DEF GiveBack
<1>3. TypeOK /\ MapsOK /\ HoldersOK /\ FreshOK /\ CancelledOK /\ WrittenOnce /\ NothingLost
  BY DEF IInv
<1>4. /\ m \in Messages /\ S \in Servers /\ post[m] = "stored"
      /\ m \notin dropped /\ written[m] = 0
      /\ \A s \in Servers : m \notin ToSet(futures[s])
      /\ \A d \in Collectors : holds[d] = m => d = c
  BY <1>1, <1>3, ConstantsOK DEF HoldersOK, TypeOK
<1>5. /\ futures' \in [Servers -> Seq(Messages)]
      /\ \A s \in Servers : Len(futures'[s]) <= MaxSize /\ NoRepeat(futures'[s])
      /\ \A s \in Servers : ToSet(futures'[s]) \subseteq ToSet(futures[s]) \cup {m}
      /\ \A s \in Servers : m \in ToSet(futures'[s]) => s = S
      /\ \A s \in Servers : \A n \in ToSet(futures'[s]) : n \notin dropped'
      /\ \A s \in Servers : \A n \in ToSet(futures[s]) :
            n \in ToSet(futures'[s]) \/ n \in dropped'
      /\ m \in ToSet(futures'[S]) \/ m \in dropped'
      /\ dropped' \subseteq Messages /\ dropped \subseteq dropped'
      /\ dropped' \ dropped \subseteq ToSet(futures[S]) \cup {m}
  BY <1>1, <1>4, AddFacts DEF Stored
<1>6. /\ holds'[c] = None /\ \A d \in Collectors \ {c} : holds'[d] = holds[d]
      /\ holds' \in [Collectors -> Messages \cup {None}]
  BY <1>1, <1>3 DEF TypeOK
<1>7. \A n \in dropped' : n \in dropped \/ post[n] = "stored"
  BY <1>3, <1>4, <1>5 DEF MapsOK
<1>8. TypeOK'
  BY <1>2, <1>3, <1>5, <1>6 DEF TypeOK
<1>9. MapsOK'
  BY <1>2, <1>3, <1>4, <1>5 DEF MapsOK
<1>10. HoldersOK'
  <2> SUFFICES ASSUME NEW d \in Collectors, NEW n \in Messages, holds'[d] = n
               PROVE  /\ post[n] = "stored" /\ written[n] = 0 /\ n \notin dropped'
                      /\ \A s \in Servers : n \notin ToSet(futures'[s])
                      /\ \A e \in Collectors : holds'[e] = n => e = d
    BY <1>2 DEF HoldersOK
  <2>1. d # c /\ holds[d] = n
    BY <1>6, ConstantsOK
  <2>2. n # m /\ n \notin dropped /\ \A s \in Servers : n \notin ToSet(futures[s])
    BY <2>1, <1>3, <1>4 DEF HoldersOK
  <2>3. n \notin dropped' /\ \A s \in Servers : n \notin ToSet(futures'[s])
    BY <2>2, <1>4, <1>5
  <2>4. \A e \in Collectors : holds'[e] = n => holds[e] = n
    BY <1>6, ConstantsOK
  <2> QED  BY <2>1, <2>3, <2>4, <1>3 DEF HoldersOK
<1>11. FreshOK' /\ CancelledOK' /\ WrittenOnce'
  BY <1>2, <1>3, <1>5, <1>7 DEF FreshOK, CancelledOK, WrittenOnce
<1>12. NothingLost'
  <2> SUFFICES ASSUME NEW n \in Messages, post[n] = "stored", written[n] = 0, n \notin dropped'
               PROVE  \/ \E s \in Servers : n \in ToSet(futures'[s])
                      \/ \E d \in Collectors : holds'[d] = n
    BY <1>2 DEF NothingLost, Places, Stored
  <2>1. CASE n = m
    BY <2>1, <1>4, <1>5
  <2>2. CASE n # m
    <3>1. n \notin dropped
      BY <1>5
    <3>2. \/ \E s \in Servers : n \in ToSet(futures[s])
          \/ \E d \in Collectors : holds[d] = n
      BY <3>1, <1>3 DEF NothingLost, Places, Stored
    <3>3. \A d \in Collectors : holds[d] = n => holds'[d] = n
      BY <2>2, <1>6
    <3> QED  BY <3>2, <3>3, <1>5
  <2> QED  BY <2>1, <2>2
<1> QED  BY <1>8, <1>9, <1>10, <1>11, <1>12 DEF IInv

LEMMA ClaimStep ==
    ASSUME IInv, NEW c \in Collectors, NEW m \in Messages, Claim(c, m)
    PROVE  IInv'
<1> DEFINE S == ServerOf[m]
<1>1. holds[c] = None /\ holds' = [holds EXCEPT ![c] = m]
  BY DEF Claim
<1>2. UNCHANGED <<future, post, stopped, written, dropped>>
  BY DEF Claim
<1>3. TypeOK /\ MapsOK /\ HoldersOK /\ FreshOK /\ CancelledOK /\ WrittenOnce /\ NothingLost
  BY DEF IInv
<1>4. PICK i \in DOMAIN futures[S] :
        /\ futures[S][i] = m
        /\ futures' = [futures EXCEPT ![S] = RemoveAt(futures[S], i)]
  BY DEF Claim
<1> DEFINE r == RemoveAt(futures[S], i)
<1>5. /\ S \in Servers /\ futures[S] \in Seq(Messages) /\ NoRepeat(futures[S])
      /\ Len(futures[S]) <= MaxSize /\ Len(futures[S]) \in Nat /\ MaxSize \in Nat
  BY <1>3, ConstantsOK, LenProperties DEF TypeOK, MapsOK
<1>6. /\ r \in Seq(Messages) /\ Len(r) = Len(futures[S]) - 1
      /\ NoRepeat(r) /\ ToSet(r) = ToSet(futures[S]) \ {m}
  BY <1>4, <1>5, RemoveAtFacts
<1>7. /\ futures' \in [Servers -> Seq(Messages)] /\ futures'[S] = r
      /\ \A s \in Servers \ {S} : futures'[s] = futures[s]
  BY <1>3, <1>4, <1>5, <1>6 DEF TypeOK
<1>8. /\ m \in ToSet(futures[S]) /\ post[m] = "stored" /\ written[m] = 0
      /\ m \notin dropped /\ \A d \in Collectors : holds[d] # m
  BY <1>3, <1>4, <1>5 DEF MapsOK, HoldersOK, ToSet
<1>9. \A s \in Servers : /\ ToSet(futures'[s]) = ToSet(futures[s]) \ {m}
                          /\ NoRepeat(futures'[s]) /\ Len(futures'[s]) <= MaxSize
  <2> SUFFICES ASSUME NEW s \in Servers
               PROVE  /\ ToSet(futures'[s]) = ToSet(futures[s]) \ {m}
                      /\ NoRepeat(futures'[s]) /\ Len(futures'[s]) <= MaxSize
    OBVIOUS
  <2>1. CASE s = S
    BY <2>1, <1>5, <1>6, <1>7
  <2>2. CASE s # S
    BY <2>2, <1>3, <1>7 DEF MapsOK, TypeOK
  <2> QED  BY <2>1, <2>2
<1>10. /\ holds'[c] = m /\ \A d \in Collectors \ {c} : holds'[d] = holds[d]
       /\ holds' \in [Collectors -> Messages \cup {None}]
  BY <1>1, <1>3 DEF TypeOK
<1>11. TypeOK'
  BY <1>2, <1>3, <1>7, <1>9, <1>10 DEF TypeOK
<1>12. MapsOK'
  BY <1>2, <1>3, <1>9 DEF MapsOK
<1>13. HoldersOK'
  <2> SUFFICES ASSUME NEW d \in Collectors, NEW n \in Messages, holds'[d] = n
               PROVE  /\ post[n] = "stored" /\ written[n] = 0 /\ n \notin dropped
                      /\ \A s \in Servers : n \notin ToSet(futures'[s])
                      /\ \A e \in Collectors : holds'[e] = n => e = d
    BY <1>2 DEF HoldersOK
  <2>1. CASE n = m
    BY <2>1, <1>8, <1>9, <1>10
  <2>2. CASE n # m
    <3>1. d # c /\ holds[d] = n /\ \A e \in Collectors : holds'[e] = n => holds[e] = n
      BY <2>2, <1>10
    <3>2. /\ post[n] = "stored" /\ written[n] = 0 /\ n \notin dropped
          /\ \A s \in Servers : n \notin ToSet(futures[s])
          /\ \A e \in Collectors : holds[e] = n => e = d
      BY <3>1, <1>3 DEF HoldersOK
    <3>3. \A s \in Servers : n \notin ToSet(futures'[s])
      BY <3>2, <1>9
    <3> QED  BY <3>1, <3>2, <3>3
  <2> QED  BY <2>1, <2>2
<1>14. FreshOK' /\ CancelledOK' /\ WrittenOnce'
  BY <1>2, <1>3 DEF FreshOK, CancelledOK, WrittenOnce
<1>15. NothingLost'
  <2> SUFFICES ASSUME NEW n \in Messages, post[n] = "stored", written[n] = 0, n \notin dropped
               PROVE  \/ \E s \in Servers : n \in ToSet(futures'[s])
                      \/ \E d \in Collectors : holds'[d] = n
    BY <1>2 DEF NothingLost, Places, Stored
  <2>1. CASE n = m
    BY <2>1, <1>10
  <2>2. CASE n # m
    <3>1. \/ \E s \in Servers : n \in ToSet(futures[s])
          \/ \E d \in Collectors : holds[d] = n
      BY <1>3 DEF NothingLost, Places, Stored
    <3>2. \A d \in Collectors : holds[d] = n => holds'[d] = n
      BY <1>1, <1>10, ConstantsOK
    <3> QED  BY <2>2, <3>1, <3>2, <1>9
  <2> QED  BY <2>1, <2>2
<1> QED  BY <1>11, <1>12, <1>13, <1>14, <1>15 DEF IInv

LEMMA WriteStep ==
    ASSUME IInv, NEW c \in Collectors, Write(c)
    PROVE  IInv'
<1> DEFINE m == holds[c]
<1>1. /\ m # None /\ holds' = [holds EXCEPT ![c] = None]
      /\ written' = [written EXCEPT ![m] = written[m] + 1]
      /\ UNCHANGED <<futures, future, post, stopped, dropped>>
  BY DEF Write
<1>2. TypeOK /\ MapsOK /\ HoldersOK /\ FreshOK /\ CancelledOK /\ WrittenOnce /\ NothingLost
  BY DEF IInv
<1>3. /\ m \in Messages /\ post[m] = "stored" /\ written[m] = 0 /\ m \notin dropped
      /\ \A s \in Servers : m \notin ToSet(futures[s])
      /\ \A d \in Collectors : holds[d] = m => d = c
  BY <1>1, <1>2 DEF HoldersOK, TypeOK
<1>4. /\ holds'[c] = None /\ \A d \in Collectors \ {c} : holds'[d] = holds[d]
      /\ holds' \in [Collectors -> Messages \cup {None}]
      /\ written'[m] = 1 /\ \A n \in Messages \ {m} : written'[n] = written[n]
      /\ written' \in [Messages -> Nat]
  BY <1>1, <1>2, <1>3 DEF TypeOK
<1>5. TypeOK'
  BY <1>1, <1>2, <1>4 DEF TypeOK
<1>6. MapsOK'
  <2> SUFFICES ASSUME NEW s \in Servers, NEW n \in ToSet(futures[s])
               PROVE  written'[n] = 0
    BY <1>1, <1>2 DEF MapsOK
  <2>1. n # m /\ written[n] = 0
    BY <1>2, <1>3 DEF MapsOK
  <2> QED  BY <2>1, <1>1, <1>2 DEF TypeOK
<1>7. HoldersOK'
  <2> SUFFICES ASSUME NEW d \in Collectors, NEW n \in Messages, holds'[d] = n
               PROVE  /\ post[n] = "stored" /\ written'[n] = 0 /\ n \notin dropped
                      /\ \A s \in Servers : n \notin ToSet(futures[s])
                      /\ \A e \in Collectors : holds'[e] = n => e = d
    BY <1>1 DEF HoldersOK
  <2>1. d # c /\ holds[d] = n /\ n # m
    BY <1>3, <1>4, ConstantsOK
  <2>2. \A e \in Collectors : holds'[e] = n => holds[e] = n
    BY <1>4, ConstantsOK
  <2> QED  BY <2>1, <2>2, <1>2, <1>4 DEF HoldersOK
<1>8. FreshOK' /\ CancelledOK' /\ WrittenOnce'
  BY <1>1, <1>2, <1>3, <1>4 DEF FreshOK, CancelledOK, WrittenOnce
<1>9. NothingLost'
  <2> SUFFICES ASSUME NEW n \in Messages, post[n] = "stored", written'[n] = 0, n \notin dropped
               PROVE  \/ \E s \in Servers : n \in ToSet(futures[s])
                      \/ \E d \in Collectors : holds'[d] = n
    BY <1>1 DEF NothingLost, Places, Stored
  <2>1. n # m /\ written[n] = 0
    BY <1>4
  <2>2. \/ \E s \in Servers : n \in ToSet(futures[s])
        \/ \E d \in Collectors : holds[d] = n
    BY <2>1, <1>2 DEF NothingLost, Places, Stored
  <2> QED  BY <2>1, <2>2, <1>4
<1> QED  BY <1>5, <1>6, <1>7, <1>8, <1>9 DEF IInv

LEMMA ClearStep ==
    ASSUME IInv, Clear
    PROVE  IInv'
<1> DEFINE gone == UNION {Stored(s) : s \in Servers}
<1>1. /\ future' = [m \in Messages |->
                      IF m \in gone /\ future[m] = "running" THEN "cancelled" ELSE future[m]]
      /\ futures' = [s \in Servers |-> <<>>]
      /\ dropped' = dropped \cup gone
      /\ UNCHANGED <<post, holds, stopped, written>>
  BY DEF Clear
<1>2. TypeOK /\ MapsOK /\ HoldersOK /\ FreshOK /\ CancelledOK /\ WrittenOnce /\ NothingLost
  BY DEF IInv
<1>3. \A n : n \in gone <=> \E s \in Servers : n \in ToSet(futures[s])
  BY DEF Stored
<1>4. \A s \in Servers : ToSet(futures[s]) \subseteq Messages
  BY <1>2, LenProperties, ElementOfSeq DEF TypeOK, ToSet
<1>5. gone \subseteq Messages
  BY <1>3, <1>4
<1>6. \A s \in Servers : /\ futures'[s] = <<>> /\ futures'[s] \in Seq(Messages)
                          /\ Len(futures'[s]) = 0 /\ DOMAIN futures'[s] = {}
                          /\ ToSet(futures'[s]) = {}
  BY <1>1, EmptySeq DEF ToSet
<1>7. TypeOK'
  <2>1. futures' \in [Servers -> Seq(Messages)]
    BY <1>1, <1>6
  <2>2. \A s \in Servers : Len(futures'[s]) <= MaxSize
    BY <1>6, ConstantsOK
  <2>3. future' \in [Messages -> {"none", "running", "answered", "cancelled"}]
    BY <1>1, <1>2 DEF TypeOK
  <2> QED  BY <2>1, <2>2, <2>3, <1>1, <1>2, <1>5 DEF TypeOK
<1>8. MapsOK'
  BY <1>6 DEF MapsOK, NoRepeat
<1>9. HoldersOK'
  BY <1>1, <1>2, <1>3, <1>6 DEF HoldersOK
<1>10. FreshOK'
  BY <1>1, <1>2, <1>3 DEF FreshOK, MapsOK
<1>11. CancelledOK' /\ WrittenOnce'
  BY <1>1, <1>2 DEF CancelledOK, WrittenOnce
<1>12. NothingLost'
  <2> SUFFICES ASSUME NEW n \in Messages, post[n] = "stored", written[n] = 0, n \notin dropped'
               PROVE  \E d \in Collectors : holds[d] = n
    BY <1>1 DEF NothingLost, Places
  <2>1. \/ \E s \in Servers : n \in ToSet(futures[s])
        \/ \E d \in Collectors : holds[d] = n
    BY <1>1, <1>2 DEF NothingLost, Places, Stored
  <2> QED  BY <2>1, <1>1, <1>3
<1> QED  BY <1>7, <1>8, <1>9, <1>10, <1>11, <1>12 DEF IInv

\* The steps that move no future.
LEMMA OtherSteps ==
    ASSUME IInv,
           \/ \E m \in Messages : Submit(m) \/ Answer(m)
           \/ StopFlag
           \/ UNCHANGED vars
    PROVE  IInv'
<1>1. TypeOK /\ MapsOK /\ HoldersOK /\ FreshOK /\ CancelledOK /\ WrittenOnce /\ NothingLost
  BY DEF IInv
<1>2. ASSUME NEW m \in Messages, Submit(m)
      PROVE  IInv'
  <2>1. /\ post[m] = "new"
        /\ post' = [post EXCEPT ![m] = IF stopped THEN "refused" ELSE "submitted"]
        /\ future' = [future EXCEPT ![m] = IF stopped THEN "none" ELSE "running"]
        /\ UNCHANGED <<futures, holds, stopped, written, dropped>>
    BY <1>2 DEF Submit
  <2>2. /\ \A n \in Messages : post'[n] = "stored" <=> post[n] = "stored"
        /\ \A n \in Messages : future'[n] = "cancelled" => future[n] = "cancelled"
        /\ TypeOK'
    BY <2>1, <1>1 DEF TypeOK
  <2>3. \A s \in Servers : ToSet(futures[s]) \subseteq Messages
    BY <1>1, LenProperties, ElementOfSeq DEF TypeOK, ToSet
  <2>4. MapsOK'
    BY <2>1, <2>2, <2>3, <1>1 DEF MapsOK
  <2>5. HoldersOK' /\ FreshOK' /\ CancelledOK' /\ WrittenOnce'
    BY <2>1, <2>2, <1>1 DEF HoldersOK, FreshOK, CancelledOK, WrittenOnce
  <2>6. NothingLost'
    BY <2>1, <2>2, <1>1 DEF NothingLost, Places, Stored
  <2> QED  BY <2>2, <2>4, <2>5, <2>6 DEF IInv
<1>3. ASSUME NEW m \in Messages, Answer(m)
      PROVE  IInv'
  <2>1. /\ future' = [future EXCEPT ![m] = "answered"]
        /\ UNCHANGED <<futures, post, holds, stopped, written, dropped>>
    BY <1>3 DEF Answer
  <2>2. TypeOK' /\ \A n \in Messages : future'[n] = "cancelled" => future[n] = "cancelled"
    BY <2>1, <1>1 DEF TypeOK
  <2> QED  BY <2>1, <2>2, <1>1 DEF IInv, MapsOK, HoldersOK, FreshOK, CancelledOK,
                                    WrittenOnce, NothingLost, Places, Stored
<1>4. CASE StopFlag
  <2>1. TypeOK'
    BY <1>1, <1>4 DEF StopFlag, TypeOK
  <2> QED  BY <2>1, <1>1, <1>4 DEF StopFlag, IInv, MapsOK, HoldersOK, FreshOK, CancelledOK,
                                    WrittenOnce, NothingLost, Places, Stored
<1>5. CASE UNCHANGED vars
  BY <1>1, <1>5 DEF vars, IInv, TypeOK, MapsOK, HoldersOK, FreshOK, CancelledOK,
                    WrittenOnce, NothingLost, Places, Stored
<1> QED  BY <1>2, <1>3, <1>4, <1>5

THEOREM Invariance == Spec => []IInv
<1>1. IInv /\ [Next]_vars => IInv'
  BY StoreStep, GiveBackStep, ClaimStep, WriteStep, ClearStep, OtherSteps DEF Next
<1> QED  BY <1>1, InitInv, PTL DEF Spec

-----------------------------------------------------------------------------
(***************************************************************************)
(* What the checked runs show of small instances, for all of them.         *)
(***************************************************************************)
\* Types hold, and no caller's map outgrows maxsize.
THEOREM TypeCorrect == Spec => []TypeOK
<1>1. IInv => TypeOK
  BY DEF IInv
<1> QED  BY <1>1, Invariance, PTL

\* A reply reaches a client at most once.
THEOREM AtMostOneWrite == Spec => []WrittenOnce
<1>1. IInv => WrittenOnce
  BY DEF IInv
<1> QED  BY <1>1, Invariance, PTL

\* An uncollected reply is in its map or owned by a request.
THEOREM NoReplyLost == Spec => []NothingLost
<1>1. IInv => NothingLost
  BY DEF IInv
<1> QED  BY <1>1, Invariance, PTL

\* stop() never cancels a future a request waits for.
THEOREM WaitersSurviveStop == Spec => []NeverAwaitsCancelled
<1>1. IInv => NeverAwaitsCancelled
  BY DEF IInv, TypeOK, HoldersOK, CancelledOK, NeverAwaitsCancelled
<1> QED  BY <1>1, Invariance, PTL
=============================================================================
