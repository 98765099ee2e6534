--------------------------- MODULE SequenceFacts ---------------------------
(***************************************************************************)
(* What the queues, maps and streams of the models are proved from:        *)
(* sequences without repetitions, sequences that are the rest of another,  *)
(* and what removing an element leaves.                                    *)
(***************************************************************************)
EXTENDS SequencesExt, SequenceTheorems, WellFoundedInduction, TLAPS

NoRepeat(q) == \A i, j \in DOMAIN q : q[i] = q[j] => i = j

(* q is the end of s.                                                      *)
IsRest(q, s) ==
  /\ Len(q) <= Len(s)
  /\ \A i \in 1 .. Len(q) : q[i] = s[Len(s) - Len(q) + i]

\* Appending a new element keeps the elements distinct.
LEMMA AppendFacts ==
    ASSUME NEW S, NEW q \in Seq(S), NEW m \in S, NoRepeat(q), m \notin ToSet(q)
    PROVE  /\ Append(q, m) \in Seq(S)
           /\ Len(Append(q, m)) = Len(q) + 1
           /\ NoRepeat(Append(q, m))
           /\ ToSet(Append(q, m)) = ToSet(q) \cup {m}
<1> DEFINE a == Append(q, m)
<1>1. a \in Seq(S) /\ Len(a) = Len(q) + 1
  BY AppendProperties
<1>2. /\ \A i \in 1..Len(q) : a[i] = q[i]
      /\ a[Len(q) + 1] = m
  BY AppendProperties
<1>3. DOMAIN a = 1..(Len(q) + 1) /\ DOMAIN q = 1..Len(q) /\ Len(q) \in Nat
  BY <1>1, LenProperties
<1>4. ToSet(a) = ToSet(q) \cup {m}
  BY <1>2, <1>3 DEF ToSet
<1>5. NoRepeat(a)
  <2> SUFFICES ASSUME NEW i \in DOMAIN a, NEW j \in DOMAIN a, a[i] = a[j]
               PROVE  i = j
    BY DEF NoRepeat
  <2>1. (i \in 1..Len(q) \/ i = Len(q) + 1) /\ (j \in 1..Len(q) \/ j = Len(q) + 1)
    BY <1>3
  <2>2. \A k \in 1..Len(q) : q[k] # m
    BY <1>3 DEF ToSet
  <2> QED  BY <2>1, <2>2, <1>2, <1>3 DEF NoRepeat
<1> QED  BY <1>1, <1>4, <1>5

\* Removing an element moves the ones behind it.
LEMMA RemoveAtIndex ==
    ASSUME NEW S, NEW q \in Seq(S), NEW k \in DOMAIN q
    PROVE  /\ RemoveAt(q, k) \in Seq(S) /\ Len(RemoveAt(q, k)) = Len(q) - 1
           /\ \A i \in 1..(Len(q) - 1) : RemoveAt(q, k)[i] = IF i <= k - 1 THEN q[i] ELSE q[i + 1]
<1> DEFINE a == SubSeq(q, 1, k - 1)
           b == SubSeq(q, k + 1, Len(q))
           r == RemoveAt(q, k)
<1>1. DOMAIN q = 1..Len(q) /\ Len(q) \in Nat /\ k \in 1..Len(q)
  BY LenProperties
<1>2. /\ a \in Seq(S) /\ Len(a) = k - 1
      /\ \A i \in 1..(k - 1) : a[i] = q[i]
  BY <1>1, SubSeqProperties
<1>3. /\ b \in Seq(S) /\ Len(b) = Len(q) - k
      /\ \A i \in 1..(Len(q) - k) : b[i] = q[k + i]
  BY <1>1, SubSeqProperties
<1>4. /\ r \in Seq(S) /\ Len(r) = Len(q) - 1
      /\ \A i \in 1..(Len(q) - 1) : r[i] = IF i <= k - 1 THEN q[i] ELSE q[i + 1]
  <2>1. r = a \o b
    BY DEF RemoveAt
  <2>2. /\ r \in Seq(S) /\ Len(r) = Len(a) + Len(b)
        /\ \A i \in 1..(Len(a) + Len(b)) : r[i] = IF i <= Len(a) THEN a[i] ELSE b[i - Len(a)]
    BY SMTT(20), <2>1, <1>2, <1>3, ConcatProperties
  <2>3. SUFFICES ASSUME NEW i \in 1..(Len(q) - 1)
                 PROVE  r[i] = IF i <= k - 1 THEN q[i] ELSE q[i + 1]
    BY <2>2, <1>1, <1>2, <1>3
  <2>4. CASE i <= k - 1
    BY <2>2, <2>4, <1>1, <1>2, <1>3
  <2>5. CASE i > k - 1
    <3>a. i \in 1..(Len(a) + Len(b)) /\ ~(i <= Len(a)) /\ i - Len(a) = i - (k - 1)
      BY <2>5, <1>1, <1>2, <1>3
    <3>1. r[i] = b[i - (k - 1)] /\ i - (k - 1) \in 1..(Len(q) - k)
      <4>1. r[i] = b[i - Len(a)]
        BY <2>2, <3>a
      <4>2. i - (k - 1) \in 1..(Len(q) - k)
        BY <2>5, <1>1
      <4> QED  BY <4>1, <4>2, <3>a
    <3>2. b[i - (k - 1)] = q[k + (i - (k - 1))] /\ k + (i - (k - 1)) = i + 1
      BY SMTT(20), <3>1, <1>1, <1>3
    <3> QED  BY <3>1, <3>2, <2>5, <1>1
  <2> QED  BY <2>4, <2>5, <1>1
<1> QED  BY <1>4

\* Removing an element leaves all the other ones.
LEMMA RemoveAtFacts ==
    ASSUME NEW S, NEW q \in Seq(S), NEW k \in DOMAIN q, NoRepeat(q)
    PROVE  /\ RemoveAt(q, k) \in Seq(S)
           /\ Len(RemoveAt(q, k)) = Len(q) - 1
           /\ NoRepeat(RemoveAt(q, k))
           /\ ToSet(RemoveAt(q, k)) = ToSet(q) \ {q[k]}
<1> DEFINE r == RemoveAt(q, k)
<1>1. DOMAIN q = 1..Len(q) /\ Len(q) \in Nat /\ k \in 1..Len(q)
  BY LenProperties
<1>2. /\ r \in Seq(S) /\ Len(r) = Len(q) - 1
      /\ \A i \in 1..(Len(q) - 1) : r[i] = IF i <= k - 1 THEN q[i] ELSE q[i + 1]
  BY RemoveAtIndex
<1>3. DOMAIN r = 1..(Len(q) - 1)
  BY <1>1, <1>2, LenProperties
<1>4. NoRepeat(r)
  <2> SUFFICES ASSUME NEW i \in DOMAIN r, NEW j \in DOMAIN r, r[i] = r[j]
               PROVE  i = j
    BY DEF NoRepeat
  <2> DEFINE at(n) == IF n <= k - 1 THEN n ELSE n + 1
  <2>1. i \in 1..(Len(q) - 1) /\ j \in 1..(Len(q) - 1)
    BY <1>3
  <2>2. at(i) \in DOMAIN q /\ at(j) \in DOMAIN q
    BY <2>1, <1>1
  <2>3. r[i] = q[at(i)] /\ r[j] = q[at(j)]
    BY <2>1, <1>2
  <2>4. at(i) = at(j)
    BY <2>2, <2>3 DEF NoRepeat
  <2> QED  BY <2>1, <2>4, <1>1
<1>5. ToSet(r) \subseteq ToSet(q) \ {q[k]}
  <2> SUFFICES ASSUME NEW i \in DOMAIN r
               PROVE  r[i] \in ToSet(q) /\ r[i] # q[k]
    BY DEF ToSet
  <2>1. i \in 1..(Len(q) - 1) /\ i \in DOMAIN q /\ i + 1 \in DOMAIN q
    BY <1>1, <1>3
  <2> QED  BY <1>1, <1>2, <2>1 DEF ToSet, NoRepeat
<1>6. ToSet(q) \ {q[k]} \subseteq ToSet(r)
  <2> SUFFICES ASSUME NEW j \in DOMAIN q, q[j] # q[k]
               PROVE  \E i \in DOMAIN r : r[i] = q[j]
    BY DEF ToSet
  <2>1. CASE j < k
    <3>1. j \in DOMAIN r /\ j <= k - 1
      BY <2>1, <1>1, <1>3
    <3> QED  BY <3>1, <1>2, <1>3
  <2>2. CASE j > k
    <3>1. j - 1 \in DOMAIN r /\ ~(j - 1 <= k - 1) /\ (j - 1) + 1 = j
      BY <2>2, <1>1, <1>3
    <3> QED  BY <3>1, <1>2, <1>3
  <2> QED  BY <2>1, <2>2, <1>1
<1> QED  BY <1>2, <1>4, <1>5, <1>6

(* What is appended to both keeps one the rest of the other.               *)
LEMMA RestAppend ==
  ASSUME NEW S, NEW q \in Seq(S), NEW s \in Seq(S), NEW x \in S, IsRest(q, s)
  PROVE  IsRest(Append(q, x), Append(s, x))
<1> DEFINE qx == Append(q, x)  sx == Append(s, x)
<1>1. PICK m \in Nat, n \in Nat : m = Len(q) /\ n = Len(s)
  OBVIOUS
<1>2. Len(qx) = m + 1 /\ Len(sx) = n + 1 /\ m <= n
  BY <1>1 DEF IsRest
<1>3. ASSUME NEW i \in 1 .. m PROVE qx[i] = sx[n - m + i]
  <2>1. n - m + i \in 1 .. n
    BY <1>2
  <2>2. qx[i] = q[i] /\ sx[n - m + i] = s[n - m + i]
    BY <1>1, <2>1
  <2> QED
    BY <1>1, <2>2 DEF IsRest
<1>4. qx[m + 1] = x /\ sx[n + 1] = x
  BY <1>1
<1>5. (n + 1) - (m + 1) = n - m /\ (n - m) + (m + 1) = n + 1
  OBVIOUS
<1> HIDE DEF qx, sx
<1>6. ASSUME NEW i \in 1 .. m + 1 PROVE qx[i] = sx[(n + 1) - (m + 1) + i]
  <2>1. CASE i = m + 1
    BY <1>4, <1>5, <2>1
  <2>2. CASE i \in 1 .. m
    BY <1>3, <1>5, <2>2
  <2> QED
    BY <2>1, <2>2
<1>7. m + 1 <= n + 1
  BY <1>2
<1>8. IsRest(qx, sx)
  BY <1>2, <1>6, <1>7 DEF IsRest
<1> QED
  BY <1>8 DEF qx, sx

(* So does taking the front off the rest.                                  *)
LEMMA RestTail ==
  ASSUME NEW S, NEW q \in Seq(S), NEW s \in Seq(S), q # <<>>, IsRest(q, s)
  PROVE  IsRest(Tail(q), s)
<1>1. PICK m \in Nat, n \in Nat : m = Len(q) /\ n = Len(s)
  OBVIOUS
<1>2. m # 0 /\ m <= n /\ Len(Tail(q)) = m - 1
  BY <1>1 DEF IsRest
<1>3. ASSUME NEW i \in 1 .. m - 1 PROVE Tail(q)[i] = s[n - (m - 1) + i]
  <2>1. i + 1 \in 1 .. m /\ n - m + (i + 1) = n - (m - 1) + i
    BY <1>2
  <2>2. Tail(q)[i] = q[i + 1]
    BY <1>1, <1>2
  <2>3. q[i + 1] = s[n - m + (i + 1)]
    BY <1>1, <2>1 DEF IsRest
  <2> QED
    BY <2>1, <2>2, <2>3
<1> QED
  BY <1>1, <1>2, <1>3 DEF IsRest

(* RemoveFirst, where nothing repeats, removes the element it names.       *)
LEMMA RemoveFirstIsRemoveAt ==
  ASSUME NEW S, NEW q \in Seq(S), NEW x, NoRepeat(q)
  PROVE  \/ RemoveFirst(q, x) = q /\ \A i \in DOMAIN q : q[i] # x
         \/ \E k \in DOMAIN q : q[k] = x /\ RemoveFirst(q, x) = RemoveAt(q, k)
<1>1. DOMAIN q = 1 .. Len(q)
  BY LenProperties
<1>2. CASE ~\E i \in 1 .. Len(q) : q[i] = x
  BY <1>1, <1>2 DEF RemoveFirst
<1>3. ASSUME NEW k \in 1 .. Len(q), q[k] = x PROVE RemoveFirst(q, x) = RemoveAt(q, k)
  <2> DEFINE I == {i \in 1 .. Len(q) : q[i] = x}
  <2>1. I = {k}
    BY <1>1, <1>3 DEF NoRepeat
  <2>2. Min(I) = k
    BY <2>1 DEF Min
  <2>3. SelectInSeq(q, LAMBDA v : v = x) = k
    BY <2>1, <2>2 DEF SelectInSeq
  <2> QED
    BY <1>3, <2>3 DEF RemoveFirst
<1> QED
  BY <1>1, <1>2, <1>3

LEMMA RemoveFirstFacts ==
  ASSUME NEW S, NEW q \in Seq(S), NEW x, NoRepeat(q)
  PROVE  /\ RemoveFirst(q, x) \in Seq(S)
         /\ NoRepeat(RemoveFirst(q, x))
         /\ ToSet(RemoveFirst(q, x)) = ToSet(q) \ {x}
<1>1. CASE RemoveFirst(q, x) = q /\ \A i \in DOMAIN q : q[i] # x
  <2>1. x \notin ToSet(q)
    BY <1>1 DEF ToSet
  <2> QED
    BY <1>1, <2>1
<1>2. ASSUME NEW k \in DOMAIN q, q[k] = x, RemoveFirst(q, x) = RemoveAt(q, k)
      PROVE  /\ RemoveFirst(q, x) \in Seq(S) /\ NoRepeat(RemoveFirst(q, x))
             /\ ToSet(RemoveFirst(q, x)) = ToSet(q) \ {x}
  BY <1>2, RemoveAtFacts
<1> QED
  BY <1>1, <1>2, RemoveFirstIsRemoveAt

(* The suffix of the community modules, which reverses both, is a rest.    *)
LEMMA SuffixIsRest ==
  ASSUME NEW S, NEW s \in Seq(S), NEW t \in Seq(S)
  PROVE  IsSuffix(s, t) <=> IsRest(s, t)
<1> DEFINE a == Reverse(s)  b == Reverse(t)
<1>1. PICK m \in Nat, n \in Nat : m = Len(s) /\ n = Len(t)
  OBVIOUS
<1>2. /\ a = [i \in 1 .. m |-> s[(m - i) + 1]] /\ b = [i \in 1 .. n |-> t[(n - i) + 1]]
  BY <1>1 DEF Reverse
<1>3. /\ \A i \in 1 .. m : s[(m - i) + 1] \in S
      /\ \A i \in 1 .. n : t[(n - i) + 1] \in S
  <2>1. \A i \in 1 .. m : (m - i) + 1 \in 1 .. m
    OBVIOUS
  <2>2. \A i \in 1 .. n : (n - i) + 1 \in 1 .. n
    OBVIOUS
  <2> QED
    BY <1>1, <2>1, <2>2
<1>4. /\ a \in Seq(S) /\ Len(a) = m /\ \A i \in 1 .. m : a[i] = s[(m - i) + 1]
      /\ b \in Seq(S) /\ Len(b) = n /\ \A i \in 1 .. n : b[i] = t[(n - i) + 1]
  <2>1. a \in [1 .. m -> S] /\ b \in [1 .. n -> S]
    BY <1>2, <1>3
  <2> QED
    BY <1>2, <2>1
<1> HIDE DEF a, b
<1>5. IsPrefix(a, b) <=> m <= n /\ \A i \in 1 .. m : a[i] = b[i]
  <2>1. ASSUME m <= n PROVE SubSeq(a, 1, m) = SubSeq(b, 1, m) <=> \A i \in 1 .. m : a[i] = b[i]
    <3>1. /\ SubSeq(a, 1, m) \in Seq(S) /\ Len(SubSeq(a, 1, m)) = m
          /\ \A i \in 1 .. m : SubSeq(a, 1, m)[i] = a[i]
      BY <1>4
    <3>2. /\ SubSeq(b, 1, m) \in Seq(S) /\ Len(SubSeq(b, 1, m)) = m
          /\ \A i \in 1 .. m : SubSeq(b, 1, m)[i] = b[i]
      BY <1>4, <2>1
    <3> QED
      BY <3>1, <3>2, SeqEqual
  <2> QED
    BY <1>4, <2>1 DEF IsPrefix
<1>6. (m <= n /\ \A i \in 1 .. m : a[i] = b[i]) <=> IsRest(s, t)
  <2>1. ASSUME m <= n PROVE (\A i \in 1 .. m : a[i] = b[i]) <=> \A i \in 1 .. m : s[i] = t[n - m + i]
    <3>1. \A i \in 1 .. m : /\ (m - i) + 1 \in 1 .. m /\ (m - ((m - i) + 1)) + 1 = i
                            /\ (n - i) + 1 = n - m + ((m - i) + 1) /\ i \in 1 .. n
      BY <2>1
    <3>2. ASSUME \A i \in 1 .. m : a[i] = b[i], NEW i \in 1 .. m PROVE s[i] = t[n - m + i]
      <4>1. PICK j \in 1 .. m : j = (m - i) + 1
        BY <3>1
      <4>2. a[j] = s[(m - j) + 1] /\ b[j] = t[(n - j) + 1]
        BY <1>4, <3>1, <4>1
      <4>3. (m - j) + 1 = i /\ (n - j) + 1 = n - m + i
        BY <4>1
      <4> QED
        BY <3>2, <4>2, <4>3
    <3>3. ASSUME \A i \in 1 .. m : s[i] = t[n - m + i], NEW i \in 1 .. m PROVE a[i] = b[i]
      <4>1. a[i] = s[(m - i) + 1] /\ b[i] = t[(n - i) + 1]
        BY <1>4, <3>1
      <4> QED
        BY <3>1, <3>3, <4>1
    <3> QED
      BY <3>2, <3>3
  <2> QED
    BY <1>1, <2>1 DEF IsRest
<1> QED
  BY <1>5, <1>6 DEF IsSuffix, a, b

LEMMA RestOfItself == ASSUME NEW S, NEW q \in Seq(S) PROVE IsRest(q, q)
<1>1. PICK n \in Nat : n = Len(q)
  OBVIOUS
<1>2. \A i \in 1 .. n : n - n + i = i
  OBVIOUS
<1> QED
  BY <1>1, <1>2 DEF IsRest

(* A rest of what does not repeat has some of its elements, once each.     *)
LEMMA RestOf ==
  ASSUME NEW S, NEW q \in Seq(S), NEW s \in Seq(S), IsRest(q, s), NoRepeat(s)
  PROVE  NoRepeat(q) /\ ToSet(q) \subseteq ToSet(s)
<1>1. PICK m \in Nat, n \in Nat : /\ m = Len(q) /\ DOMAIN q = 1 .. m
                                 /\ n = Len(s) /\ DOMAIN s = 1 .. n /\ m <= n
  BY LenProperties DEF IsRest
<1>2. \A i \in 1 .. m : n - m + i \in 1 .. n /\ q[i] = s[n - m + i]
  BY <1>1 DEF IsRest
<1>3. NoRepeat(q)
  <2> SUFFICES ASSUME NEW i \in 1 .. m, NEW j \in 1 .. m, q[i] = q[j] PROVE i = j
    BY <1>1 DEF NoRepeat
  <2>1. PICK u \in 1 .. n, v \in 1 .. n : u = n - m + i /\ v = n - m + j
    BY <1>2
  <2>2. s[u] = s[v]
    BY <1>2, <2>1
  <2>3. u = v
    BY <1>1, <2>2 DEF NoRepeat
  <2> QED
    BY <2>1, <2>3
<1>4. ASSUME NEW i \in 1 .. m PROVE q[i] \in ToSet(s)
  BY <1>1, <1>2 DEF ToSet
<1> QED
  BY <1>1, <1>3, <1>4 DEF ToSet

(* The front of what does not repeat is not in what follows it.            *)
LEMMA TailOf ==
  ASSUME NEW S, NEW q \in Seq(S), q # <<>>, NoRepeat(q)
  PROVE  /\ Head(q) \in ToSet(q) /\ Head(q) \in S /\ Tail(q) \in Seq(S)
         /\ ToSet(Tail(q)) = ToSet(q) \ {Head(q)}
<1>1. PICK m \in Nat : m = Len(q) /\ m # 0 /\ DOMAIN q = 1 .. m
  BY EmptySeq, LenProperties
<1>2. /\ Tail(q) \in Seq(S) /\ DOMAIN Tail(q) = 1 .. m - 1 /\ Head(q) = q[1]
      /\ \A i \in 1 .. m - 1 : Tail(q)[i] = q[i + 1]
  BY <1>1, HeadTailProperties, LenProperties
<1>3. ToSet(Tail(q)) \subseteq ToSet(q) \ {q[1]}
  <2> SUFFICES ASSUME NEW i \in 1 .. m - 1 PROVE Tail(q)[i] \in ToSet(q) /\ Tail(q)[i] # q[1]
    BY <1>2 DEF ToSet
  <2>1. PICK k \in 1 .. m : k = i + 1 /\ k # 1 /\ 1 \in 1 .. m
    BY <1>1
  <2>2. Tail(q)[i] = q[k]
    BY <1>2, <2>1
  <2>3. q[k] # q[1]
    BY <1>1, <2>1 DEF NoRepeat
  <2> QED
    BY <1>1, <2>2, <2>3 DEF ToSet
<1>4. ToSet(q) \ {q[1]} \subseteq ToSet(Tail(q))
  <2>1. ASSUME NEW j \in 1 .. m, q[j] # q[1] PROVE q[j] \in ToSet(Tail(q))
    <3>1. PICK i \in 1 .. m - 1 : j = i + 1
      BY <2>1
    <3>2. Tail(q)[i] = q[j]
      BY <1>2, <3>1
    <3> QED
      BY <1>2, <3>2 DEF ToSet
  <2> QED
    BY <1>1, <2>1 DEF ToSet
<1>5. q[1] \in ToSet(q) /\ q[1] \in S
  BY <1>1 DEF ToSet
<1> QED
  BY <1>2, <1>3, <1>4, <1>5

-----------------------------------------------------------------------------
LEMMA HeadThenTail ==
  ASSUME NEW S, NEW q \in Seq(S), q # <<>>
  PROVE  q = <<Head(q)>> \o Tail(q) /\ <<Head(q)>> \in Seq(S) /\ Tail(q) \in Seq(S) /\ Head(q) \in S
<1>1. /\ Head(q) \in S /\ Head(q) = q[1] /\ Tail(q) \in Seq(S) /\ Len(Tail(q)) = Len(q) - 1
      /\ \A i \in 1 .. Len(q) - 1 : Tail(q)[i] = q[i + 1]
  BY HeadTailProperties
<1>2. PICK n \in Nat : n = Len(q) /\ n # 0
  BY EmptySeq
<1> DEFINE a == <<Head(q)>>  r == a \o Tail(q)
<1>3. a \in Seq(S) /\ Len(a) = 1 /\ a[1] = q[1]
  BY <1>1
<1>4. /\ r \in Seq(S) /\ Len(r) = n
      /\ \A i \in 1 .. n : r[i] = IF i <= 1 THEN a[i] ELSE Tail(q)[i - 1]
  BY <1>1, <1>2, <1>3, ConcatProperties
<1>5. ASSUME NEW i \in 1 .. n PROVE r[i] = q[i]
  <2>1. CASE i = 1
    BY <1>3, <1>4, <2>1
  <2>2. CASE i # 1
    <3>1. i - 1 \in 1 .. n - 1 /\ (i - 1) + 1 = i
      BY <2>2
    <3>2. Tail(q)[i - 1] = q[i]
      BY <1>1, <1>2, <3>1
    <3> QED
      BY <1>4, <2>2, <3>2
  <2> QED
    BY <2>1, <2>2
<1>6. r = q
  BY <1>2, <1>4, <1>5, SeqEqual
<1> QED
  BY <1>1, <1>3, <1>6

(* \o, for the provers to take as it is                                    *)
Cat(a, b) == a \o b

LEMMA CatFacts ==
  ASSUME NEW S, NEW a \in Seq(S), NEW b \in Seq(S)
  PROVE  /\ Cat(a, b) \in Seq(S)
         /\ \A c \in Seq(S) : Cat(Cat(a, b), c) = Cat(a, Cat(b, c))
<1>1. Cat(a, b) \in Seq(S)
  BY ConcatProperties DEF Cat
<1>2. ASSUME NEW c \in Seq(S) PROVE (a \o b) \o c = a \o (b \o c)
  BY ConcatAssociative
<1> QED
  BY <1>1, <1>2 DEF Cat

(* Three queues, the oldest first: what goes in at the end of the last,    *)
(* and what passes from the front of one to the end of the one before,     *)
(* leaves their order; what falls off the front of the middle one is one   *)
(* element less.                                                           *)
Joined(g, q, p) == (g \o q) \o p

LEMMA JoinedFacts ==
  ASSUME NEW S, NEW g \in Seq(S), NEW q \in Seq(S), NEW p \in Seq(S)
  PROVE  /\ Joined(g, q, p) \in Seq(S) /\ Len(Joined(g, q, p)) = Len(g) + Len(q) + Len(p)
         /\ q = <<>> /\ p = <<>> => Joined(g, q, p) = g
<1>1. g \o q \in Seq(S) /\ Len(g \o q) = Len(g) + Len(q)
  BY ConcatProperties
<1>2. Joined(g, q, p) \in Seq(S) /\ Len(Joined(g, q, p)) = Len(g \o q) + Len(p)
  BY <1>1, ConcatProperties DEF Joined
<1>3. q = <<>> /\ p = <<>> => Joined(g, q, p) = g
  BY ConcatEmptySeq DEF Joined
<1> QED
  BY <1>1, <1>2, <1>3

LEMMA JoinedAppend ==
  ASSUME NEW S, NEW g \in Seq(S), NEW q \in Seq(S), NEW p \in Seq(S), NEW v \in S
  PROVE  Joined(g, q, Append(p, v)) = Append(Joined(g, q, p), v)
<1>1. PICK w \in Seq(S) : w = <<v>>
  <2>1. <<v>> \in Seq(S)
    OBVIOUS
  <2> QED
    BY <2>1
<1>2. Append(p, v) = Cat(p, w)
  BY <1>1, AppendIsConcat DEF Cat
<1>3. Cat(Cat(g, q), p) \in Seq(S)
  BY CatFacts
<1>4. Append(Cat(Cat(g, q), p), v) = Cat(Cat(Cat(g, q), p), w)
  BY <1>1, <1>3, AppendIsConcat DEF Cat
<1>5. Cat(Cat(Cat(g, q), p), w) = Cat(Cat(g, q), Cat(p, w))
  BY CatFacts
<1>6. Cat(Cat(g, q), Append(p, v)) = Append(Cat(Cat(g, q), p), v)
  BY <1>2, <1>4, <1>5
<1> QED
  BY <1>6 DEF Cat, Joined

LEMMA JoinedPassed ==
  ASSUME NEW S, NEW g \in Seq(S), NEW q \in Seq(S), NEW p \in Seq(S), p # <<>>
  PROVE  Joined(g, Append(q, Head(p)), Tail(p)) = Joined(g, q, p)
<1>1. PICK h \in Seq(S), t \in Seq(S) : h = <<Head(p)>> /\ t = Tail(p) /\ p = Cat(h, t)
  BY HeadThenTail DEF Cat
<1>2. Append(q, Head(p)) = Cat(q, h)
  BY <1>1, AppendIsConcat, HeadThenTail DEF Cat
<1>3. Cat(Cat(g, Cat(q, h)), t) = Cat(Cat(g, q), Cat(h, t))
  BY CatFacts
<1>4. Cat(Cat(g, Append(q, Head(p))), Tail(p)) = Cat(Cat(g, q), p)
  BY <1>1, <1>2, <1>3
<1> QED
  BY <1>4 DEF Cat, Joined

LEMMA JoinedTaken ==
  ASSUME NEW S, NEW g \in Seq(S), NEW q \in Seq(S), NEW p \in Seq(S), q # <<>>
  PROVE  Joined(Append(g, Head(q)), Tail(q), p) = Joined(g, q, p)
<1>1. PICK h \in Seq(S), t \in Seq(S) : h = <<Head(q)>> /\ t = Tail(q) /\ q = Cat(h, t)
  BY HeadThenTail DEF Cat
<1>2. Append(g, Head(q)) = Cat(g, h)
  BY <1>1, AppendIsConcat, HeadThenTail DEF Cat
<1>3. Cat(Cat(g, h), t) = Cat(g, Cat(h, t))
  BY CatFacts
<1>4. Cat(Cat(Append(g, Head(q)), Tail(q)), p) = Cat(Cat(g, q), p)
  BY <1>1, <1>2, <1>3
<1> QED
  BY <1>4 DEF Cat, Joined

LEMMA JoinedDropped ==
  ASSUME NEW S, NEW g \in Seq(S), NEW q \in Seq(S), NEW p \in Seq(S), q # <<>>
  PROVE  /\ Joined(g, Tail(q), p) = RemoveAt(Joined(g, q, p), Len(g) + 1)
         /\ Len(g) + 1 \in DOMAIN Joined(g, q, p)
<1> DEFINE t == Tail(q)  x == (g \o q) \o p  y == (g \o t) \o p
<1>1. PICK l \in Nat, m \in Nat, n \in Nat : l = Len(g) /\ m = Len(q) /\ n = Len(p) /\ m # 0
  BY EmptySeq
<1>2. /\ t \in Seq(S) /\ Len(t) = m - 1
      /\ \A i \in 1 .. m - 1 : t[i] = q[i + 1]
  BY <1>1, HeadTailProperties
<1>3. /\ g \o q \in Seq(S) /\ Len(g \o q) = l + m
      /\ \A i \in 1 .. l + m : (g \o q)[i] = IF i <= l THEN g[i] ELSE q[i - l]
  BY <1>1, ConcatProperties
<1>4. /\ x \in Seq(S) /\ Len(x) = l + m + n
      /\ \A i \in 1 .. l + m + n : x[i] = IF i <= l + m THEN (g \o q)[i] ELSE p[i - (l + m)]
  BY <1>1, <1>3, ConcatProperties
<1>5. /\ g \o t \in Seq(S) /\ Len(g \o t) = l + m - 1
      /\ \A i \in 1 .. l + m - 1 : (g \o t)[i] = IF i <= l THEN g[i] ELSE t[i - l]
  <2>1. l + (m - 1) = l + m - 1
    OBVIOUS
  <2> QED
    BY <1>1, <1>2, <2>1, ConcatProperties
<1>6. /\ y \in Seq(S) /\ Len(y) = l + m + n - 1
      /\ \A i \in 1 .. l + m + n - 1 : y[i] = IF i <= l + m - 1 THEN (g \o t)[i] ELSE p[i - (l + m - 1)]
  <2>1. (l + m - 1) + n = l + m + n - 1
    OBVIOUS
  <2> QED
    BY <1>1, <1>5, <2>1, ConcatProperties
<1> HIDE DEF t, x, y
<1>7. DOMAIN x = 1 .. l + m + n /\ l + 1 \in DOMAIN x
  BY <1>1, <1>4, LenProperties
<1> DEFINE r == RemoveAt(x, l + 1)
<1>8. /\ r \in Seq(S) /\ Len(r) = l + m + n - 1
      /\ \A i \in 1 .. l + m + n - 1 : r[i] = IF i <= l THEN x[i] ELSE x[i + 1]
  <2>1. (l + 1) - 1 = l
    OBVIOUS
  <2>2. /\ r \in Seq(S) /\ Len(r) = Len(x) - 1
        /\ \A i \in 1 .. Len(x) - 1 : r[i] = IF i <= (l + 1) - 1 THEN x[i] ELSE x[i + 1]
    <3>1. x \in Seq(S) /\ l + 1 \in DOMAIN x
      BY <1>4, <1>7
    <3> QED
      BY <3>1, RemoveAtIndex, Zenon
  <2> QED
    BY <1>4, <2>1, <2>2
<1> HIDE DEF r
<1>9. ASSUME NEW i \in 1 .. l + m + n - 1 PROVE y[i] = r[i]
  <2>1. CASE i <= l
    <3>1. i <= l + m - 1 /\ i \in 1 .. l + m - 1 /\ i \in 1 .. l + m /\ i <= l + m /\ i \in 1 .. l + m + n
      BY <1>1, <2>1
    <3> QED
      BY <1>3, <1>4, <1>5, <1>6, <1>8, <2>1, <3>1
  <2>2. CASE i > l /\ i <= l + m - 1
    <3>1. /\ i - l \in 1 .. m - 1 /\ (i - l) + 1 = (i + 1) - l /\ i + 1 <= l + m /\ i + 1 \in 1 .. l + m
          /\ i \in 1 .. l + m - 1 /\ i + 1 \in 1 .. l + m + n /\ ~(i + 1 <= l) /\ ~(i <= l)
      BY <1>1, <2>2
    <3>2. y[i] = t[i - l] /\ t[i - l] = q[(i + 1) - l]
      BY <1>2, <1>5, <1>6, <2>2, <3>1
    <3>3. r[i] = x[i + 1] /\ x[i + 1] = q[(i + 1) - l]
      BY <1>3, <1>4, <1>8, <3>1
    <3> QED
      BY <3>2, <3>3
  <2>3. CASE i > l + m - 1
    <3>1. /\ i - (l + m - 1) = (i + 1) - (l + m) /\ ~(i + 1 <= l + m) /\ ~(i <= l) /\ i + 1 \in 1 .. l + m + n
          /\ ~(i <= l + m - 1)
      BY <1>1, <2>3
    <3>2. y[i] = p[(i + 1) - (l + m)]
      BY <1>6, <3>1
    <3>3. r[i] = x[i + 1] /\ x[i + 1] = p[(i + 1) - (l + m)]
      BY <1>4, <1>8, <3>1
    <3> QED
      BY <3>2, <3>3
  <2> QED
    BY <2>1, <2>2, <2>3
<1>10. y = r
  BY <1>6, <1>8, <1>9, SeqEqual
<1> QED
  BY <1>1, <1>7, <1>10 DEF r, x, y, t, Joined

(* The least element of a set of numbers.                                  *)
LEMMA LeastOf ==
  ASSUME NEW T, T \subseteq Nat, T # {}
  PROVE  \E x \in T : \A y \in T : x <= y
<1> DEFINE R == {ss \in Nat \X Nat : ss[1] < ss[2]}
<1>1. IsWellFoundedOn(R, Nat)
  BY NatLessThanWellFounded DEF OpToRel
<1>2. PICK x \in T : \A y \in T : ~(<<y, x>> \in R)
  BY <1>1, WFMin
<1>3. ASSUME NEW y \in T PROVE x <= y
  <2>1. <<y, x>> \notin R
    BY <1>2
  <2>2. ~(y < x)
    BY <2>1
  <2> QED
    BY <2>2
<1> QED
  BY <1>3

(* A queue that is cut has the elements of both parts, once each.          *)
LEMMA CutFacts ==
  ASSUME NEW S, NEW q \in Seq(S), NoRepeat(q), NEW k \in 1 .. Len(q)
  PROVE  /\ SubSeq(q, 1, k) \in Seq(S) /\ Len(SubSeq(q, 1, k)) = k
         /\ SubSeq(q, k + 1, Len(q)) \in Seq(S) /\ NoRepeat(SubSeq(q, k + 1, Len(q)))
         /\ ToSet(SubSeq(q, k + 1, Len(q))) \subseteq ToSet(q) \ ToSet(SubSeq(q, 1, k))
         /\ ToSet(SubSeq(q, 1, k)) \subseteq ToSet(q)
         /\ Last(SubSeq(q, 1, k)) \in ToSet(SubSeq(q, 1, k))
<1> DEFINE a == SubSeq(q, 1, k)  b == SubSeq(q, k + 1, Len(q))
<1>1. PICK n \in Nat : n = Len(q) /\ DOMAIN q = 1 .. n /\ k \in 1 .. n
  BY LenProperties
<1>2. a \in Seq(S) /\ Len(a) = k /\ DOMAIN a = 1 .. k /\ \A i \in 1 .. k : a[i] = q[i]
  BY <1>1, SubSeqProperties, LenProperties
<1>3. b \in Seq(S) /\ Len(b) = n - k /\ DOMAIN b = 1 .. n - k /\ \A i \in 1 .. n - k : b[i] = q[k + i]
  BY <1>1, SubSeqProperties, LenProperties
<1> HIDE DEF a, b
<1>4. \A i \in 1 .. n - k : k + i \in 1 .. n /\ b[i] = q[k + i]
  BY <1>1, <1>3
<1>5. NoRepeat(b)
  <2> SUFFICES ASSUME NEW i \in 1 .. n - k, NEW j \in 1 .. n - k, b[i] = b[j] PROVE i = j
    BY <1>3 DEF NoRepeat
  <2>1. PICK u \in 1 .. n, v \in 1 .. n : u = k + i /\ v = k + j
    BY <1>4
  <2>2. q[u] = q[v]
    BY <1>4, <2>1
  <2>3. u = v
    BY <1>1, <2>2 DEF NoRepeat
  <2> QED
    BY <2>1, <2>3
<1>6. ToSet(b) \subseteq ToSet(q) \ ToSet(a)
  <2> SUFFICES ASSUME NEW i \in 1 .. n - k PROVE b[i] \in ToSet(q) /\ b[i] \notin ToSet(a)
    BY <1>3 DEF ToSet
  <2>1. PICK u \in 1 .. n : u = k + i /\ u > k
    BY <1>4
  <2>2. \A j \in 1 .. k : j \in 1 .. n /\ u # j
    BY <1>1, <2>1
  <2>3. \A j \in 1 .. k : q[j] # q[u]
    BY <1>1, <2>2 DEF NoRepeat
  <2>4. b[i] = q[u] /\ q[u] \in ToSet(q)
    BY <1>1, <1>4, <2>1 DEF ToSet
  <2>5. \A j \in 1 .. k : a[j] # q[u]
    BY <1>2, <2>3
  <2> QED
    BY <1>2, <2>4, <2>5 DEF ToSet
<1>7. ToSet(a) \subseteq ToSet(q)
  <2>1. ASSUME NEW j \in 1 .. k PROVE a[j] \in ToSet(q)
    BY <1>1, <1>2 DEF ToSet
  <2> QED
    BY <1>2, <2>1 DEF ToSet
<1>8. Last(a) \in ToSet(a)
  <2>1. k \in 1 .. k
    BY <1>1
  <2> QED
    BY <1>2, <2>1 DEF Last, ToSet
<1> QED
  BY <1>1, <1>2, <1>3, <1>5, <1>6, <1>7, <1>8 DEF a, b

(* Sequences are joined one by one.  P is a set of sequences that joining  *)
(* does not leave.                                                         *)
LEMMA FlattenSteps ==
  ASSUME NEW P, \A a, b \in P : a \o b \in P, NEW seqs \in Seq(P), Len(seqs) # 0
  PROVE  \E f \in [1 .. Len(seqs) -> P] :
            /\ FlattenSeq(seqs) = f[Len(seqs)]
            /\ \A i \in 1 .. Len(seqs) : f[i] = IF i = 1 THEN seqs[i] ELSE f[i - 1] \o seqs[i]
<1>a. PICK n \in Nat : n = Len(seqs) /\ n # 0 /\ \A i \in 1 .. n : seqs[i] \in P
  BY ElementOfSeq
<1> DEFINE Joins(f, m) == f = [i \in 1 .. m |-> IF i = 1 THEN seqs[i] ELSE f[i - 1] \o seqs[i]]
<1>1. \A m \in 1 .. n : \E f \in [1 .. m -> P] : Joins(f, m)
  <2> DEFINE T == {m \in 1 .. n : ~\E f \in [1 .. m -> P] : Joins(f, m)}
  <2> SUFFICES ASSUME T # {} PROVE FALSE
    OBVIOUS
  <2>1. PICK m \in T : \A k \in T : m <= k
    <3> HIDE DEF Joins
    <3>1. T \subseteq Nat
      OBVIOUS
    <3> HIDE DEF T
    <3> QED
      BY <3>1, LeastOf
  <2>2. CASE m = 1
    <3> DEFINE f == [i \in 1 .. 1 |-> seqs[1]]
    <3>1. f \in [1 .. 1 -> P] /\ Joins(f, 1)
      BY <1>a
    <3> QED
      BY <2>1, <2>2, <3>1
  <2>3. CASE m # 1
    <3> HIDE DEF Joins
    <3>0. m \in 1 .. n
      BY <2>1
    <3>1. m - 1 \in 1 .. n /\ m - 1 \notin T
      <4>1. m - 1 \in 1 .. n /\ ~(m <= m - 1)
        BY <3>0, <2>3, <1>a
      <4> HIDE DEF T
      <4> QED
        BY <2>1, <4>1
    <3>2. PICK g \in [1 .. m - 1 -> P] : Joins(g, m - 1)
      BY <3>1
    <3> USE DEF Joins
    <3> DEFINE f == [i \in 1 .. m |-> IF i = m THEN g[m - 1] \o seqs[m] ELSE g[i]]
    <3>3. g[m - 1] \o seqs[m] \in P
      <4>1. g[m - 1] \in P /\ seqs[m] \in P
        BY <1>a, <3>0, <3>1, <3>2
      <4> QED
        BY <4>1
    <3>4. f \in [1 .. m -> P]
      BY <3>3, <3>0
    <3>5. ASSUME NEW i \in 1 .. m PROVE f[i] = IF i = 1 THEN seqs[i] ELSE f[i - 1] \o seqs[i]
      <4>1. CASE i = m
        <5>1. f[i - 1] = g[m - 1] /\ f[i] = g[m - 1] \o seqs[m]
          <6>1. m - 1 \in 1 .. m /\ m \in 1 .. m /\ m - 1 # m
            BY <2>3, <3>0
          <6> QED
            BY <4>1, <6>1
        <5> QED
          BY <2>3, <4>1, <5>1
      <4>2. CASE i # m
        <5>1. i \in 1 .. m - 1 /\ f[i] = g[i]
          BY <3>0, <4>2
        <5>2. g[i] = IF i = 1 THEN seqs[i] ELSE g[i - 1] \o seqs[i]
          BY <3>2, <5>1
        <5>3. i # 1 => f[i - 1] = g[i - 1]
          BY <3>0, <5>1
        <5> QED
          BY <5>1, <5>2, <5>3
      <4> QED
        BY <4>1, <4>2
    <3>6. Joins(f, m)
      BY <3>4, <3>5
    <3> HIDE DEF Joins, f
    <3> QED
      BY <2>1, <3>4, <3>6
  <2> QED
    BY <2>2, <2>3
<1> DEFINE flatten == CHOOSE f : Joins(f, n)
<1>2. FlattenSeq(seqs) = flatten[n]
  BY <1>a DEF FlattenSeq
<1>3. Joins(flatten, n)
  <2>1. \E f : Joins(f, n)
    <3> HIDE DEF Joins
    <3>1. n \in 1 .. n
      BY <1>a
    <3> QED
      BY <1>1, <3>1
  <2> HIDE DEF Joins
  <2> QED
    BY <2>1
<1>4. ASSUME NEW i \in 1 .. n PROVE flatten[i] = IF i = 1 THEN seqs[i] ELSE flatten[i - 1] \o seqs[i]
  BY <1>3
<1> HIDE DEF flatten
<1>5. \A i \in 1 .. n : flatten[i] \in P
  <2> DEFINE T == {i \in 1 .. n : flatten[i] \notin P}
  <2> SUFFICES ASSUME T # {} PROVE FALSE
    OBVIOUS
  <2>1. PICK m \in T : \A k \in T : m <= k
    <3>1. T \subseteq Nat
      OBVIOUS
    <3> HIDE DEF T
    <3> QED
      BY <3>1, LeastOf
  <2>2. CASE m = 1
    BY <1>a, <1>4, <2>1, <2>2
  <2>3. CASE m # 1
    <3>1. m - 1 \in 1 .. n /\ m - 1 \notin T /\ m \in 1 .. n
      BY <2>1, <2>3
    <3>2. flatten[m - 1] \in P /\ seqs[m] \in P
      BY <1>a, <3>1
    <3>3. flatten[m] = flatten[m - 1] \o seqs[m]
      BY <1>4, <2>3, <3>1
    <3> QED
      BY <2>1, <3>2, <3>3
  <2> QED
    BY <2>2, <2>3
<1>6. PICK f \in [1 .. n -> P] : f = [i \in 1 .. n |-> flatten[i]]
  BY <1>5
<1>7. ASSUME NEW i \in 1 .. n PROVE f[i] = IF i = 1 THEN seqs[i] ELSE f[i - 1] \o seqs[i]
  <2>1. i # 1 => i - 1 \in 1 .. n
    OBVIOUS
  <2>2. f[i] = flatten[i] /\ (i # 1 => f[i - 1] = flatten[i - 1])
    BY <1>6, <2>1
  <2> QED
    BY <1>4, <2>2
<1>8. n \in 1 .. n /\ f[n] = flatten[n]
  BY <1>a, <1>6
<1> QED
  BY <1>a, <1>2, <1>7, <1>8

(* So what joining does not leave has the joined sequence.                 *)
LEMMA FlattenKeeps ==
  ASSUME NEW P, <<>> \in P, \A a, b \in P : a \o b \in P, NEW seqs \in Seq(P)
  PROVE  FlattenSeq(seqs) \in P
<1>1. CASE Len(seqs) = 0
  BY <1>1, EmptySeq DEF FlattenSeq
<1>2. CASE Len(seqs) # 0
  <2>1. PICK f \in [1 .. Len(seqs) -> P] : FlattenSeq(seqs) = f[Len(seqs)]
    BY <1>2, FlattenSteps
  <2>2. Len(seqs) \in 1 .. Len(seqs)
    BY <1>2, LenProperties
  <2> QED
    BY <2>1, <2>2
<1> QED
  BY <1>1, <1>2

(* What is joined from sequences over a set is one.                        *)
LEMMA FlattenFacts ==
  ASSUME NEW S, NEW seqs \in Seq(Seq(S))
  PROVE  FlattenSeq(seqs) \in Seq(S)
<1>1. <<>> \in Seq(S) /\ \A a, b \in Seq(S) : a \o b \in Seq(S)
  BY ConcatProperties, EmptySeq
<1>2. PICK P : P = Seq(S)
  OBVIOUS
<1> QED
  BY <1>1, <1>2, FlattenKeeps

(* Two sequences that are joined have the elements of both.                *)
LEMMA ConcatElements ==
  ASSUME NEW S, NEW a \in Seq(S), NEW b \in Seq(S)
  PROVE  ToSet(a \o b) = ToSet(a) \cup ToSet(b)
<1>1. PICK m \in Nat, n \in Nat : /\ m = Len(a) /\ DOMAIN a = 1 .. m
                                 /\ n = Len(b) /\ DOMAIN b = 1 .. n
  BY LenProperties
<1> DEFINE c == a \o b
<1>2. /\ c \in Seq(S) /\ Len(c) = m + n
      /\ \A i \in 1 .. m + n : c[i] = IF i <= m THEN a[i] ELSE b[i - m]
  BY <1>1, ConcatProperties
<1> HIDE DEF c
<1>3. DOMAIN c = 1 .. m + n
  BY <1>2, LenProperties
<1>4. \A i \in 1 .. m : i \in 1 .. m + n /\ c[i] = a[i]
  BY <1>2
<1>5. \A i \in 1 .. n : m + i \in 1 .. m + n /\ c[m + i] = b[i]
  <2> TAKE i \in 1 .. n
  <2>1. m + i \in 1 .. m + n /\ ~(m + i <= m) /\ (m + i) - m = i
    OBVIOUS
  <2> QED
    BY <1>2, <2>1
<1>6. \A i \in 1 .. m + n : c[i] \in ToSet(a) \cup ToSet(b)
  <2> TAKE i \in 1 .. m + n
  <2>1. CASE i <= m
    <3>1. i \in 1 .. m /\ c[i] = a[i]
      BY <1>2, <2>1
    <3> QED
      BY <1>1, <3>1 DEF ToSet
  <2>2. CASE ~(i <= m)
    <3>1. i - m \in 1 .. n /\ c[i] = b[i - m]
      BY <1>2, <2>2
    <3> QED
      BY <1>1, <3>1 DEF ToSet
  <2> QED
    BY <2>1, <2>2
<1>7. ToSet(c) \subseteq ToSet(a) \cup ToSet(b)
  <2>1. ToSet(c) = {c[i] : i \in 1 .. m + n}
    BY <1>3 DEF ToSet
  <2> QED
    BY <1>6, <2>1
<1>8. ToSet(a) \subseteq ToSet(c) /\ ToSet(b) \subseteq ToSet(c)
  BY <1>1, <1>3, <1>4, <1>5 DEF ToSet
<1> QED
  BY <1>7, <1>8 DEF c

(* Nothing is lost when sequences are joined.                              *)
LEMMA FlattenHas ==
  ASSUME NEW S, NEW seqs \in Seq(Seq(S)), NEW k \in 1 .. Len(seqs), NEW x \in ToSet(seqs[k])
  PROVE  x \in ToSet(FlattenSeq(seqs))
<1>1. PICK n \in Nat : n = Len(seqs) /\ n # 0 /\ k \in 1 .. n /\ \A i \in 1 .. n : seqs[i] \in Seq(S)
  BY ElementOfSeq
<1>2. \A a, b \in Seq(S) : a \o b \in Seq(S)
  BY ConcatProperties
<1>3. PICK f \in [1 .. n -> Seq(S)] :
        /\ FlattenSeq(seqs) = f[n]
        /\ \A i \in 1 .. n : f[i] = IF i = 1 THEN seqs[i] ELSE f[i - 1] \o seqs[i]
  <2>1. PICK P : P = Seq(S)
    OBVIOUS
  <2>2. (\A a, b \in P : a \o b \in P) /\ seqs \in Seq(P) /\ Len(seqs) # 0
    <3>1. seqs \in Seq(P) /\ Len(seqs) # 0
      BY <1>1, <2>1
    <3> QED
      BY <1>2, <2>1, <3>1, Zenon
  <2>3. \E f \in [1 .. Len(seqs) -> P] :
           /\ FlattenSeq(seqs) = f[Len(seqs)]
           /\ \A i \in 1 .. Len(seqs) : f[i] = IF i = 1 THEN seqs[i] ELSE f[i - 1] \o seqs[i]
    BY <2>2, FlattenSteps, ZenonT(20)
  <2> QED
    BY <1>1, <2>1, <2>3
<1>4. \A i \in k .. n : x \in ToSet(f[i])
  <2> DEFINE T == {i \in k .. n : x \notin ToSet(f[i])}
  <2> SUFFICES ASSUME T # {} PROVE FALSE
    OBVIOUS
  <2>1. PICK m \in T : \A j \in T : m <= j
    <3>1. T \subseteq Nat
      BY <1>1
    <3> HIDE DEF T
    <3> QED
      BY <3>1, LeastOf
  <2>2. m \in 1 .. n /\ k <= m /\ x \notin ToSet(f[m])
    BY <1>1, <2>1
  <2>3. m # 1 => m - 1 \in 1 .. n /\ f[m] = f[m - 1] \o seqs[m] /\ f[m - 1] \in Seq(S) /\ seqs[m] \in Seq(S)
    <3>1. m # 1 => m - 1 \in 1 .. n
      BY <2>2
    <3> QED
      BY <1>1, <1>3, <2>2, <3>1
  <2>4. ASSUME m # 1 PROVE ToSet(f[m]) = ToSet(f[m - 1]) \cup ToSet(seqs[m])
    <3>1. PICK a \in Seq(S), b \in Seq(S) : a = f[m - 1] /\ b = seqs[m] /\ f[m] = a \o b
      BY <2>3, <2>4
    <3>2. ToSet(a \o b) = ToSet(a) \cup ToSet(b)
      BY ConcatElements
    <3> QED
      BY <3>1, <3>2
  <2>5. CASE m = k
    BY <1>1, <1>3, <2>2, <2>4, <2>5
  <2>6. CASE m # k
    <3>1. m # 1 /\ m - 1 \in k .. n /\ ~(m <= m - 1)
      BY <1>1, <2>2, <2>6
    <3>2. m - 1 \notin T
      <4> HIDE DEF T
      <4> QED
        BY <2>1, <3>1
    <3> QED
      BY <2>2, <2>4, <3>1, <3>2
  <2> QED
    BY <2>5, <2>6
<1>5. n \in k .. n
  BY <1>1
<1> QED
  BY <1>3, <1>4, <1>5
=============================================================================
