--------------------------- MODULE ServersProofs ---------------------------
(***************************************************************************)
(* Servers for every set of objects, requests, servers, ports, runs,       *)
(* loops, Things and topics.  One section for each component gives the     *)
(* inductive invariant its properties follow from; the last one carries    *)
(* them to the composition.                                                *)
(***************************************************************************)
EXTENDS Servers, SequenceFacts

(***************************************************************************)
(* Routes of the HTTP server: HTTPRoutes.                                  *)
(***************************************************************************)
RoutesGiven == Routes!RoutesAssumption /\ Routes!HandRoutesFit

\* A rule that was routed by hand, the rule an object of a Thing is given when
\* the Thing is added, that of its change event, and those of all of the Thing.
IsHand(r) ==
    \E h \in ByHand :
        /\ r.path = <<"by-hand", h.at>> /\ r.object = h.object /\ r.handler = h.how /\ r.methods = h.methods
        /\ Routes!Accepted(h.object, h.how, h.methods)
IsDefault(r) ==
    /\ r.object \in Routes!Objects /\ r.object # ThingModel
    /\ r.path = <<r.object>> /\ r.handler = KindOf[r.object]
    /\ r.methods = CASE r.handler = "property" -> IF r.object \in ReadOnly THEN {"GET"} ELSE {"GET", "PUT"}
                     [] r.handler = "action" -> {"POST"} [] r.handler = "event" -> {"GET"}
IsChanges(r) ==
    /\ r.object \in Routes!Objects /\ r.object # ThingModel
    /\ KindOf[r.object] = "property" /\ r.object \in Observable
    /\ r.path = <<r.object, "change-event">> /\ r.handler = "event" /\ r.methods = {"GET"}
IsModel(r) ==
    /\ r.object = ThingModel /\ r.path = <<"resources", "wot-tm">> /\ r.handler = "action" /\ r.methods = {"GET"}
IsDescription(r) ==
    /\ r.object = "description" /\ r.path = <<"resources", "wot-td">> /\ r.handler = "description"
    /\ r.methods = {"GET"}
IsTop(r) ==
    /\ r.object = "properties" /\ r.path = <<"properties">> /\ r.handler = "properties"
    /\ r.methods = {"GET", "PUT", "PATCH"}

Names ==
    Routes!Objects \cup {h.at : h \in ByHand}
    \cup {"by-hand", "properties", "resources", "wot-tm", "wot-td", "change-event"}
Fields(T) ==
    [path : Seq(Names), object : Routes!Objects \cup {"description", "properties"},
     handler : {"property", "action", "event", "description", "properties"},
     methods : SUBSET Routes!Methods, thing : T]
IsRule(r) == IsHand(r) \/ IsDefault(r) \/ IsChanges(r) \/ IsModel(r) \/ IsDescription(r) \/ IsTop(r)
IsOwn(r) == r.object \in Routes!OwnObjects(r.thing) \/ IsDescription(r) \/ IsTop(r)

ThingRules == {r \in Fields(RoutedThings) : IsRule(r) /\ IsOwn(r)}
WaitingRules == {r \in Fields({None}) : IsHand(r)}

\* A change event follows its property, and that of a property that was routed
\* when its Thing was added is there.
Alike(r, s) == r.object = s.object /\ r.thing = s.thing
FollowsOwn(q) ==
    \A i \in DOMAIN q : IsChanges(q[i]) =>
        \E j \in DOMAIN q : j < i /\ IsDefault(q[j]) /\ Alike(q[j], q[i])
HasChanges(q) ==
    \A i \in DOMAIN q : IsDefault(q[i]) /\ q[i].handler = "property" /\ q[i].object \in Observable =>
        \E j \in DOMAIN q : IsChanges(q[j]) /\ Alike(q[i], q[j])
Paired(q) == FollowsOwn(q) /\ HasChanges(q)
PairedRules == {q \in Seq(ThingRules) : Paired(q)}

\* A Thing that is served has a rule for all its properties, and one for each
\* object.
HasTop(t) == \E i \in DOMAIN rules : IsTop(rules[i]) /\ rules[i].thing = t
HasOwn(t) ==
    \A o \in Routes!OwnObjects(t) : \E i \in DOMAIN rules : rules[i].object = o /\ rules[i].thing = t

RoutesInvariant ==
    /\ rules \in PairedRules /\ pending \in Seq(WaitingRules)
    /\ things \subseteq RoutedThings /\ broken \subseteq RoutedThings /\ byHand \in 0..MaxByHand
    /\ \A t \in things : HasTop(t) /\ HasOwn(t)

(* The routes use the operators of SequencesExt.                           *)
LEMMA RoutesSequences ==
    ASSUME NEW q PROVE Routes!ToSet(q) = ToSet(q) /\ Routes!FlattenSeq(q) = FlattenSeq(q)
BY DEF Routes!ToSet, ToSet, Routes!FlattenSeq, FlattenSeq

(* What is chosen is what was there, of the set.                           *)
LEMMA ChosenFacts ==
    ASSUME NEW S, NEW s \in Seq(S), NEW T
    PROVE  /\ Routes!Chosen(s, T) \in Seq(ToSet(s) \cap T)
           /\ ToSet(Routes!Chosen(s, T)) = ToSet(s) \cap T
<1>1. PICK n \in Nat : n = Len(s) /\ DOMAIN s = 1 .. n
  BY LenProperties
<1> DEFINE b == [i \in DOMAIN s |-> IF s[i] \in T THEN <<s[i]>> ELSE <<>>]
           U == ToSet(s) \cap T
<1>2. U = {s[i] : i \in 1 .. n} \cap T
  BY <1>1 DEF ToSet
<1>3. ASSUME NEW i \in 1 .. n PROVE b[i] \in Seq(U)
  <2>1. CASE s[i] \in T
    <3>1. s[i] \in U
      BY <1>2, <2>1
    <3>2. PICK x \in U : x = s[i]
      BY <3>1
    <3>3. <<x>> \in Seq(U)
      <4> HIDE DEF U
      <4> QED
        OBVIOUS
    <3> QED
      BY <1>1, <2>1, <3>2, <3>3
  <2>2. CASE s[i] \notin T
    BY <1>1, <2>2, EmptySeq
  <2> QED
    BY <2>1, <2>2
<1>4. b \in Seq(Seq(U)) /\ Len(b) = n
  <2>1. b \in [1 .. n -> Seq(U)]
    BY <1>1, <1>3
  <2> HIDE DEF b, U
  <2> QED
    BY <2>1
<1>5. Routes!Chosen(s, T) = FlattenSeq(b)
  BY RoutesSequences DEF Routes!Chosen
<1>6. FlattenSeq(b) \in Seq(U)
  <2> HIDE DEF b, U
  <2> QED
    BY <1>4, FlattenFacts
<1>7. ToSet(FlattenSeq(b)) \subseteq U
  <2> HIDE DEF b, U
  <2> QED
    BY <1>6, LenProperties DEF ToSet
<1>8. ASSUME NEW x \in U PROVE x \in ToSet(FlattenSeq(b))
  <2>1. PICK i \in 1 .. n : s[i] = x /\ x \in T
    BY <1>2
  <2>2. b[i] = <<x>>
    BY <1>1, <2>1
  <2>3. x \in ToSet(b[i])
    <3>1. 1 \in DOMAIN <<x>> /\ <<x>>[1] = x
      OBVIOUS
    <3> QED
      BY <2>2, <3>1 DEF ToSet
  <2> HIDE DEF b, U
  <2> QED
    BY <1>4, <2>3, FlattenHas
<1> QED
  BY <1>5, <1>6, <1>7, <1>8

(* Paired rules, one after the other, are paired.                          *)
LEMMA PairedJoined ==
    ASSUME NEW a \in PairedRules, NEW b \in PairedRules
    PROVE  a \o b \in PairedRules
<1>1. PICK m \in Nat, n \in Nat : /\ m = Len(a) /\ DOMAIN a = 1 .. m
                                  /\ n = Len(b) /\ DOMAIN b = 1 .. n
  BY LenProperties DEF PairedRules
<1> DEFINE c == a \o b
<1>2. /\ c \in Seq(ThingRules) /\ Len(c) = m + n
      /\ \A i \in 1 .. m + n : c[i] = IF i <= m THEN a[i] ELSE b[i - m]
  BY <1>1, ConcatProperties DEF PairedRules
<1> HIDE DEF c
<1>3. DOMAIN c = 1 .. m + n
  BY <1>2, LenProperties
<1>4. \A i \in 1 .. m : i \in 1 .. m + n /\ c[i] = a[i]
  BY <1>2
<1>5. \A i \in 1 .. n : m + i \in 1 .. m + n /\ c[m + i] = b[i]
  <2> TAKE i \in 1 .. n
  <2>1. m + i \in 1 .. m + n /\ ~(m + i <= m) /\ (m + i) - m = i
    OBVIOUS
  <2> QED
    BY <1>2, <2>1
<1>6. \A i \in 1 .. m + n : i \in 1 .. m \/ \E k \in 1 .. n : i = m + k
  <2> TAKE i \in 1 .. m + n
  <2>1. i > m => i - m \in 1 .. n /\ i = m + (i - m)
    OBVIOUS
  <2> QED
    BY <2>1
<1>7. FollowsOwn(c)
  <2> SUFFICES ASSUME NEW i \in 1 .. m + n, IsChanges(c[i])
               PROVE  \E j \in 1 .. m + n : j < i /\ IsDefault(c[j]) /\ Alike(c[j], c[i])
    BY <1>3 DEF FollowsOwn
  <2>1. CASE i \in 1 .. m
    <3>1. IsChanges(a[i]) /\ c[i] = a[i]
      BY <1>4, <2>1
    <3>2. PICK j \in 1 .. m : j < i /\ IsDefault(a[j]) /\ Alike(a[j], a[i])
      BY <1>1, <2>1, <3>1 DEF PairedRules, Paired, FollowsOwn
    <3> QED
      BY <1>4, <3>1, <3>2
  <2>2. ASSUME NEW k \in 1 .. n, i = m + k
        PROVE  \E j \in 1 .. m + n : j < i /\ IsDefault(c[j]) /\ Alike(c[j], c[i])
    <3>1. IsChanges(b[k]) /\ c[i] = b[k]
      BY <1>5, <2>2
    <3>2. PICK j \in 1 .. n : j < k /\ IsDefault(b[j]) /\ Alike(b[j], b[k])
      BY <1>1, <3>1 DEF PairedRules, Paired, FollowsOwn
    <3>3. m + j \in 1 .. m + n /\ c[m + j] = b[j] /\ m + j < i
      BY <1>5, <2>2, <3>2
    <3> QED
      BY <3>1, <3>2, <3>3
  <2> QED
    BY <1>6, <2>1, <2>2
<1>8. HasChanges(c)
  <2> SUFFICES ASSUME NEW i \in 1 .. m + n, IsDefault(c[i]), c[i].handler = "property", c[i].object \in Observable
               PROVE  \E j \in 1 .. m + n : IsChanges(c[j]) /\ Alike(c[i], c[j])
    BY <1>3 DEF HasChanges
  <2>1. CASE i \in 1 .. m
    <3>1. IsDefault(a[i]) /\ a[i].handler = "property" /\ a[i].object \in Observable /\ c[i] = a[i]
      BY <1>4, <2>1
    <3>2. PICK j \in 1 .. m : IsChanges(a[j]) /\ Alike(a[i], a[j])
      BY <1>1, <2>1, <3>1 DEF PairedRules, Paired, HasChanges
    <3> QED
      BY <1>4, <3>1, <3>2
  <2>2. ASSUME NEW k \in 1 .. n, i = m + k
        PROVE  \E j \in 1 .. m + n : IsChanges(c[j]) /\ Alike(c[i], c[j])
    <3>1. IsDefault(b[k]) /\ b[k].handler = "property" /\ b[k].object \in Observable /\ c[i] = b[k]
      BY <1>5, <2>2
    <3>2. PICK j \in 1 .. n : IsChanges(b[j]) /\ Alike(b[k], b[j])
      BY <1>1, <3>1 DEF PairedRules, Paired, HasChanges
    <3>3. m + j \in 1 .. m + n /\ c[m + j] = b[j]
      BY <1>5, <3>2
    <3> QED
      BY <3>1, <3>2, <3>3
  <2> QED
    BY <1>6, <2>1, <2>2
<1> QED
  BY <1>2, <1>7, <1>8 DEF c, PairedRules, Paired

(* Rules that need no other one are paired.                                *)
LEMMA Unpaired ==
    ASSUME NEW q \in Seq(ThingRules),
           \A i \in DOMAIN q : ~IsChanges(q[i]) /\ (IsDefault(q[i]) => q[i].handler # "property" \/ q[i].object \notin Observable)
    PROVE  q \in PairedRules
BY DEF PairedRules, Paired, FollowsOwn, HasChanges

(* The paths of the rules tell their kinds apart.                          *)
LEMMA PathsOfRules ==
    ASSUME RoutesGiven, NEW r, IsRule(r)
    PROVE  /\ IsHand(r) => Len(r.path) = 2 /\ r.path[1] = "by-hand" /\ \E h \in ByHand : h.at = r.path[2] /\ h.object = r.object
           /\ IsDefault(r) => Len(r.path) = 1 /\ r.path[1] = r.object /\ r.object \in Routes!Objects
           /\ IsChanges(r) => Len(r.path) = 2 /\ r.path[1] = r.object /\ r.path[2] = "change-event" /\ r.object \in Routes!Objects
           /\ IsModel(r) => Len(r.path) = 2 /\ r.path[1] = "resources" /\ r.path[2] = "wot-tm"
           /\ IsDescription(r) => Len(r.path) = 2 /\ r.path[1] = "resources" /\ r.path[2] = "wot-td"
           /\ IsTop(r) => Len(r.path) = 1 /\ r.path[1] = "properties"
           /\ "by-hand" \notin Routes!Objects /\ "properties" \notin Routes!Objects
<1>1. \A x, y : Len(<<x, y>>) = 2 /\ <<x, y>>[1] = x /\ <<x, y>>[2] = y
  OBVIOUS
<1>2. \A x : Len(<<x>>) = 1 /\ <<x>>[1] = x
  OBVIOUS
<1>3. "by-hand" \notin Routes!Objects /\ "properties" \notin Routes!Objects
  BY DEF RoutesGiven, Routes!RoutesAssumption
<1>4. IsHand(r) => Len(r.path) = 2 /\ r.path[1] = "by-hand" /\ \E h \in ByHand : h.at = r.path[2] /\ h.object = r.object
  BY <1>1 DEF IsHand
<1>5. IsDefault(r) => Len(r.path) = 1 /\ r.path[1] = r.object /\ r.object \in Routes!Objects
  BY <1>2 DEF IsDefault
<1>6. IsChanges(r) => Len(r.path) = 2 /\ r.path[1] = r.object /\ r.path[2] = "change-event" /\ r.object \in Routes!Objects
  BY <1>1 DEF IsChanges
<1>7. IsModel(r) => Len(r.path) = 2 /\ r.path[1] = "resources" /\ r.path[2] = "wot-tm"
  BY <1>1 DEF IsModel
<1>8. IsDescription(r) => Len(r.path) = 2 /\ r.path[1] = "resources" /\ r.path[2] = "wot-td"
  BY <1>1 DEF IsDescription
<1>9. IsTop(r) => Len(r.path) = 1 /\ r.path[1] = "properties"
  BY <1>2 DEF IsTop
<1> QED
  BY <1>3, <1>4, <1>5, <1>6, <1>7, <1>8, <1>9

(* The path of a change event, written out.                                *)
LEMMA PathOfChanges == ASSUME NEW x, NEW y PROVE Append(<<x>>, y) = <<x, y>>
<1>1. PICK S : x \in S /\ y \in S
  <2>1. x \in {x, y} /\ y \in {x, y}
    OBVIOUS
  <2> QED
    BY <2>1
<1> DEFINE a == Append(<<x>>, y)  b == <<x, y>>
<1>2. <<x>> \in Seq(S) /\ Len(<<x>>) = 1 /\ <<x>>[1] = x
  BY <1>1
<1>3. a \in Seq(S) /\ Len(a) = 2 /\ a[1] = x /\ a[2] = y
  BY <1>1, <1>2, AppendProperties
<1>4. b \in Seq(S) /\ Len(b) = 2 /\ b[1] = x /\ b[2] = y
  BY <1>1
<1> HIDE DEF a, b
<1>5. \A i \in 1 .. 2 : a[i] = b[i]
  BY <1>3, <1>4
<1>6. a = b
  BY <1>3, <1>4, <1>5, SeqEqual
<1> QED
  BY <1>6 DEF a, b

(* The rules an object is given by default.                                *)
LEMMA DefaultRulesFit ==
    ASSUME RoutesGiven, NEW t \in RoutedThings, NEW o \in Routes!OwnObjects(t)
    PROVE  /\ Routes!DefaultRules(t, o) \in PairedRules
           /\ o # ThingModel => \E r \in ToSet(Routes!DefaultRules(t, o)) : r.object = o /\ r.thing = t
<1>1. o \in Routes!Objects /\ KindOf[o] \in {"property", "action", "event"}
  <2>1. MembersOf[ClassOf[t]] \in Seq(Routes!Objects) /\ KindOf \in [Routes!Objects -> {"property", "action", "event"}]
    BY DEF RoutesGiven, Routes!RoutesAssumption
  <2>2. o \in Routes!Objects
    BY <2>1, RoutesSequences, LenProperties DEF Routes!OwnObjects, ToSet
  <2> QED
    BY <2>1, <2>2
<1>2. CASE o = ThingModel
  <2>1. Routes!DefaultRules(t, o) = <<>>
    BY <1>2 DEF Routes!DefaultRules
  <2>2. <<>> \in Seq(ThingRules) /\ DOMAIN <<>> = {}
    BY EmptySeq, LenProperties
  <2>3. <<>> \in PairedRules
    BY <2>2, Unpaired
  <2> QED
    BY <1>2, <2>1, <2>3
<1>3. CASE o # ThingModel
  <2> DEFINE ms == CASE KindOf[o] = "property" -> IF o \in ReadOnly THEN {"GET"} ELSE {"GET", "PUT"}
                     [] KindOf[o] = "action" -> {"POST"} [] KindOf[o] = "event" -> {"GET"}
             own == Routes!Rule(<<o>>, o, KindOf[o], ms, t)
             changes == Routes!Rule(<<o, "change-event">>, o, "event", {"GET"}, t)
  <2>1. /\ own.path = <<o>> /\ own.object = o /\ own.handler = KindOf[o] /\ own.methods = ms /\ own.thing = t
        /\ own \in Fields(RoutedThings)
    <3>1. ms \subseteq Routes!Methods
      BY <1>1 DEF Routes!Methods
    <3>2. o \in Names
      BY <1>1 DEF Names
    <3>3. <<o>> \in Seq(Names)
      BY <3>2
    <3> HIDE DEF ms
    <3> QED
      BY <1>1, <3>1, <3>3 DEF Routes!Rule, Fields
  <2>2. /\ changes.path = <<o, "change-event">> /\ changes.object = o /\ changes.handler = "event"
        /\ changes.methods = {"GET"} /\ changes.thing = t
        /\ changes \in Fields(RoutedThings)
    <3>1. o \in Names /\ "change-event" \in Names
      BY <1>1 DEF Names
    <3>2. <<o, "change-event">> \in Seq(Names)
      BY <3>1
    <3>3. {"GET"} \subseteq Routes!Methods
      BY DEF Routes!Methods
    <3> QED
      BY <1>1, <3>2, <3>3 DEF Routes!Rule, Fields
  <2>3. IsDefault(own)
    <3>1. ms = CASE own.handler = "property" -> IF own.object \in ReadOnly THEN {"GET"} ELSE {"GET", "PUT"}
                     [] own.handler = "action" -> {"POST"} [] own.handler = "event" -> {"GET"}
      BY <2>1
    <3> HIDE DEF own, ms
    <3> QED
      BY <1>1, <1>3, <2>1, <3>1 DEF IsDefault
  <2>4. o \in Observable /\ KindOf[o] = "property" => IsChanges(changes)
    <3> HIDE DEF changes
    <3> QED
      BY <1>1, <1>3, <2>2 DEF IsChanges
  <2>5. /\ KindOf[o] = "property" /\ o \in Observable => Routes!DefaultRules(t, o) = <<own, changes>>
        /\ ~(KindOf[o] = "property" /\ o \in Observable) => Routes!DefaultRules(t, o) = <<own>>
    <3>1. Append(<<o>>, "change-event") = <<o, "change-event">>
      BY PathOfChanges
    <3>2. CASE KindOf[o] = "property"
      <4>1. Routes!DefaultRules(t, o) = IF o \in Observable THEN <<own, changes>> ELSE <<own>>
        BY <1>3, <3>1, <3>2 DEF Routes!DefaultRules, Routes!ChangeEvent
      <4> QED
        BY <3>2, <4>1
    <3>3. CASE KindOf[o] = "action"
      BY <1>3, <3>3 DEF Routes!DefaultRules
    <3>4. CASE KindOf[o] = "event"
      BY <1>3, <3>4 DEF Routes!DefaultRules
    <3> QED
      BY <1>1, <3>2, <3>3, <3>4
  <2> HIDE DEF own, changes, ms
  <2>6. own \in ThingRules /\ ~IsChanges(own)
    <3>1. IsRule(own) /\ IsOwn(own)
      BY <2>1, <2>3 DEF IsRule, IsOwn
    <3>2. Len(own.path) = 1 /\ (IsChanges(own) => Len(own.path) = 2)
      BY <2>3, <3>1, PathsOfRules
    <3> QED
      BY <2>1, <3>1, <3>2 DEF ThingRules
  <2>7. o \in Observable /\ KindOf[o] = "property" => changes \in ThingRules /\ ~IsDefault(changes)
    <3>1. ASSUME o \in Observable, KindOf[o] = "property" PROVE IsRule(changes) /\ IsOwn(changes)
      BY <2>2, <2>4, <3>1 DEF IsRule, IsOwn
    <3>2. ASSUME o \in Observable, KindOf[o] = "property"
          PROVE  Len(changes.path) = 2 /\ (IsDefault(changes) => Len(changes.path) = 1)
      BY <2>4, <3>1, <3>2, PathsOfRules
    <3> QED
      BY <2>2, <3>1, <3>2 DEF ThingRules
  <2>8. CASE KindOf[o] = "property" /\ o \in Observable
    <3>1. PICK q \in Seq(ThingRules) : q = <<own, changes>>
      <4>1. PICK S : S = ThingRules
        OBVIOUS
      <4>2. own \in S /\ changes \in S
        BY <2>6, <2>7, <2>8, <4>1
      <4>3. <<own, changes>> \in Seq(S)
        BY <4>2
      <4> QED
        BY <4>1, <4>3
    <3>2. DOMAIN q = {1, 2} /\ q[1] = own /\ q[2] = changes
      BY <3>1
    <3>3. IsChanges(q[2]) /\ IsDefault(q[1]) /\ ~IsChanges(q[1]) /\ ~IsDefault(q[2]) /\ Alike(q[1], q[2])
      BY <2>1, <2>2, <2>3, <2>4, <2>6, <2>7, <2>8, <3>2 DEF Alike
    <3>4. Paired(q)
      BY <3>2, <3>3 DEF Paired, FollowsOwn, HasChanges
    <3>5. own \in ToSet(q)
      BY <3>2 DEF ToSet
    <3> QED
      BY <2>1, <2>5, <2>8, <3>1, <3>4, <3>5 DEF PairedRules
  <2>9. CASE ~(KindOf[o] = "property" /\ o \in Observable)
    <3>1. PICK q \in Seq(ThingRules) : q = <<own>>
      <4>1. PICK S : S = ThingRules
        OBVIOUS
      <4>2. <<own>> \in Seq(S)
        BY <2>6, <4>1
      <4> QED
        BY <4>1, <4>2
    <3>2. DOMAIN q = {1} /\ q[1] = own
      BY <3>1
    <3>3. q \in PairedRules
      BY <2>1, <2>6, <2>9, <3>2, Unpaired
    <3>4. own \in ToSet(q)
      BY <3>2 DEF ToSet
    <3> QED
      BY <2>1, <2>5, <2>9, <3>1, <3>3, <3>4
  <2> QED
    BY <2>8, <2>9
<1> QED
  BY <1>2, <1>3

(* A rule that was routed by hand needs no other one.                      *)
LEMMA HandIsUnpaired == ASSUME RoutesGiven, NEW r, IsHand(r) PROVE ~IsChanges(r) /\ ~IsDefault(r)
<1>1. IsRule(r)
  BY DEF IsRule
<1> QED
  BY <1>1, PathsOfRules

(* The rules of a class that become those of a Thing, and the ones that    *)
(* wait on.                                                                *)
LEMMA ResolvedFit ==
    ASSUME RoutesGiven, rules \in PairedRules, pending \in Seq(WaitingRules), NEW t \in RoutedThings
    PROVE  /\ \E mine \in PairedRules : Routes!Resolved(t) = rules \o mine
           /\ Routes!Resolved(t) \in PairedRules /\ Routes!StillPending(t) \in Seq(WaitingRules)
<1> DEFINE mine == Routes!Chosen(pending, Routes!ResolveRules(t))
           new == [i \in DOMAIN mine |-> [mine[i] EXCEPT !.thing = t]]
<1>1. \A x \in ToSet(pending) : x \in WaitingRules
  BY LenProperties DEF ToSet
<1>2. mine \in Seq(ToSet(pending) \cap Routes!ResolveRules(t))
  BY ChosenFacts
<1> HIDE DEF mine
<1>3. PICK n \in Nat : /\ n = Len(mine) /\ DOMAIN mine = 1 .. n
                      /\ \A i \in 1 .. n : mine[i] \in ToSet(pending) \cap Routes!ResolveRules(t)
  BY <1>2, LenProperties
<1>4. ASSUME NEW i \in 1 .. n
      PROVE  /\ new[i] \in ThingRules /\ ~IsChanges(new[i]) /\ ~IsDefault(new[i])
  <2>1. /\ mine[i] \in WaitingRules /\ DefinedIn[mine[i].object] = ClassOf[t]
        /\ new[i] = [mine[i] EXCEPT !.thing = t]
    BY <1>1, <1>3 DEF Routes!ResolveRules
  <2>2. mine[i] \in Fields({None}) /\ IsHand(mine[i])
    BY <2>1 DEF WaitingRules
  <2>3. /\ new[i] \in Fields(RoutedThings) /\ new[i].thing = t /\ new[i].object = mine[i].object
        /\ new[i].path = mine[i].path /\ new[i].handler = mine[i].handler /\ new[i].methods = mine[i].methods
    <3>1. PICK P, O, H, M :
            Fields({None}) = [path : P, object : O, handler : H, methods : M, thing : {None}]
              /\ Fields(RoutedThings) = [path : P, object : O, handler : H, methods : M, thing : RoutedThings]
      BY DEF Fields
    <3>2. PICK m \in [path : P, object : O, handler : H, methods : M, thing : {None}] : m = mine[i]
      BY <2>2, <3>1
    <3>3. PICK x : x = [m EXCEPT !.thing = t]
      OBVIOUS
    <3>4. /\ x \in [path : P, object : O, handler : H, methods : M, thing : RoutedThings]
          /\ x.thing = t /\ x.object = m.object /\ x.path = m.path /\ x.handler = m.handler /\ x.methods = m.methods
      BY <3>3
    <3>5. new[i] = x
      BY <2>1, <3>2, <3>3
    <3> QED
      BY <3>1, <3>2, <3>4, <3>5
  <2>4. IsHand(new[i])
    BY <2>2, <2>3 DEF IsHand
  <2>5. mine[i].object \in Routes!Objects
    BY <2>2 DEF IsHand, RoutesGiven, Routes!RoutesAssumption
  <2>6. new[i].object \in Routes!OwnObjects(t)
    BY <2>1, <2>3, <2>5 DEF RoutesGiven, Routes!RoutesAssumption
  <2> QED
    BY <2>3, <2>4, <2>6, HandIsUnpaired DEF ThingRules, IsRule, IsOwn
<1>5. new \in Seq(ThingRules) /\ DOMAIN new = 1 .. n
  <2>1. new \in [1 .. n -> ThingRules]
    BY <1>3, <1>4
  <2> QED
    BY <2>1
<1>6. Routes!Resolved(t) = rules \o new
  BY DEF Routes!Resolved, mine
<1> HIDE DEF new
<1>7. new \in PairedRules
  BY <1>4, <1>5, Unpaired
<1>8. Routes!StillPending(t) \in Seq(ToSet(pending) \cap (Routes!ToSet(pending) \ Routes!ResolveRules(t)))
  BY ChosenFacts DEF Routes!StillPending
<1>9. Routes!StillPending(t) \in Seq(WaitingRules)
  <2>1. ToSet(pending) \cap (Routes!ToSet(pending) \ Routes!ResolveRules(t)) \subseteq WaitingRules
    BY <1>1
  <2> QED
    BY <1>8, <2>1, SeqMonotonic
<1> QED
  BY <1>6, <1>7, <1>9, PairedJoined

(* All objects of a Thing are added.                                       *)
LEMMA AllInOrder ==
    ASSUME RoutesGiven, NEW t \in RoutedThings
    PROVE  /\ Routes!InOrderOfKind(t) \in Seq(Routes!OwnObjects(t))
           /\ ToSet(Routes!InOrderOfKind(t)) = Routes!OwnObjects(t)
<1> DEFINE K(k) == {o \in Routes!Objects : KindOf[o] = k}
           all == MembersOf[ClassOf[t]]
           p == Routes!OfKind(t, "property")  a == Routes!OfKind(t, "action")  e == Routes!OfKind(t, "event")
<1>1. all \in Seq(Routes!Objects) /\ KindOf \in [Routes!Objects -> {"property", "action", "event"}]
  BY DEF RoutesGiven, Routes!RoutesAssumption
<1>2. Routes!OwnObjects(t) = ToSet(all) /\ ToSet(all) \subseteq Routes!Objects
  <2>1. ToSet(all) \subseteq Routes!Objects
    BY <1>1, LenProperties DEF ToSet
  <2> QED
    BY <2>1, RoutesSequences DEF Routes!OwnObjects
<1> HIDE DEF all
<1>3. ASSUME NEW k \in {"property", "action", "event"}
      PROVE  Routes!OfKind(t, k) \in Seq(ToSet(all)) /\ ToSet(Routes!OfKind(t, k)) = ToSet(all) \cap K(k)
  <2>1. Routes!OfKind(t, k) = Routes!Chosen(all, K(k))
    BY DEF Routes!OfKind, all
  <2> HIDE DEF K
  <2>2. Routes!Chosen(all, K(k)) \in Seq(ToSet(all) \cap K(k)) /\ ToSet(Routes!Chosen(all, K(k))) = ToSet(all) \cap K(k)
    BY <1>1, ChosenFacts
  <2>3. Routes!Chosen(all, K(k)) \in Seq(ToSet(all))
    BY <2>2, SeqMonotonic
  <2> QED
    BY <2>1, <2>2, <2>3
<1>4. /\ p \in Seq(ToSet(all)) /\ a \in Seq(ToSet(all)) /\ e \in Seq(ToSet(all))
      /\ ToSet(p) \cup ToSet(a) \cup ToSet(e) = ToSet(all)
  BY <1>1, <1>2, <1>3
<1>5. Routes!InOrderOfKind(t) = (p \o a) \o e
  BY DEF Routes!InOrderOfKind
<1> HIDE DEF p, a, e
<1>6. PICK S : S = ToSet(all)
  OBVIOUS
<1>7. p \in Seq(S) /\ a \in Seq(S) /\ e \in Seq(S)
  BY <1>4, <1>6
<1>8. p \o a \in Seq(S) /\ ToSet(p \o a) = ToSet(p) \cup ToSet(a)
  BY <1>7, ConcatProperties, ConcatElements
<1>9. (p \o a) \o e \in Seq(S) /\ ToSet((p \o a) \o e) = ToSet(p \o a) \cup ToSet(e)
  <2>1. PICK c \in Seq(S) : c = p \o a
    BY <1>8
  <2>2. c \o e \in Seq(S) /\ ToSet(c \o e) = ToSet(c) \cup ToSet(e)
    BY <1>7, ConcatProperties, ConcatElements
  <2> QED
    BY <2>1, <2>2
<1> QED
  BY <1>2, <1>4, <1>5, <1>6, <1>8, <1>9

(* What is added for the objects that have no rule yet; without an object  *)
(* that raises, each of them has one then, but for the Thing Model.        *)
LEMMA AddedFit ==
    ASSUME RoutesGiven, NEW t \in RoutedThings
    PROVE  /\ Routes!Added(t) \in PairedRules
           /\ (\A o \in Routes!OwnObjects(t) : ~Routes!Raises(t, o)) =>
                \A o \in Routes!OwnObjects(t) :
                    o # ThingModel /\ ~Routes!HasRule(Routes!Resolved(t), t, o) =>
                        \E r \in ToSet(Routes!Added(t)) : r.object = o /\ r.thing = t
<1> DEFINE os == Routes!InOrderOfKind(t)
           b == [i \in DOMAIN os |->
                  IF Routes!HasRule(Routes!Resolved(t), t, os[i]) \/ \E j \in 1 .. i : Routes!Raises(t, os[j]) THEN <<>>
                  ELSE Routes!DefaultRules(t, os[i])]
<1>1. os \in Seq(Routes!OwnObjects(t)) /\ ToSet(os) = Routes!OwnObjects(t)
  BY AllInOrder
<1>2. Routes!Added(t) = FlattenSeq(b)
  BY RoutesSequences DEF Routes!Added
<1> HIDE DEF os
<1>3. PICK n \in Nat : n = Len(os) /\ DOMAIN os = 1 .. n /\ \A i \in 1 .. n : os[i] \in Routes!OwnObjects(t)
  BY <1>1, LenProperties
<1>4. <<>> \in PairedRules
  <2>1. <<>> \in Seq(ThingRules) /\ DOMAIN <<>> = {}
    BY EmptySeq, LenProperties
  <2> QED
    BY <2>1, Unpaired
<1>5. ASSUME NEW i \in 1 .. n PROVE b[i] \in PairedRules
  <2>1. Routes!DefaultRules(t, os[i]) \in PairedRules
    BY <1>3, DefaultRulesFit
  <2> QED
    BY <1>3, <1>4, <2>1
<1>6. b \in Seq(PairedRules) /\ Len(b) = n
  <2>1. b \in [1 .. n -> PairedRules]
    BY <1>3, <1>5
  <2> HIDE DEF b
  <2> QED
    BY <2>1
<1>7. FlattenSeq(b) \in PairedRules
  <2> HIDE DEF b
  <2> QED
    BY <1>4, <1>6, PairedJoined, FlattenKeeps
<1>8. ASSUME \A o \in Routes!OwnObjects(t) : ~Routes!Raises(t, o), NEW o \in Routes!OwnObjects(t), o # ThingModel,
             ~Routes!HasRule(Routes!Resolved(t), t, o)
      PROVE  \E r \in ToSet(FlattenSeq(b)) : r.object = o /\ r.thing = t
  <2>1. PICK i \in 1 .. n : os[i] = o
    BY <1>1, <1>3 DEF ToSet
  <2>2. ~\E j \in 1 .. i : Routes!Raises(t, os[j])
    <3>1. \A j \in 1 .. i : j \in 1 .. n
      OBVIOUS
    <3> QED
      BY <1>3, <1>8, <3>1
  <2>3. b[i] = Routes!DefaultRules(t, o)
    BY <1>3, <1>8, <2>1, <2>2
  <2>4. PICK r \in ToSet(b[i]) : r.object = o /\ r.thing = t
    <3>1. \E r \in ToSet(Routes!DefaultRules(t, o)) : r.object = o /\ r.thing = t
      BY <1>8, DefaultRulesFit
    <3> HIDE DEF b
    <3> QED
      BY <2>3, <3>1
  <2> HIDE DEF b
  <2>5. b \in Seq(Seq(ThingRules))
    <3>1. PairedRules \subseteq Seq(ThingRules)
      BY DEF PairedRules
    <3> QED
      BY <1>6, <3>1, SeqMonotonic
  <2>6. r \in ToSet(FlattenSeq(b))
    BY <1>6, <2>4, <2>5, FlattenHas
  <2> QED
    BY <2>4, <2>6
<1> HIDE DEF b
<1> QED
  BY <1>2, <1>7, <1>8

(* The rules for all of a Thing.                                           *)
LEMMA ResourcesFit ==
    ASSUME RoutesGiven, NEW t \in RoutedThings
    PROVE  /\ Routes!AddResources(t) \in PairedRules
           /\ \E r \in ToSet(Routes!AddResources(t)) : IsTop(r) /\ r.thing = t
           /\ \E r \in ToSet(Routes!AddResources(t)) : r.object = ThingModel /\ r.thing = t
<1> DEFINE m == Routes!Rule(<<"resources", "wot-tm">>, ThingModel, "action", {"GET"}, t)
           d == Routes!Rule(<<"resources", "wot-td">>, "description", "description", {"GET"}, t)
           p == Routes!Rule(<<"properties">>, "properties", "properties", {"GET", "PUT", "PATCH"}, t)
<1>1. ThingModel \in Routes!Objects /\ ThingModel \in Routes!OwnObjects(t)
  <2>1. ThingModel \in Routes!OwnObjects(t) /\ MembersOf[ClassOf[t]] \in Seq(Routes!Objects)
    BY DEF RoutesGiven, Routes!RoutesAssumption
  <2> QED
    BY <2>1, RoutesSequences, LenProperties DEF Routes!OwnObjects, ToSet
<1>2. /\ <<"resources", "wot-tm">> \in Seq(Names) /\ <<"resources", "wot-td">> \in Seq(Names)
      /\ <<"properties">> \in Seq(Names)
  <2>1. {"resources", "wot-tm", "wot-td", "properties"} \subseteq Names
    BY DEF Names
  <2>2. PICK S : S = Names
    OBVIOUS
  <2>3. /\ <<"resources", "wot-tm">> \in Seq(S) /\ <<"resources", "wot-td">> \in Seq(S)
        /\ <<"properties">> \in Seq(S)
    BY <2>1, <2>2
  <2> QED
    BY <2>2, <2>3
<1>3. /\ m \in Fields(RoutedThings) /\ IsModel(m) /\ m.thing = t /\ m.object = ThingModel
  BY <1>1, <1>2 DEF Fields, IsModel, Routes!Rule, Routes!Methods
<1>4. /\ d \in Fields(RoutedThings) /\ IsDescription(d) /\ d.thing = t
  BY <1>2 DEF Fields, IsDescription, Routes!Rule, Routes!Methods
<1>5. /\ p \in Fields(RoutedThings) /\ IsTop(p) /\ p.thing = t
  BY <1>2 DEF Fields, IsTop, Routes!Rule, Routes!Methods
<1>6. Routes!AddResources(t) = <<m, d, p>>
  BY DEF Routes!AddResources
<1> HIDE DEF m, d, p
<1>7. m \in ThingRules /\ d \in ThingRules /\ p \in ThingRules
  BY <1>1, <1>3, <1>4, <1>5 DEF ThingRules, IsRule, IsOwn
<1>8. /\ ~IsChanges(m) /\ ~IsChanges(d) /\ ~IsChanges(p)
      /\ ~IsDefault(m) /\ ~IsDefault(d) /\ ~IsDefault(p)
  <2>1. IsRule(m) /\ IsRule(d) /\ IsRule(p)
    BY <1>3, <1>4, <1>5 DEF IsRule
  <2> QED
    BY <1>3, <1>4, <1>5, <2>1, PathsOfRules
<1>9. PICK q \in Seq(ThingRules) : q = <<m, d, p>>
  <2>1. PICK S : S = ThingRules
    OBVIOUS
  <2>2. m \in S /\ d \in S /\ p \in S
    BY <1>7, <2>1
  <2>3. <<m, d, p>> \in Seq(S)
    BY <2>2
  <2> QED
    BY <2>1, <2>3
<1>10. DOMAIN q = 1 .. 3 /\ q[1] = m /\ q[2] = d /\ q[3] = p
  BY <1>9
<1>11. \A i \in DOMAIN q : q[i] \in {m, d, p}
  BY <1>10
<1>12. q \in PairedRules
  BY <1>8, <1>11, Unpaired
<1>13. m \in ToSet(q) /\ p \in ToSet(q)
  <2>1. 1 \in DOMAIN q /\ 3 \in DOMAIN q
    BY <1>10
  <2> QED
    BY <1>10, <2>1 DEF ToSet
<1> QED
  BY <1>3, <1>5, <1>6, <1>9, <1>12, <1>13

(* What a Thing is served with stays.                                      *)
LEMMA RulesStay ==
    ASSUME rules \in PairedRules, NEW q \in PairedRules, rules' = rules \o q
    PROVE  /\ rules' \in PairedRules /\ \A t : (HasTop(t) => HasTop(t)') /\ (HasOwn(t) => HasOwn(t)')
           /\ ToSet(rules') = ToSet(rules) \cup ToSet(q)
<1>1. rules' \in PairedRules /\ rules \in Seq(ThingRules) /\ q \in Seq(ThingRules)
  BY PairedJoined DEF PairedRules
<1>2. ToSet(rules') = ToSet(rules) \cup ToSet(q)
  BY <1>1, ConcatElements
<1>3. \A i \in DOMAIN rules : \E j \in DOMAIN rules' : rules'[j] = rules[i]
  <2>1. \A i \in DOMAIN rules : rules[i] \in ToSet(rules')
    BY <1>2 DEF ToSet
  <2> QED
    BY <2>1 DEF ToSet
<1>4. ASSUME NEW t, HasTop(t) PROVE HasTop(t)'
  BY <1>3, <1>4 DEF HasTop
<1>5. ASSUME NEW t, HasOwn(t) PROVE HasOwn(t)'
  BY <1>3, <1>5 DEF HasOwn, Routes!OwnObjects
<1> QED
  BY <1>1, <1>2, <1>4, <1>5

(* A rule that is routed by hand.                                          *)
LEMMA RouteByHandFits ==
    ASSUME RoutesGiven, RoutesInvariant, NEW h \in ByHand, NEW t \in RoutedThings \cup {None},
           Routes!RouteByHand(h.object, h.at, h.how, h.methods, t)
    PROVE  RoutesInvariant'
<1> DEFINE r == Routes!Rule(<<"by-hand", h.at>>, h.object, h.how, h.methods, t)
<1>1. /\ byHand < MaxByHand /\ byHand' = byHand + 1 /\ Routes!Accepted(h.object, h.how, h.methods)
      /\ (t # None => h.object \in Routes!OwnObjects(t)) /\ Routes!AddRule(r)
      /\ things' = things /\ broken' = broken
  BY DEF Routes!RouteByHand
<1>2. byHand' \in 0 .. MaxByHand
  BY <1>1 DEF RoutesInvariant, RoutesGiven, Routes!RoutesAssumption
<1>3. r \in Fields(RoutedThings \cup {None}) /\ IsHand(r) /\ r.thing = t /\ r.object = h.object
  <2>1. h.at \in Names /\ "by-hand" \in Names
    BY DEF Names
  <2>2. <<"by-hand", h.at>> \in Seq(Names)
    BY <2>1
  <2>3. h.object \in Routes!Objects /\ h.methods \subseteq Routes!Methods
    BY DEF RoutesGiven, Routes!RoutesAssumption
  <2>4. h.how \in {"property", "action", "event"}
    BY <2>3 DEF RoutesGiven, Routes!RoutesAssumption, Routes!HandRoutesFit
  <2>5. r \in Fields(RoutedThings \cup {None}) /\ r.thing = t /\ r.object = h.object
    BY <2>2, <2>3, <2>4 DEF Fields, Routes!Rule
  <2>6. IsHand(r)
    BY <1>1 DEF IsHand, Routes!Rule
  <2> QED
    BY <2>5, <2>6
<1> HIDE DEF r
<1>4. CASE t = None
  <2>1. pending' = Append(pending, r) /\ rules' = rules
    BY <1>1, <1>3, <1>4 DEF Routes!AddRule
  <2>2. r \in WaitingRules
    BY <1>3, <1>4 DEF WaitingRules, Fields
  <2>3. pending' \in Seq(WaitingRules)
    BY <2>1, <2>2, AppendProperties DEF RoutesInvariant
  <2> QED
    <3>1. ASSUME NEW u \in things PROVE HasTop(u)' /\ HasOwn(u)'
      BY <2>1 DEF RoutesInvariant, HasTop, HasOwn, Routes!OwnObjects
    <3> QED
      BY <1>1, <1>2, <2>1, <2>3, <3>1 DEF RoutesInvariant
<1>5. CASE t # None
  <2>1. rules' = Append(rules, r) /\ pending' = pending
    BY <1>1, <1>3, <1>5 DEF Routes!AddRule
  <2>2. r \in ThingRules
    BY <1>1, <1>3, <1>5 DEF ThingRules, Fields, IsRule, IsOwn
  <2>3. PICK q \in Seq(ThingRules) : q = <<r>> /\ DOMAIN q = {1} /\ q[1] = r
    <3>1. PICK S : S = ThingRules
      OBVIOUS
    <3>2. <<r>> \in Seq(S) /\ DOMAIN <<r>> = {1} /\ <<r>>[1] = r
      BY <2>2, <3>1
    <3> QED
      BY <3>1, <3>2
  <2>4. q \in PairedRules
    BY <1>3, <2>3, HandIsUnpaired, Unpaired
  <2>5. rules' = rules \o q
    BY <2>1, <2>2, <2>3, AppendIsConcat DEF RoutesInvariant, PairedRules
  <2> QED
    BY <1>1, <1>2, <2>1, <2>4, <2>5, RulesStay DEF RoutesInvariant
<1> QED
  BY <1>4, <1>5

(* A Thing that is added.                                                  *)
LEMMA AddThingFits ==
    ASSUME RoutesGiven, RoutesInvariant, NEW t \in RoutedThings, Routes!AddThing(t)
    PROVE  RoutesInvariant'
<1> DEFINE res == Routes!Resolved(t)  add == Routes!Added(t)  own == Routes!AddResources(t)
<1>1. /\ rules \in PairedRules /\ pending \in Seq(WaitingRules)
      /\ things \subseteq RoutedThings /\ broken \subseteq RoutedThings /\ byHand \in 0 .. MaxByHand
      /\ \A u \in things : HasTop(u) /\ HasOwn(u)
  BY DEF RoutesInvariant
<1>2. pending' = Routes!StillPending(t) /\ byHand' = byHand
  BY DEF Routes!AddThing
<1>3. pending' \in Seq(WaitingRules)
  BY <1>1, <1>2, ResolvedFit
<1>4. res \in PairedRules /\ add \in PairedRules /\ own \in PairedRules
  BY <1>1, ResolvedFit, AddedFit, ResourcesFit
<1>5. PICK mine \in PairedRules : res = rules \o mine
  BY <1>1, ResolvedFit
<1>6. res \o add \in PairedRules /\ mine \o add \in PairedRules
  BY <1>4, <1>5, PairedJoined
<1>7. /\ res \o add = rules \o (mine \o add)
      /\ (res \o add) \o own = rules \o ((mine \o add) \o own)
  <2>1. PICK S : S = ThingRules
    OBVIOUS
  <2>2. rules \in Seq(S) /\ mine \in Seq(S) /\ add \in Seq(S) /\ own \in Seq(S) /\ mine \o add \in Seq(S)
    BY <1>1, <1>4, <1>5, <1>6, <2>1 DEF PairedRules
  <2> HIDE DEF res, add, own
  <2>3. (rules \o mine) \o add = rules \o (mine \o add)
    BY <2>2, ConcatAssociative
  <2>4. PICK x \in Seq(S) : x = mine \o add
    BY <2>2
  <2>5. rules \in Seq(S) /\ own \in Seq(S)
    BY <2>2
  <2>6. (rules \o x) \o own = rules \o (x \o own)
    BY <2>5, ConcatAssociative
  <2> QED
    BY <1>5, <2>3, <2>4, <2>6
<1>8. (mine \o add) \o own \in PairedRules
  BY <1>4, <1>6, PairedJoined
<1>9. CASE rules' = res \o add /\ broken' = broken \cup {t} /\ things' = things
  <2>1. rules' \in PairedRules /\ \A u : (HasTop(u) => HasTop(u)') /\ (HasOwn(u) => HasOwn(u)')
    BY <1>1, <1>6, <1>7, <1>9, RulesStay
  <2> QED
    BY <1>1, <1>2, <1>3, <1>9, <2>1 DEF RoutesInvariant
<1>10. CASE /\ ~\E o \in Routes!OwnObjects(t) : Routes!Raises(t, o)
            /\ rules' = (res \o add) \o own /\ things' = things \cup {t} /\ broken' = broken
  <2>1. rules' \in PairedRules /\ \A u : (HasTop(u) => HasTop(u)') /\ (HasOwn(u) => HasOwn(u)')
    BY <1>1, <1>7, <1>8, <1>10, RulesStay
  <2>2. ToSet(rules') = ToSet(res) \cup ToSet(add) \cup ToSet(own)
    <3>1. PICK S : S = ThingRules
      OBVIOUS
    <3>2. res \in Seq(S) /\ add \in Seq(S) /\ own \in Seq(S) /\ res \o add \in Seq(S)
      BY <1>4, <1>6, <3>1 DEF PairedRules
    <3> HIDE DEF res, add, own
    <3>3. ToSet(res \o add) = ToSet(res) \cup ToSet(add)
      BY <3>2, ConcatElements
    <3>4. PICK x \in Seq(S) : x = res \o add
      BY <3>2
    <3>5. ToSet(x \o own) = ToSet(x) \cup ToSet(own)
      BY <3>2, ConcatElements
    <3> QED
      BY <1>10, <3>3, <3>4, <3>5
  <2>3. HasTop(t)'
    <3>1. PICK r \in ToSet(own) : IsTop(r) /\ r.thing = t
      BY ResourcesFit
    <3>2. r \in ToSet(rules')
      BY <2>2, <3>1
    <3>3. PICK i \in DOMAIN rules' : rules'[i] = r
      BY <3>2 DEF ToSet
    <3> QED
      BY <3>1, <3>3 DEF HasTop
  <2>4. ASSUME NEW o \in Routes!OwnObjects(t) PROVE \E r \in ToSet(rules') : r.object = o /\ r.thing = t
    <3>1. CASE o = ThingModel
      BY <2>2, <3>1, ResourcesFit
    <3>2. CASE Routes!HasRule(res, t, o)
      BY <2>2, <3>2, RoutesSequences DEF Routes!HasRule
    <3>3. CASE o # ThingModel /\ ~Routes!HasRule(res, t, o)
      BY <1>10, <2>2, <3>3, AddedFit
    <3> QED
      BY <3>1, <3>2, <3>3
  <2>5. HasOwn(t)'
    <3>1. \A o \in Routes!OwnObjects(t) : \E i \in DOMAIN rules' : rules'[i].object = o /\ rules'[i].thing = t
      BY <2>4 DEF ToSet
    <3> QED
      BY <3>1 DEF HasOwn, Routes!OwnObjects
  <2> QED
    BY <1>1, <1>2, <1>3, <1>10, <2>1, <2>3, <2>5 DEF RoutesInvariant
<1> QED
  BY <1>9, <1>10 DEF Routes!AddThing

(* Whatever is routed by hand or added, the invariant stays.               *)
LEMMA RoutesNext ==
    ASSUME RoutesGiven, RoutesInvariant, [Routes!Next]_Routes!vars
    PROVE  RoutesInvariant'
<1>1. CASE UNCHANGED Routes!vars
  <2>1. rules' = rules /\ pending' = pending /\ things' = things /\ broken' = broken /\ byHand' = byHand
    BY <1>1 DEF Routes!vars
  <2>2. ASSUME NEW u \in things PROVE HasTop(u)' /\ HasOwn(u)'
    BY <2>1 DEF RoutesInvariant, HasTop, HasOwn, Routes!OwnObjects
  <2> QED
    BY <2>1, <2>2 DEF RoutesInvariant
<1>2. CASE Routes!Next
  BY <1>2, RouteByHandFits, AddThingFits DEF Routes!Next
<1> QED
  BY <1>1, <1>2

(* Nothing is routed yet.                                                  *)
LEMMA RoutesInit == ASSUME RoutesGiven, Routes!Init PROVE RoutesInvariant
<1>1. <<>> \in Seq(ThingRules) /\ <<>> \in Seq(WaitingRules) /\ DOMAIN <<>> = {}
  BY EmptySeq, LenProperties
<1>2. <<>> \in PairedRules
  BY <1>1, Unpaired
<1>3. MaxByHand \in Nat
  BY DEF RoutesGiven, Routes!RoutesAssumption
<1> QED
  BY <1>1, <1>2, <1>3 DEF Routes!Init, RoutesInvariant

(* A path of a Thing belongs to one object; that of a change event, and    *)
(* that of all properties, to nothing else.                                *)
LEMMA SamePath ==
    ASSUME RoutesGiven, NEW r \in ThingRules, NEW s \in ThingRules, r.path = s.path
    PROVE  r.object = s.object /\ (IsChanges(r) => IsChanges(s)) /\ (IsTop(r) => IsTop(s))
<1>1. IsRule(r) /\ IsRule(s)
  BY DEF ThingRules
<1>2. \A x \in {r, s} :
        /\ IsHand(x) => Len(x.path) = 2 /\ x.path[1] = "by-hand"
        /\ IsDefault(x) => Len(x.path) = 1 /\ x.path[1] = x.object /\ x.object \in Routes!Objects
        /\ IsChanges(x) => /\ Len(x.path) = 2 /\ x.path[1] = x.object /\ x.path[2] = "change-event"
                           /\ x.object \in Routes!Objects
        /\ IsModel(x) => Len(x.path) = 2 /\ x.path[1] = "resources" /\ x.path[2] = "wot-tm"
        /\ IsDescription(x) => Len(x.path) = 2 /\ x.path[1] = "resources" /\ x.path[2] = "wot-td"
        /\ IsTop(x) => Len(x.path) = 1 /\ x.path[1] = "properties"
  BY <1>1, PathsOfRules
<1>3. "by-hand" \notin Routes!Objects /\ "properties" \notin Routes!Objects
  BY <1>1, PathsOfRules
<1>4. CASE IsHand(r)
  <2>1. IsHand(s) /\ ~IsChanges(r) /\ ~IsTop(r)
    BY <1>1, <1>2, <1>3, <1>4 DEF IsRule
  <2>2. PICK h \in ByHand, k \in ByHand : h.at = r.path[2] /\ h.object = r.object /\ k.at = s.path[2] /\ k.object = s.object
    BY <1>1, <1>4, <2>1, PathsOfRules
  <2> QED
    BY <2>1, <2>2 DEF RoutesGiven, Routes!HandRoutesFit
<1>5. CASE IsDefault(r)
  <2>1. IsDefault(s) /\ ~IsChanges(r) /\ ~IsTop(r)
    BY <1>1, <1>2, <1>3, <1>5 DEF IsRule
  <2> QED
    BY <1>2, <1>5, <2>1
<1>6. CASE IsChanges(r)
  <2>1. IsChanges(s) /\ ~IsTop(r)
    BY <1>1, <1>2, <1>3, <1>6 DEF IsRule
  <2> QED
    BY <1>2, <1>6, <2>1
<1>7. CASE IsModel(r)
  <2>1. IsModel(s) /\ ~IsChanges(r) /\ ~IsTop(r)
    BY <1>1, <1>2, <1>3, <1>7 DEF IsRule
  <2> QED
    BY <1>7, <2>1 DEF IsModel
<1>8. CASE IsDescription(r)
  <2>1. IsDescription(s) /\ ~IsChanges(r) /\ ~IsTop(r)
    BY <1>1, <1>2, <1>3, <1>8 DEF IsRule
  <2> QED
    BY <1>8, <2>1 DEF IsDescription
<1>9. CASE IsTop(r)
  <2>1. IsTop(s) /\ ~IsChanges(r)
    BY <1>1, <1>2, <1>3, <1>9 DEF IsRule
  <2> QED
    BY <1>9, <2>1 DEF IsTop
<1> QED
  BY <1>1, <1>4, <1>5, <1>6, <1>7, <1>8, <1>9 DEF IsRule

(* A rule of an object, but for that of its change event, has the handler  *)
(* of its kind.                                                            *)
LEMMA HandlerOfKind ==
    ASSUME RoutesGiven, NEW r \in ThingRules, r.object \in Routes!Objects, ~IsChanges(r)
    PROVE  /\ r.handler = KindOf[r.object]
           /\ r.handler = "event" => r.methods = {"GET"}
           /\ r.handler \in {"property", "action"} => "PATCH" \notin r.methods
<1>1. IsHand(r) \/ IsDefault(r) \/ IsModel(r)
  <2>1. "description" \notin Routes!Objects /\ "properties" \notin Routes!Objects
    BY DEF RoutesGiven, Routes!RoutesAssumption
  <2> QED
    BY <2>1 DEF ThingRules, IsRule, IsDescription, IsTop
<1>2. ASSUME NEW h \in ByHand, r.object = h.object, r.handler = h.how, r.methods = h.methods,
             Routes!Accepted(h.object, h.how, h.methods)
      PROVE  /\ r.handler = KindOf[r.object] /\ (r.handler = "event" => r.methods = {"GET"})
             /\ (r.handler \in {"property", "action"} => "PATCH" \notin r.methods)
  <2>1. h.how = KindOf[h.object] /\ (h.how = "action" => "PATCH" \notin h.methods)
    BY DEF RoutesGiven, Routes!HandRoutesFit
  <2>2. h.how = "event" => h.methods = {"GET"}
    BY <1>2 DEF Routes!Accepted
  <2>3. h.how = "property" => "PATCH" \notin h.methods
    BY <1>2 DEF Routes!Accepted, Routes!PropertyMethods
  <2> QED
    BY <1>2, <2>1, <2>2, <2>3
<1>3. CASE IsHand(r)
  BY <1>2, <1>3 DEF IsHand
<1>4. CASE IsDefault(r)
  <2>1. r.handler = KindOf[r.object]
    BY <1>4 DEF IsDefault
  <2>2. r.handler = "event" => r.methods = {"GET"}
    BY <1>4 DEF IsDefault
  <2>3. r.handler = "action" => "PATCH" \notin r.methods
    BY <1>4 DEF IsDefault
  <2>4. r.handler = "property" => "PATCH" \notin r.methods
    BY <1>4 DEF IsDefault
  <2> QED
    BY <2>1, <2>2, <2>3, <2>4
<1>5. CASE IsModel(r)
  BY <1>5 DEF IsModel, RoutesGiven, Routes!RoutesAssumption
<1> QED
  BY <1>1, <1>3, <1>4, <1>5

(* A path is served by its oldest rule.                                    *)
LEMMA AnsweredByOldest ==
    ASSUME RoutesInvariant, NEW f, NEW i \in Routes!RulesAt(f.thing, f.path),
           \A k \in Routes!RulesAt(f.thing, f.path) :
               (\A j \in Routes!RulesAt(f.thing, f.path) : k <= j) =>
                   rules[k].object = f.object /\ Routes!Runs(rules[k], f.method) = f.op
    PROVE  Routes!Answered(f)
<1> DEFINE at == Routes!RulesAt(f.thing, f.path)
<1>1. at \subseteq Nat /\ at # {}
  <2>1. DOMAIN rules \subseteq Nat
    BY LenProperties DEF RoutesInvariant, PairedRules
  <2> QED
    BY <2>1 DEF Routes!RulesAt
<1>2. PICK k : k = CHOOSE x \in at : \A j \in at : x <= j
  OBVIOUS
<1>3. k \in at /\ \A j \in at : k <= j
  <2> HIDE DEF at
  <2>1. \E x \in at : \A j \in at : x <= j
    BY <1>1, LeastOf
  <2> QED
    BY <1>2, <2>1
<1>4. rules[k].object = f.object /\ Routes!Runs(rules[k], f.method) = f.op
  BY <1>3
<1> QED
  BY <1>1, <1>2, <1>4 DEF Routes!Answered

(* The form of an object names its oldest rule.                            *)
LEMMA OldestRuleIs ==
    ASSUME RoutesGiven, RoutesInvariant, NEW t, NEW o \in Routes!Objects, Routes!RuleOf(t, o) # {}
    PROVE  \E i \in Routes!RuleOf(t, o) :
              /\ Routes!OldestRule(t, o) = rules[i] /\ rules[i] \in ThingRules /\ ~IsChanges(rules[i])
              /\ \A j \in Routes!RuleOf(t, o) : i <= j
<1>1. rules \in Seq(ThingRules) /\ FollowsOwn(rules) /\ DOMAIN rules = 1 .. Len(rules)
  BY LenProperties DEF RoutesInvariant, PairedRules, Paired
<1> DEFINE of == Routes!RuleOf(t, o)
<1>2. of \subseteq DOMAIN rules /\ of \subseteq Nat /\ of # {}
  BY <1>1 DEF Routes!RuleOf
<1>3. PICK i : i = CHOOSE x \in of : \A j \in of : x <= j
  OBVIOUS
<1>4. i \in of /\ \A j \in of : i <= j
  <2> HIDE DEF of
  <2>1. \E x \in of : \A j \in of : x <= j
    BY <1>2, LeastOf
  <2> QED
    BY <1>3, <2>1
<1>5. Routes!OldestRule(t, o) = rules[i]
  BY <1>3 DEF Routes!OldestRule
<1>6. rules[i] \in ThingRules
  BY <1>1, <1>2, <1>4, ElementOfSeq
<1>7. ~IsChanges(rules[i])
  <2> SUFFICES ASSUME IsChanges(rules[i]) PROVE FALSE
    OBVIOUS
  <2>1. PICK j \in DOMAIN rules : j < i /\ Alike(rules[j], rules[i])
    BY <1>1, <1>2, <1>4 DEF FollowsOwn
  <2>2. j \in of
    BY <1>4, <2>1 DEF Alike, Routes!RuleOf
  <2>3. i <= j /\ i \in Nat /\ j \in Nat
    BY <1>2, <1>4, <2>2
  <2> QED
    BY <2>1, <2>3
<1> QED
  BY <1>4, <1>5, <1>6, <1>7

(* The forms of an object lead to it.                                      *)
LEMMA FormsOfAnswered ==
    ASSUME RoutesGiven, RoutesInvariant, NEW t \in RoutedThings, NEW o \in Routes!OwnObjects(t),
           NEW f \in Routes!FormsOf(t, o)
    PROVE  Routes!Answered(f) \/ (f.op = "subscribe" /\ KindOf[f.object] = "property" /\ Routes!RoutedByHand(t, f.object))
<1>1. rules \in Seq(ThingRules) /\ HasChanges(rules)
  BY DEF RoutesInvariant, PairedRules, Paired
<1>2. o \in Routes!Objects /\ KindOf[o] \in {"property", "action", "event"} /\ Routes!RuleOf(t, o) # {}
  <2>1. MembersOf[ClassOf[t]] \in Seq(Routes!Objects) /\ KindOf \in [Routes!Objects -> {"property", "action", "event"}]
    BY DEF RoutesGiven, Routes!RoutesAssumption
  <2>2. o \in Routes!Objects
    BY <2>1, RoutesSequences, LenProperties DEF Routes!OwnObjects, ToSet
  <2> QED
    BY <2>1, <2>2 DEF Routes!FormsOf
<1>3. PICK i \in Routes!RuleOf(t, o) :
        /\ Routes!OldestRule(t, o) = rules[i] /\ rules[i] \in ThingRules /\ ~IsChanges(rules[i])
        /\ \A j \in Routes!RuleOf(t, o) : i <= j
  BY <1>2, OldestRuleIs
<1> DEFINE r == rules[i]
<1>4. i \in DOMAIN rules /\ r.object = o /\ r.thing = t
  BY <1>3 DEF Routes!RuleOf
<1>5. /\ r.handler = KindOf[o] /\ (r.handler = "event" => r.methods = {"GET"})
      /\ (r.handler \in {"property", "action"} => "PATCH" \notin r.methods)
  BY <1>2, <1>3, <1>4, HandlerOfKind
<1>6. \A k \in DOMAIN rules : rules[k] \in ThingRules
  BY <1>1, LenProperties
<1>7. ASSUME f.thing = t, f.path = r.path, f.object = o, Routes!Runs(r, f.method) = f.op PROVE Routes!Answered(f)
  <2>1. i \in Routes!RulesAt(t, r.path)
    BY <1>4 DEF Routes!RulesAt
  <2>2. ASSUME NEW k \in Routes!RulesAt(t, r.path), \A j \in Routes!RulesAt(t, r.path) : k <= j PROVE k = i
    <3>1. k \in DOMAIN rules /\ rules[k].thing = t /\ rules[k].path = r.path
      BY DEF Routes!RulesAt
    <3>2. rules[k].object = o
      BY <1>3, <1>4, <1>6, <3>1, SamePath
    <3>3. k \in Routes!RuleOf(t, o)
      BY <3>1, <3>2 DEF Routes!RuleOf
    <3>4. i <= k /\ k <= i
      BY <1>3, <2>1, <2>2, <3>3
    <3>5. i \in Nat /\ k \in Nat
      BY <1>1, <1>4, <3>1, LenProperties
    <3> QED
      BY <3>4, <3>5
  <2>3. \A k \in Routes!RulesAt(t, r.path) :
          (\A j \in Routes!RulesAt(t, r.path) : k <= j) => rules[k].object = f.object /\ Routes!Runs(rules[k], f.method) = f.op
    BY <1>4, <1>7, <2>2
  <2> QED
    BY <1>7, <2>1, <2>3, AnsweredByOldest
<1>8. CASE KindOf[o] = "property"
  <2>1. f \in Routes!PropertyForms(t, o, r)
          \/ (o \in Observable /\ f = Routes!Form(t, Routes!ChangeEvent(r.path), "GET", "subscribe", o))
    BY <1>2, <1>3, <1>8 DEF Routes!FormsOf
  <2>2. CASE f \in Routes!PropertyForms(t, o, r)
    <3>1. PICK m \in r.methods : m # "DELETE" /\ f = Routes!Form(t, r.path, m, IF m = "GET" THEN "read" ELSE "write", o)
      BY <2>2 DEF Routes!PropertyForms
    <3>2. f.thing = t /\ f.path = r.path /\ f.object = o /\ f.method = m /\ f.op = IF m = "GET" THEN "read" ELSE "write"
      BY <3>1 DEF Routes!Form
    <3>3. r.handler = "property" /\ m # "PATCH"
      BY <1>5, <1>8
    <3>4. Routes!Runs(r, m) = IF m = "GET" THEN "read" ELSE "write"
      BY <3>1, <3>3 DEF Routes!Runs
    <3> QED
      BY <1>7, <3>2, <3>4
  <2>3. CASE o \in Observable /\ f = Routes!Form(t, Routes!ChangeEvent(r.path), "GET", "subscribe", o)
    <3>1. f.thing = t /\ f.path = Append(r.path, "change-event") /\ f.object = o /\ f.method = "GET" /\ f.op = "subscribe"
      BY <2>3 DEF Routes!Form, Routes!ChangeEvent
    <3>2. CASE IsHand(r)
      <4>1. r.path[1] = "by-hand"
        BY <3>2, PathsOfRules DEF IsRule
      <4> QED
        BY <1>3, <1>8, <3>1, <4>1 DEF Routes!RoutedByHand
    <3>3. CASE ~IsHand(r)
      <4>1. IsDefault(r)
        <5>1. "description" \notin Routes!Objects /\ "properties" \notin Routes!Objects /\ KindOf[ThingModel] = "action"
          BY DEF RoutesGiven, Routes!RoutesAssumption
        <5> QED
          BY <1>2, <1>3, <1>4, <1>8, <3>3, <5>1 DEF ThingRules, IsRule, IsModel, IsDescription, IsTop
      <4>2. PICK j \in DOMAIN rules : IsChanges(rules[j]) /\ Alike(r, rules[j])
        BY <1>1, <1>4, <1>5, <1>8, <2>3, <4>1 DEF HasChanges
      <4>3. rules[j].path = <<o, "change-event">> /\ rules[j].thing = t
        BY <1>4, <4>2 DEF IsChanges, Alike
      <4>4. f.path = <<o, "change-event">>
        BY <1>4, <3>1, <4>1, PathOfChanges DEF IsDefault
      <4>5. j \in Routes!RulesAt(f.thing, f.path)
        BY <3>1, <4>3, <4>4 DEF Routes!RulesAt
      <4>6. ASSUME NEW k \in Routes!RulesAt(f.thing, f.path)
            PROVE  rules[k].object = o /\ Routes!Runs(rules[k], "GET") = "subscribe"
        <5>1. k \in DOMAIN rules /\ rules[k].path = rules[j].path
          BY <4>3, <4>4 DEF Routes!RulesAt
        <5>2. rules[j].object = rules[k].object /\ IsChanges(rules[k])
          BY <1>6, <4>2, <5>1, SamePath
        <5> QED
          BY <1>4, <4>2, <5>2 DEF Alike, IsChanges, Routes!Runs
      <4> QED
        BY <3>1, <4>5, <4>6, AnsweredByOldest
    <3> QED
      BY <3>2, <3>3
  <2> QED
    BY <2>1, <2>2, <2>3
<1>9. CASE KindOf[o] = "action"
  <2>1. PICK m \in r.methods : f = Routes!Form(t, r.path, m, "invoke", o)
    BY <1>2, <1>3, <1>9 DEF Routes!FormsOf
  <2>2. f.thing = t /\ f.path = r.path /\ f.object = o /\ f.method = m /\ f.op = "invoke"
    BY <2>1 DEF Routes!Form
  <2>3. Routes!Runs(r, m) = "invoke"
    BY <1>5, <1>9, <2>1 DEF Routes!Runs
  <2> QED
    BY <1>7, <2>2, <2>3
<1>10. CASE KindOf[o] = "event"
  <2>1. PICK m \in r.methods : f = Routes!Form(t, r.path, m, "subscribe", o)
    BY <1>2, <1>3, <1>10 DEF Routes!FormsOf
  <2>2. f.thing = t /\ f.path = r.path /\ f.object = o /\ f.method = m /\ f.op = "subscribe"
    BY <2>1 DEF Routes!Form
  <2>3. Routes!Runs(r, m) = "subscribe"
    BY <1>5, <1>10, <2>1 DEF Routes!Runs
  <2> QED
    BY <1>7, <2>2, <2>3
<1> QED
  BY <1>2, <1>8, <1>9, <1>10

(* So do those of a Thing.                                                 *)
LEMMA TopFormsAnswered ==
    ASSUME RoutesGiven, RoutesInvariant, NEW t \in things, NEW f \in Routes!TopLevelForms(t)
    PROVE  Routes!Answered(f)
<1>1. PICK i \in DOMAIN rules : IsTop(rules[i]) /\ rules[i].thing = t
  BY DEF RoutesInvariant, HasTop
<1>2. \A k \in DOMAIN rules : rules[k] \in ThingRules
  BY LenProperties DEF RoutesInvariant, PairedRules
<1>3. PICK m \in {"GET", "PUT", "PATCH"} :
        f = Routes!Form(t, <<"properties">>, m, IF m = "GET" THEN "read" ELSE "write", "properties")
  BY DEF Routes!TopLevelForms
<1>4. /\ f.thing = t /\ f.path = <<"properties">> /\ f.object = "properties" /\ f.method = m
      /\ f.op = IF m = "GET" THEN "read" ELSE "write"
  BY <1>3 DEF Routes!Form
<1>5. i \in Routes!RulesAt(f.thing, f.path)
  BY <1>1, <1>4 DEF Routes!RulesAt, IsTop
<1>6. ASSUME NEW k \in Routes!RulesAt(f.thing, f.path)
      PROVE  rules[k].object = "properties" /\ Routes!Runs(rules[k], m) = IF m = "GET" THEN "read" ELSE "write"
  <2>1. k \in DOMAIN rules /\ rules[i].path = rules[k].path
    BY <1>1, <1>4 DEF Routes!RulesAt, IsTop
  <2>2. IsTop(rules[k])
    BY <1>1, <1>2, <2>1, SamePath
  <2>3. rules[k].object = "properties" /\ rules[k].handler = "properties" /\ m \in rules[k].methods
    BY <2>2 DEF IsTop
  <2> QED
    BY <2>3 DEF Routes!Runs
<1> QED
  BY <1>4, <1>5, <1>6, AnsweredByOldest

(* What the invariant says of the properties of HTTPRoutes.                *)
LEMMA RoutesHold ==
    ASSUME RoutesGiven, RoutesInvariant
    PROVE  Routes!TypeOK /\ Routes!FormsAreServed /\ Routes!OwnObjectsRouted
<1>1. /\ rules \in Seq(ThingRules) /\ pending \in Seq(WaitingRules) /\ things \subseteq RoutedThings
      /\ broken \subseteq RoutedThings /\ byHand \in 0 .. MaxByHand
  BY DEF RoutesInvariant, PairedRules
<1>2. (\A x \in Routes!ToSet(rules) : x \in ThingRules) /\ (\A x \in Routes!ToSet(pending) : x \in WaitingRules)
  BY <1>1, LenProperties DEF Routes!ToSet
<1>3. Routes!TypeOK
  <2>1. \A x \in Routes!ToSet(rules) : x \in Fields(RoutedThings)
    BY <1>2 DEF ThingRules
  <2>2. \A x \in Routes!ToSet(pending) : x \in Fields({None})
    BY <1>2 DEF WaitingRules
  <2> QED
    BY <1>1, <2>1, <2>2 DEF Routes!TypeOK, Fields
<1>4. Routes!FormsAreServed
  <2> SUFFICES ASSUME NEW t \in things, NEW f \in Routes!Description(t)
               PROVE  Routes!Answered(f)
                        \/ (f.op = "subscribe" /\ KindOf[f.object] = "property" /\ Routes!RoutedByHand(t, f.object))
    BY DEF Routes!FormsAreServed
  <2>1. CASE f \in Routes!TopLevelForms(t)
    BY <2>1, TopFormsAnswered
  <2>2. ASSUME NEW o \in Routes!OwnObjects(t), f \in Routes!FormsOf(t, o)
        PROVE  Routes!Answered(f)
                 \/ (f.op = "subscribe" /\ KindOf[f.object] = "property" /\ Routes!RoutedByHand(t, f.object))
    BY <1>1, <2>2, FormsOfAnswered
  <2> QED
    BY <2>1, <2>2 DEF Routes!Description
<1>5. Routes!OwnObjectsRouted
  <2>1. \A t \in things : \A o \in Routes!OwnObjects(t) : Routes!RuleOf(t, o) # {}
    BY DEF RoutesInvariant, HasOwn, Routes!RuleOf
  <2>2. \A x \in Routes!ToSet(rules) : x.object \in Routes!OwnObjects(x.thing) \cup {"description", "properties"}
    BY <1>2 DEF ThingRules, IsOwn, IsDescription, IsTop
  <2> QED
    BY <2>1, <2>2 DEF Routes!OwnObjectsRouted
<1> QED
  BY <1>3, <1>4, <1>5

(***************************************************************************)
(* Requests of the HTTP server: HTTPRequests.                              *)
(***************************************************************************)
Flags == {serving, listening} \subseteq BOOLEAN

Places ==
    /\ input \in [RequestIds -> HTTPInputs \cup {None}] /\ progress \in [RequestIds -> Asking!Stages]
    /\ status \in [RequestIds -> Asking!Codes \cup {0}] /\ operation \in [RequestIds -> Asking!Operations]
    /\ replies \subseteq RequestIds

\* Inputs of requests that have access.
Allowed == {i \in HTTPInputs : Asking!Refusal(i) = 0}

DoneHasStatus == \A r \in RequestIds : status[r] # 0 <=> progress[r] = "done"
ArrivedHasInput == \A r \in RequestIds : progress[r] # "new" => input[r] \in HTTPInputs
NothingQueued ==
    \A r \in RequestIds :
        progress[r] \in {"new", "access", "handle", "collect", "stream"} => operation[r] = "none"
HandledHasAccess ==
    \A r \in RequestIds :
        progress[r] = "handle" => input[r].handler = "readiness" \/ input[r] \in Allowed
QueuedHasAccess ==
    \A r \in RequestIds :
        operation[r] # "none" => input[r].handler = "readiness" \/ input[r] \in Allowed
ExecutedIsOwn ==
    \A r \in RequestIds : progress[r] = "execute" =>
        operation[r] # "none" /\ (input[r].handler = "readiness" \/ ~Asking!Collects(input[r]))
StreamIsFree == \A r \in RequestIds : progress[r] = "stream" => ~Asking!Restricted(input[r])
RefusedHasNone ==
    \A r \in RequestIds : progress[r] = "done" /\ status[r] \in {400, 401, 403, 404, 405} =>
        operation[r] = "none"

\* A reply that can be collected is that of an operation that was queued.
Kept(m) ==
    /\ progress[m] = "done" /\ status[m] = 204 /\ Asking!Restricted(input[m]) /\ input[m].asks = "noblock"
    /\ operation[m] # "none"
StoredIsKept == \A m \in replies : Kept(m)
CollectedIsKept ==
    \A r \in RequestIds : progress[r] = "collect" =>
        /\ Asking!Restricted(input[r]) /\ Asking!Collects(input[r])
        /\ input[r].quotes \in RequestIds /\ Kept(input[r].quotes)

RequestsInvariant ==
    /\ Flags /\ Places /\ DoneHasStatus /\ ArrivedHasInput /\ NothingQueued /\ HandledHasAccess
    /\ QueuedHasAccess /\ ExecutedIsOwn /\ StreamIsFree /\ RefusedHasNone /\ StoredIsKept
    /\ CollectedIsKept /\ Asking!StatusIsFate /\ Asking!RepliesKept

(* A handler that finishes keeps the invariant, if its status tells the    *)
(* fate of its operation.                                                  *)
LEMMA Finishing ==
    ASSUME RequestsInvariant, Flags', NEW r \in RequestIds, NEW s \in Asking!Codes, progress[r] \notin {"new", "done"},
           Asking!Finish(r, s), UNCHANGED <<input, operation, replies, serving>>,
           s \in {400, 401, 403, 404, 405} => operation[r] = "none",
           Asking!Restricted(input[r]) =>
             /\ s # 204 /\ (s = 200 => operation[Asking!Names(r)] = "answered")
             /\ s = 500 => operation[r] = "none" /\ ~serving,
           progress[r] = "collect" => s \in {200, 408} /\ operation[input[r].quotes] # "queued"
    PROVE  RequestsInvariant'
<1>a. Places /\ DoneHasStatus /\ ArrivedHasInput /\ NothingQueued /\ HandledHasAccess /\ QueuedHasAccess
        /\ ExecutedIsOwn /\ StreamIsFree /\ RefusedHasNone /\ StoredIsKept /\ CollectedIsKept
        /\ Asking!StatusIsFate /\ Asking!RepliesKept
  BY DEF RequestsInvariant
<1>b. /\ progress' = [progress EXCEPT ![r] = "done"] /\ status' = [status EXCEPT ![r] = s]
      /\ input' = input /\ operation' = operation /\ replies' = replies /\ serving' = serving
  BY DEF Asking!Finish
<1>1. Places'
  BY <1>a, <1>b DEF Places, Asking!Stages
<1>2. DoneHasStatus'
  BY <1>a, <1>b DEF Places, DoneHasStatus, Asking!Codes
<1>3. ArrivedHasInput'
  BY <1>a, <1>b DEF Places, ArrivedHasInput
<1>4. NothingQueued'
  BY <1>a, <1>b DEF Places, NothingQueued
<1>5. HandledHasAccess'
  BY <1>a, <1>b DEF Places, HandledHasAccess
<1>6. QueuedHasAccess'
  BY <1>a, <1>b DEF QueuedHasAccess
<1>7. ExecutedIsOwn'
  BY <1>a, <1>b DEF Places, ExecutedIsOwn, Asking!Collects
<1>8. StreamIsFree'
  BY <1>a, <1>b DEF Places, StreamIsFree, Asking!Restricted
<1>9. RefusedHasNone'
  BY <1>a, <1>b DEF Places, RefusedHasNone
<1>10. StoredIsKept'
  BY <1>a, <1>b DEF Places, StoredIsKept, Kept, Asking!Restricted
<1>11. CollectedIsKept'
  BY <1>a, <1>b DEF Places, CollectedIsKept, Kept, Asking!Restricted, Asking!Collects
<1>12. Asking!StatusIsFate'
  BY <1>a, <1>b DEF Places, Asking!StatusIsFate, Asking!Names, Asking!Restricted, Asking!Collects
<1>13. Asking!RepliesKept'
  BY <1>a, <1>b DEF Places, Asking!RepliesKept, CollectedIsKept, Kept, Asking!Done, Asking!Restricted, Asking!Collects
<1> QED
  BY <1>1, <1>2, <1>3, <1>4, <1>5, <1>6, <1>7, <1>8, <1>9, <1>10, <1>11, <1>12, <1>13 DEF RequestsInvariant

(* A request that was let in goes on to its handler, or to a stream.       *)
LEMMA Moving ==
    ASSUME RequestsInvariant, Flags', NEW r \in RequestIds, NEW t \in {"handle", "stream"},
           progress[r] \in {"access", "handle"}, Asking!Goto(r, t),
           UNCHANGED <<input, operation, replies, serving>>,
           t = "handle" => input[r].handler = "readiness" \/ input[r] \in Allowed,
           t = "stream" => ~Asking!Restricted(input[r])
    PROVE  RequestsInvariant'
<1>a. Places /\ DoneHasStatus /\ ArrivedHasInput /\ NothingQueued /\ HandledHasAccess /\ QueuedHasAccess
        /\ ExecutedIsOwn /\ StreamIsFree /\ RefusedHasNone /\ StoredIsKept /\ CollectedIsKept
        /\ Asking!StatusIsFate /\ Asking!RepliesKept
  BY DEF RequestsInvariant
<1>b. /\ progress' = [progress EXCEPT ![r] = t] /\ status' = status
      /\ input' = input /\ operation' = operation /\ replies' = replies /\ serving' = serving
  BY DEF Asking!Goto
<1>1. Places'
  BY <1>a, <1>b DEF Places, Asking!Stages
<1>2. DoneHasStatus'
  BY <1>a, <1>b DEF Places, DoneHasStatus, Asking!Codes
<1>3. ArrivedHasInput'
  BY <1>a, <1>b DEF Places, ArrivedHasInput
<1>4. NothingQueued'
  BY <1>a, <1>b DEF Places, NothingQueued
<1>5. HandledHasAccess'
  BY <1>a, <1>b DEF Places, HandledHasAccess
<1>6. QueuedHasAccess'
  BY <1>a, <1>b DEF Places, QueuedHasAccess
<1>7. ExecutedIsOwn'
  BY <1>a, <1>b DEF Places, ExecutedIsOwn, Asking!Collects
<1>8. StreamIsFree'
  BY <1>a, <1>b DEF Places, StreamIsFree, Asking!Restricted
<1>9. RefusedHasNone'
  BY <1>a, <1>b DEF Places, RefusedHasNone
<1>10. StoredIsKept'
  BY <1>a, <1>b DEF Places, StoredIsKept, Kept, Asking!Restricted
<1>11. CollectedIsKept'
  BY <1>a, <1>b DEF Places, CollectedIsKept, Kept, Asking!Restricted, Asking!Collects
<1>12. Asking!StatusIsFate'
  BY <1>a, <1>b DEF Places, Asking!StatusIsFate, Asking!Names, Asking!Restricted, Asking!Collects
<1>13. Asking!RepliesKept'
  BY <1>a, <1>b DEF Places, Asking!RepliesKept, StoredIsKept, CollectedIsKept, Kept, Asking!Done, Asking!Restricted, Asking!Collects
<1> QED
  BY <1>1, <1>2, <1>3, <1>4, <1>5, <1>6, <1>7, <1>8, <1>9, <1>10, <1>11, <1>12, <1>13 DEF RequestsInvariant

(* A request arrives.                                                      *)
LEMMA Arriving ==
    ASSUME RequestsInvariant, Flags', NEW r \in RequestIds, Asking!Arrive(r)
    PROVE  RequestsInvariant'
<1>a. Places /\ DoneHasStatus /\ ArrivedHasInput /\ NothingQueued /\ HandledHasAccess /\ QueuedHasAccess
        /\ ExecutedIsOwn /\ StreamIsFree /\ RefusedHasNone /\ StoredIsKept /\ CollectedIsKept
        /\ Asking!StatusIsFate /\ Asking!RepliesKept
  BY DEF RequestsInvariant
<1>b. PICK i \in HTTPInputs :
        /\ progress[r] = "new" /\ progress' = [progress EXCEPT ![r] = "access"] /\ status' = status
        /\ input' = [input EXCEPT ![r] = i] /\ operation' = operation /\ replies' = replies
        /\ serving' = serving
  BY DEF Asking!Arrive, Asking!Goto
<1>1. Places'
  BY <1>a, <1>b DEF Places, Asking!Stages
<1>2. DoneHasStatus'
  BY <1>a, <1>b DEF Places, DoneHasStatus, Asking!Codes
<1>3. ArrivedHasInput'
  BY <1>a, <1>b DEF Places, ArrivedHasInput
<1>4. NothingQueued'
  BY <1>a, <1>b DEF Places, NothingQueued
<1>5. HandledHasAccess'
  BY <1>a, <1>b DEF Places, HandledHasAccess
<1>6. QueuedHasAccess'
  BY <1>a, <1>b DEF Places, QueuedHasAccess, NothingQueued
<1>7. ExecutedIsOwn'
  BY <1>a, <1>b DEF Places, ExecutedIsOwn, Asking!Collects
<1>8. StreamIsFree'
  BY <1>a, <1>b DEF Places, StreamIsFree, Asking!Restricted
<1>9. RefusedHasNone'
  BY <1>a, <1>b DEF Places, RefusedHasNone
<1>10. StoredIsKept'
  BY <1>a, <1>b DEF Places, StoredIsKept, Kept, Asking!Restricted
<1>11. CollectedIsKept'
  BY <1>a, <1>b DEF Places, CollectedIsKept, Kept, Asking!Restricted, Asking!Collects
<1>12. Asking!StatusIsFate'
  BY <1>a, <1>b DEF Places, Asking!StatusIsFate, Asking!Names, Asking!Restricted, Asking!Collects
<1>13. Asking!RepliesKept'
  BY <1>a, <1>b DEF Places, Asking!RepliesKept, StoredIsKept, CollectedIsKept, Kept, Asking!Done, Asking!Restricted, Asking!Collects
<1> QED
  BY <1>1, <1>2, <1>3, <1>4, <1>5, <1>6, <1>7, <1>8, <1>9, <1>10, <1>11, <1>12, <1>13 DEF RequestsInvariant

(* The operation of a request is queued, and its handler waits.            *)
LEMMA Executing ==
    ASSUME RequestsInvariant, Flags', NEW r \in RequestIds, progress[r] = "handle", Asking!Goto(r, "execute"), Asking!Queue(r),
           UNCHANGED <<input, replies, serving>>,
           input[r].handler = "readiness" \/ ~Asking!Collects(input[r])
    PROVE  RequestsInvariant'
<1>a. Places /\ DoneHasStatus /\ ArrivedHasInput /\ NothingQueued /\ HandledHasAccess /\ QueuedHasAccess
        /\ ExecutedIsOwn /\ StreamIsFree /\ RefusedHasNone /\ StoredIsKept /\ CollectedIsKept
        /\ Asking!StatusIsFate /\ Asking!RepliesKept
  BY DEF RequestsInvariant
<1>b. /\ progress' = [progress EXCEPT ![r] = "execute"] /\ status' = status
      /\ input' = input /\ operation' = [operation EXCEPT ![r] = "queued"] /\ replies' = replies
      /\ serving' = serving
  BY DEF Asking!Goto, Asking!Queue
<1>1. Places'
  BY <1>a, <1>b DEF Places, Asking!Stages, Asking!Operations
<1>2. DoneHasStatus'
  BY <1>a, <1>b DEF Places, DoneHasStatus, Asking!Codes
<1>3. ArrivedHasInput'
  BY <1>a, <1>b DEF Places, ArrivedHasInput
<1>4. NothingQueued'
  BY <1>a, <1>b DEF Places, NothingQueued
<1>5. HandledHasAccess'
  BY <1>a, <1>b DEF Places, HandledHasAccess
<1>6. QueuedHasAccess'
  BY <1>a, <1>b DEF Places, QueuedHasAccess, HandledHasAccess
<1>7. ExecutedIsOwn'
  BY <1>a, <1>b DEF Places, ExecutedIsOwn, Asking!Collects
<1>8. StreamIsFree'
  BY <1>a, <1>b DEF Places, StreamIsFree, Asking!Restricted
<1>9. RefusedHasNone'
  BY <1>a, <1>b DEF Places, RefusedHasNone
<1>10. StoredIsKept'
  BY <1>a, <1>b DEF Places, StoredIsKept, Kept, Asking!Restricted
<1>11. CollectedIsKept'
  BY <1>a, <1>b DEF Places, CollectedIsKept, Kept, Asking!Restricted, Asking!Collects
<1>12. Asking!StatusIsFate'
  BY <1>a, <1>b DEF Places, Asking!StatusIsFate, Asking!Names, Asking!Restricted, Asking!Collects, NothingQueued
<1>13. Asking!RepliesKept'
  BY <1>a, <1>b DEF Places, Asking!RepliesKept, StoredIsKept, CollectedIsKept, Kept, Asking!Done, Asking!Restricted, Asking!Collects
<1> QED
  BY <1>1, <1>2, <1>3, <1>4, <1>5, <1>6, <1>7, <1>8, <1>9, <1>10, <1>11, <1>12, <1>13 DEF RequestsInvariant

(* An operation that is one-way or not waited for is queued and answered.  *)
LEMMA Submitting ==
    ASSUME RequestsInvariant, Flags', NEW r \in RequestIds, Asking!Submit(r)
    PROVE  RequestsInvariant'
<1>a. Places /\ DoneHasStatus /\ ArrivedHasInput /\ NothingQueued /\ HandledHasAccess /\ QueuedHasAccess
        /\ ExecutedIsOwn /\ StreamIsFree /\ RefusedHasNone /\ StoredIsKept /\ CollectedIsKept
        /\ Asking!StatusIsFate /\ Asking!RepliesKept
  BY DEF RequestsInvariant
<1>b. /\ progress[r] = "handle" /\ Asking!Restricted(input[r]) /\ ~Asking!Collects(input[r])
      /\ progress' = [progress EXCEPT ![r] = "done"] /\ status' = [status EXCEPT ![r] = 204]
      /\ input' = input /\ operation' = [operation EXCEPT ![r] = "queued"] /\ serving' = serving
      /\ replies' = IF input[r].asks = "noblock" THEN replies \cup {r} ELSE replies
  BY DEF Asking!Submit, Asking!Throughs, Asking!At, Asking!Restricted, Asking!Finish, Asking!Queue
<1>1. Places'
  <2>1. "done" \in Asking!Stages /\ "queued" \in Asking!Operations /\ 204 \in Asking!Codes
    BY DEF Asking!Stages, Asking!Operations, Asking!Codes
  <2> QED
    BY <1>a, <1>b, <2>1 DEF Places
<1>2. DoneHasStatus'
  BY <1>a, <1>b DEF Places, DoneHasStatus, Asking!Codes
<1>3. ArrivedHasInput'
  BY <1>a, <1>b DEF Places, ArrivedHasInput
<1>4. NothingQueued'
  BY <1>a, <1>b DEF Places, NothingQueued
<1>5. HandledHasAccess'
  BY <1>a, <1>b DEF Places, HandledHasAccess
<1>6. QueuedHasAccess'
  BY <1>a, <1>b DEF Places, QueuedHasAccess, HandledHasAccess, Asking!Restricted
<1>7. ExecutedIsOwn'
  BY <1>a, <1>b DEF Places, ExecutedIsOwn, Asking!Collects
<1>8. StreamIsFree'
  BY <1>a, <1>b DEF Places, StreamIsFree, Asking!Restricted
<1>9. RefusedHasNone'
  BY <1>a, <1>b DEF Places, RefusedHasNone
<1>10. StoredIsKept'
  BY <1>a, <1>b DEF Places, StoredIsKept, Kept, Asking!Restricted
<1>11. CollectedIsKept'
  BY <1>a, <1>b DEF Places, CollectedIsKept, Kept, Asking!Restricted, Asking!Collects
<1>12. Asking!StatusIsFate'
  BY <1>a, <1>b DEF Places, Asking!StatusIsFate, Asking!Names, Asking!Restricted, Asking!Collects, NothingQueued
<1>13. Asking!RepliesKept'
  BY <1>a, <1>b DEF Places, Asking!RepliesKept, StoredIsKept, CollectedIsKept, Kept, Asking!Done, Asking!Restricted, Asking!Collects
<1> QED
  BY <1>1, <1>2, <1>3, <1>4, <1>5, <1>6, <1>7, <1>8, <1>9, <1>10, <1>11, <1>12, <1>13 DEF RequestsInvariant

(* A handler claims a stored reply: nobody else can.                       *)
LEMMA Claiming ==
    ASSUME RequestsInvariant, Flags', NEW r \in RequestIds, Asking!Collecting(r), input[r].quotes \in replies,
           Asking!Goto(r, "collect"), replies' = replies \ {input[r].quotes}, UNCHANGED <<input, operation, serving>>
    PROVE  RequestsInvariant'
<1>a. Places /\ DoneHasStatus /\ ArrivedHasInput /\ NothingQueued /\ HandledHasAccess /\ QueuedHasAccess
        /\ ExecutedIsOwn /\ StreamIsFree /\ RefusedHasNone /\ StoredIsKept /\ CollectedIsKept
        /\ Asking!StatusIsFate /\ Asking!RepliesKept
  BY DEF RequestsInvariant
<1>b. /\ progress[r] = "handle" /\ Asking!Restricted(input[r]) /\ Asking!Collects(input[r])
      /\ progress' = [progress EXCEPT ![r] = "collect"] /\ status' = status
      /\ input' = input /\ operation' = operation /\ serving' = serving
  BY DEF Asking!Collecting, Asking!At, Asking!Restricted, Asking!Goto
<1>1. Places'
  BY <1>a, <1>b DEF Places, Asking!Stages
<1>2. DoneHasStatus'
  BY <1>a, <1>b DEF Places, DoneHasStatus, Asking!Codes
<1>3. ArrivedHasInput'
  BY <1>a, <1>b DEF Places, ArrivedHasInput
<1>4. NothingQueued'
  BY <1>a, <1>b DEF Places, NothingQueued
<1>5. HandledHasAccess'
  BY <1>a, <1>b DEF Places, HandledHasAccess
<1>6. QueuedHasAccess'
  BY <1>a, <1>b DEF Places, QueuedHasAccess
<1>7. ExecutedIsOwn'
  BY <1>a, <1>b DEF Places, ExecutedIsOwn, Asking!Collects
<1>8. StreamIsFree'
  BY <1>a, <1>b DEF Places, StreamIsFree, Asking!Restricted
<1>9. RefusedHasNone'
  BY <1>a, <1>b DEF Places, RefusedHasNone
<1>10. StoredIsKept'
  BY <1>a, <1>b DEF Places, StoredIsKept, Kept, Asking!Restricted
<1>11. CollectedIsKept'
  BY <1>a, <1>b DEF Places, CollectedIsKept, StoredIsKept, Kept, Asking!Restricted, Asking!Collects
<1>12. Asking!StatusIsFate'
  BY <1>a, <1>b DEF Places, Asking!StatusIsFate, Asking!Names, Asking!Restricted, Asking!Collects
<1>13. Asking!RepliesKept'
  BY <1>a, <1>b DEF Places, Asking!RepliesKept, StoredIsKept, CollectedIsKept, Kept, Asking!Done, Asking!Restricted, Asking!Collects
<1> QED
  BY <1>1, <1>2, <1>3, <1>4, <1>5, <1>6, <1>7, <1>8, <1>9, <1>10, <1>11, <1>12, <1>13 DEF RequestsInvariant

(* A handler that claimed a reply gives it back when it does not come.     *)
LEMMA GivingUp ==
    ASSUME RequestsInvariant, Flags', NEW r \in RequestIds, Asking!GiveUp(r)
    PROVE  RequestsInvariant'
<1>a. Places /\ DoneHasStatus /\ ArrivedHasInput /\ NothingQueued /\ HandledHasAccess /\ QueuedHasAccess
        /\ ExecutedIsOwn /\ StreamIsFree /\ RefusedHasNone /\ StoredIsKept /\ CollectedIsKept
        /\ Asking!StatusIsFate /\ Asking!RepliesKept
  BY DEF RequestsInvariant
<1>b. /\ progress[r] = "collect" /\ progress' = [progress EXCEPT ![r] = "done"]
      /\ status' = [status EXCEPT ![r] = 408] /\ input' = input /\ operation' = operation
      /\ replies' = replies \cup {input[r].quotes} /\ serving' = serving
  BY DEF Asking!GiveUp, Asking!Finish
<1>1. Places'
  BY <1>a, <1>b DEF Places, Asking!Stages, Asking!Codes, CollectedIsKept
<1>2. DoneHasStatus'
  BY <1>a, <1>b DEF Places, DoneHasStatus, Asking!Codes
<1>3. ArrivedHasInput'
  BY <1>a, <1>b DEF Places, ArrivedHasInput
<1>4. NothingQueued'
  BY <1>a, <1>b DEF Places, NothingQueued
<1>5. HandledHasAccess'
  BY <1>a, <1>b DEF Places, HandledHasAccess
<1>6. QueuedHasAccess'
  BY <1>a, <1>b DEF Places, QueuedHasAccess
<1>7. ExecutedIsOwn'
  BY <1>a, <1>b DEF Places, ExecutedIsOwn, Asking!Collects
<1>8. StreamIsFree'
  BY <1>a, <1>b DEF Places, StreamIsFree, Asking!Restricted
<1>9. RefusedHasNone'
  BY <1>a, <1>b DEF Places, RefusedHasNone
<1>10. StoredIsKept'
  BY <1>a, <1>b DEF Places, StoredIsKept, Kept, Asking!Restricted, CollectedIsKept
<1>11. CollectedIsKept'
  BY <1>a, <1>b DEF Places, CollectedIsKept, Kept, Asking!Restricted, Asking!Collects
<1>12. Asking!StatusIsFate'
  BY <1>a, <1>b DEF Places, Asking!StatusIsFate, Asking!Names, Asking!Restricted, Asking!Collects
<1>13. Asking!RepliesKept'
  BY <1>a, <1>b DEF Places, Asking!RepliesKept, StoredIsKept, CollectedIsKept, Kept, Asking!Done, Asking!Restricted, Asking!Collects
<1> QED
  BY <1>1, <1>2, <1>3, <1>4, <1>5, <1>6, <1>7, <1>8, <1>9, <1>10, <1>11, <1>12, <1>13 DEF RequestsInvariant

(* What a request that collects quotes is a request.                       *)
LEMMA QuotesRequest ==
    ASSUME Asking!RequestsAssumption, DoneHasStatus, ArrivedHasInput, NEW r \in RequestIds, progress[r] # "new"
    PROVE  input[r].quotes \in RequestIds \cup {None}
BY DEF Asking!RequestsAssumption, ArrivedHasInput, Asking!InputType

(* The event loop executes an operation, or lets its timeout pass.         *)
LEMMA Answering ==
    ASSUME Asking!RequestsAssumption, RequestsInvariant, Flags', NEW r \in RequestIds, Asking!Answer(r)
    PROVE  RequestsInvariant'
<1>a. Places /\ DoneHasStatus /\ ArrivedHasInput /\ NothingQueued /\ HandledHasAccess /\ QueuedHasAccess
        /\ ExecutedIsOwn /\ StreamIsFree /\ RefusedHasNone /\ StoredIsKept /\ CollectedIsKept
        /\ Asking!StatusIsFate /\ Asking!RepliesKept
  BY DEF RequestsInvariant
<1>b. PICK a \in {"answered", "expired"} :
        /\ operation[r] = "queued" /\ operation' = [operation EXCEPT ![r] = a]
        /\ progress' = progress /\ status' = status /\ input' = input /\ replies' = replies
        /\ serving' = serving
  BY DEF Asking!Answer
<1>c. /\ \A q \in RequestIds : progress[q] = "done" => Asking!Names(q) \in RequestIds
      /\ \A q \in RequestIds : operation[q] # "queued" => operation'[q] = operation[q]
      /\ \A q \in RequestIds : operation'[q] # "none" <=> operation[q] # "none"
  BY <1>a, <1>b, QuotesRequest DEF Places, Asking!Names, Asking!Collects
<1>d. progress' = progress /\ status' = status /\ input' = input /\ replies' = replies /\ serving' = serving
  BY <1>b
<1>1. Places'
  <2>1. operation \in [RequestIds -> Asking!Operations] /\ a \in Asking!Operations
    BY <1>a DEF Places, Asking!Operations
  <2>2. operation' \in [RequestIds -> Asking!Operations]
    BY <1>b, <2>1
  <2>3. Places
    BY <1>a
  <2> QED
    BY <1>d, <2>2, <2>3 DEF Places
<1>2. DoneHasStatus'
  <2>1. DoneHasStatus
    BY <1>a
  <2> QED
    BY <1>d, <2>1 DEF DoneHasStatus
<1>3. ArrivedHasInput'
  BY <1>a, <1>b DEF Places, ArrivedHasInput
<1>4. NothingQueued'
  BY <1>a, <1>b DEF Places, NothingQueued
<1>5. HandledHasAccess'
  BY <1>a, <1>b DEF Places, HandledHasAccess
<1>6. QueuedHasAccess'
  BY <1>a, <1>b DEF Places, QueuedHasAccess
<1>7. ExecutedIsOwn'
  BY <1>a, <1>b DEF Places, ExecutedIsOwn, Asking!Collects
<1>8. StreamIsFree'
  <2>1. StreamIsFree
    BY <1>a
  <2> QED
    BY <1>d, <2>1 DEF StreamIsFree, Asking!Restricted
<1>9. RefusedHasNone'
  <2>1. RefusedHasNone
    BY <1>a
  <2>2. ASSUME NEW q \in RequestIds, progress[q] = "done" /\ status[q] \in {400, 401, 403, 404, 405}
        PROVE  operation'[q] = "none"
    BY <1>c, <2>1, <2>2 DEF RefusedHasNone
  <2> QED
    BY <1>d, <2>2 DEF RefusedHasNone
<1>10. StoredIsKept'
  <2>1. StoredIsKept /\ replies \subseteq RequestIds
    BY <1>a DEF Places
  <2> QED
    BY <1>c, <1>d, <2>1 DEF StoredIsKept, Kept, Asking!Restricted
<1>11. CollectedIsKept'
  <2>1. Places /\ CollectedIsKept
    BY <1>a
  <2>2. \A q \in RequestIds : Kept(q) => Kept(q)'
    BY <1>b, <1>c DEF Kept, Asking!Restricted
  <2> QED
    BY <1>b, <2>1, <2>2 DEF CollectedIsKept, Asking!Restricted, Asking!Collects
<1>12. Asking!StatusIsFate'
  <2>1. ASSUME NEW q \in RequestIds, progress'[q] = "done", Asking!Restricted(input'[q])
        PROVE  /\ status'[q] = 200 => operation'[Asking!Names(q)'] = "answered"
               /\ status'[q] = 204 => operation'[q] # "none"
               /\ status'[q] = 500 => operation'[q] = "none" /\ ~serving'
    <3>1. PICK n \in RequestIds : n = Asking!Names(q) /\ n = Asking!Names(q)'
      BY <1>b, <1>c, <2>1 DEF Asking!Names, Asking!Collects
    <3>2. /\ progress[q] = "done" /\ status'[q] = status[q] /\ input'[q] = input[q]
      BY <1>b, <2>1
    <3>3. status[q] = 200 => operation[n] = "answered"
      <4>1. progress[q] = "done" /\ Asking!Restricted(input[q]) /\ n = Asking!Names(q)
        BY <2>1, <3>1, <3>2
      <4> HIDE <2>1, <3>1, <3>2
      <4> QED
        BY <1>a, <4>1 DEF Asking!StatusIsFate, Asking!Restricted, Asking!Names, Asking!Collects
    <3>4. status[q] = 204 => operation[q] # "none"
      BY <1>a, <2>1, <3>2 DEF Asking!StatusIsFate, Asking!Restricted, Asking!Names, Asking!Collects
    <3>5. status[q] = 500 => operation[q] = "none" /\ ~serving
      BY <1>a, <2>1, <3>2 DEF Asking!StatusIsFate, Asking!Restricted, Asking!Names, Asking!Collects
    <3>6. ~serving => ~serving'
      BY <1>b
    <3>7. /\ operation[n] = "answered" => operation'[n] = "answered"
          /\ operation[q] # "none" <=> operation'[q] # "none"
      BY <1>c
    <3>8. Asking!Names(q)' = n
      BY <3>1
    <3> QED
      BY <3>2, <3>3, <3>4, <3>5, <3>6, <3>7, <3>8
  <2> HIDE <1>a, <1>b
  <2> QED
    BY <2>1 DEF Asking!StatusIsFate, Asking!Restricted
<1>13. Asking!RepliesKept'
  <2> DEFINE claimed(m) == \E q \in RequestIds : progress[q] = "collect" /\ input[q].quotes = m
             collected(m) == \E q \in RequestIds : /\ progress[q] = "done" /\ status[q] \in {200, 408}
                                                  /\ input[q].quotes = m /\ Asking!Collects(input[q])
  <2> SUFFICES ASSUME NEW m \in RequestIds, serving, progress[m] = "done" /\ status[m] = 204, Asking!Restricted(input[m])
               PROVE  IF input[m].asks = "noblock"
                      THEN m \in replies \/ claimed(m) \/ (collected(m) /\ operation'[m] # "queued")
                      ELSE m \notin replies
    BY <1>d DEF Asking!RepliesKept, Asking!Done, Asking!Restricted, Asking!Collects
  <2>1. IF input[m].asks = "noblock"
        THEN m \in replies \/ claimed(m) \/ (collected(m) /\ operation[m] # "queued")
        ELSE m \notin replies
    BY <1>a DEF Asking!RepliesKept, Asking!Done
  <2> HIDE DEF claimed, collected
  <2> QED
    BY <1>c, <2>1
<1> QED
  BY <1>1, <1>2, <1>3, <1>4, <1>5, <1>6, <1>7, <1>8, <1>9, <1>10, <1>11, <1>12, <1>13 DEF RequestsInvariant

(* The event loop stops, and what is stored is cleared.                    *)
LEMMA StoppingLoop ==
    ASSUME RequestsInvariant, Flags', Asking!StopLoop
    PROVE  RequestsInvariant'
<1>a. Places /\ DoneHasStatus /\ ArrivedHasInput /\ NothingQueued /\ HandledHasAccess /\ QueuedHasAccess
        /\ ExecutedIsOwn /\ StreamIsFree /\ RefusedHasNone /\ StoredIsKept /\ CollectedIsKept
        /\ Asking!StatusIsFate /\ Asking!RepliesKept
  BY DEF RequestsInvariant
<1>b. /\ progress' = progress /\ status' = status /\ input' = input /\ operation' = operation
      /\ replies' = {} /\ ~serving'
  BY DEF Asking!StopLoop
<1>1. Places'
  BY <1>a, <1>b DEF Places
<1>2. DoneHasStatus'
  BY <1>a, <1>b DEF Places, DoneHasStatus, Asking!Codes
<1>3. ArrivedHasInput'
  BY <1>a, <1>b DEF Places, ArrivedHasInput
<1>4. NothingQueued'
  BY <1>a, <1>b DEF Places, NothingQueued
<1>5. HandledHasAccess'
  BY <1>a, <1>b DEF Places, HandledHasAccess
<1>6. QueuedHasAccess'
  BY <1>a, <1>b DEF Places, QueuedHasAccess
<1>7. ExecutedIsOwn'
  BY <1>a, <1>b DEF Places, ExecutedIsOwn, Asking!Collects
<1>8. StreamIsFree'
  BY <1>a, <1>b DEF Places, StreamIsFree, Asking!Restricted
<1>9. RefusedHasNone'
  BY <1>a, <1>b DEF Places, RefusedHasNone
<1>10. StoredIsKept'
  BY <1>a, <1>b DEF Places, StoredIsKept, Kept, Asking!Restricted
<1>11. CollectedIsKept'
  BY <1>a, <1>b DEF Places, CollectedIsKept, Kept, Asking!Restricted, Asking!Collects
<1>12. Asking!StatusIsFate'
  BY <1>a, <1>b DEF Places, Asking!StatusIsFate, Asking!Names, Asking!Restricted, Asking!Collects
<1>13. Asking!RepliesKept'
  BY <1>a, <1>b DEF Places, Asking!RepliesKept, StoredIsKept, CollectedIsKept, Kept, Asking!Done, Asking!Restricted, Asking!Collects
<1> QED
  BY <1>1, <1>2, <1>3, <1>4, <1>5, <1>6, <1>7, <1>8, <1>9, <1>10, <1>11, <1>12, <1>13 DEF RequestsInvariant

(* A step of the flags alone.                                              *)
LEMMA Staying ==
    ASSUME RequestsInvariant, Flags', UNCHANGED Asking!vars
    PROVE  RequestsInvariant'
<1>a. Places /\ DoneHasStatus /\ ArrivedHasInput /\ NothingQueued /\ HandledHasAccess /\ QueuedHasAccess
        /\ ExecutedIsOwn /\ StreamIsFree /\ RefusedHasNone /\ StoredIsKept /\ CollectedIsKept
        /\ Asking!StatusIsFate /\ Asking!RepliesKept
  BY DEF RequestsInvariant
<1>b. /\ progress' = progress /\ status' = status /\ input' = input /\ operation' = operation
      /\ replies' = replies /\ serving' = serving
  BY DEF Asking!vars
<1>1. Places'
  BY <1>a, <1>b DEF Places
<1>2. DoneHasStatus'
  BY <1>a, <1>b DEF Places, DoneHasStatus, Asking!Codes
<1>3. ArrivedHasInput'
  BY <1>a, <1>b DEF Places, ArrivedHasInput
<1>4. NothingQueued'
  BY <1>a, <1>b DEF Places, NothingQueued
<1>5. HandledHasAccess'
  BY <1>a, <1>b DEF Places, HandledHasAccess
<1>6. QueuedHasAccess'
  BY <1>a, <1>b DEF Places, QueuedHasAccess
<1>7. ExecutedIsOwn'
  BY <1>a, <1>b DEF Places, ExecutedIsOwn, Asking!Collects
<1>8. StreamIsFree'
  BY <1>a, <1>b DEF Places, StreamIsFree, Asking!Restricted
<1>9. RefusedHasNone'
  BY <1>a, <1>b DEF Places, RefusedHasNone
<1>10. StoredIsKept'
  BY <1>a, <1>b DEF Places, StoredIsKept, Kept, Asking!Restricted
<1>11. CollectedIsKept'
  BY <1>a, <1>b DEF Places, CollectedIsKept, Kept, Asking!Restricted, Asking!Collects
<1>12. Asking!StatusIsFate'
  BY <1>a, <1>b DEF Places, Asking!StatusIsFate, Asking!Names, Asking!Restricted, Asking!Collects
<1>13. Asking!RepliesKept'
  BY <1>a, <1>b DEF Places, Asking!RepliesKept, StoredIsKept, CollectedIsKept, Kept, Asking!Done, Asking!Restricted, Asking!Collects
<1> QED
  BY <1>1, <1>2, <1>3, <1>4, <1>5, <1>6, <1>7, <1>8, <1>9, <1>10, <1>11, <1>12, <1>13 DEF RequestsInvariant

(* A refusal has one of two statuses.                                      *)
LEMMA RefusalCodes == \A i : Asking!Refusal(i) \in {0, 401, 403}
BY DEF Asking!Refusal

(* What a step does to the flags.                                          *)
LEMMA FlagsKept == ASSUME Flags, [Asking!Next]_Asking!vars PROVE Flags'
<1>1. ASSUME NEW r \in RequestIds, Asking!Arrive(r) PROVE serving' = serving /\ listening' = listening
  BY <1>1 DEF Asking!Arrive
<1>2. ASSUME NEW r \in RequestIds, Asking!CheckAccess(r) PROVE serving' = serving /\ listening' = listening
  BY <1>2 DEF Asking!CheckAccess
<1>3. ASSUME NEW r \in RequestIds, Asking!CannotDecode(r) PROVE serving' = serving /\ listening' = listening
  BY <1>3 DEF Asking!CannotDecode
<1>4. ASSUME NEW r \in RequestIds, Asking!NotRunning(r) PROVE serving' = serving /\ listening' = listening
  BY <1>4 DEF Asking!NotRunning
<1>5. ASSUME NEW r \in RequestIds, Asking!Submit(r) PROVE serving' = serving /\ listening' = listening
  BY <1>5 DEF Asking!Submit
<1>6. ASSUME NEW r \in RequestIds, Asking!Execute(r) PROVE serving' = serving /\ listening' = listening
  BY <1>6 DEF Asking!Execute
<1>7. ASSUME NEW r \in RequestIds, Asking!Reply(r) PROVE serving' = serving /\ listening' = listening
  BY <1>7 DEF Asking!Reply
<1>8. ASSUME NEW r \in RequestIds, Asking!Claim(r) PROVE serving' = serving /\ listening' = listening
  BY <1>8 DEF Asking!Claim
<1>9. ASSUME NEW r \in RequestIds, Asking!GiveUp(r) PROVE serving' = serving /\ listening' = listening
  BY <1>9 DEF Asking!GiveUp
<1>10. ASSUME NEW r \in RequestIds, Asking!Collect(r) PROVE serving' = serving /\ listening' = listening
  BY <1>10 DEF Asking!Collect
<1>11. ASSUME NEW r \in RequestIds, Asking!Stream(r) PROVE serving' = serving /\ listening' = listening
  BY <1>11 DEF Asking!Stream
<1>12. ASSUME NEW r \in RequestIds, Asking!StreamEnds(r) PROVE serving' = serving /\ listening' = listening
  BY <1>12 DEF Asking!StreamEnds
<1>13. ASSUME NEW r \in RequestIds, Asking!Describe(r) PROVE serving' = serving /\ listening' = listening
  BY <1>13 DEF Asking!Describe
<1>14. ASSUME NEW r \in RequestIds, Asking!Ping(r) PROVE serving' = serving /\ listening' = listening
  BY <1>14 DEF Asking!Ping
<1>15. ASSUME NEW r \in RequestIds, Asking!Answer(r) PROVE serving' = serving /\ listening' = listening
  BY <1>15 DEF Asking!Answer
<1>16. ASSUME NEW r \in RequestIds, Asking!Stop(r) PROVE serving' = serving /\ listening' = FALSE
  BY <1>16 DEF Asking!Stop
<1>17. ASSUME Asking!StopLoop PROVE serving' = FALSE /\ listening' = listening
  BY <1>17 DEF Asking!StopLoop
<1>18. ASSUME UNCHANGED Asking!vars PROVE serving' = serving /\ listening' = listening
  BY <1>18 DEF Asking!vars
<1>19. /\ serving' = serving \/ serving' = FALSE
       /\ listening' = listening \/ listening' = FALSE
  BY <1>1, <1>2, <1>3, <1>4, <1>5, <1>6, <1>7, <1>8, <1>9, <1>10, <1>11, <1>12, <1>13, <1>14, <1>15, <1>16, <1>17, <1>18 DEF Asking!Next
<1> QED
  BY <1>19, Zenon DEF Flags

(* Each step of a handler, or of the event loop, keeps the invariant.      *)
LEMMA RequestsNext ==
    ASSUME Asking!RequestsAssumption, RequestsInvariant, [Asking!Next]_Asking!vars PROVE RequestsInvariant'
<1>a. Flags'
  BY FlagsKept DEF RequestsInvariant
<1>b. Places /\ ArrivedHasInput /\ NothingQueued /\ HandledHasAccess /\ QueuedHasAccess /\ ExecutedIsOwn
        /\ StreamIsFree /\ StoredIsKept /\ CollectedIsKept
  BY DEF RequestsInvariant
<1>1. ASSUME NEW r \in RequestIds, Asking!CheckAccess(r) PROVE RequestsInvariant'
  <2>1. /\ progress[r] = "access" /\ input[r] \in HTTPInputs /\ operation[r] = "none"
        /\ UNCHANGED <<input, operation, replies, serving>>
    BY <1>b, <1>1 DEF Asking!CheckAccess, ArrivedHasInput, NothingQueued
  <2>2. \/ \E s \in {401, 403, 405} : Asking!Finish(r, s)
        \/ Asking!Goto(r, "handle") /\ (input[r].handler = "readiness" \/ Asking!Refusal(input[r]) = 0)
    BY <1>1, RefusalCodes DEF Asking!CheckAccess
  <2>3. ASSUME NEW s \in {401, 403, 405}, Asking!Finish(r, s) PROVE RequestsInvariant'
    BY <1>a, <2>1, <2>3, Finishing DEF Asking!Codes
  <2>4. CASE Asking!Goto(r, "handle") /\ (input[r].handler = "readiness" \/ Asking!Refusal(input[r]) = 0)
    BY <1>a, <2>1, <2>4, Moving DEF Allowed
  <2> QED
    BY <2>2, <2>3, <2>4
<1>2. ASSUME NEW r \in RequestIds, Asking!CannotDecode(r) \/ Asking!NotRunning(r) PROVE RequestsInvariant'
  <2>1. /\ progress[r] = "handle" /\ operation[r] = "none"
        /\ UNCHANGED <<input, operation, replies, serving>>
    BY <1>b, <1>2 DEF Asking!CannotDecode, Asking!NotRunning, Asking!Throughs, Asking!At, NothingQueued
  <2>2. \E s \in {400, 405, 500} : Asking!Finish(r, s) /\ (s = 500 => ~serving)
    BY <1>2 DEF Asking!CannotDecode, Asking!NotRunning
  <2>3. ASSUME NEW s \in {400, 405, 500}, Asking!Finish(r, s), s = 500 => ~serving PROVE RequestsInvariant'
    BY <1>a, <2>1, <2>3, Finishing DEF Asking!Codes
  <2> QED
    BY <2>2, <2>3
<1>3. ASSUME NEW r \in RequestIds, Asking!Execute(r) \/ Asking!Ping(r) PROVE RequestsInvariant'
  <2>1. /\ progress[r] = "handle" /\ operation[r] = "none"
        /\ UNCHANGED <<input, replies, serving>>
        /\ input[r].handler = "readiness" \/ ~Asking!Collects(input[r])
    BY <1>b, <1>3 DEF Asking!Execute, Asking!Ping, Asking!Throughs, Asking!At, NothingQueued
  <2>2. CASE Asking!Queue(r) /\ Asking!Goto(r, "execute")
    BY <1>a, <2>1, <2>2, Executing
  <2>3. CASE Asking!Finish(r, 500) /\ UNCHANGED operation /\ input[r].handler = "readiness"
    BY <1>a, <2>1, <2>3, Finishing DEF Asking!Codes, Asking!Restricted
  <2> QED
    BY <1>3, <2>2, <2>3 DEF Asking!Execute, Asking!Ping, Asking!At
<1>4. ASSUME NEW r \in RequestIds, Asking!Reply(r) PROVE RequestsInvariant'
  <2>1. /\ progress[r] = "execute" /\ UNCHANGED <<input, operation, replies, serving>>
    BY <1>4 DEF Asking!Reply
  <2>2. \E s \in {200, 408, 500} :
          /\ Asking!Finish(r, s) /\ (s = 200 => operation[r] = "answered")
          /\ s = 500 => input[r].handler = "readiness"
    <3> DEFINE s == IF operation[r] = "answered" THEN 200
                    ELSE IF input[r].handler = "readiness" THEN 500 ELSE 408
    <3>1. Asking!Finish(r, s)
      BY <1>4 DEF Asking!Reply
    <3>2. /\ s \in {200, 408, 500} /\ (s = 200 => operation[r] = "answered")
          /\ s = 500 => input[r].handler = "readiness"
      OBVIOUS
    <3> HIDE DEF s
    <3> QED
      BY <3>1, <3>2
  <2>3. ASSUME NEW s \in {200, 408, 500}, Asking!Finish(r, s), s = 200 => operation[r] = "answered",
               s = 500 => input[r].handler = "readiness"
        PROVE  RequestsInvariant'
    <3>1. Asking!Restricted(input[r]) => s # 500 /\ Asking!Names(r) = r
      BY <1>b, <2>1, <2>3 DEF ExecutedIsOwn, Asking!Restricted, Asking!Names
    <3> QED
      BY <1>a, <2>1, <2>3, <3>1, Finishing DEF Asking!Codes
  <2> QED
    BY <2>2, <2>3
<1>5. ASSUME NEW r \in RequestIds, Asking!Claim(r) PROVE RequestsInvariant'
  <2>1. /\ Asking!Collecting(r) /\ progress[r] = "handle" /\ operation[r] = "none"
        /\ UNCHANGED <<input, operation, serving>> /\ replies' = replies \ {input[r].quotes}
    BY <1>b, <1>5 DEF Asking!Claim, Asking!Collecting, Asking!At, NothingQueued
  <2>2. CASE input[r].quotes \in replies /\ Asking!Goto(r, "collect")
    BY <1>a, <2>1, <2>2, Claiming
  <2>3. CASE input[r].quotes \notin replies /\ Asking!Finish(r, 404)
    <3>1. replies' = replies
      BY <2>1, <2>3
    <3> QED
      BY <1>a, <2>1, <2>3, <3>1, Finishing DEF Asking!Codes
  <2> QED
    BY <1>5, <2>2, <2>3 DEF Asking!Claim
<1>6. ASSUME NEW r \in RequestIds, Asking!Collect(r) PROVE RequestsInvariant'
  <2>1. /\ progress[r] = "collect" /\ UNCHANGED <<input, operation, replies, serving>>
        /\ Asking!Names(r) = input[r].quotes /\ operation[input[r].quotes] # "queued"
    BY <1>b, <1>6 DEF Asking!Collect, CollectedIsKept, Asking!Names
  <2>2. \E s \in {200, 408} : Asking!Finish(r, s) /\ (s = 200 => operation[input[r].quotes] = "answered")
    <3> DEFINE s == IF operation[input[r].quotes] = "answered" THEN 200 ELSE 408
    <3>1. Asking!Finish(r, s)
      BY <1>6 DEF Asking!Collect
    <3>2. s \in {200, 408} /\ (s = 200 => operation[input[r].quotes] = "answered")
      OBVIOUS
    <3> HIDE DEF s
    <3> QED
      BY <3>1, <3>2
  <2>3. ASSUME NEW s \in {200, 408}, Asking!Finish(r, s), s = 200 => operation[input[r].quotes] = "answered"
        PROVE  RequestsInvariant'
    BY <1>a, <2>1, <2>3, Finishing DEF Asking!Codes
  <2> QED
    BY <2>2, <2>3
<1>7. ASSUME NEW r \in RequestIds, Asking!Stream(r) PROVE RequestsInvariant'
  <2>1. /\ progress[r] = "handle" /\ Asking!Goto(r, "stream") /\ ~Asking!Restricted(input[r])
        /\ UNCHANGED <<input, operation, replies, serving>>
    BY <1>7 DEF Asking!Stream, Asking!At, Asking!Restricted
  <2> QED
    BY <1>a, <2>1, Moving
<1>8. ASSUME NEW r \in RequestIds, Asking!StreamEnds(r) \/ Asking!Describe(r) \/ Asking!Stop(r) PROVE RequestsInvariant'
  <2>1. /\ progress[r] \in {"stream", "handle"} /\ ~Asking!Restricted(input[r])
        /\ UNCHANGED <<input, operation, replies, serving>>
    BY <1>b, <1>8 DEF Asking!StreamEnds, StreamIsFree, Asking!Describe, Asking!Stop, Asking!At, Asking!Restricted
  <2>2. \E s \in {200, 204, 500} : Asking!Finish(r, s)
    BY <1>8 DEF Asking!StreamEnds, Asking!Describe, Asking!Stop
  <2>3. ASSUME NEW s \in {200, 204, 500}, Asking!Finish(r, s) PROVE RequestsInvariant'
    BY <1>a, <2>1, <2>3, Finishing DEF Asking!Codes
  <2> QED
    BY <2>2, <2>3
<1> QED
  BY <1>1, <1>2, <1>3, <1>4, <1>5, <1>6, <1>7, <1>8, <1>a, Arriving, Submitting, GivingUp, Answering,
     StoppingLoop, Staying DEF Asking!Next

(* The initial state has no requests.                                      *)
LEMMA RequestsInit == ASSUME Asking!RequestsAssumption, Asking!Init PROVE RequestsInvariant
<1>1. Places
  BY DEF Asking!Init, Places, Asking!Stages, Asking!Operations
<1>2. Flags
  BY Zenon DEF Asking!Init, Flags
<1>3. DoneHasStatus /\ ArrivedHasInput /\ NothingQueued /\ HandledHasAccess
  BY DEF Asking!Init, DoneHasStatus, ArrivedHasInput, NothingQueued, HandledHasAccess
<1>4. QueuedHasAccess /\ ExecutedIsOwn /\ StreamIsFree /\ RefusedHasNone /\ StoredIsKept /\ CollectedIsKept
  BY DEF Asking!Init, QueuedHasAccess, ExecutedIsOwn, StreamIsFree, RefusedHasNone, StoredIsKept, CollectedIsKept
<1>5. Asking!StatusIsFate /\ Asking!RepliesKept
  BY DEF Asking!Init, Asking!StatusIsFate, Asking!RepliesKept, Asking!Done
<1> QED
  BY <1>1, <1>2, <1>3, <1>4, <1>5 DEF RequestsInvariant

(* What the invariant says of the properties of HTTPRequests.              *)
LEMMA RequestsHold ==
    RequestsInvariant => Asking!TypeOK /\ Asking!RefusedRunsNothing /\ Asking!StatusIsFate /\ Asking!RepliesKept
<1> SUFFICES ASSUME RequestsInvariant PROVE Asking!TypeOK /\ Asking!RefusedRunsNothing
  BY DEF RequestsInvariant
<1>1. Flags /\ Places /\ DoneHasStatus /\ QueuedHasAccess /\ RefusedHasNone /\ StoredIsKept
  BY DEF RequestsInvariant
<1>2. Asking!TypeOK
  BY <1>1, Zenon DEF Asking!TypeOK, Flags, Places, DoneHasStatus
<1>3. Asking!RefusedRunsNothing
  <2>1. ASSUME NEW r \in RequestIds, Asking!Done(r, {400, 401, 403, 404, 405})
        PROVE  operation[r] = "none" /\ r \notin replies
    BY <1>1, <2>1 DEF Asking!Done, RefusedHasNone, StoredIsKept, Kept
  <2>2. ASSUME NEW r \in RequestIds, operation[r] # "none", input[r].handler # "readiness"
        PROVE  Asking!Refusal(input[r]) = 0
    BY <1>1, <2>2 DEF QueuedHasAccess, Allowed
  <2> QED
    BY <2>1, <2>2 DEF Asking!RefusedRunsNothing
<1> QED
  BY <1>2, <1>3

(***************************************************************************)
(* Sockets of ZMQ servers: ZMQSockets.                                     *)
(***************************************************************************)
\* What is known of an address from the socket that names it.
FitsSocket(k, a) ==
    a[1] = k.transport /\ (k.transport = "IPC" => a[2] = ServerIds[k.server] /\ a[3] = k.role)

\* Sockets of a server, each once.
OfServer(s, q, kinds) ==
    /\ q \in Seq(Sockets!Sockets) /\ \A i \in 1..Len(q) : q[i].server = s /\ q[i].transport \in kinds
    /\ \A i, j \in 1..Len(q) : q[i] = q[j] => i = j

TransportKinds == {"INPROC", "TCP", "IPC"}
ServerStages == {"new", "making", "made", "raised", "exited"}
Tries == [port : 1..MaxPort + 1, searching : BOOLEAN]

SocketsTyped ==
    /\ stage \in [ZMQServers -> ServerStages] /\ try \in [ZMQServers -> Tries] /\ foreign \subseteq Foreign
    /\ address \in [Sockets!Sockets -> Sockets!Addresses \cup {None}] /\ holder \in [Sockets!Addresses -> Sockets!Sockets \cup {None}]
TodoTyped == todo \in [ZMQServers -> Seq(Sockets!Sockets)] /\ \A s \in ZMQServers : OfServer(s, todo[s], TransportKinds)
TodoIsUnbound == \A s \in ZMQServers : \A i \in 1..Len(todo[s]) : address[todo[s][i]] = None
NewIsUnbound == \A k \in Sockets!Sockets : stage[k.server] = "new" => address[k] = None
AddressFits == \A k \in Sockets!Sockets : address[k] # None => FitsSocket(k, address[k])
HolderNamesIt == \A a \in Sockets!Addresses : holder[a] # None => address[holder[a]] = a
SearchGoesOn == \A s \in ZMQServers : try[s].searching => try[s].port < SearchEnd

SocketsInvariant ==
    /\ SocketsTyped /\ TodoTyped /\ TodoIsUnbound /\ NewIsUnbound /\ AddressFits /\ HolderNamesIt
    /\ SearchGoesOn /\ Sockets!AddressIsHeld /\ Sockets!GoneHoldsNothing

(* The sockets of one transport of a server.                               *)
LEMMA PairFits ==
    ASSUME NEW s \in ZMQServers, NEW t \in TransportKinds PROVE OfServer(s, Sockets!Pair(s, t), {t})
<1> DEFINE one == [server |-> s, transport |-> t, role |-> "requests"]
           two == [server |-> s, transport |-> t, role |-> "events"]
<1>1. one \in Sockets!Sockets /\ two \in Sockets!Sockets /\ one # two
  BY DEF Sockets!Sockets, Sockets!Roles, TransportKinds
<1>2. one.server = s /\ two.server = s /\ one.transport = t /\ two.transport = t
  OBVIOUS
<1>3. Sockets!Pair(s, t) = <<>> \/ Sockets!Pair(s, t) = <<one, two>>
  BY DEF Sockets!Pair
<1> HIDE DEF one, two
<1>4. OfServer(s, <<>>, {t})
  BY DEF OfServer
<1>5. <<one, two>> \in Seq(Sockets!Sockets) /\ Len(<<one, two>>) = 2
  BY <1>1
<1>6. <<one, two>>[1] = one /\ <<one, two>>[2] = two
  OBVIOUS
<1>7. \A i \in 1..2 : i = 1 \/ i = 2
  OBVIOUS
<1>8. OfServer(s, <<one, two>>, {t})
  BY <1>1, <1>2, <1>5, <1>6, <1>7 DEF OfServer
<1> QED
  BY <1>3, <1>4, <1>8

(* Those of several transports.                                            *)
LEMMA JoinedFit ==
    ASSUME NEW s \in ZMQServers, NEW p, NEW q, NEW P \in SUBSET TransportKinds, NEW Q \in SUBSET TransportKinds,
           OfServer(s, p, P), OfServer(s, q, Q), P \cap Q = {}
    PROVE  OfServer(s, p \o q, P \cup Q)
<1>1. p \in Seq(Sockets!Sockets) /\ q \in Seq(Sockets!Sockets) /\ Len(p) \in Nat /\ Len(q) \in Nat
  BY DEF OfServer
<1>2. p \o q \in Seq(Sockets!Sockets) /\ Len(p \o q) = Len(p) + Len(q)
  BY <1>1
<1>3. \A i \in 1..Len(p \o q) :
        (p \o q)[i] = IF i <= Len(p) THEN p[i] ELSE q[i - Len(p)]
  BY <1>1
<1>4. \A i \in 1..Len(p \o q) :
        /\ (p \o q)[i].server = s
        /\ i <= Len(p) => (p \o q)[i].transport \in P
        /\ i > Len(p) => (p \o q)[i].transport \in Q
  BY <1>1, <1>2, <1>3 DEF OfServer
<1>5. \A i, j \in 1..Len(p \o q) : (p \o q)[i] = (p \o q)[j] => i = j
  <2> SUFFICES ASSUME NEW i \in 1..Len(p \o q), NEW j \in 1..Len(p \o q), (p \o q)[i] = (p \o q)[j]
               PROVE  i = j
    OBVIOUS
  <2>1. i <= Len(p) <=> j <= Len(p)
    BY <1>1, <1>2, <1>4
  <2>2. CASE i <= Len(p)
    BY <1>1, <1>2, <1>3, <2>1, <2>2 DEF OfServer
  <2>3. CASE i > Len(p)
    <3>1. i - Len(p) \in 1..Len(q) /\ j - Len(p) \in 1..Len(q)
      BY <1>1, <1>2, <2>1, <2>3
    <3>2. q[i - Len(p)] = q[j - Len(p)]
      BY <1>1, <1>2, <1>3, <2>1, <2>3
    <3> QED
      BY <1>1, <3>1, <3>2 DEF OfServer
  <2> QED
    BY <1>1, <1>2, <2>2, <2>3
<1> QED
  BY <1>2, <1>4, <1>5 DEF OfServer

(* The socket that is made next, and those that are left.                  *)
LEMMA TailFits ==
    ASSUME NEW s \in ZMQServers, NEW q, OfServer(s, q, TransportKinds), q # <<>>
    PROVE  /\ Head(q) \in Sockets!Sockets /\ Head(q).server = s /\ Head(q) = q[1] /\ 1 \in 1..Len(q)
           /\ OfServer(s, Tail(q), TransportKinds)
           /\ \A i \in 1..Len(Tail(q)) : Tail(q)[i] # Head(q) /\ i + 1 \in 1..Len(q) /\ Tail(q)[i] = q[i + 1]
<1>1. q \in Seq(Sockets!Sockets) /\ Len(q) \in Nat /\ Len(q) >= 1
  BY DEF OfServer
<1>2. Head(q) = q[1] /\ 1 \in 1..Len(q) /\ Tail(q) \in Seq(Sockets!Sockets) /\ Len(Tail(q)) = Len(q) - 1
  BY <1>1
<1>3. \A i \in 1..Len(Tail(q)) : i + 1 \in 1..Len(q) /\ Tail(q)[i] = q[i + 1]
  BY <1>1
<1>4. \A i \in 1..Len(Tail(q)) : Tail(q)[i] # Head(q)
  BY <1>1, <1>2, <1>3 DEF OfServer
<1>5. Head(q) \in Sockets!Sockets /\ Head(q).server = s
  BY <1>1, <1>2 DEF OfServer
<1>6. OfServer(s, Tail(q), TransportKinds)
  BY <1>1, <1>2, <1>3 DEF OfServer
<1> QED
  BY <1>2, <1>3, <1>4, <1>5, <1>6
(* The addresses that the sockets of a server may have.                    *)
LEMMA AddressForms ==
    ASSUME NEW k \in Sockets!Sockets
    PROVE  /\ k.server \in ZMQServers /\ k.role \in Sockets!Roles /\ k.transport \in TransportKinds
           /\ \A p \in Sockets!Ports : <<"TCP", p>> \in Sockets!Addresses
           /\ <<"IPC", ServerIds[k.server], k.role>> \in Sockets!Addresses
           /\ <<"INPROC", ProcessOf[k.server], ServerIds[k.server], k.role>> \in Sockets!Addresses
BY DEF Sockets!Sockets, Sockets!Addresses, TransportKinds

(* A socket is bound at an address that nobody who stays alive names.      *)
LEMMA Binding ==
    ASSUME Sockets!SocketsAssumption, SocketsInvariant, NEW s \in ZMQServers, NEW a \in Sockets!Addresses, stage[s] = "making",
           todo[s] # <<>>, FitsSocket(Head(todo[s]), a), Sockets!Bound(s, a),
           holder[a] = None \/ a[1] = "IPC",
           UNCHANGED <<stage, foreign>>, try' \in [ZMQServers -> Tries], SearchGoesOn'
    PROVE  SocketsInvariant'
<1> DEFINE h == Head(todo[s])
<1>a. SocketsTyped /\ TodoTyped /\ TodoIsUnbound /\ NewIsUnbound /\ AddressFits /\ HolderNamesIt
        /\ Sockets!AddressIsHeld /\ Sockets!GoneHoldsNothing
  BY DEF SocketsInvariant
<1>0. OfServer(s, todo[s], TransportKinds)
  BY <1>a DEF TodoTyped
<1>b. /\ address' = [address EXCEPT ![h] = a] /\ holder' = [holder EXCEPT ![a] = h]
      /\ todo' = [todo EXCEPT ![s] = Tail(todo[s])] /\ stage' = stage /\ foreign' = foreign
  BY DEF Sockets!Bound
<1>c. h \in Sockets!Sockets /\ h.server = s /\ h = todo[s][1] /\ 1 \in 1..Len(todo[s])
  BY <1>0, TailFits
<1>d. OfServer(s, Tail(todo[s]), TransportKinds)
  BY <1>0, TailFits
<1>e. \A i \in 1..Len(Tail(todo[s])) :
        Tail(todo[s])[i] # h /\ i + 1 \in 1..Len(todo[s]) /\ Tail(todo[s])[i] = todo[s][i + 1]
  BY <1>0, TailFits
<1>f. address[h] = None /\ FitsSocket(h, a) /\ None \notin Sockets!Sockets /\ a # None
  BY <1>a, <1>c DEF TodoIsUnbound, Sockets!SocketsAssumption
<1> HIDE DEF h
<1>1. SocketsTyped'
  BY <1>a, <1>b, <1>c DEF SocketsTyped
<1>2. TodoTyped'
  <2>1. Tail(todo[s]) \in Seq(Sockets!Sockets)
    BY <1>d DEF OfServer
  <2>2. todo' \in [ZMQServers -> Seq(Sockets!Sockets)]
    BY <1>a, <1>b, <2>1 DEF TodoTyped
  <2>3. \A q \in ZMQServers : OfServer(q, todo'[q], TransportKinds)
    BY <1>a, <1>b, <1>d DEF TodoTyped
  <2> QED
    BY <2>2, <2>3 DEF TodoTyped, OfServer
<1>3. TodoIsUnbound'
  <2>1. ASSUME NEW q \in ZMQServers, NEW i \in 1..Len(todo'[q]) PROVE address'[todo'[q][i]] = None
    <3>1. CASE q = s
      <4>1. todo'[q] = Tail(todo[s])
        BY <1>a, <1>b, <3>1 DEF TodoTyped
      <4>2. todo'[q][i] # h /\ address[todo'[q][i]] = None
        BY <1>a, <1>e, <2>1, <4>1 DEF TodoIsUnbound
      <4> QED
        BY <1>a, <1>b, <4>2 DEF SocketsTyped
    <3>2. CASE q # s
      <4>1. todo'[q] = todo[q] /\ todo[q][i].server = q /\ address[todo[q][i]] = None
        BY <1>a, <1>b, <2>1, <3>2 DEF TodoTyped, OfServer, TodoIsUnbound
      <4> QED
        BY <1>b, <1>c, <3>2, <4>1
    <3> QED
      BY <3>1, <3>2
  <2> QED
    BY <2>1 DEF TodoIsUnbound
<1>4. NewIsUnbound'
  BY <1>a, <1>b, <1>c DEF SocketsTyped, NewIsUnbound
<1>5. AddressFits'
  BY <1>a, <1>b, <1>f DEF SocketsTyped, AddressFits, FitsSocket
<1>6. HolderNamesIt'
  <2>1. ASSUME NEW b \in Sockets!Addresses, holder'[b] # None PROVE address'[holder'[b]] = b
    <3>1. CASE b = a
      BY <1>a, <1>b, <1>c, <3>1 DEF SocketsTyped
    <3>2. CASE b # a
      <4>1. holder'[b] = holder[b] /\ address[holder[b]] = b
        BY <1>a, <1>b, <2>1, <3>2 DEF SocketsTyped, HolderNamesIt
      <4>2. b # None
        BY DEF Sockets!SocketsAssumption
      <4> QED
        BY <1>a, <1>b, <1>f, <4>1, <4>2 DEF SocketsTyped
    <3> QED
      BY <3>1, <3>2
  <2> QED
    BY <2>1 DEF HolderNamesIt
<1>7. Sockets!AddressIsHeld'
  <2>1. ASSUME NEW k \in Sockets!Sockets, Sockets!Alive(k)', address'[k] # Sockets!Last,
               k.transport = "IPC" => \A q \in ZMQServers \ {k.server} : ServerIds[q] # ServerIds[k.server]
        PROVE  holder'[address'[k]] = k
    <3>1. CASE k = h
      BY <1>a, <1>b, <3>1 DEF SocketsTyped
    <3>2. CASE k # h
      <4>1. address'[k] = address[k] /\ Sockets!Alive(k)
        BY <1>a, <1>b, <2>1, <3>2 DEF SocketsTyped, Sockets!Alive
      <4>2. holder[address[k]] = k
        BY <1>a, <2>1, <4>1 DEF Sockets!AddressIsHeld
      <4>3. address[k] # a
        <5>1. SUFFICES ASSUME address[k] = a PROVE FALSE
          OBVIOUS
        <5>2. a[1] = "IPC" /\ FitsSocket(k, a)
          BY <1>a, <4>1, <4>2, <5>1 DEF Sockets!Alive, AddressFits, Sockets!SocketsAssumption
        <5>3. k.transport = "IPC" /\ h.transport = "IPC" /\ ServerIds[k.server] = ServerIds[h.server] /\ k.role = h.role
          BY <1>f, <5>2 DEF FitsSocket
        <5>4. k.server = h.server
          BY <1>c, <2>1, <5>3
        <5> QED
          BY <1>c, <3>2, <5>3, <5>4 DEF Sockets!Sockets
      <4> QED
        BY <1>a, <1>b, <4>1, <4>2, <4>3 DEF SocketsTyped, Sockets!Alive
    <3> QED
      BY <3>1, <3>2
  <2> QED
    BY <2>1 DEF Sockets!AddressIsHeld
<1>8. Sockets!GoneHoldsNothing'
  BY <1>a, <1>b, <1>c DEF SocketsTyped, Sockets!GoneHoldsNothing
<1> QED
  BY <1>1, <1>2, <1>3, <1>4, <1>5, <1>6, <1>7, <1>8 DEF SocketsInvariant


(* A server goes on, or is given up, without binding.                      *)
LEMMA NotBinding ==
    ASSUME Sockets!SocketsAssumption, SocketsInvariant, NEW s \in ZMQServers,
           \/ stage' = stage
           \/ stage[s] = "making" /\ \E t \in {"made", "raised"} : stage' = [stage EXCEPT ![s] = t],
           UNCHANGED <<todo, address, holder>>, foreign' \in SUBSET Foreign,
           try' \in [ZMQServers -> Tries], SearchGoesOn'
    PROVE  SocketsInvariant'
<1>a. SocketsTyped /\ TodoTyped /\ TodoIsUnbound /\ NewIsUnbound /\ AddressFits /\ HolderNamesIt
        /\ SearchGoesOn /\ Sockets!AddressIsHeld /\ Sockets!GoneHoldsNothing
  BY DEF SocketsInvariant
<1>b. todo' = todo /\ address' = address /\ holder' = holder
  OBVIOUS
<1>c. stage' \in [ZMQServers -> ServerStages]
  BY <1>a DEF SocketsTyped, ServerStages
<1>d. \A q \in ZMQServers :
        /\ stage'[q] \in {"making", "made"} => stage[q] \in {"making", "made"}
        /\ stage'[q] = "new" => stage[q] = "new"
        /\ stage'[q] = "exited" => stage[q] = "exited"
  BY <1>a DEF SocketsTyped
<1>1. SocketsTyped'
  BY <1>a, <1>b, <1>c DEF SocketsTyped
<1>2. TodoTyped' /\ TodoIsUnbound' /\ AddressFits' /\ HolderNamesIt'
  BY <1>a, <1>b DEF TodoTyped, TodoIsUnbound, AddressFits, HolderNamesIt, OfServer, FitsSocket
<1>3. NewIsUnbound'
  BY <1>a, <1>b, <1>d DEF NewIsUnbound, Sockets!Sockets
<1>4. Sockets!AddressIsHeld'
  BY <1>a, <1>b, <1>d DEF Sockets!AddressIsHeld, Sockets!Alive, Sockets!Sockets
<1>5. Sockets!GoneHoldsNothing'
  <2>1. \A b \in Sockets!Addresses : holder[b] # None => holder[b].server \in ZMQServers
    BY <1>a DEF SocketsTyped, Sockets!Sockets
  <2> QED
    BY <1>a, <1>b, <1>d, <2>1 DEF Sockets!GoneHoldsNothing
<1> QED
  BY <1>1, <1>2, <1>3, <1>4, <1>5 DEF SocketsInvariant

(* The constructor of a server begins.                                     *)
LEMMA Constructing ==
    ASSUME Sockets!SocketsAssumption, SocketsInvariant, NEW s \in ZMQServers, Sockets!Construct(s) PROVE SocketsInvariant'
<1>a. SocketsTyped /\ TodoTyped /\ TodoIsUnbound /\ NewIsUnbound /\ AddressFits /\ HolderNamesIt
        /\ SearchGoesOn /\ Sockets!AddressIsHeld /\ Sockets!GoneHoldsNothing
  BY DEF SocketsInvariant
<1> DEFINE q == Sockets!Pair(s, "INPROC") \o Sockets!Pair(s, "TCP") \o Sockets!Pair(s, "IPC")
<1>b. /\ stage[s] = "new" /\ stage' = [stage EXCEPT ![s] = "making"] /\ todo' = [todo EXCEPT ![s] = q]
      /\ try' = [try EXCEPT ![s] = Sockets!FirstTry(s)] /\ address' = address /\ holder' = holder
      /\ foreign' = foreign
  BY DEF Sockets!Construct
<1>c. OfServer(s, q, TransportKinds)
  <2>1. OfServer(s, Sockets!Pair(s, "INPROC"), {"INPROC"}) /\ OfServer(s, Sockets!Pair(s, "TCP"), {"TCP"})
          /\ OfServer(s, Sockets!Pair(s, "IPC"), {"IPC"})
    BY PairFits DEF TransportKinds
  <2>2. OfServer(s, Sockets!Pair(s, "INPROC") \o Sockets!Pair(s, "TCP"), {"INPROC"} \cup {"TCP"})
    BY <2>1, JoinedFit DEF TransportKinds
  <2>3. {"INPROC"} \cup {"TCP"} \in SUBSET TransportKinds /\ {"IPC"} \in SUBSET TransportKinds
          /\ ({"INPROC"} \cup {"TCP"}) \cap {"IPC"} = {}
    BY DEF TransportKinds
  <2>4. OfServer(s, q, ({"INPROC"} \cup {"TCP"}) \cup {"IPC"})
    BY <2>1, <2>2, <2>3, JoinedFit
  <2>5. ({"INPROC"} \cup {"TCP"}) \cup {"IPC"} = TransportKinds
    BY DEF TransportKinds
  <2> QED
    BY <2>4, <2>5
<1> HIDE DEF q
<1>d. Sockets!FirstTry(s) \in Tries /\ (Sockets!FirstTry(s).searching => Sockets!FirstTry(s).port < SearchEnd)
  BY DEF Sockets!FirstTry, Sockets!SocketsAssumption, Tries, Sockets!Ports
<1>1. SocketsTyped'
  BY <1>a, <1>b, <1>d DEF SocketsTyped, ServerStages
<1>2. TodoTyped'
  <2>1. q \in Seq(Sockets!Sockets)
    BY <1>c DEF OfServer
  <2>2. todo' \in [ZMQServers -> Seq(Sockets!Sockets)]
    BY <1>a, <1>b, <2>1 DEF TodoTyped
  <2>3. \A r \in ZMQServers : OfServer(r, todo'[r], TransportKinds)
    BY <1>a, <1>b, <1>c DEF TodoTyped
  <2> QED
    BY <2>2, <2>3 DEF TodoTyped, OfServer
<1>3. TodoIsUnbound'
  <2>1. ASSUME NEW r \in ZMQServers, NEW i \in 1..Len(todo'[r]) PROVE address'[todo'[r][i]] = None
    <3>1. CASE r = s
      <4>1. todo'[r] = q
        BY <1>a, <1>b, <3>1 DEF TodoTyped
      <4>2. q[i] \in Sockets!Sockets /\ q[i].server = s
        BY <1>c, <2>1, <4>1 DEF OfServer
      <4> QED
        BY <1>a, <1>b, <4>1, <4>2 DEF NewIsUnbound
    <3>2. CASE r # s
      BY <1>a, <1>b, <2>1, <3>2 DEF TodoTyped, TodoIsUnbound
    <3> QED
      BY <3>1, <3>2
  <2> QED
    BY <2>1 DEF TodoIsUnbound
<1>4. NewIsUnbound'
  BY <1>a, <1>b DEF SocketsTyped, NewIsUnbound, Sockets!Sockets
<1>5. AddressFits' /\ HolderNamesIt'
  BY <1>a, <1>b DEF AddressFits, HolderNamesIt, FitsSocket
<1>6. SearchGoesOn'
  BY <1>a, <1>b, <1>d DEF SocketsTyped, SearchGoesOn
<1>7. Sockets!AddressIsHeld'
  <2>1. \A k \in Sockets!Sockets : Sockets!Alive(k)' => Sockets!Alive(k)
    BY <1>a, <1>b DEF SocketsTyped, NewIsUnbound, Sockets!Alive, Sockets!Sockets
  <2> QED
    BY <1>a, <1>b, <2>1 DEF Sockets!AddressIsHeld, Sockets!Alive
<1>8. Sockets!GoneHoldsNothing'
  <2>1. \A b \in Sockets!Addresses : holder[b] # None => holder[b].server \in ZMQServers
    BY <1>a DEF SocketsTyped, Sockets!Sockets
  <2> QED
    BY <1>a, <1>b, <2>1 DEF SocketsTyped, Sockets!GoneHoldsNothing
<1> QED
  BY <1>1, <1>2, <1>3, <1>4, <1>5, <1>6, <1>7, <1>8 DEF SocketsInvariant

(* A port is in use: the search goes on, or gives up at its end.           *)
LEMMA Searching ==
    ASSUME Sockets!SocketsAssumption, SocketsInvariant, NEW s \in ZMQServers, Sockets!PortInUse(s) PROVE SocketsInvariant'
<1>a. SocketsTyped /\ TodoTyped /\ TodoIsUnbound /\ NewIsUnbound /\ AddressFits /\ HolderNamesIt
        /\ SearchGoesOn /\ Sockets!AddressIsHeld /\ Sockets!GoneHoldsNothing
  BY DEF SocketsInvariant
<1> DEFINE h == Head(todo[s])
           p == try[s].port
           next == IF try[s].searching THEN p + 1 ELSE SearchStart
<1>b. /\ stage' = stage /\ holder' = holder /\ foreign' = foreign
      /\ stage[s] = "making" /\ todo[s] # <<>> /\ h.transport = "TCP" /\ p \in Sockets!Ports
  BY DEF Sockets!PortInUse, Sockets!Makes
<1>t. try[s].port \in 1..MaxPort + 1 /\ try[s].searching \in BOOLEAN /\ try[s] \in Tries
  BY <1>a DEF SocketsTyped, Tries
<1>n. SearchEnd \in Nat /\ SearchStart \in 1..MaxPort /\ MaxPort \in Nat /\ SearchStart < SearchEnd
        /\ SearchEnd \in 1..MaxPort
  BY DEF Sockets!SocketsAssumption, Sockets!Ports
<1>1. CASE next < SearchEnd
  <2>1. try' = [try EXCEPT ![s] = [port |-> next, searching |-> TRUE]] /\ todo' = todo /\ address' = address
    BY <1>1 DEF Sockets!PortInUse
  <2>2. next \in 1..MaxPort + 1
    BY <1>t, <1>n, <1>b DEF Sockets!Ports
  <2>3. try' \in [ZMQServers -> Tries] /\ SearchGoesOn'
    <3> HIDE DEF next
    <3>1. [port |-> next, searching |-> TRUE] \in Tries
      BY <2>2 DEF Tries
    <3> QED
      BY <1>a, <1>1, <2>1, <3>1 DEF SocketsTyped, SearchGoesOn
  <2> QED
    BY <1>a, <1>b, <2>1, <2>3, NotBinding DEF SocketsTyped
<1>2. CASE ~(next < SearchEnd)
  <2>b. /\ address' = [address EXCEPT ![h] = <<"TCP", p>>] /\ todo' = [todo EXCEPT ![s] = Tail(todo[s])]
        /\ try' = [try EXCEPT ![s] = Sockets!NextTry(p)]
    BY <1>2 DEF Sockets!PortInUse
  <2>c. p = SearchEnd - 1
    BY <1>a, <1>2, <1>t, <1>n DEF SearchGoesOn
  <2>0. OfServer(s, todo[s], TransportKinds)
    BY <1>a DEF TodoTyped
  <2>d. h \in Sockets!Sockets /\ h.server = s /\ h = todo[s][1] /\ 1 \in 1..Len(todo[s])
    BY <1>b, <2>0, TailFits
  <2>e. OfServer(s, Tail(todo[s]), TransportKinds)
    BY <1>b, <2>0, TailFits
  <2>f. \A i \in 1..Len(Tail(todo[s])) :
          Tail(todo[s])[i] # h /\ i + 1 \in 1..Len(todo[s]) /\ Tail(todo[s])[i] = todo[s][i + 1]
    BY <1>b, <2>0, TailFits
  <2>g. address[h] = None /\ <<"TCP", p>> \in Sockets!Addresses /\ <<"TCP", p>> = Sockets!Last /\ FitsSocket(h, <<"TCP", p>>)
          /\ None \notin Sockets!Sockets /\ None \notin Sockets!Addresses
    <3>1. address[h] = None /\ None \notin Sockets!Sockets /\ None \notin Sockets!Addresses
      BY <1>a, <2>d DEF TodoIsUnbound, Sockets!SocketsAssumption
    <3>2. <<"TCP", p>> \in Sockets!Addresses
      BY <1>b, <2>d, AddressForms
    <3>3. <<"TCP", p>> = Sockets!Last
      BY <2>c DEF Sockets!Last
    <3>4. FitsSocket(h, <<"TCP", p>>)
      BY <1>b DEF FitsSocket
    <3> QED
      BY <3>1, <3>2, <3>3, <3>4
  <2>h. Sockets!NextTry(p) \in Tries /\ ~Sockets!NextTry(p).searching
    BY <1>b, <1>n DEF Sockets!NextTry, Tries, Sockets!Ports
  <2> DEFINE a == <<"TCP", p>>
  <2> HIDE DEF h, a
  <2>i. address' = [address EXCEPT ![h] = a] /\ a \in Sockets!Addresses /\ a = Sockets!Last /\ FitsSocket(h, a)
    BY <2>b, <2>g DEF a
  <2>1. SocketsTyped'
    <3>1. try' \in [ZMQServers -> Tries]
      BY <1>a, <2>b, <2>h DEF SocketsTyped
    <3> QED
      BY <1>a, <1>b, <2>i, <2>d, <3>1 DEF SocketsTyped
  <2>2. TodoTyped'
    <3>1. Tail(todo[s]) \in Seq(Sockets!Sockets)
      BY <2>e DEF OfServer
    <3>2. todo' \in [ZMQServers -> Seq(Sockets!Sockets)]
      BY <1>a, <2>b, <3>1 DEF TodoTyped
    <3>3. \A q \in ZMQServers : OfServer(q, todo'[q], TransportKinds)
      BY <1>a, <2>b, <2>e DEF TodoTyped
    <3> QED
      BY <3>2, <3>3 DEF TodoTyped, OfServer
  <2>3. TodoIsUnbound'
    <3>1. ASSUME NEW q \in ZMQServers, NEW i \in 1..Len(todo'[q]) PROVE address'[todo'[q][i]] = None
      <4>1. CASE q = s
        <5>1. todo'[q] = Tail(todo[s])
          BY <1>a, <2>b, <4>1 DEF TodoTyped
        <5>2. todo'[q][i] # h /\ address[todo'[q][i]] = None
          BY <1>a, <2>f, <3>1, <5>1 DEF TodoIsUnbound
        <5> QED
          BY <1>a, <2>i, <5>2 DEF SocketsTyped
      <4>2. CASE q # s
        <5>1. todo'[q] = todo[q] /\ todo[q][i].server = q /\ address[todo[q][i]] = None
          BY <1>a, <2>b, <3>1, <4>2 DEF TodoTyped, OfServer, TodoIsUnbound
        <5> QED
          BY <2>i, <2>d, <4>2, <5>1
      <4> QED
        BY <4>1, <4>2
    <3> QED
      BY <3>1 DEF TodoIsUnbound
  <2>4. NewIsUnbound'
    BY <1>a, <1>b, <2>i, <2>d DEF SocketsTyped, NewIsUnbound
  <2>5. AddressFits'
    BY <1>a, <2>i DEF SocketsTyped, AddressFits, FitsSocket
  <2>6. HolderNamesIt'
    <3>1. ASSUME NEW b \in Sockets!Addresses, holder[b] # None PROVE address'[holder[b]] = b
      <4>1. address[holder[b]] = b /\ b # None
        BY <1>a, <2>g, <3>1 DEF HolderNamesIt
      <4> QED
        BY <1>a, <2>i, <2>g, <4>1 DEF SocketsTyped
    <3> QED
      BY <1>b, <3>1 DEF HolderNamesIt
  <2>7. SearchGoesOn'
    BY <1>a, <2>b, <2>h DEF SocketsTyped, SearchGoesOn
  <2>8. Sockets!AddressIsHeld'
    <3>1. \A k \in Sockets!Sockets : Sockets!Alive(k)' /\ address'[k] # Sockets!Last => Sockets!Alive(k) /\ address'[k] = address[k]
      BY <1>a, <1>b, <2>i DEF SocketsTyped, Sockets!Alive
    <3> QED
      BY <1>a, <1>b, <3>1 DEF Sockets!AddressIsHeld
  <2>9. Sockets!GoneHoldsNothing'
    BY <1>a, <1>b DEF Sockets!GoneHoldsNothing
  <2> QED
    BY <2>1, <2>2, <2>3, <2>4, <2>5, <2>6, <2>7, <2>8, <2>9 DEF SocketsInvariant
<1> QED
  BY <1>1, <1>2

(* A server exits, and its sockets are closed.                             *)
LEMMA Exiting ==
    ASSUME Sockets!SocketsAssumption, SocketsInvariant, NEW s \in ZMQServers, Sockets!Exit(s) PROVE SocketsInvariant'
<1>a. SocketsTyped /\ TodoTyped /\ TodoIsUnbound /\ NewIsUnbound /\ AddressFits /\ HolderNamesIt
        /\ SearchGoesOn /\ Sockets!AddressIsHeld /\ Sockets!GoneHoldsNothing
  BY DEF SocketsInvariant
<1>b. /\ stage[s] \in {"made", "raised"} /\ stage' = [stage EXCEPT ![s] = "exited"]
      /\ todo' = todo /\ try' = try /\ address' = address /\ foreign' = foreign
  BY DEF Sockets!Exit
<1>c. holder' = [b \in Sockets!Addresses |->
          IF \/ holder[b] # None /\ holder[b].server = s
             \/ b[1] = "IPC" /\ \E k \in Sockets!Sockets : k.server = s /\ address[k] = b
          THEN None ELSE holder[b]]
  BY DEF Sockets!Exit, Sockets!Close
<1>d. \A b \in Sockets!Addresses : holder'[b] = None \/ (holder'[b] = holder[b] /\ holder[b].server # s)
  <2>1. ASSUME NEW b \in Sockets!Addresses
        PROVE  holder'[b] = None \/ (holder'[b] = holder[b] /\ holder[b].server # s)
    <3>1. holder'[b] = IF \/ holder[b] # None /\ holder[b].server = s
                          \/ b[1] = "IPC" /\ \E k \in Sockets!Sockets : k.server = s /\ address[k] = b
                       THEN None ELSE holder[b]
      BY <1>c
    <3> QED
      BY <3>1
  <2> QED
    BY <2>1
<1>1. SocketsTyped'
  <2>1. holder' \in [Sockets!Addresses -> Sockets!Sockets \cup {None}]
    BY <1>a, <1>c DEF SocketsTyped
  <2> QED
    BY <1>a, <1>b, <2>1 DEF SocketsTyped, ServerStages
<1>2. TodoTyped' /\ TodoIsUnbound' /\ AddressFits' /\ SearchGoesOn'
  <2>1. TodoTyped'
    BY <1>a, <1>b DEF TodoTyped, OfServer
  <2>2. TodoIsUnbound' /\ SearchGoesOn'
    BY <1>a, <1>b DEF TodoIsUnbound, SearchGoesOn
  <2>3. AddressFits'
    BY <1>a, <1>b DEF AddressFits, FitsSocket
  <2> QED
    BY <2>1, <2>2, <2>3
<1>3. NewIsUnbound'
  BY <1>a, <1>b DEF SocketsTyped, NewIsUnbound, Sockets!Sockets
<1>4. HolderNamesIt'
  BY <1>a, <1>b, <1>d DEF HolderNamesIt
<1>5. Sockets!AddressIsHeld'
  <2>1. ASSUME NEW k \in Sockets!Sockets, Sockets!Alive(k)', address[k] # Sockets!Last,
               k.transport = "IPC" => \A q \in ZMQServers \ {k.server} : ServerIds[q] # ServerIds[k.server]
        PROVE  holder'[address[k]] = k
    <3>1. k.server \in ZMQServers /\ k.server # s /\ Sockets!Alive(k)
      BY <1>a, <1>b, <2>1 DEF SocketsTyped, Sockets!Alive, Sockets!Sockets
    <3>2. holder[address[k]] = k /\ address[k] \in Sockets!Addresses /\ FitsSocket(k, address[k])
      BY <1>a, <2>1, <3>1 DEF Sockets!AddressIsHeld, AddressFits, SocketsTyped, Sockets!Alive
    <3>3. ~\E j \in Sockets!Sockets : j.server = s /\ address[j] = address[k] /\ address[k][1] = "IPC"
      <4> SUFFICES ASSUME NEW j \in Sockets!Sockets, j.server = s, address[j] = address[k], address[k][1] = "IPC"
                   PROVE  FALSE
        OBVIOUS
      <4>1. FitsSocket(j, address[j])
        BY <1>a, <3>2 DEF AddressFits, Sockets!SocketsAssumption
      <4> QED
        BY <2>1, <3>1, <3>2, <4>1 DEF FitsSocket
    <3> QED
      BY <1>c, <3>1, <3>2, <3>3
  <2> QED
    BY <1>b, <2>1 DEF Sockets!AddressIsHeld
<1>6. Sockets!GoneHoldsNothing'
  BY <1>a, <1>b, <1>d DEF SocketsTyped, Sockets!GoneHoldsNothing
<1> QED
  BY <1>1, <1>2, <1>3, <1>4, <1>5, <1>6 DEF SocketsInvariant

(* Each step of a server, or of another program, keeps the invariant.      *)
LEMMA SocketsNext ==
    ASSUME Sockets!SocketsAssumption, SocketsInvariant, [Sockets!Next]_Sockets!vars PROVE SocketsInvariant'
<1>a. SocketsTyped /\ TodoTyped /\ TodoIsUnbound /\ NewIsUnbound /\ AddressFits /\ HolderNamesIt
        /\ SearchGoesOn /\ Sockets!AddressIsHeld /\ Sockets!GoneHoldsNothing
  BY DEF SocketsInvariant
<1>1. ASSUME NEW s \in ZMQServers, Sockets!MakeInproc(s) PROVE SocketsInvariant'
  <2> DEFINE b == <<"INPROC", ProcessOf[s], ServerIds[s], Head(todo[s]).role>>
  <2>1. Sockets!Makes(s, "INPROC") /\ foreign' = foreign
    BY <1>1 DEF Sockets!MakeInproc
  <2>2. OfServer(s, todo[s], TransportKinds) /\ todo[s] # <<>> /\ stage[s] = "making"
    BY <1>a, <2>1 DEF TodoTyped, Sockets!Makes
  <2>3. Head(todo[s]) \in Sockets!Sockets /\ Head(todo[s]).server = s
    BY <2>2, TailFits
  <2>4. b \in Sockets!Addresses /\ FitsSocket(Head(todo[s]), b)
    BY <2>1, <2>3, AddressForms DEF FitsSocket, Sockets!Makes
  <2>5. CASE holder[b] = None
    <3>1. Sockets!Bound(s, b) /\ UNCHANGED <<stage, try>>
      BY <1>1, <2>5 DEF Sockets!MakeInproc
    <3>2. try' \in [ZMQServers -> Tries] /\ SearchGoesOn'
      BY <1>a, <3>1 DEF SocketsTyped, SearchGoesOn
    <3> HIDE DEF b
    <3> QED
      BY <2>1, <2>2, <2>4, <2>5, <3>1, <3>2, Binding
  <2>6. CASE holder[b] # None
    <3>1. Sockets!Raise(s)
      BY <1>1, <2>6 DEF Sockets!MakeInproc
    <3> QED
      BY <1>a, <2>1, <2>2, <3>1, NotBinding DEF Sockets!Raise, SocketsTyped, SearchGoesOn
  <2> QED
    BY <2>5, <2>6
<1>2. ASSUME NEW s \in ZMQServers, Sockets!MakeIPC(s) PROVE SocketsInvariant'
  <2> DEFINE b == <<"IPC", ServerIds[s], Head(todo[s]).role>>
  <2>1. Sockets!Makes(s, "IPC") /\ foreign' = foreign /\ Sockets!Bound(s, b) /\ UNCHANGED <<stage, try>>
    BY <1>2 DEF Sockets!MakeIPC
  <2>2. OfServer(s, todo[s], TransportKinds) /\ todo[s] # <<>> /\ stage[s] = "making"
    BY <1>a, <2>1 DEF TodoTyped, Sockets!Makes
  <2>3. Head(todo[s]) \in Sockets!Sockets /\ Head(todo[s]).server = s
    BY <2>2, TailFits
  <2>4. b \in Sockets!Addresses /\ FitsSocket(Head(todo[s]), b) /\ b[1] = "IPC"
    BY <2>1, <2>3, AddressForms DEF FitsSocket, Sockets!Makes
  <2>5. try' \in [ZMQServers -> Tries] /\ SearchGoesOn'
    BY <1>a, <2>1 DEF SocketsTyped, SearchGoesOn
  <2> HIDE DEF b
  <2> QED
    BY <2>1, <2>2, <2>4, <2>5, Binding
<1>3. ASSUME NEW s \in ZMQServers, Sockets!BindPort(s) PROVE SocketsInvariant'
  <2> DEFINE b == <<"TCP", try[s].port>>
  <2>1. /\ Sockets!Makes(s, "TCP") /\ foreign' = foreign /\ Sockets!Bound(s, b) /\ stage' = stage /\ ~Sockets!Taken(try[s].port)
        /\ try' = [try EXCEPT ![s] = Sockets!NextTry(try[s].port)] /\ try[s].port \in Sockets!Ports
    BY <1>3 DEF Sockets!BindPort
  <2>2. OfServer(s, todo[s], TransportKinds) /\ todo[s] # <<>> /\ stage[s] = "making"
    BY <1>a, <2>1 DEF TodoTyped, Sockets!Makes
  <2>3. Head(todo[s]) \in Sockets!Sockets
    BY <2>2, TailFits
  <2>4. b \in Sockets!Addresses /\ FitsSocket(Head(todo[s]), b) /\ holder[b] = None
    BY <2>1, <2>3, AddressForms DEF FitsSocket, Sockets!Makes, Sockets!Taken
  <2>5. Sockets!NextTry(try[s].port) \in Tries /\ ~Sockets!NextTry(try[s].port).searching
    BY <2>1 DEF Sockets!NextTry, Tries, Sockets!Ports, Sockets!SocketsAssumption
  <2>6. try' \in [ZMQServers -> Tries] /\ SearchGoesOn'
    BY <1>a, <2>1, <2>5 DEF SocketsTyped, SearchGoesOn
  <2> HIDE DEF b
  <2> QED
    BY <2>1, <2>2, <2>4, <2>6, Binding
<1>4. ASSUME NEW s \in ZMQServers, Sockets!PortInvalid(s) PROVE SocketsInvariant'
  BY <1>a, <1>4, NotBinding DEF Sockets!PortInvalid, Sockets!Raise, Sockets!Makes, SocketsTyped, SearchGoesOn
<1>5. ASSUME NEW s \in ZMQServers, Sockets!Made(s) PROVE SocketsInvariant'
  BY <1>a, <1>5, NotBinding DEF Sockets!Made, SocketsTyped, SearchGoesOn
<1>6. CASE (\E p \in Foreign : Sockets!OtherProgram(p)) \/ UNCHANGED Sockets!vars
  <2>1. stage' = stage /\ todo' = todo /\ try' = try /\ address' = address /\ holder' = holder
          /\ foreign' \in SUBSET Foreign
    BY <1>a, <1>6 DEF Sockets!OtherProgram, Sockets!vars, SocketsTyped
  <2>2. try' \in [ZMQServers -> Tries] /\ SearchGoesOn'
    BY <1>a, <2>1 DEF SocketsTyped, SearchGoesOn
  <2>3. SocketsTyped' /\ NewIsUnbound' /\ Sockets!AddressIsHeld' /\ Sockets!GoneHoldsNothing'
    BY <1>a, <2>1 DEF SocketsTyped, NewIsUnbound, Sockets!AddressIsHeld, Sockets!GoneHoldsNothing, Sockets!Alive
  <2>4. TodoTyped' /\ TodoIsUnbound' /\ AddressFits' /\ HolderNamesIt'
    BY <1>a, <2>1 DEF TodoTyped, TodoIsUnbound, AddressFits, HolderNamesIt, OfServer, FitsSocket
  <2> QED
    BY <2>2, <2>3, <2>4 DEF SocketsInvariant
<1> QED
  BY <1>1, <1>2, <1>3, <1>4, <1>5, <1>6, Constructing, Searching, Exiting DEF Sockets!Next

(* No server was constructed, and no address is held.                      *)
LEMMA SocketsInit == ASSUME Sockets!SocketsAssumption, Sockets!Init PROVE SocketsInvariant
<1>0. [port |-> SearchStart, searching |-> TRUE] \in Tries /\ SearchStart < SearchEnd
  BY DEF Sockets!SocketsAssumption, Tries, Sockets!Ports
<1>1. SocketsTyped
  BY <1>0 DEF Sockets!Init, SocketsTyped, ServerStages
<1>2. TodoTyped /\ TodoIsUnbound
  <2>1. <<>> \in Seq(Sockets!Sockets) /\ Len(<<>>) = 0
    OBVIOUS
  <2> QED
    BY <2>1 DEF Sockets!Init, TodoTyped, TodoIsUnbound, OfServer
<1>3. NewIsUnbound /\ AddressFits /\ HolderNamesIt /\ Sockets!AddressIsHeld /\ Sockets!GoneHoldsNothing
  BY DEF Sockets!Init, NewIsUnbound, AddressFits, HolderNamesIt, Sockets!AddressIsHeld, Sockets!GoneHoldsNothing, Sockets!Alive
<1>4. SearchGoesOn
  BY <1>0 DEF Sockets!Init, SearchGoesOn
<1> QED
  BY <1>1, <1>2, <1>3, <1>4 DEF SocketsInvariant

(* What the invariant says of the properties of ZMQSockets.                *)
LEMMA SocketsHold == SocketsInvariant => Sockets!TypeOK /\ Sockets!AddressIsHeld /\ Sockets!GoneHoldsNothing
BY DEF SocketsInvariant, SocketsTyped, TodoTyped, Sockets!TypeOK, ServerStages, Tries

(***************************************************************************)
(* run() and stop(): ServerRuns, for runs with IDs and loops of their own. *)
(***************************************************************************)
RunStages == {"new", "waiting", "registering", "serving", "stopping", "stopped", "joining",
           "returned", "raised"}
ThreadStates == {"none", "starting", "running", "ended"}
StopStages == {"idle", "set", "wait", "returned", "warned"}
StopCalls == [at : StopStages, run : AllRuns \cup {None}, waits : BOOLEAN]

RunsTyped ==
    /\ registry \in [Running!Ids -> AllRuns \cup {None}] /\ run \in [AllRuns -> RunStages]
    /\ up \subseteq AllRuns /\ failed \subseteq AllRuns /\ shutdown \subseteq AllRuns /\ interrupted \subseteq AllRuns
    /\ thread \in [AllRuns \X EventLoops -> ThreadStates] /\ running \subseteq EventLoops
    /\ stopper \in [Stoppers -> StopCalls]

FoundIsRun == \A c \in Stoppers : stopper[c].at = "set" => stopper[c].run \in AllRuns
OnlyOwnId == \A i \in Running!Ids : registry[i] # None => RunIds[registry[i]] = i
UpServes == \A r \in up : run[r] \in {"serving", "stopping"}
OnlyOwnLoops ==
    \A r \in AllRuns, e \in EventLoops : thread[<<r, e>>] # "none" => e \in LoopsOf[r] /\ run[r] # "new"
RunningHasThread ==
    \A e \in running : \E r \in AllRuns : thread[<<r, e>>] \in {"running", "ended"}
ThreadsHaveStarted ==
    \A r \in AllRuns : run[r] \notin {"new", "waiting", "raised"} =>
        \A e \in LoopsOf[r] : thread[<<r, e>>] \in {"running", "ended"}
LoopsAreStopped ==
    \A r \in AllRuns : run[r] \in {"joining", "returned"} => LoopsOf[r] \cap running = {}

RunsInvariant ==
    /\ RunsTyped /\ FoundIsRun /\ OnlyOwnId /\ UpServes /\ OnlyOwnLoops /\ RunningHasThread
    /\ ThreadsHaveStarted /\ LoopsAreStopped /\ Running!ServingIsRegistered

(* Each step of a run, of its loops and of a stop() keeps the invariant.   *)
LEMMA RunsNext ==
    ASSUME Running!RunsAssumption, Running!OwnIds, Running!OwnLoops, RunsInvariant, [Running!Next]_Running!vars PROVE RunsInvariant'
<1>a. RunsTyped /\ FoundIsRun /\ OnlyOwnId /\ UpServes /\ OnlyOwnLoops /\ RunningHasThread
        /\ ThreadsHaveStarted /\ LoopsAreStopped /\ Running!ServingIsRegistered
  BY DEF RunsInvariant
<1>1. ASSUME NEW r \in AllRuns, NEW e \in EventLoops, Running!LoopStarts(r, e) PROVE RunsInvariant'
  <2>1. RunsTyped'
    BY <1>a, <1>1 DEF RunsTyped, RunStages, ThreadStates, StopStages, StopCalls, Running!LoopStarts, Running!Goto, Running!Call, Running!serverVars
  <2>2. FoundIsRun'
    BY <1>a, <1>1 DEF RunsTyped, FoundIsRun, Running!LoopStarts, Running!Goto, Running!Call, Running!serverVars
  <2>3. OnlyOwnId'
    BY <1>a, <1>1 DEF RunsTyped, OnlyOwnId, Running!LoopStarts, Running!Goto, Running!Call, Running!serverVars
  <2>4. UpServes'
    BY <1>a, <1>1 DEF RunsTyped, UpServes, Running!LoopStarts, Running!Goto, Running!Call, Running!serverVars
  <2>5. OnlyOwnLoops'
    BY <1>a, <1>1 DEF RunsTyped, OnlyOwnLoops, Running!LoopStarts, Running!Goto, Running!Call, Running!serverVars
  <2>6. RunningHasThread'
    BY <1>a, <1>1 DEF RunsTyped, RunningHasThread, Running!LoopStarts, Running!Goto, Running!Call, Running!serverVars
  <2>7. ThreadsHaveStarted'
    BY <1>a, <1>1 DEF RunsTyped, ThreadsHaveStarted, Running!LoopStarts, Running!Goto, Running!Call, Running!serverVars
  <2>8. LoopsAreStopped'
    <3>1. ASSUME NEW q \in AllRuns, run[q] \in {"joining", "returned"} PROVE e \notin LoopsOf[q]
      <4>1. e \in LoopsOf[r] /\ thread[<<r, e>>] = "starting"
        BY <1>a, <1>1 DEF Running!LoopStarts, OnlyOwnLoops
      <4>2. run[r] \in {"new", "waiting", "raised"}
        BY <1>a, <4>1 DEF ThreadsHaveStarted
      <4> QED
        BY <3>1, <4>1, <4>2 DEF Running!OwnLoops
    <3> QED
      BY <1>a, <1>1, <3>1 DEF LoopsAreStopped, Running!LoopStarts
  <2>9. Running!ServingIsRegistered'
    BY <1>a, <1>1 DEF RunsTyped, Running!ServingIsRegistered, Running!LoopStarts, Running!Goto, Running!Call, Running!serverVars
  <2> QED
    BY <2>1, <2>2, <2>3, <2>4, <2>5, <2>6, <2>7, <2>8, <2>9 DEF RunsInvariant
<1>2. ASSUME NEW r \in AllRuns, NEW e \in EventLoops, Running!LoopEnds(r, e) PROVE RunsInvariant'
  <2>1. RunsTyped'
    BY <1>a, <1>2 DEF RunsTyped, RunStages, ThreadStates, StopStages, StopCalls, Running!LoopEnds, Running!Goto, Running!Call, Running!serverVars
  <2>2. FoundIsRun'
    BY <1>a, <1>2 DEF RunsTyped, FoundIsRun, Running!LoopEnds, Running!Goto, Running!Call, Running!serverVars
  <2>3. OnlyOwnId'
    BY <1>a, <1>2 DEF RunsTyped, OnlyOwnId, Running!LoopEnds, Running!Goto, Running!Call, Running!serverVars
  <2>4. UpServes'
    BY <1>a, <1>2 DEF RunsTyped, UpServes, Running!LoopEnds, Running!Goto, Running!Call, Running!serverVars
  <2>5. OnlyOwnLoops'
    BY <1>a, <1>2 DEF RunsTyped, OnlyOwnLoops, Running!LoopEnds, Running!Goto, Running!Call, Running!serverVars
  <2>6. RunningHasThread'
    BY <1>a, <1>2 DEF RunsTyped, RunningHasThread, Running!LoopEnds, Running!Goto, Running!Call, Running!serverVars
  <2>7. ThreadsHaveStarted'
    BY <1>a, <1>2 DEF RunsTyped, ThreadsHaveStarted, Running!LoopEnds, Running!Goto, Running!Call, Running!serverVars
  <2>8. LoopsAreStopped'
    BY <1>a, <1>2 DEF RunsTyped, LoopsAreStopped, Running!LoopEnds, Running!Goto, Running!Call, Running!serverVars
  <2>9. Running!ServingIsRegistered'
    BY <1>a, <1>2 DEF RunsTyped, Running!ServingIsRegistered, Running!LoopEnds, Running!Goto, Running!Call, Running!serverVars
  <2> QED
    BY <2>1, <2>2, <2>3, <2>4, <2>5, <2>6, <2>7, <2>8, <2>9 DEF RunsInvariant
<1>3. ASSUME NEW e \in EventLoops, Running!ThingExits(e) PROVE RunsInvariant'
  <2>1. RunsTyped'
    BY <1>a, <1>3 DEF RunsTyped, RunStages, ThreadStates, StopStages, StopCalls, Running!ThingExits, Running!Goto, Running!Call, Running!serverVars
  <2>2. FoundIsRun'
    BY <1>a, <1>3 DEF RunsTyped, FoundIsRun, Running!ThingExits, Running!Goto, Running!Call, Running!serverVars
  <2>3. OnlyOwnId'
    BY <1>a, <1>3 DEF RunsTyped, OnlyOwnId, Running!ThingExits, Running!Goto, Running!Call, Running!serverVars
  <2>4. UpServes'
    BY <1>a, <1>3 DEF RunsTyped, UpServes, Running!ThingExits, Running!Goto, Running!Call, Running!serverVars
  <2>5. OnlyOwnLoops'
    BY <1>a, <1>3 DEF RunsTyped, OnlyOwnLoops, Running!ThingExits, Running!Goto, Running!Call, Running!serverVars
  <2>6. RunningHasThread'
    BY <1>a, <1>3 DEF RunsTyped, RunningHasThread, Running!ThingExits, Running!Goto, Running!Call, Running!serverVars
  <2>7. ThreadsHaveStarted'
    BY <1>a, <1>3 DEF RunsTyped, ThreadsHaveStarted, Running!ThingExits, Running!Goto, Running!Call, Running!serverVars
  <2>8. LoopsAreStopped'
    BY <1>a, <1>3 DEF RunsTyped, LoopsAreStopped, Running!ThingExits, Running!Goto, Running!Call, Running!serverVars
  <2>9. Running!ServingIsRegistered'
    BY <1>a, <1>3 DEF RunsTyped, Running!ServingIsRegistered, Running!ThingExits, Running!Goto, Running!Call, Running!serverVars
  <2> QED
    BY <2>1, <2>2, <2>3, <2>4, <2>5, <2>6, <2>7, <2>8, <2>9 DEF RunsInvariant
<1>4. ASSUME NEW r \in AllRuns, Running!Begin(r) PROVE RunsInvariant'
  <2>0. /\ \A q \in AllRuns, e \in EventLoops :
             thread'[<<q, e>>] = IF q = r /\ e \in LoopsOf[r] THEN "starting" ELSE thread[<<q, e>>]
        /\ \A e \in EventLoops : thread[<<r, e>>] = "none"
    BY <1>a, <1>4 DEF RunsTyped, Running!Begin, OnlyOwnLoops
  <2>1. RunsTyped'
    BY <1>a, <1>4 DEF RunsTyped, RunStages, ThreadStates, StopStages, StopCalls, Running!Begin, Running!Goto, Running!Call, Running!serverVars
  <2>2. FoundIsRun'
    BY <1>a, <1>4 DEF RunsTyped, FoundIsRun, Running!Begin, Running!Goto, Running!Call, Running!serverVars
  <2>3. OnlyOwnId'
    BY <1>a, <1>4 DEF RunsTyped, OnlyOwnId, Running!Begin, Running!Goto, Running!Call, Running!serverVars
  <2>4. UpServes'
    BY <1>a, <1>4 DEF RunsTyped, UpServes, Running!Begin, Running!Goto, Running!Call, Running!serverVars
  <2>5. OnlyOwnLoops'
    BY <1>a, <1>4 DEF RunsTyped, OnlyOwnLoops, Running!Begin, Running!Goto, Running!Call, Running!serverVars
  <2>6. RunningHasThread'
    BY <1>a, <1>4, <2>0 DEF RunsTyped, RunningHasThread, Running!Begin
  <2>7. ThreadsHaveStarted'
    <3>1. ASSUME NEW q \in AllRuns, run'[q] \notin {"new", "waiting", "raised"}, NEW e \in LoopsOf[q]
          PROVE  thread'[<<q, e>>] \in {"running", "ended"}
      <4>1. q # r /\ run[q] = run'[q]
        BY <1>a, <1>4, <3>1 DEF RunsTyped, Running!Begin, Running!Goto
      <4>2. e \in EventLoops
        BY <3>1 DEF Running!RunsAssumption
      <4> QED
        BY <1>a, <2>0, <3>1, <4>1, <4>2 DEF ThreadsHaveStarted
    <3> QED
      BY <3>1 DEF ThreadsHaveStarted
  <2>8. LoopsAreStopped'
    BY <1>a, <1>4 DEF RunsTyped, LoopsAreStopped, Running!Begin, Running!Goto, Running!Call, Running!serverVars
  <2>9. Running!ServingIsRegistered'
    BY <1>a, <1>4 DEF RunsTyped, Running!ServingIsRegistered, Running!Begin, Running!Goto, Running!Call, Running!serverVars
  <2> QED
    BY <2>1, <2>2, <2>3, <2>4, <2>5, <2>6, <2>7, <2>8, <2>9 DEF RunsInvariant
<1>5. ASSUME NEW r \in AllRuns, Running!LoopsRun(r) PROVE RunsInvariant'
  <2>1. RunsTyped'
    BY <1>a, <1>5 DEF RunsTyped, RunStages, ThreadStates, StopStages, StopCalls, Running!LoopsRun, Running!Goto, Running!Call, Running!serverVars
  <2>2. FoundIsRun'
    BY <1>a, <1>5 DEF RunsTyped, FoundIsRun, Running!LoopsRun, Running!Goto, Running!Call, Running!serverVars
  <2>3. OnlyOwnId'
    BY <1>a, <1>5 DEF RunsTyped, OnlyOwnId, Running!LoopsRun, Running!Goto, Running!Call, Running!serverVars
  <2>4. UpServes'
    BY <1>a, <1>5 DEF RunsTyped, UpServes, Running!LoopsRun, Running!Goto, Running!Call, Running!serverVars
  <2>5. OnlyOwnLoops'
    BY <1>a, <1>5 DEF RunsTyped, OnlyOwnLoops, Running!LoopsRun, Running!Goto, Running!Call, Running!serverVars
  <2>6. RunningHasThread'
    BY <1>a, <1>5 DEF RunsTyped, RunningHasThread, Running!LoopsRun, Running!Goto, Running!Call, Running!serverVars
  <2>7. ThreadsHaveStarted'
    <3>1. ASSUME NEW e \in LoopsOf[r] PROVE thread[<<r, e>>] \in {"running", "ended"}
      <4>1. e \in running /\ e \in EventLoops
        BY <1>5, <3>1 DEF Running!LoopsRun, Running!RunsAssumption
      <4>2. PICK q \in AllRuns : thread[<<q, e>>] \in {"running", "ended"}
        BY <1>a, <4>1 DEF RunningHasThread
      <4>3. q = r
        BY <1>a, <4>1, <4>2 DEF OnlyOwnLoops, Running!OwnLoops
      <4> QED
        BY <4>2, <4>3
    <3> QED
      BY <1>a, <1>5, <3>1 DEF RunsTyped, ThreadsHaveStarted, Running!LoopsRun, Running!Goto
  <2>8. LoopsAreStopped'
    BY <1>a, <1>5 DEF RunsTyped, LoopsAreStopped, Running!LoopsRun, Running!Goto, Running!Call, Running!serverVars
  <2>9. Running!ServingIsRegistered'
    BY <1>a, <1>5 DEF RunsTyped, Running!ServingIsRegistered, Running!LoopsRun, Running!Goto, Running!Call, Running!serverVars
  <2> QED
    BY <2>1, <2>2, <2>3, <2>4, <2>5, <2>6, <2>7, <2>8, <2>9 DEF RunsInvariant
<1>6. ASSUME NEW r \in AllRuns, Running!LoopsTimeOut(r) PROVE RunsInvariant'
  <2>1. RunsTyped'
    BY <1>a, <1>6 DEF RunsTyped, RunStages, ThreadStates, StopStages, StopCalls, Running!LoopsTimeOut, Running!Goto, Running!Call, Running!serverVars
  <2>2. FoundIsRun'
    BY <1>a, <1>6 DEF RunsTyped, FoundIsRun, Running!LoopsTimeOut, Running!Goto, Running!Call, Running!serverVars
  <2>3. OnlyOwnId'
    BY <1>a, <1>6 DEF RunsTyped, OnlyOwnId, Running!LoopsTimeOut, Running!Goto, Running!Call, Running!serverVars
  <2>4. UpServes'
    BY <1>a, <1>6 DEF RunsTyped, UpServes, Running!LoopsTimeOut, Running!Goto, Running!Call, Running!serverVars
  <2>5. OnlyOwnLoops'
    BY <1>a, <1>6 DEF RunsTyped, OnlyOwnLoops, Running!LoopsTimeOut, Running!Goto, Running!Call, Running!serverVars
  <2>6. RunningHasThread'
    BY <1>a, <1>6 DEF RunsTyped, RunningHasThread, Running!LoopsTimeOut, Running!Goto, Running!Call, Running!serverVars
  <2>7. ThreadsHaveStarted'
    BY <1>a, <1>6 DEF RunsTyped, ThreadsHaveStarted, Running!LoopsTimeOut, Running!Goto, Running!Call, Running!serverVars
  <2>8. LoopsAreStopped'
    BY <1>a, <1>6 DEF RunsTyped, LoopsAreStopped, Running!LoopsTimeOut, Running!Goto, Running!Call, Running!serverVars
  <2>9. Running!ServingIsRegistered'
    BY <1>a, <1>6 DEF RunsTyped, Running!ServingIsRegistered, Running!LoopsTimeOut, Running!Goto, Running!Call, Running!serverVars
  <2> QED
    BY <2>1, <2>2, <2>3, <2>4, <2>5, <2>6, <2>7, <2>8, <2>9 DEF RunsInvariant
<1>7. ASSUME NEW r \in AllRuns, Running!Register(r) PROVE RunsInvariant'
  <2>1. RunsTyped'
    BY <1>a, <1>7 DEF RunsTyped, RunStages, ThreadStates, StopStages, StopCalls, Running!Register, Running!Goto, Running!Call, Running!serverVars
  <2>2. FoundIsRun'
    BY <1>a, <1>7 DEF RunsTyped, FoundIsRun, Running!Register, Running!Goto, Running!Call, Running!serverVars
  <2>3. OnlyOwnId'
    BY <1>a, <1>7 DEF RunsTyped, OnlyOwnId, Running!Register, Running!Goto, Running!Call, Running!serverVars
  <2>4. UpServes'
    BY <1>a, <1>7 DEF RunsTyped, UpServes, Running!Register, Running!Goto, Running!Call, Running!serverVars
  <2>5. OnlyOwnLoops'
    BY <1>a, <1>7 DEF RunsTyped, OnlyOwnLoops, Running!Register, Running!Goto, Running!Call, Running!serverVars
  <2>6. RunningHasThread'
    BY <1>a, <1>7 DEF RunsTyped, RunningHasThread, Running!Register, Running!Goto, Running!Call, Running!serverVars
  <2>7. ThreadsHaveStarted'
    BY <1>a, <1>7 DEF RunsTyped, ThreadsHaveStarted, Running!Register, Running!Goto, Running!Call, Running!serverVars
  <2>8. LoopsAreStopped'
    BY <1>a, <1>7 DEF RunsTyped, LoopsAreStopped, Running!Register, Running!Goto, Running!Call, Running!serverVars
  <2>9. Running!ServingIsRegistered'
    <3>1. ASSUME NEW q \in AllRuns, run'[q] = "serving", q \notin shutdown
          PROVE  registry'[RunIds[q]] = q \/ \E c \in Stoppers : stopper[c].at = "set" /\ stopper[c].run = q
      <4>1. CASE q = r
        BY <1>a, <1>7, <3>1, <4>1 DEF RunsTyped, Running!Register, Running!Goto, Running!Ids
      <4>2. CASE q # r
        <5>1. run[q] = "serving"
          BY <1>a, <1>7, <3>1, <4>2 DEF RunsTyped, Running!Register, Running!Goto
        <5>2. RunIds[q] # RunIds[r]
          BY <4>2 DEF Running!OwnIds
        <5>3. registry'[RunIds[q]] = registry[RunIds[q]]
          BY <1>a, <1>7, <5>2 DEF RunsTyped, Running!Register, Running!Ids
        <5> QED
          BY <1>a, <3>1, <5>1, <5>3 DEF Running!ServingIsRegistered
      <4> QED
        BY <4>1, <4>2
    <3> QED
      BY <1>7, <3>1 DEF Running!ServingIsRegistered, Running!Register
  <2> QED
    BY <2>1, <2>2, <2>3, <2>4, <2>5, <2>6, <2>7, <2>8, <2>9 DEF RunsInvariant
<1>8. ASSUME NEW r \in AllRuns, Running!StartServers(r) PROVE RunsInvariant'
  <2>1. RunsTyped'
    BY <1>a, <1>8 DEF RunsTyped, RunStages, ThreadStates, StopStages, StopCalls, Running!StartServers, Running!Goto, Running!Call, Running!serverVars
  <2>2. FoundIsRun'
    BY <1>a, <1>8 DEF RunsTyped, FoundIsRun, Running!StartServers, Running!Goto, Running!Call, Running!serverVars
  <2>3. OnlyOwnId'
    BY <1>a, <1>8 DEF RunsTyped, OnlyOwnId, Running!StartServers, Running!Goto, Running!Call, Running!serverVars
  <2>4. UpServes'
    BY <1>a, <1>8 DEF RunsTyped, UpServes, Running!StartServers, Running!Goto, Running!Call, Running!serverVars
  <2>5. OnlyOwnLoops'
    BY <1>a, <1>8 DEF RunsTyped, OnlyOwnLoops, Running!StartServers, Running!Goto, Running!Call, Running!serverVars
  <2>6. RunningHasThread'
    BY <1>a, <1>8 DEF RunsTyped, RunningHasThread, Running!StartServers, Running!Goto, Running!Call, Running!serverVars
  <2>7. ThreadsHaveStarted'
    BY <1>a, <1>8 DEF RunsTyped, ThreadsHaveStarted, Running!StartServers, Running!Goto, Running!Call, Running!serverVars
  <2>8. LoopsAreStopped'
    BY <1>a, <1>8 DEF RunsTyped, LoopsAreStopped, Running!StartServers, Running!Goto, Running!Call, Running!serverVars
  <2>9. Running!ServingIsRegistered'
    BY <1>a, <1>8 DEF RunsTyped, Running!ServingIsRegistered, Running!StartServers, Running!Goto, Running!Call, Running!serverVars
  <2> QED
    BY <2>1, <2>2, <2>3, <2>4, <2>5, <2>6, <2>7, <2>8, <2>9 DEF RunsInvariant
<1>9. ASSUME NEW r \in AllRuns, Running!Interrupt(r) PROVE RunsInvariant'
  <2>1. RunsTyped'
    BY <1>a, <1>9 DEF RunsTyped, RunStages, ThreadStates, StopStages, StopCalls, Running!Interrupt, Running!Goto, Running!Call, Running!serverVars
  <2>2. FoundIsRun'
    BY <1>a, <1>9 DEF RunsTyped, FoundIsRun, Running!Interrupt, Running!Goto, Running!Call, Running!serverVars
  <2>3. OnlyOwnId'
    BY <1>a, <1>9 DEF RunsTyped, OnlyOwnId, Running!Interrupt, Running!Goto, Running!Call, Running!serverVars
  <2>4. UpServes'
    BY <1>a, <1>9 DEF RunsTyped, UpServes, Running!Interrupt, Running!Goto, Running!Call, Running!serverVars
  <2>5. OnlyOwnLoops'
    BY <1>a, <1>9 DEF RunsTyped, OnlyOwnLoops, Running!Interrupt, Running!Goto, Running!Call, Running!serverVars
  <2>6. RunningHasThread'
    BY <1>a, <1>9 DEF RunsTyped, RunningHasThread, Running!Interrupt, Running!Goto, Running!Call, Running!serverVars
  <2>7. ThreadsHaveStarted'
    BY <1>a, <1>9 DEF RunsTyped, ThreadsHaveStarted, Running!Interrupt, Running!Goto, Running!Call, Running!serverVars
  <2>8. LoopsAreStopped'
    BY <1>a, <1>9 DEF RunsTyped, LoopsAreStopped, Running!Interrupt, Running!Goto, Running!Call, Running!serverVars
  <2>9. Running!ServingIsRegistered'
    BY <1>a, <1>9 DEF RunsTyped, Running!ServingIsRegistered, Running!Interrupt, Running!Goto, Running!Call, Running!serverVars
  <2> QED
    BY <2>1, <2>2, <2>3, <2>4, <2>5, <2>6, <2>7, <2>8, <2>9 DEF RunsInvariant
<1>10. ASSUME NEW r \in AllRuns, Running!Unregister(r) PROVE RunsInvariant'
  <2>1. RunsTyped'
    BY <1>a, <1>10 DEF RunsTyped, RunStages, ThreadStates, StopStages, StopCalls, Running!Unregister, Running!Goto, Running!Call, Running!serverVars
  <2>2. FoundIsRun'
    BY <1>a, <1>10 DEF RunsTyped, FoundIsRun, Running!Unregister, Running!Goto, Running!Call, Running!serverVars
  <2>3. OnlyOwnId'
    BY <1>a, <1>10 DEF RunsTyped, OnlyOwnId, Running!Unregister, Running!Goto, Running!Call, Running!serverVars
  <2>4. UpServes'
    BY <1>a, <1>10 DEF RunsTyped, UpServes, Running!Unregister, Running!Goto, Running!Call, Running!serverVars
  <2>5. OnlyOwnLoops'
    BY <1>a, <1>10 DEF RunsTyped, OnlyOwnLoops, Running!Unregister, Running!Goto, Running!Call, Running!serverVars
  <2>6. RunningHasThread'
    BY <1>a, <1>10 DEF RunsTyped, RunningHasThread, Running!Unregister, Running!Goto, Running!Call, Running!serverVars
  <2>7. ThreadsHaveStarted'
    BY <1>a, <1>10 DEF RunsTyped, ThreadsHaveStarted, Running!Unregister, Running!Goto, Running!Call, Running!serverVars
  <2>8. LoopsAreStopped'
    BY <1>a, <1>10 DEF RunsTyped, LoopsAreStopped, Running!Unregister, Running!Goto, Running!Call, Running!serverVars
  <2>9. Running!ServingIsRegistered'
    <3>1. ASSUME NEW q \in AllRuns, run'[q] = "serving", q \notin shutdown
          PROVE  registry'[RunIds[q]] = q \/ \E c \in Stoppers : stopper[c].at = "set" /\ stopper[c].run = q
      <4>1. q # r /\ run[q] = "serving"
        BY <1>a, <1>10, <3>1 DEF RunsTyped, Running!Unregister, Running!Goto
      <4>2. RunIds[q] # RunIds[r]
        BY <4>1 DEF Running!OwnIds
      <4>3. registry'[RunIds[q]] = registry[RunIds[q]]
        BY <1>a, <1>10, <4>2 DEF RunsTyped, Running!Unregister, Running!Ids
      <4> QED
        BY <1>a, <3>1, <4>1, <4>3 DEF Running!ServingIsRegistered
    <3> QED
      BY <1>10, <3>1 DEF Running!ServingIsRegistered, Running!Unregister
  <2> QED
    BY <2>1, <2>2, <2>3, <2>4, <2>5, <2>6, <2>7, <2>8, <2>9 DEF RunsInvariant
<1>11. ASSUME NEW r \in AllRuns, Running!StopServers(r) PROVE RunsInvariant'
  <2>1. RunsTyped'
    BY <1>a, <1>11 DEF RunsTyped, RunStages, ThreadStates, StopStages, StopCalls, Running!StopServers, Running!Goto, Running!Call, Running!serverVars
  <2>2. FoundIsRun'
    BY <1>a, <1>11 DEF RunsTyped, FoundIsRun, Running!StopServers, Running!Goto, Running!Call, Running!serverVars
  <2>3. OnlyOwnId'
    BY <1>a, <1>11 DEF RunsTyped, OnlyOwnId, Running!StopServers, Running!Goto, Running!Call, Running!serverVars
  <2>4. UpServes'
    BY <1>a, <1>11 DEF RunsTyped, UpServes, Running!StopServers, Running!Goto, Running!Call, Running!serverVars
  <2>5. OnlyOwnLoops'
    BY <1>a, <1>11 DEF RunsTyped, OnlyOwnLoops, Running!StopServers, Running!Goto, Running!Call, Running!serverVars
  <2>6. RunningHasThread'
    BY <1>a, <1>11 DEF RunsTyped, RunningHasThread, Running!StopServers, Running!Goto, Running!Call, Running!serverVars
  <2>7. ThreadsHaveStarted'
    BY <1>a, <1>11 DEF RunsTyped, ThreadsHaveStarted, Running!StopServers, Running!Goto, Running!Call, Running!serverVars
  <2>8. LoopsAreStopped'
    BY <1>a, <1>11 DEF RunsTyped, LoopsAreStopped, Running!StopServers, Running!Goto, Running!Call, Running!serverVars
  <2>9. Running!ServingIsRegistered'
    BY <1>a, <1>11 DEF RunsTyped, Running!ServingIsRegistered, Running!StopServers, Running!Goto, Running!Call, Running!serverVars
  <2> QED
    BY <2>1, <2>2, <2>3, <2>4, <2>5, <2>6, <2>7, <2>8, <2>9 DEF RunsInvariant
<1>12. ASSUME NEW r \in AllRuns, Running!StopLoops(r) PROVE RunsInvariant'
  <2>1. RunsTyped'
    BY <1>a, <1>12 DEF RunsTyped, RunStages, ThreadStates, StopStages, StopCalls, Running!StopLoops, Running!Goto, Running!Call, Running!serverVars
  <2>2. FoundIsRun'
    BY <1>a, <1>12 DEF RunsTyped, FoundIsRun, Running!StopLoops, Running!Goto, Running!Call, Running!serverVars
  <2>3. OnlyOwnId'
    BY <1>a, <1>12 DEF RunsTyped, OnlyOwnId, Running!StopLoops, Running!Goto, Running!Call, Running!serverVars
  <2>4. UpServes'
    BY <1>a, <1>12 DEF RunsTyped, UpServes, Running!StopLoops, Running!Goto, Running!Call, Running!serverVars
  <2>5. OnlyOwnLoops'
    BY <1>a, <1>12 DEF RunsTyped, OnlyOwnLoops, Running!StopLoops, Running!Goto, Running!Call, Running!serverVars
  <2>6. RunningHasThread'
    BY <1>a, <1>12 DEF RunsTyped, RunningHasThread, Running!StopLoops, Running!Goto, Running!Call, Running!serverVars
  <2>7. ThreadsHaveStarted'
    BY <1>a, <1>12 DEF RunsTyped, ThreadsHaveStarted, Running!StopLoops, Running!Goto, Running!Call, Running!serverVars
  <2>8. LoopsAreStopped'
    BY <1>a, <1>12 DEF RunsTyped, LoopsAreStopped, Running!StopLoops, Running!Goto, Running!Call, Running!serverVars
  <2>9. Running!ServingIsRegistered'
    BY <1>a, <1>12 DEF RunsTyped, Running!ServingIsRegistered, Running!StopLoops, Running!Goto, Running!Call, Running!serverVars
  <2> QED
    BY <2>1, <2>2, <2>3, <2>4, <2>5, <2>6, <2>7, <2>8, <2>9 DEF RunsInvariant
<1>13. ASSUME NEW r \in AllRuns, Running!Return(r) PROVE RunsInvariant'
  <2>1. RunsTyped'
    BY <1>a, <1>13 DEF RunsTyped, RunStages, ThreadStates, StopStages, StopCalls, Running!Return, Running!Goto, Running!Call, Running!serverVars
  <2>2. FoundIsRun'
    BY <1>a, <1>13 DEF RunsTyped, FoundIsRun, Running!Return, Running!Goto, Running!Call, Running!serverVars
  <2>3. OnlyOwnId'
    BY <1>a, <1>13 DEF RunsTyped, OnlyOwnId, Running!Return, Running!Goto, Running!Call, Running!serverVars
  <2>4. UpServes'
    BY <1>a, <1>13 DEF RunsTyped, UpServes, Running!Return, Running!Goto, Running!Call, Running!serverVars
  <2>5. OnlyOwnLoops'
    BY <1>a, <1>13 DEF RunsTyped, OnlyOwnLoops, Running!Return, Running!Goto, Running!Call, Running!serverVars
  <2>6. RunningHasThread'
    BY <1>a, <1>13 DEF RunsTyped, RunningHasThread, Running!Return, Running!Goto, Running!Call, Running!serverVars
  <2>7. ThreadsHaveStarted'
    BY <1>a, <1>13 DEF RunsTyped, ThreadsHaveStarted, Running!Return, Running!Goto, Running!Call, Running!serverVars
  <2>8. LoopsAreStopped'
    BY <1>a, <1>13 DEF RunsTyped, LoopsAreStopped, Running!Return, Running!Goto, Running!Call, Running!serverVars
  <2>9. Running!ServingIsRegistered'
    BY <1>a, <1>13 DEF RunsTyped, Running!ServingIsRegistered, Running!Return, Running!Goto, Running!Call, Running!serverVars
  <2> QED
    BY <2>1, <2>2, <2>3, <2>4, <2>5, <2>6, <2>7, <2>8, <2>9 DEF RunsInvariant
<1>14. ASSUME NEW c \in Stoppers, NEW id \in Running!Ids \cup {None}, NEW w \in BOOLEAN, Running!Stop(c, id, w) PROVE RunsInvariant'
  <2>0. stopper[c].at = "idle" /\ run' = run /\ shutdown' = shutdown
    BY <1>14 DEF Running!Stop
  <2>a. \/ stopper' = [stopper EXCEPT ![c].at = "warned", ![c].run = None] /\ registry' = registry
        \/ \E i \in Running!Ids : /\ registry[i] # None /\ registry' = [registry EXCEPT ![i] = None]
                         /\ stopper' = [stopper EXCEPT ![c] = [at |-> "set", run |-> registry[i], waits |-> w]]
    BY <1>14 DEF Running!Stop, Running!Call, Running!Registered
  <2>1. RunsTyped'
    <3>1. registry' \in [Running!Ids -> AllRuns \cup {None}]
      BY <1>a, <2>a DEF RunsTyped
    <3>2. stopper' \in [Stoppers -> StopCalls]
      BY <1>a, <2>a DEF RunsTyped, StopCalls, StopStages
    <3> QED
      BY <1>a, <1>14, <3>1, <3>2 DEF RunsTyped, Running!Stop, Running!serverVars
  <2>2. FoundIsRun'
    BY <1>a, <2>a DEF RunsTyped, FoundIsRun, StopCalls
  <2>3. OnlyOwnId'
    BY <1>a, <1>14 DEF RunsTyped, OnlyOwnId, Running!Stop, Running!Goto, Running!Call, Running!serverVars
  <2>4. UpServes'
    BY <1>a, <1>14 DEF RunsTyped, UpServes, Running!Stop, Running!Goto, Running!Call, Running!serverVars
  <2>5. OnlyOwnLoops'
    BY <1>a, <1>14 DEF RunsTyped, OnlyOwnLoops, Running!Stop, Running!Goto, Running!Call, Running!serverVars
  <2>6. RunningHasThread'
    BY <1>a, <1>14 DEF RunsTyped, RunningHasThread, Running!Stop, Running!Goto, Running!Call, Running!serverVars
  <2>7. ThreadsHaveStarted'
    BY <1>a, <1>14 DEF RunsTyped, ThreadsHaveStarted, Running!Stop, Running!Goto, Running!Call, Running!serverVars
  <2>8. LoopsAreStopped'
    BY <1>a, <1>14 DEF RunsTyped, LoopsAreStopped, Running!Stop, Running!Goto, Running!Call, Running!serverVars
  <2>9. Running!ServingIsRegistered'
    <3>1. ASSUME NEW q \in AllRuns, run[q] = "serving", q \notin shutdown
          PROVE  registry'[RunIds[q]] = q \/ \E d \in Stoppers : stopper'[d].at = "set" /\ stopper'[d].run = q
      <4>1. CASE registry[RunIds[q]] = q
        <5>1. CASE stopper' = [stopper EXCEPT ![c].at = "warned", ![c].run = None] /\ registry' = registry
          BY <4>1, <5>1
        <5>2. ASSUME NEW i \in Running!Ids, registry[i] # None, registry' = [registry EXCEPT ![i] = None],
                     stopper' = [stopper EXCEPT ![c] = [at |-> "set", run |-> registry[i], waits |-> w]]
              PROVE  registry'[RunIds[q]] = q
                       \/ \E d \in Stoppers : stopper'[d].at = "set" /\ stopper'[d].run = q
          <6>1. CASE i = RunIds[q]
            BY <1>a, <4>1, <5>2, <6>1 DEF RunsTyped
          <6>2. CASE i # RunIds[q]
            BY <1>a, <4>1, <5>2, <6>2 DEF RunsTyped, Running!Ids
          <6> QED
            BY <6>1, <6>2
        <5> QED
          BY <2>a, <5>1, <5>2
      <4>2. ASSUME NEW d \in Stoppers, stopper[d].at = "set" /\ stopper[d].run = q
            PROVE  stopper'[d].at = "set" /\ stopper'[d].run = q
        BY <1>a, <2>0, <2>a, <4>2 DEF RunsTyped, StopCalls
      <4> QED
        BY <1>a, <3>1, <4>1, <4>2 DEF Running!ServingIsRegistered
    <3> QED
      BY <2>0, <3>1 DEF Running!ServingIsRegistered
  <2> QED
    BY <2>1, <2>2, <2>3, <2>4, <2>5, <2>6, <2>7, <2>8, <2>9 DEF RunsInvariant
<1>15. ASSUME NEW c \in Stoppers, Running!SetShutdown(c) PROVE RunsInvariant'
  <2>1. RunsTyped'
    <3>1. stopper' \in [Stoppers -> StopCalls]
      <4>1. PICK at \in {"wait", "returned"} :
              stopper' = [stopper EXCEPT ![c].at = at, ![c].run = stopper[c].run]
        BY <1>15 DEF Running!SetShutdown, Running!Call
      <4>2. stopper[c] \in StopCalls /\ at \in StopStages
        BY <1>a DEF RunsTyped, StopStages
      <4>3. [stopper[c] EXCEPT !.at = at, !.run = stopper[c].run] \in StopCalls
        BY <4>2 DEF StopCalls
      <4> QED
        BY <1>a, <4>1, <4>3 DEF RunsTyped
    <3> QED
      BY <1>a, <1>15, <3>1 DEF RunsTyped, FoundIsRun, Running!SetShutdown, Running!serverVars
  <2>2. FoundIsRun'
    BY <1>a, <1>15 DEF RunsTyped, FoundIsRun, Running!SetShutdown, Running!Goto, Running!Call, Running!serverVars
  <2>3. OnlyOwnId'
    BY <1>a, <1>15 DEF RunsTyped, OnlyOwnId, Running!SetShutdown, Running!Goto, Running!Call, Running!serverVars
  <2>4. UpServes'
    BY <1>a, <1>15 DEF RunsTyped, UpServes, Running!SetShutdown, Running!Goto, Running!Call, Running!serverVars
  <2>5. OnlyOwnLoops'
    BY <1>a, <1>15 DEF RunsTyped, OnlyOwnLoops, Running!SetShutdown, Running!Goto, Running!Call, Running!serverVars
  <2>6. RunningHasThread'
    BY <1>a, <1>15 DEF RunsTyped, RunningHasThread, Running!SetShutdown, Running!Goto, Running!Call, Running!serverVars
  <2>7. ThreadsHaveStarted'
    BY <1>a, <1>15 DEF RunsTyped, ThreadsHaveStarted, Running!SetShutdown, Running!Goto, Running!Call, Running!serverVars
  <2>8. LoopsAreStopped'
    BY <1>a, <1>15 DEF RunsTyped, LoopsAreStopped, Running!SetShutdown, Running!Goto, Running!Call, Running!serverVars
  <2>9. Running!ServingIsRegistered'
    BY <1>a, <1>15 DEF RunsTyped, Running!ServingIsRegistered, Running!SetShutdown, Running!Goto, Running!Call, Running!serverVars
  <2> QED
    BY <2>1, <2>2, <2>3, <2>4, <2>5, <2>6, <2>7, <2>8, <2>9 DEF RunsInvariant
<1>16. ASSUME NEW c \in Stoppers, Running!WaitStopped(c) PROVE RunsInvariant'
  <2>1. RunsTyped'
    <3>1. stopper' \in [Stoppers -> StopCalls]
      <4>1. PICK at \in {"returned", "warned"} :
              stopper' = [stopper EXCEPT ![c].at = at, ![c].run = stopper[c].run]
        BY <1>16 DEF Running!WaitStopped, Running!Call
      <4>2. stopper[c] \in StopCalls /\ at \in StopStages
        BY <1>a DEF RunsTyped, StopStages
      <4>3. [stopper[c] EXCEPT !.at = at, !.run = stopper[c].run] \in StopCalls
        BY <4>2 DEF StopCalls
      <4> QED
        BY <1>a, <4>1, <4>3 DEF RunsTyped
    <3> QED
      BY <1>a, <1>16, <3>1 DEF RunsTyped, FoundIsRun, Running!WaitStopped, Running!serverVars
  <2>2. FoundIsRun'
    BY <1>a, <1>16 DEF RunsTyped, FoundIsRun, Running!WaitStopped, Running!Goto, Running!Call, Running!serverVars
  <2>3. OnlyOwnId'
    BY <1>a, <1>16 DEF RunsTyped, OnlyOwnId, Running!WaitStopped, Running!Goto, Running!Call, Running!serverVars
  <2>4. UpServes'
    BY <1>a, <1>16 DEF RunsTyped, UpServes, Running!WaitStopped, Running!Goto, Running!Call, Running!serverVars
  <2>5. OnlyOwnLoops'
    BY <1>a, <1>16 DEF RunsTyped, OnlyOwnLoops, Running!WaitStopped, Running!Goto, Running!Call, Running!serverVars
  <2>6. RunningHasThread'
    BY <1>a, <1>16 DEF RunsTyped, RunningHasThread, Running!WaitStopped, Running!Goto, Running!Call, Running!serverVars
  <2>7. ThreadsHaveStarted'
    BY <1>a, <1>16 DEF RunsTyped, ThreadsHaveStarted, Running!WaitStopped, Running!Goto, Running!Call, Running!serverVars
  <2>8. LoopsAreStopped'
    BY <1>a, <1>16 DEF RunsTyped, LoopsAreStopped, Running!WaitStopped, Running!Goto, Running!Call, Running!serverVars
  <2>9. Running!ServingIsRegistered'
    BY <1>a, <1>16 DEF RunsTyped, Running!ServingIsRegistered, Running!WaitStopped, Running!Goto, Running!Call, Running!serverVars
  <2> QED
    BY <2>1, <2>2, <2>3, <2>4, <2>5, <2>6, <2>7, <2>8, <2>9 DEF RunsInvariant
<1>17. ASSUME UNCHANGED Running!vars PROVE RunsInvariant'
  <2>1. RunsTyped'
    BY <1>a, <1>17 DEF RunsTyped, RunStages, ThreadStates, StopStages, StopCalls, Running!vars, Running!serverVars
  <2>2. FoundIsRun'
    BY <1>a, <1>17 DEF RunsTyped, FoundIsRun, Running!vars, Running!serverVars
  <2>3. OnlyOwnId'
    BY <1>a, <1>17 DEF RunsTyped, OnlyOwnId, Running!vars, Running!serverVars
  <2>4. UpServes'
    BY <1>a, <1>17 DEF RunsTyped, UpServes, Running!vars, Running!serverVars
  <2>5. OnlyOwnLoops'
    BY <1>a, <1>17 DEF RunsTyped, OnlyOwnLoops, Running!vars, Running!serverVars
  <2>6. RunningHasThread'
    BY <1>a, <1>17 DEF RunsTyped, RunningHasThread, Running!vars, Running!serverVars
  <2>7. ThreadsHaveStarted'
    BY <1>a, <1>17 DEF RunsTyped, ThreadsHaveStarted, Running!vars, Running!serverVars
  <2>8. LoopsAreStopped'
    BY <1>a, <1>17 DEF RunsTyped, LoopsAreStopped, Running!vars, Running!serverVars
  <2>9. Running!ServingIsRegistered'
    BY <1>a, <1>17 DEF RunsTyped, Running!ServingIsRegistered, Running!vars, Running!serverVars
  <2> QED
    BY <2>1, <2>2, <2>3, <2>4, <2>5, <2>6, <2>7, <2>8, <2>9 DEF RunsInvariant
<1> QED
  BY <1>1, <1>2, <1>3, <1>4, <1>5, <1>6, <1>7, <1>8, <1>9, <1>10, <1>11, <1>12, <1>13, <1>14, <1>15, <1>16, <1>17 DEF Running!Next, Running!Runner

(* Before the first call of run() nothing is registered or runs.           *)
LEMMA RunsInit == ASSUME Running!RunsAssumption, Running!Init PROVE RunsInvariant
<1>1. RunsTyped
  BY DEF Running!Init, RunsTyped, RunStages, ThreadStates, StopCalls, StopStages
<1>2. FoundIsRun /\ OnlyOwnId /\ UpServes
  BY DEF Running!Init, FoundIsRun, OnlyOwnId, UpServes
<1>3. OnlyOwnLoops /\ RunningHasThread /\ ThreadsHaveStarted /\ LoopsAreStopped /\ Running!ServingIsRegistered
  BY DEF Running!Init, OnlyOwnLoops, RunningHasThread, ThreadsHaveStarted, LoopsAreStopped, Running!ServingIsRegistered
<1> QED
  BY <1>1, <1>2, <1>3 DEF RunsInvariant

(* What the invariant says of the properties of ServerRuns.                *)
LEMMA RunsHold == RunsInvariant => Running!TypeOK /\ Running!ServingIsRegistered /\ Running!ReturnedServesNothing
<1> SUFFICES ASSUME RunsInvariant PROVE Running!TypeOK /\ Running!ReturnedServesNothing
  BY DEF RunsInvariant
<1>1. RunsTyped /\ UpServes /\ LoopsAreStopped
  BY DEF RunsInvariant
<1>2. Running!TypeOK
  BY <1>1 DEF RunsTyped, Running!TypeOK, RunStages, ThreadStates, StopCalls, StopStages
<1>3. Running!ReturnedServesNothing
  BY <1>1 DEF RunsTyped, UpServes, LoopsAreStopped, Running!ReturnedServesNothing
<1> QED
  BY <1>2, <1>3

(***************************************************************************)
(* Publishers of the MQTT server: MQTTPublishing.                          *)
(***************************************************************************)
ThingsPublished == Publishing!ToSet(PublishedThings)
TaskStages == {"none", "created", "receiving", "publishing", "ended"}
PendingStarts == ThingsPublished \X (1..MaxStarts)
DictKeys == Publishing!Publishers \cup {Publishing!Description(t) : t \in ThingsPublished}

PublishersTyped ==
    /\ starts \in 0..MaxStarts /\ told \subseteq Publishing!Publishers /\ subscribed \subseteq Publishing!Publishers
    /\ task \in [Publishing!Publishers -> TaskStages]
    /\ waiting \in [Publishing!Publishers -> 0..MaxEvents] /\ taken \in [Publishing!Publishers -> 0..MaxEvents]
DictTyped == registered \in Seq(DictKeys)
StartingTyped == starting \in Seq(PendingStarts)
EventsFit == \A p \in Publishing!Publishers : waiting[p] + taken[p] <= MaxEvents
PendingAreNew ==
    /\ \A i \in 1..Len(starting) :
         /\ starting[i][2] <= starts
         /\ \A p \in Publishing!Publishers : p[1] \in Publishing!ToSet(TopicsOf[starting[i][1]]) /\ p[2] = starting[i][2]
                                    => task[p] = "none"
    /\ \A p \in Publishing!Publishers : p[2] > starts => task[p] = "none"
PendingDiffer == \A i, j \in 1..Len(starting) : starting[i] = starting[j] => i = j
KeysDiffer ==
    \A i, j \in 1..Len(registered) : registered[i][1] = registered[j][1] =>
        i = j \/ (registered[i][1] = "description" /\ registered[i] # registered[j])
KeysTogether ==
    \A t \in ThingsPublished : Publishing!Description(t) \notin Publishing!ToSet(registered) =>
        \A i \in 1..Len(registered) : registered[i][1] \notin Publishing!ToSet(TopicsOf[t])

PublishingInvariant ==
    /\ PublishersTyped /\ DictTyped /\ StartingTyped /\ EventsFit /\ PendingAreNew /\ PendingDiffer
    /\ KeysDiffer /\ KeysTogether /\ Publishing!SubscribedWhileRunning

(* Topics of a Thing are its own.                                          *)
LEMMA TopicFacts ==
    ASSUME Publishing!PublishingAssumption, NEW t \in ThingsPublished
    PROVE  /\ TopicsOf[t] \in Seq(Publishing!Topics) /\ "description" \notin Publishing!ToSet(TopicsOf[t])
           /\ \A i \in 1..Len(TopicsOf[t]) : TopicsOf[t][i] \in Publishing!Topics /\ TopicsOf[t][i] \in Publishing!ToSet(TopicsOf[t])
           /\ \A i, j \in 1..Len(TopicsOf[t]) : TopicsOf[t][i] = TopicsOf[t][j] => i = j
           /\ \A u \in ThingsPublished, x \in Publishing!ToSet(TopicsOf[t]) : x \in Publishing!ToSet(TopicsOf[u]) => u = t
<1>1. TopicsOf[t] \in Seq(Publishing!Topics) /\ Publishing!IsInjective(TopicsOf[t]) /\ "description" \notin Publishing!Topics
  BY DEF Publishing!PublishingAssumption, ThingsPublished
<1>2. Publishing!ToSet(TopicsOf[t]) \subseteq Publishing!Topics
  BY DEF Publishing!Topics, ThingsPublished
<1>3. \A i \in 1..Len(TopicsOf[t]) : TopicsOf[t][i] \in Publishing!Topics /\ TopicsOf[t][i] \in Publishing!ToSet(TopicsOf[t])
  BY <1>1 DEF Publishing!ToSet
<1>4. \A i, j \in 1..Len(TopicsOf[t]) : TopicsOf[t][i] = TopicsOf[t][j] => i = j
  BY <1>1 DEF Publishing!IsInjective
<1>5. \A u \in ThingsPublished, x \in Publishing!ToSet(TopicsOf[t]) : x \in Publishing!ToSet(TopicsOf[u]) => u = t
  BY DEF Publishing!PublishingAssumption, ThingsPublished
<1> QED
  BY <1>1, <1>2, <1>3, <1>4, <1>5

(* The dictionary after the publishers of a Thing were made.               *)
LEMMA Putting ==
    ASSUME Publishing!PublishingAssumption, DictTyped, KeysDiffer, KeysTogether, NEW t \in ThingsPublished,
           NEW n \in 1..MaxStarts, registered' = Publishing!Put(registered, t, n)
    PROVE  DictTyped' /\ KeysDiffer' /\ KeysTogether'
<1> DEFINE T == TopicsOf[t]
           new == [i \in DOMAIN T |-> <<T[i], n>>]
<1>a. /\ T \in Seq(Publishing!Topics) /\ Len(T) \in Nat /\ DOMAIN T = 1..Len(T) /\ "description" \notin Publishing!ToSet(T)
      /\ \A i \in 1..Len(T) : T[i] \in Publishing!Topics /\ T[i] \in Publishing!ToSet(T)
      /\ \A i, j \in 1..Len(T) : T[i] = T[j] => i = j
      /\ \A u \in ThingsPublished, x \in Publishing!ToSet(T) : x \in Publishing!ToSet(TopicsOf[u]) => u = t
  <2>1. T \in Seq(Publishing!Topics) /\ "description" \notin Publishing!ToSet(T)
    BY TopicFacts
  <2>2. \A i \in 1..Len(T) : T[i] \in Publishing!Topics /\ T[i] \in Publishing!ToSet(T)
    BY TopicFacts
  <2>3. \A i, j \in 1..Len(T) : T[i] = T[j] => i = j
    BY TopicFacts
  <2>4. \A u \in ThingsPublished, x \in Publishing!ToSet(T) : x \in Publishing!ToSet(TopicsOf[u]) => u = t
    BY TopicFacts
  <2>5. Len(T) \in Nat /\ DOMAIN T = 1..Len(T)
    BY <2>1
  <2> QED
    BY <2>1, <2>2, <2>3, <2>4, <2>5
<1>r. registered \in Seq(DictKeys) /\ Len(registered) \in Nat /\ DOMAIN registered = 1..Len(registered)
  BY DEF DictTyped
<1>k. \A i \in 1..Len(registered) :
        registered[i] \in Publishing!Publishers \/ \E u \in ThingsPublished : registered[i] = Publishing!Description(u)
  BY <1>r DEF DictKeys
<1>d. Publishing!Description(t) \in DictKeys /\ Publishing!Description(t)[1] = "description"
  BY DEF DictKeys, Publishing!Description
<1>p. \A x \in Publishing!Topics : <<x, n>> \in Publishing!Publishers /\ <<x, n>> \in DictKeys /\ <<x, n>>[1] = x
  BY DEF Publishing!Publishers, DictKeys
<1>s. Publishing!ToSet(registered) = {registered[i] : i \in 1..Len(registered)}
  BY <1>r DEF Publishing!ToSet
<1>1. CASE Publishing!Description(t) \notin Publishing!ToSet(registered)
  <2>1. \A i \in 1..Len(registered) : registered[i][1] \notin Publishing!ToSet(T) /\ registered[i] # Publishing!Description(t)
    BY <1>1, <1>s DEF KeysTogether
  <2>2. new \in Seq(DictKeys) /\ Len(new) = Len(T) /\ \A i \in 1..Len(T) : new[i] = <<T[i], n>> /\ new[i][1] = T[i]
    <3>1. new \in [1..Len(T) -> DictKeys]
      BY <1>a, <1>p
    <3>2. new \in Seq(DictKeys) /\ Len(new) = Len(T)
      BY <1>a, <3>1
    <3> QED
      BY <1>a, <1>p, <3>2
  <2> HIDE DEF new, T
  <2>3. registered' = Append(registered \o new, Publishing!Description(t))
    BY <1>1 DEF Publishing!Put, new, T
  <2>4. /\ registered \o new \in Seq(DictKeys) /\ Len(registered \o new) = Len(registered) + Len(T)
        /\ \A i \in 1..Len(registered) : (registered \o new)[i] = registered[i]
        /\ \A i \in 1..Len(T) : (registered \o new)[i + Len(registered)] = new[i]
    <3>0. new \in Seq(DictKeys) /\ Len(new) = Len(T)
      BY <2>2
    <3>1. registered \o new \in Seq(DictKeys) /\ Len(registered \o new) = Len(registered) + Len(T)
      BY <1>r, <3>0
    <3>2. \A i \in 1..Len(registered) + Len(T) :
            (registered \o new)[i] = IF i <= Len(registered) THEN registered[i] ELSE new[i - Len(registered)]
      BY <1>r, <3>0, <3>1
    <3>3. \A i \in 1..Len(registered) : (registered \o new)[i] = registered[i]
      BY <1>r, <1>a, <3>2
    <3>4. ASSUME NEW i \in 1..Len(T) PROVE (registered \o new)[i + Len(registered)] = new[i]
      <4>1. i + Len(registered) \in 1..Len(registered) + Len(T) /\ ~(i + Len(registered) <= Len(registered))
              /\ (i + Len(registered)) - Len(registered) = i
        BY <1>r, <1>a
      <4> QED
        BY <3>2, <4>1
    <3> QED
      BY <3>1, <3>3, <3>4
  <2>5. registered' \in Seq(DictKeys) /\ Len(registered') = Len(registered) + Len(T) + 1
    BY <1>a, <1>d, <1>r, <2>3, <2>4
  <2>6. \A i \in 1..Len(registered') :
          registered'[i] = IF i <= Len(registered) THEN registered[i]
                           ELSE IF i <= Len(registered) + Len(T) THEN new[i - Len(registered)]
                           ELSE Publishing!Description(t)
    <3> SUFFICES ASSUME NEW i \in 1..Len(registered')
                 PROVE  registered'[i] = IF i <= Len(registered) THEN registered[i]
                           ELSE IF i <= Len(registered) + Len(T) THEN new[i - Len(registered)]
                           ELSE Publishing!Description(t)
      OBVIOUS
    <3>1. CASE i <= Len(registered) + Len(T)
      <4>1. registered'[i] = (registered \o new)[i]
        BY <1>a, <1>r, <2>3, <2>4, <2>5, <3>1
      <4>2. CASE i <= Len(registered)
        BY <1>r, <2>4, <2>5, <4>1, <4>2, <3>1
      <4>3. CASE i > Len(registered)
        <5>1. i - Len(registered) \in 1..Len(T) /\ (i - Len(registered)) + Len(registered) = i
          BY <1>a, <1>r, <2>5, <3>1, <4>3
        <5> QED
          BY <1>r, <2>4, <3>1, <4>1, <4>3, <5>1
      <4> QED
        BY <1>r, <2>5, <4>2, <4>3
    <3>2. CASE i = Len(registered) + Len(T) + 1
      BY <1>a, <1>r, <2>3, <2>4, <3>2
    <3> QED
      BY <1>a, <1>r, <2>5, <3>1, <3>2
  <2>7. \A i \in 1..Len(registered') :
          \/ i \in 1..Len(registered) /\ registered'[i] = registered[i]
          \/ /\ i > Len(registered) /\ i - Len(registered) \in 1..Len(T)
             /\ registered'[i][1] = T[i - Len(registered)]
          \/ i = Len(registered) + Len(T) + 1 /\ registered'[i] = Publishing!Description(t)
    BY <1>a, <1>r, <2>2, <2>5, <2>6
  <2>8. KeysDiffer'
    <3> SUFFICES ASSUME NEW i \in 1..Len(registered'), NEW j \in 1..Len(registered'), i # j,
                        registered'[i][1] = registered'[j][1]
                 PROVE  registered'[i][1] = "description" /\ registered'[i] # registered'[j]
      BY DEF KeysDiffer
    <3>1. CASE i \in 1..Len(registered) /\ registered'[i] = registered[i]
      BY <1>a, <1>d, <1>r, <2>1, <2>7, <3>1 DEF KeysDiffer
    <3>2. CASE i > Len(registered) /\ i - Len(registered) \in 1..Len(T) /\ registered'[i][1] = T[i - Len(registered)]
      <4>1. CASE j \in 1..Len(registered) /\ registered'[j] = registered[j]
        BY <1>a, <2>1, <3>2, <4>1
      <4>2. CASE j > Len(registered) /\ j - Len(registered) \in 1..Len(T) /\ registered'[j][1] = T[j - Len(registered)]
        <5>1. i - Len(registered) = j - Len(registered)
          BY <1>a, <3>2, <4>2
        <5> QED
          BY <1>r, <2>5, <5>1
      <4>3. CASE registered'[j] = Publishing!Description(t)
        <5>1. registered'[j][1] = "description"
          BY <1>d, <4>3
        <5>2. registered'[i][1] \in Publishing!ToSet(T)
          BY <1>a, <3>2
        <5>3. "description" \notin Publishing!ToSet(T)
          BY <1>a
        <5> QED
          BY <5>1, <5>2, <5>3
      <4> QED
        BY <2>7, <4>1, <4>2, <4>3
    <3>3. CASE i = Len(registered) + Len(T) + 1 /\ registered'[i] = Publishing!Description(t)
      <4>1. CASE j \in 1..Len(registered) /\ registered'[j] = registered[j]
        BY <1>d, <2>1, <3>3, <4>1
      <4>2. CASE j > Len(registered) /\ j - Len(registered) \in 1..Len(T) /\ registered'[j][1] = T[j - Len(registered)]
        <5>1. registered'[i][1] = "description"
          BY <1>d, <3>3
        <5>2. registered'[j][1] \in Publishing!ToSet(T)
          BY <1>a, <4>2
        <5>3. "description" \notin Publishing!ToSet(T)
          BY <1>a
        <5> QED
          BY <5>1, <5>2, <5>3
      <4>3. CASE j = Len(registered) + Len(T) + 1
        BY <3>3, <4>3
      <4> QED
        BY <2>7, <4>1, <4>2, <4>3
    <3> QED
      BY <2>7, <3>1, <3>2, <3>3
  <2>9. KeysTogether'
    <3> SUFFICES ASSUME NEW u \in ThingsPublished, Publishing!Description(u) \notin Publishing!ToSet(registered'),
                        NEW i \in 1..Len(registered')
                 PROVE  registered'[i][1] \notin Publishing!ToSet(TopicsOf[u])
      BY DEF KeysTogether
    <3>1. Publishing!ToSet(registered') = {registered'[j] : j \in 1..Len(registered')}
      BY <2>5 DEF Publishing!ToSet
    <3>2. Len(registered) + Len(T) + 1 \in 1..Len(registered')
            /\ registered'[Len(registered) + Len(T) + 1] = Publishing!Description(t)
      BY <1>a, <1>r, <2>5, <2>6
    <3>3. u # t
      BY <3>1, <3>2
    <3>4. Publishing!Description(u) \notin Publishing!ToSet(registered)
      <4>1. \A j \in 1..Len(registered) : j \in 1..Len(registered') /\ registered'[j] = registered[j]
        BY <1>a, <1>r, <2>5, <2>6
      <4> QED
        BY <1>s, <3>1, <4>1
    <3>5. "description" \notin Publishing!ToSet(TopicsOf[u])
      BY TopicFacts
    <3> QED
      BY <1>a, <1>d, <2>7, <3>3, <3>4, <3>5 DEF KeysTogether
  <2> QED
    BY <2>5, <2>8, <2>9 DEF DictTyped
<1>2. CASE Publishing!Description(t) \in Publishing!ToSet(registered)
  <2>1. registered' = [i \in 1..Len(registered) |->
                         IF registered[i][1] \in Publishing!ToSet(T) THEN <<registered[i][1], n>> ELSE registered[i]]
    BY <1>2, <1>r DEF Publishing!Put
  <2>2. \A i \in 1..Len(registered) :
          /\ registered'[i] = IF registered[i][1] \in Publishing!ToSet(T) THEN <<registered[i][1], n>> ELSE registered[i]
          /\ registered'[i][1] = registered[i][1]
    BY <2>1
  <2>3. Publishing!ToSet(T) \subseteq Publishing!Topics
    BY DEF Publishing!Topics, ThingsPublished
  <2>4. registered' \in Seq(DictKeys) /\ Len(registered') = Len(registered)
    <3>1. registered' \in [1..Len(registered) -> DictKeys]
      <4>1. \A i \in 1..Len(registered) : registered'[i] \in DictKeys
        <5> SUFFICES ASSUME NEW i \in 1..Len(registered) PROVE registered'[i] \in DictKeys
          OBVIOUS
        <5>1. registered[i] \in DictKeys
          BY <1>r
        <5>2. registered[i][1] \in Publishing!ToSet(T) => <<registered[i][1], n>> \in DictKeys
          BY <1>p, <2>3
        <5> QED
          BY <2>2, <5>1, <5>2
      <4> QED
        BY <2>1, <4>1
    <3> QED
      BY <1>r, <3>1
  <2>5. \A i \in 1..Len(registered) : registered[i][1] = "description" => registered'[i] = registered[i]
    BY <1>a, <2>2
  <2>6. KeysDiffer'
    <3> SUFFICES ASSUME NEW i \in 1..Len(registered'), NEW j \in 1..Len(registered'), i # j,
                        registered'[i][1] = registered'[j][1]
                 PROVE  registered'[i][1] = "description" /\ registered'[i] # registered'[j]
      BY DEF KeysDiffer
    <3>1. i \in 1..Len(registered) /\ j \in 1..Len(registered) /\ registered[i][1] = registered[j][1]
            /\ registered'[i][1] = registered[i][1]
      BY <2>2, <2>4
    <3>2. registered[i][1] = "description" /\ registered[i] # registered[j]
      BY <3>1 DEF KeysDiffer
    <3> QED
      BY <2>5, <3>1, <3>2
  <2>7. KeysTogether'
    <3> SUFFICES ASSUME NEW u \in ThingsPublished, Publishing!Description(u) \notin Publishing!ToSet(registered')
                 PROVE  Publishing!Description(u) \notin Publishing!ToSet(registered)
      BY <2>2, <2>4 DEF KeysTogether
    <3>1. Publishing!ToSet(registered') = {registered'[j] : j \in 1..Len(registered)}
      BY <2>4 DEF Publishing!ToSet
    <3>2. Publishing!Description(u)[1] = "description"
      BY DEF Publishing!Description
    <3> QED
      BY <1>s, <2>5, <3>1, <3>2
  <2> QED
    BY <2>4, <2>6, <2>7 DEF DictTyped
<1> QED
  BY <1>1, <1>2


(* start() makes a task for each Thing.                                    *)
LEMMA StartingAgain ==
    ASSUME Publishing!PublishingAssumption, PublishingInvariant, Publishing!Start PROVE PublishingInvariant'
<1>a. PublishersTyped /\ DictTyped /\ StartingTyped /\ EventsFit /\ PendingAreNew /\ PendingDiffer
        /\ KeysDiffer /\ KeysTogether /\ Publishing!SubscribedWhileRunning
  BY DEF PublishingInvariant
<1> DEFINE N == Len(PublishedThings)
           added == [i \in DOMAIN PublishedThings |-> <<PublishedThings[i], starts + 1>>]
<1>m. MaxStarts \in Nat /\ starts \in 0..MaxStarts /\ starts + 1 \in 1..MaxStarts
  BY <1>a DEF Publishing!Start, Publishing!PublishingAssumption, PublishersTyped
<1>b. /\ starts' = starts + 1 /\ starting' = starting \o added /\ registered' = registered /\ told' = told
      /\ task' = task /\ subscribed' = subscribed /\ waiting' = waiting /\ taken' = taken
  BY DEF Publishing!Start, Publishing!publishing
<1>c. /\ PublishedThings \in Seq(ThingsPublished) /\ N \in Nat /\ DOMAIN PublishedThings = 1..N
      /\ \A i \in 1..N : PublishedThings[i] \in ThingsPublished
      /\ \A i, j \in 1..N : PublishedThings[i] = PublishedThings[j] => i = j
  BY DEF Publishing!PublishingAssumption, ThingsPublished, Publishing!IsInjective
<1>d. added \in Seq(PendingStarts) /\ Len(added) = N /\ \A i \in 1..N : added[i] = <<PublishedThings[i], starts + 1>>
  <2>1. added \in [1..N -> PendingStarts]
    BY <1>c, <1>m DEF PendingStarts
  <2>2. added \in Seq(PendingStarts) /\ Len(added) = N
    BY <1>c, <2>1
  <2> QED
    BY <1>c, <2>2
<1> HIDE DEF added, N
<1>e. starting \in Seq(PendingStarts) /\ Len(starting) \in Nat
  BY <1>a DEF StartingTyped
<1>f. starting' \in Seq(PendingStarts) /\ Len(starting') = Len(starting) + N
  <2>1. added \in Seq(PendingStarts) /\ Len(added) = N
    BY <1>d
  <2> QED
    <3>1. starting \o added \in Seq(PendingStarts) /\ Len(starting \o added) = Len(starting) + Len(added)
      BY <1>e, <2>1
    <3> QED
      BY <1>b, <2>1, <3>1
<1>g. \A i \in 1..Len(starting') :
        \/ i \in 1..Len(starting) /\ starting'[i] = starting[i]
        \/ /\ i > Len(starting) /\ i - Len(starting) \in 1..N
           /\ starting'[i] = <<PublishedThings[i - Len(starting)], starts + 1>>
  <2>1. added \in Seq(PendingStarts) /\ Len(added) = N
    BY <1>d
  <2>2. \A i \in 1..Len(starting) + N :
          (starting \o added)[i] = IF i <= Len(starting) THEN starting[i] ELSE added[i - Len(starting)]
    BY <1>e, <2>1
  <2>3. ASSUME NEW i \in 1..Len(starting')
        PROVE  \/ i \in 1..Len(starting) /\ starting'[i] = starting[i]
               \/ /\ i > Len(starting) /\ i - Len(starting) \in 1..N
                  /\ starting'[i] = <<PublishedThings[i - Len(starting)], starts + 1>>
    <3>1. i \in 1..Len(starting) + N
      BY <1>f
    <3>2. CASE i <= Len(starting)
      BY <1>b, <1>c, <1>e, <2>2, <3>1, <3>2
    <3>3. CASE i > Len(starting)
      <4>1. i - Len(starting) \in 1..N
        BY <1>c, <1>e, <3>1, <3>3
      <4>2. starting'[i] = added[i - Len(starting)]
        BY <1>b, <1>c, <1>e, <2>2, <3>1, <3>3
      <4> QED
        BY <1>d, <3>3, <4>1, <4>2
    <3> QED
      BY <1>c, <1>e, <3>1, <3>2, <3>3
  <2> QED
    BY <2>3
<1>1. PublishersTyped' /\ DictTyped' /\ StartingTyped' /\ EventsFit' /\ KeysDiffer' /\ KeysTogether'
        /\ Publishing!SubscribedWhileRunning'
  BY <1>a, <1>b, <1>f, <1>m DEF PublishersTyped, DictTyped, StartingTyped, EventsFit, KeysDiffer,
     KeysTogether, Publishing!SubscribedWhileRunning
<1>2. PendingAreNew'
  <2>1. \A p \in Publishing!Publishers : p[2] \in 1..MaxStarts /\ (p[2] > starts => task[p] = "none")
    BY <1>a DEF PendingAreNew, Publishing!Publishers
  <2>2. ASSUME NEW i \in 1..Len(starting')
        PROVE  /\ starting'[i][2] <= starts'
               /\ \A p \in Publishing!Publishers : p[1] \in Publishing!ToSet(TopicsOf[starting'[i][1]]) /\ p[2] = starting'[i][2]
                                          => task'[p] = "none"
    <3>1. CASE i \in 1..Len(starting) /\ starting'[i] = starting[i]
      <4>1. starting[i][2] \in 1..MaxStarts
        BY <1>e, <3>1 DEF PendingStarts
      <4> QED
        BY <1>a, <1>b, <1>m, <3>1, <4>1 DEF PendingAreNew
    <3>2. CASE starting'[i][2] = starts + 1
      BY <1>b, <1>m, <2>1, <3>2
    <3> QED
      BY <1>g, <3>1, <3>2
  <2>3. \A p \in Publishing!Publishers : p[2] > starts' => task'[p] = "none"
    BY <1>b, <1>m, <2>1
  <2> QED
    BY <2>2, <2>3 DEF PendingAreNew
<1>3. PendingDiffer'
  <2> SUFFICES ASSUME NEW i \in 1..Len(starting'), NEW j \in 1..Len(starting'), starting'[i] = starting'[j]
               PROVE  i = j
    BY DEF PendingDiffer
  <2>1. \A k \in 1..Len(starting) : starting[k][2] # starts + 1
    <3>1. \A k \in 1..Len(starting) : starting[k][2] \in 1..MaxStarts /\ starting[k][2] <= starts
      BY <1>a, <1>e DEF PendingAreNew, PendingStarts
    <3> QED
      BY <1>m, <3>1
  <2>2. CASE i \in 1..Len(starting) /\ starting'[i] = starting[i]
    <3>1. j \in 1..Len(starting) /\ starting'[j] = starting[j]
      <4>1. starting'[j][2] # starts + 1
        BY <2>1, <2>2
      <4>2. \A k \in 1..N : <<PublishedThings[k], starts + 1>>[2] = starts + 1
        OBVIOUS
      <4> QED
        BY <1>g, <4>1, <4>2
    <3> QED
      BY <1>a, <2>2, <3>1 DEF PendingDiffer
  <2>3. CASE i > Len(starting) /\ i - Len(starting) \in 1..N
               /\ starting'[i] = <<PublishedThings[i - Len(starting)], starts + 1>>
    <3>1. j > Len(starting) /\ j - Len(starting) \in 1..N
               /\ starting'[j] = <<PublishedThings[j - Len(starting)], starts + 1>>
      <4>1. starting'[j][2] = starts + 1
        BY <2>3
      <4> QED
        BY <1>g, <2>1, <4>1
    <3>2. i - Len(starting) = j - Len(starting)
      <4>1. PublishedThings[i - Len(starting)] = PublishedThings[j - Len(starting)]
        <5>1. starting'[i][1] = PublishedThings[i - Len(starting)]
          BY <2>3
        <5>2. starting'[j][1] = PublishedThings[j - Len(starting)]
          BY <3>1
        <5> QED
          BY <5>1, <5>2
      <4> QED
        BY <1>c, <2>3, <3>1, <4>1
    <3> QED
      BY <1>e, <1>f, <1>c, <3>2
  <2> QED
    BY <1>g, <2>2, <2>3
<1> QED
  BY <1>1, <1>2, <1>3 DEF PublishingInvariant

(* The task of a Thing makes its publishers.                               *)
LEMMA StartingPublishers ==
    ASSUME Publishing!PublishingAssumption, PublishingInvariant, Publishing!StartPublishers PROVE PublishingInvariant'
<1>a. PublishersTyped /\ DictTyped /\ StartingTyped /\ EventsFit /\ PendingAreNew /\ PendingDiffer
        /\ KeysDiffer /\ KeysTogether /\ Publishing!SubscribedWhileRunning
  BY DEF PublishingInvariant
<1> DEFINE t == Head(starting)[1]
           n == Head(starting)[2]
<1>b. /\ starting # <<>> /\ starting' = Tail(starting) /\ starts' = starts /\ told' = told
      /\ subscribed' = subscribed /\ waiting' = waiting /\ taken' = taken
      /\ \/ registered' = registered /\ task' = task
         \/ /\ registered' = Publishing!Put(registered, t, n)
            /\ task' = [p \in Publishing!Publishers |->
                          IF p[1] \in Publishing!ToSet(TopicsOf[t]) /\ p[2] = n THEN "created" ELSE task[p]]
  BY DEF Publishing!StartPublishers
<1>c. /\ starting \in Seq(PendingStarts) /\ Len(starting) \in Nat /\ Len(starting) >= 1
      /\ Head(starting) = starting[1] /\ 1 \in 1..Len(starting) /\ starting[1] \in PendingStarts
      /\ starting' \in Seq(PendingStarts) /\ Len(starting') = Len(starting) - 1
      /\ \A i \in 1..Len(starting') : i + 1 \in 1..Len(starting) /\ starting'[i] = starting[i + 1]
  BY <1>a, <1>b DEF StartingTyped
<1>d. t \in ThingsPublished /\ n \in 1..MaxStarts /\ starting[1] = <<t, n>>
  BY <1>c DEF PendingStarts
<1>e. \A p \in Publishing!Publishers : p[1] \in Publishing!ToSet(TopicsOf[t]) /\ p[2] = n => task[p] = "none" /\ p \notin subscribed
  <2>1. \A p \in Publishing!Publishers : p[1] \in Publishing!ToSet(TopicsOf[t]) /\ p[2] = n => task[p] = "none"
    BY <1>a, <1>c DEF PendingAreNew
  <2> QED
    BY <1>a, <2>1 DEF Publishing!SubscribedWhileRunning
<1> HIDE DEF t, n
<1>f. \A p \in Publishing!Publishers :
        \/ task'[p] = task[p]
        \/ p[1] \in Publishing!ToSet(TopicsOf[t]) /\ p[2] = n /\ task'[p] = "created"
  BY <1>b
<1>1. PublishersTyped'
  <2>1. task' \in [Publishing!Publishers -> TaskStages]
    BY <1>a, <1>b DEF PublishersTyped, TaskStages
  <2> QED
    BY <1>a, <1>b, <2>1 DEF PublishersTyped
<1>2. StartingTyped' /\ EventsFit'
  BY <1>a, <1>b, <1>c DEF StartingTyped, EventsFit
<1>3. DictTyped' /\ KeysDiffer' /\ KeysTogether'
  <2>1. CASE registered' = registered
    BY <1>a, <2>1 DEF DictTyped, KeysDiffer, KeysTogether
  <2>2. CASE registered' = Publishing!Put(registered, t, n)
    BY <1>a, <1>d, <2>2, Putting
  <2> QED
    BY <1>b, <2>1, <2>2
<1>4. PendingDiffer'
  <2> SUFFICES ASSUME NEW i \in 1..Len(starting'), NEW j \in 1..Len(starting'), starting'[i] = starting'[j]
               PROVE  i = j
    BY DEF PendingDiffer
  <2>1. i + 1 = j + 1
    BY <1>a, <1>c DEF PendingDiffer
  <2> QED
    BY <1>c, <2>1
<1>5. PendingAreNew'
  <2>1. ASSUME NEW i \in 1..Len(starting')
        PROVE  /\ starting'[i][2] <= starts'
               /\ \A p \in Publishing!Publishers : p[1] \in Publishing!ToSet(TopicsOf[starting'[i][1]]) /\ p[2] = starting'[i][2]
                                          => task'[p] = "none"
    <3>1. i + 1 \in 1..Len(starting) /\ starting'[i] = starting[i + 1] /\ i + 1 # 1
      BY <1>c
    <3>2. starting[i + 1] \in PendingStarts /\ starting[i + 1] # <<t, n>>
      <4>1. starting[i + 1] \in PendingStarts
        BY <1>c, <3>1
      <4>2. starting[i + 1] # starting[1]
        BY <1>a, <1>c, <3>1 DEF PendingDiffer
      <4> QED
        BY <1>d, <4>1, <4>2
    <3>3. starting[i + 1][2] <= starts
            /\ \A p \in Publishing!Publishers : p[1] \in Publishing!ToSet(TopicsOf[starting[i + 1][1]]) /\ p[2] = starting[i + 1][2]
                                          => task[p] = "none"
      BY <1>a, <3>1 DEF PendingAreNew
    <3>4. ASSUME NEW p \in Publishing!Publishers, p[1] \in Publishing!ToSet(TopicsOf[starting[i + 1][1]]), p[2] = starting[i + 1][2],
                 p[1] \in Publishing!ToSet(TopicsOf[t]), p[2] = n
          PROVE  FALSE
      <4>1. starting[i + 1][1] \in ThingsPublished /\ starting[i + 1] = <<starting[i + 1][1], starting[i + 1][2]>>
        BY <3>2 DEF PendingStarts
      <4>2. starting[i + 1][1] = t
        BY <1>d, <3>4, <4>1, TopicFacts
      <4> QED
        BY <3>2, <3>4, <4>1, <4>2
    <3> QED
      BY <1>b, <1>f, <3>1, <3>3, <3>4
  <2>2. \A p \in Publishing!Publishers : p[2] > starts' => task'[p] = "none"
    <3>1. n <= starts /\ starts \in 0..MaxStarts /\ MaxStarts \in Nat
      BY <1>a, <1>c, <1>d DEF PendingAreNew, PublishersTyped, Publishing!PublishingAssumption
    <3>2. \A p \in Publishing!Publishers : p[2] \in 1..MaxStarts
      BY DEF Publishing!Publishers
    <3>3. \A p \in Publishing!Publishers : p[2] > starts => p[2] # n
      BY <1>d, <3>1, <3>2
    <3> QED
      BY <1>a, <1>b, <1>f, <3>3 DEF PendingAreNew
  <2> QED
    BY <2>1, <2>2 DEF PendingAreNew
<1>6. Publishing!SubscribedWhileRunning'
  BY <1>a, <1>b, <1>e, <1>f DEF Publishing!SubscribedWhileRunning
<1> QED
  BY <1>1, <1>2, <1>3, <1>4, <1>5, <1>6 DEF PublishingInvariant

(* A task of a publisher goes on.                                          *)
LEMMA TaskGoesOn ==
    ASSUME Publishing!PublishingAssumption, PublishingInvariant, NEW p \in Publishing!Publishers, NEW s \in TaskStages,
           task[p] # "none", s # "none", Publishing!Becomes(p, s),
           subscribed' = IF s \in {"receiving", "publishing"} THEN subscribed \cup {p} ELSE subscribed \ {p},
           waiting' \in [Publishing!Publishers -> 0..MaxEvents], taken' \in [Publishing!Publishers -> 0..MaxEvents],
           \A q \in Publishing!Publishers : waiting'[q] + taken'[q] <= MaxEvents,
           UNCHANGED <<starts, starting, registered, told>>
    PROVE  PublishingInvariant'
<1>a. PublishersTyped /\ DictTyped /\ StartingTyped /\ EventsFit /\ PendingAreNew /\ PendingDiffer
        /\ KeysDiffer /\ KeysTogether /\ Publishing!SubscribedWhileRunning
  BY DEF PublishingInvariant
<1>b. task' = [task EXCEPT ![p] = s] /\ starts' = starts /\ starting' = starting
        /\ registered' = registered /\ told' = told
  BY DEF Publishing!Becomes
<1>1. PublishersTyped' /\ EventsFit'
  BY <1>a, <1>b DEF PublishersTyped, EventsFit
<1>2. DictTyped' /\ StartingTyped' /\ PendingDiffer' /\ KeysDiffer' /\ KeysTogether'
  BY <1>a, <1>b DEF DictTyped, StartingTyped, PendingDiffer, KeysDiffer, KeysTogether
<1>3. PendingAreNew'
  <2>1. \A q \in Publishing!Publishers : task[q] = "none" => task'[q] = "none"
    BY <1>a, <1>b DEF PublishersTyped
  <2> QED
    BY <1>a, <1>b, <2>1 DEF PendingAreNew
<1>4. Publishing!SubscribedWhileRunning'
  BY <1>a, <1>b DEF PublishersTyped, Publishing!SubscribedWhileRunning
<1> QED
  BY <1>1, <1>2, <1>3, <1>4 DEF PublishingInvariant

(* Each step of the server and of its publishers keeps the invariant.      *)
LEMMA PublishingNext ==
    ASSUME Publishing!PublishingAssumption, PublishingInvariant, [Publishing!Next]_Publishing!vars PROVE PublishingInvariant'
<1>a. PublishersTyped /\ DictTyped /\ StartingTyped /\ EventsFit /\ PendingAreNew /\ PendingDiffer
        /\ KeysDiffer /\ KeysTogether /\ Publishing!SubscribedWhileRunning
  BY DEF PublishingInvariant
<1>m. MaxEvents \in Nat /\ waiting \in [Publishing!Publishers -> 0..MaxEvents] /\ taken \in [Publishing!Publishers -> 0..MaxEvents]
        /\ task \in [Publishing!Publishers -> TaskStages] /\ \A p \in Publishing!Publishers : waiting[p] + taken[p] <= MaxEvents
  BY <1>a DEF Publishing!PublishingAssumption, PublishersTyped, EventsFit
<1>1. ASSUME NEW p \in Publishing!Publishers, Publishing!Begin(p) PROVE PublishingInvariant'
  BY <1>1, <1>m, TaskGoesOn DEF Publishing!Begin, TaskStages
<1>2. ASSUME NEW p \in Publishing!Publishers, Publishing!Receive(p) PROVE PublishingInvariant'
  <2>1. /\ task[p] = "receiving" /\ waiting[p] > 0 /\ waiting' = [waiting EXCEPT ![p] = waiting[p] - 1]
        /\ taken' = [taken EXCEPT ![p] = taken[p] + 1] /\ Publishing!Becomes(p, "publishing")
        /\ UNCHANGED <<starts, starting, registered, told, subscribed>>
    BY <1>2 DEF Publishing!Receive
  <2>2. waiting' \in [Publishing!Publishers -> 0..MaxEvents] /\ taken' \in [Publishing!Publishers -> 0..MaxEvents]
    BY <1>m, <2>1
  <2>3. \A q \in Publishing!Publishers : waiting'[q] + taken'[q] <= MaxEvents
    BY <1>m, <2>1
  <2>4. p \in subscribed
    BY <1>a, <2>1 DEF Publishing!SubscribedWhileRunning
  <2> QED
    BY <2>1, <2>2, <2>3, <2>4, TaskGoesOn DEF TaskStages
<1>3. ASSUME NEW p \in Publishing!Publishers, Publishing!Publish(p) PROVE PublishingInvariant'
  <2>1. p \in subscribed /\ task[p] = "publishing" /\ Publishing!Becomes(p, "receiving")
        /\ UNCHANGED <<starts, starting, registered, told, subscribed, waiting, taken>>
    BY <1>a, <1>3 DEF Publishing!Publish, Publishing!SubscribedWhileRunning
  <2> QED
    BY <1>m, <2>1, TaskGoesOn DEF TaskStages
<1>4. ASSUME NEW p \in Publishing!Publishers, Publishing!End(p) PROVE PublishingInvariant'
  <2>1. /\ task[p] = "receiving" /\ waiting' = [waiting EXCEPT ![p] = 0] /\ taken' = taken
        /\ Publishing!Becomes(p, "ended") /\ subscribed' = subscribed \ {p}
        /\ UNCHANGED <<starts, starting, registered, told>>
    BY <1>4 DEF Publishing!End
  <2>2. waiting' \in [Publishing!Publishers -> 0..MaxEvents] /\ \A q \in Publishing!Publishers : waiting'[q] + taken'[q] <= MaxEvents
    BY <1>m, <2>1
  <2> QED
    BY <1>m, <2>1, <2>2, TaskGoesOn DEF TaskStages
<1>5. CASE (\E x \in Publishing!Topics : Publishing!Push(x)) \/ Publishing!Stop \/ UNCHANGED Publishing!vars
  <2>1. /\ starts' = starts /\ starting' = starting /\ registered' = registered /\ task' = task
        /\ subscribed' = subscribed /\ taken' = taken
    BY <1>5 DEF Publishing!Push, Publishing!Stop, Publishing!vars, Publishing!publishing
  <2>2. waiting' \in [Publishing!Publishers -> 0..MaxEvents] /\ \A q \in Publishing!Publishers : waiting'[q] + taken'[q] <= MaxEvents
    <3>1. ASSUME NEW x \in Publishing!Topics, Publishing!Push(x)
          PROVE  waiting' \in [Publishing!Publishers -> 0..MaxEvents]
                   /\ \A q \in Publishing!Publishers : waiting'[q] + taken'[q] <= MaxEvents
      BY <1>m, <3>1 DEF Publishing!Push
    <3>2. CASE Publishing!Stop \/ UNCHANGED Publishing!vars
      BY <1>m, <2>1, <3>2 DEF Publishing!Stop, Publishing!vars, Publishing!publishing
    <3> QED
      BY <1>5, <3>1, <3>2
  <2>3. told' \subseteq Publishing!Publishers
    <3>1. CASE Publishing!Stop
      <4> DEFINE bad == {i \in DOMAIN registered : registered[i][1] = "description"}
      <4>1. registered \in Seq(DictKeys) /\ Len(registered) \in Nat /\ DOMAIN registered = 1..Len(registered)
        BY <1>a DEF DictTyped
      <4>2. \A i \in 1..Len(registered) : registered[i][1] # "description" => registered[i] \in Publishing!Publishers
        BY <4>1 DEF DictKeys, Publishing!Description
      <4>3. Publishing!ToSet(Publishing!Before(registered)) \subseteq Publishing!Publishers
        <5>1. CASE bad = {}
          BY <4>1, <4>2, <5>1 DEF Publishing!Before, Publishing!ToSet
        <5>2. CASE bad # {}
          <6> DEFINE at == CHOOSE i \in bad : \A j \in bad : i <= j
          <6>1. PICK i \in bad : \A j \in bad : i <= j
            <7>1. bad \subseteq Nat
              BY <4>1
            <7> QED
              BY <5>2, <7>1, LeastOf
          <6>2. at \in bad /\ \A j \in bad : at <= j
            BY <6>1
          <6> HIDE DEF at
          <6>3. at \in 1..Len(registered) /\ \A j \in 1..(at - 1) : j \in 1..Len(registered) /\ registered[j] \in Publishing!Publishers
            BY <4>1, <4>2, <6>2
          <6>4. Publishing!Before(registered) = SubSeq(registered, 1, at - 1)
            BY <5>2 DEF Publishing!Before, at
          <6>5. Len(SubSeq(registered, 1, at - 1)) = at - 1
                  /\ \A j \in 1..(at - 1) : SubSeq(registered, 1, at - 1)[j] = registered[j]
            BY <4>1, <6>3
          <6>6. DOMAIN SubSeq(registered, 1, at - 1) = 1..(at - 1)
            BY <4>1, <6>3
          <6> QED
            BY <6>3, <6>4, <6>5, <6>6 DEF Publishing!ToSet
        <5> QED
          BY <5>1, <5>2
      <4> QED
        BY <1>a, <3>1, <4>3 DEF Publishing!Stop, PublishersTyped
    <3>2. CASE (\E x \in Publishing!Topics : Publishing!Push(x)) \/ UNCHANGED Publishing!vars
      BY <1>a, <3>2 DEF Publishing!Push, Publishing!vars, Publishing!publishing, PublishersTyped
    <3> QED
      BY <1>5, <3>1, <3>2
  <2>4. PublishersTyped' /\ EventsFit'
    BY <1>a, <2>1, <2>2, <2>3 DEF PublishersTyped, EventsFit
  <2>5. DictTyped' /\ StartingTyped' /\ PendingDiffer' /\ KeysDiffer' /\ KeysTogether' /\ PendingAreNew'
          /\ Publishing!SubscribedWhileRunning'
    BY <1>a, <2>1 DEF DictTyped, StartingTyped, PendingDiffer, KeysDiffer, KeysTogether, PendingAreNew,
       Publishing!SubscribedWhileRunning
  <2> QED
    BY <2>4, <2>5 DEF PublishingInvariant
<1> QED
  BY <1>1, <1>2, <1>3, <1>4, <1>5, StartingAgain, StartingPublishers DEF Publishing!Next

(* Nothing was started.                                                    *)
LEMMA PublishingInit == ASSUME Publishing!PublishingAssumption, Publishing!Init PROVE PublishingInvariant
<1>1. MaxStarts \in Nat /\ MaxEvents \in Nat
  BY DEF Publishing!PublishingAssumption
<1>2. <<>> \in Seq(DictKeys) /\ <<>> \in Seq(PendingStarts) /\ Len(<<>>) = 0
  OBVIOUS
<1>3. PublishersTyped /\ EventsFit /\ Publishing!SubscribedWhileRunning
  BY <1>1 DEF Publishing!Init, PublishersTyped, EventsFit, Publishing!SubscribedWhileRunning, TaskStages
<1>4. DictTyped /\ StartingTyped /\ PendingAreNew /\ PendingDiffer /\ KeysDiffer /\ KeysTogether
  BY <1>2 DEF Publishing!Init, DictTyped, StartingTyped, PendingAreNew, PendingDiffer, KeysDiffer, KeysTogether
<1> QED
  BY <1>3, <1>4 DEF PublishingInvariant

(* What the invariant says of the properties of MQTTPublishing.            *)
LEMMA PublishingHolds == ASSUME Publishing!PublishingAssumption, PublishingInvariant PROVE Publishing!TypeOK /\ Publishing!SubscribedWhileRunning
<1>a. PublishersTyped /\ DictTyped /\ StartingTyped /\ EventsFit /\ PendingAreNew /\ PendingDiffer
        /\ KeysDiffer /\ KeysTogether /\ Publishing!SubscribedWhileRunning
  BY DEF PublishingInvariant
<1>1. Publishing!ToSet(starting) \subseteq Publishing!ToSet(PublishedThings) \X (1..MaxStarts)
  BY <1>a DEF StartingTyped, Publishing!ToSet, PendingStarts, ThingsPublished
<1>2. Publishing!ToSet(registered) \subseteq Publishing!Publishers \cup {Publishing!Description(t) : t \in Publishing!ToSet(PublishedThings)}
  BY <1>a DEF DictTyped, Publishing!ToSet, DictKeys, ThingsPublished
<1>3. Publishing!IsInjective(registered)
  BY <1>a DEF DictTyped, KeysDiffer, Publishing!IsInjective
<1> QED
  BY <1>a, <1>1, <1>2, <1>3 DEF PublishersTyped, Publishing!TypeOK, TaskStages

(***************************************************************************)
(* Subscriptions of a ZMQ server: ZMQServing.                              *)
(***************************************************************************)
SubscriptionsInvariant ==
    served \subseteq ServedThings /\ subscriptions \in [ServedThings -> Nat] /\ Loops!SubscribedOnce

(* A start subscribes to the Things that were added, and to no other one.  *)
LEMMA SubscriptionsNext ==
    ASSUME SubscriptionsInvariant, [Loops!Next]_Loops!vars PROVE SubscriptionsInvariant'
<1>1. ASSUME NEW S \in SUBSET ServedThings, Loops!Start(S) PROVE SubscriptionsInvariant'
  <2>1. /\ served \subseteq S /\ served' = S
        /\ subscriptions' = [t \in ServedThings |->
             subscriptions[t] + (IF t \in {u \in S : subscriptions[u] = 0} THEN 1 ELSE 0)]
    BY <1>1 DEF Loops!Start, Loops!StartWith
  <2>2. \A t \in ServedThings : subscriptions[t] = IF t \in served THEN 1 ELSE 0
    BY DEF SubscriptionsInvariant, Loops!SubscribedOnce
  <2>3. \A t \in ServedThings : subscriptions'[t] = IF t \in served' THEN 1 ELSE 0
    BY <2>1, <2>2
  <2>4. subscriptions' \in [ServedThings -> Nat]
    BY <2>1, <2>2, <2>3
  <2> QED
    BY <2>1, <2>3, <2>4 DEF SubscriptionsInvariant, Loops!SubscribedOnce
<1>2. ASSUME served' = served, subscriptions' = subscriptions PROVE SubscriptionsInvariant'
  BY <1>2 DEF SubscriptionsInvariant, Loops!SubscribedOnce
<1>3. CASE \E close \in BOOLEAN : Loops!Stop(close)
  BY <1>2, <1>3 DEF Loops!Stop, Loops!serving
<1>4. ASSUME NEW l \in Loops!Loops, Loops!Receives(l) PROVE SubscriptionsInvariant'
  BY <1>2, <1>4 DEF Loops!Receives, Loops!Begin, Loops!Check, Loops!Reset, Loops!PollStops, Loops!PollReads,
     Loops!serving
<1>5. ASSUME NEW r \in LoopRequests, Loops!Send(r) \/ Loops!Process(r) \/ Loops!Reply(r)
      PROVE  SubscriptionsInvariant'
  BY <1>2, <1>5 DEF Loops!Send, Loops!Process, Loops!Reply, Loops!serving
<1>6. CASE UNCHANGED Loops!vars
  BY <1>2, <1>6 DEF Loops!vars, Loops!serving
<1> QED
  BY <1>1, <1>3, <1>4, <1>5, <1>6 DEF Loops!Next

(* Before the first start nothing is subscribed.                           *)
LEMMA SubscriptionsInit == Loops!Init => SubscriptionsInvariant
BY DEF Loops!Init, SubscriptionsInvariant, Loops!SubscribedOnce

(***************************************************************************)
(* The composition.  A component that does not run keeps its state, so     *)
(* what its invariant says holds whichever part runs.                      *)
(***************************************************************************)
(* Each form of a Thing Description leads to a route that runs its         *)
(* operation on its object, each object of a Thing that is served has a    *)
(* route, and only its own ones, for any Things, classes, objects and      *)
(* rules by hand, as long as what is routed by hand fits: one object has a *)
(* path, and a handler of its kind (server.py:458, services.py:77).        *)
THEOREM AllRoutesLead ==
    ASSUME Routes!HandRoutesFit
    PROVE  ServersSpec => []RoutesLead
<1>1. ServersInit => RoutesInvariant
  BY ServersAssumption, RoutesInit DEF ServersInit, RoutesGiven
<1>2. RoutesInvariant /\ [ServersNext]_allVars => RoutesInvariant'
  <2>1. [ServersNext]_allVars => [Routes!Next]_Routes!vars
    BY DEF ServersNext, allVars, routesVars, Routes!vars
  <2> QED
    BY <2>1, ServersAssumption, RoutesNext DEF RoutesGiven
<1>3. RoutesInvariant => RoutesLead
  BY ServersAssumption, RoutesHold DEF RoutesLead, RoutesGiven
<1> QED
  BY <1>1, <1>2, <1>3, PTL DEF ServersSpec

(* A refused request has run nothing, the status of any other one is what  *)
(* became of its operation, and a reply that is to be collected is kept,   *)
(* for any requests, inputs and rules of access (handlers.py:421, :512).   *)
THEOREM AllFatesAreTold == ServersSpec => []FateIsTold
<1>1. ServersInit => RequestsInvariant
  BY ServersAssumption, RequestsInit DEF ServersInit
<1>2. RequestsInvariant /\ [ServersNext]_allVars => RequestsInvariant'
  <2>1. [ServersNext]_allVars => [Asking!Next]_Asking!vars
    BY DEF ServersNext, allVars, requestsVars, Asking!vars
  <2> QED
    BY <2>1, ServersAssumption, RequestsNext
<1>3. RequestsInvariant => FateIsTold
  BY RequestsHold DEF FateIsTold
<1> QED
  BY <1>1, <1>2, <1>3, PTL DEF ServersSpec

(* The address that a socket of a living server names is its own, whoever  *)
(* searches at the same time, and a server that is gone holds none, for    *)
(* any servers, IDs, processes, transports and ports (brokers.py:212).     *)
THEOREM AllAddressesAreHeld == ServersSpec => []AddressesAreHeld
<1>1. ServersInit => SocketsInvariant
  BY ServersAssumption, SocketsInit DEF ServersInit
<1>2. SocketsInvariant /\ [ServersNext]_allVars => SocketsInvariant'
  <2>1. [ServersNext]_allVars => [Sockets!Next]_Sockets!vars
    BY DEF ServersNext, allVars, socketsVars, Sockets!vars
  <2> QED
    BY <2>1, ServersAssumption, SocketsNext
<1>3. SocketsInvariant => AddressesAreHeld
  BY SocketsHold DEF AddressesAreHeld
<1> QED
  BY <1>1, <1>2, <1>3, PTL DEF ServersSpec

(* Of any runs that share neither an ID nor an event loop, one that serves *)
(* is registered until a stop() has found it, and one that has returned    *)
(* serves nothing (server/server.py:25 and :103).                          *)
THEOREM AllRunsAreRegistered ==
    ASSUME Running!OwnIds, Running!OwnLoops
    PROVE  ServersSpec => []RunsAreRegistered
<1>1. ServersInit => RunsInvariant
  BY ServersAssumption, RunsInit DEF ServersInit
<1>2. RunsInvariant /\ [ServersNext]_allVars => RunsInvariant'
  <2>1. [ServersNext]_allVars => [Running!Next]_Running!vars
    BY DEF ServersNext, allVars, runsVars, Running!vars, Running!serverVars
  <2> QED
    BY <2>1, ServersAssumption, RunsNext
<1>3. RunsInvariant => RunsAreRegistered
  BY RunsHold DEF RunsAreRegistered
<1> QED
  BY <1>1, <1>2, <1>3, PTL DEF ServersSpec

(* However often servers are started and stopped, an MQTT publisher is     *)
(* subscribed exactly while its task runs, and a ZMQ server once to each   *)
(* Thing that was there at a start (mqtt/handlers.py:76).                  *)
THEOREM AllSubscriptionsFit == ServersSpec => []SubscriptionsFit
<1>1. ServersInit => PublishingInvariant /\ SubscriptionsInvariant
  BY ServersAssumption, PublishingInit, SubscriptionsInit DEF ServersInit
<1>2. PublishingInvariant /\ [ServersNext]_allVars => PublishingInvariant'
  <2>1. [ServersNext]_allVars => [Publishing!Next]_Publishing!vars
    BY DEF ServersNext, allVars, topicsVars, Publishing!vars, Publishing!publishing
  <2> QED
    BY <2>1, ServersAssumption, PublishingNext
<1>3. SubscriptionsInvariant /\ [ServersNext]_allVars => SubscriptionsInvariant'
  <2>1. [ServersNext]_allVars => [Loops!Next]_Loops!vars
    BY DEF ServersNext, allVars, loopsVars, Loops!vars, Loops!serving, Loops!receiving, Loops!requests
  <2> QED
    BY <2>1, SubscriptionsNext
<1>4. PublishingInvariant /\ SubscriptionsInvariant => SubscriptionsFit
  BY ServersAssumption, PublishingHolds DEF SubscriptionsFit, SubscriptionsInvariant
<1> QED
  BY <1>1, <1>2, <1>3, <1>4, PTL DEF ServersSpec
=============================================================================
