---------------------------- MODULE ThingsProofs ----------------------------
(***************************************************************************)
(* The components of a Thing for every set of properties, members, rows,   *)
(* formats, containers and threads: one section for each component gives   *)
(* the inductive invariant that its properties follow from.                *)
(***************************************************************************)
EXTENDS Things, SequenceFacts, FiniteSetTheorems

(***************************************************************************)
(* The values of properties, type by type.                                 *)
(***************************************************************************)
\* What a type makes of a value: a value, a legal one or an adapted None, and
\* a path that is found again.
Accepted(e, w) ==
    /\ w # Raised /\ IsValue(w)
    /\ Legal(e, w) \/ HeldAsNone(e, w)
    /\ e.kind \in {"Path", "Filename", "Foldername"} => PathGet(e, w) = w

\* It is what the type makes of it again.
Settled(e, w) == Adapt(e, w) = w \/ HeldAsNone(e, w)

\* No function and no class comes of what is none.
Storable(v) == v.t \notin {"function", "class"}

NumberKinds == {"Number", "Integer", "Date", "CalendarDate"}
ListKinds == {"Iterable", "Tuple", "List"}
PathKinds == {"Path", "Filename", "Foldername"}
OtherKinds == {"String", "Bytes", "IPAddress", "Boolean", "Callable", "Selector", "TupleSelector",
               "ClassSelector", "CSS3Color"}

\* What the constructors keep.
LEMMA OptionsFacts ==
    ASSUME NEW e \in Options
    PROVE  /\ e.kind \in NumberKinds \cup ListKinds \cup PathKinds \cup OtherKinds
           /\ e.kind = "Number" => e.types = {"float", "int"}
           /\ e.kind = "Integer" => e.types = {"int"}
           /\ e.kind = "Date" => e.types = {"datetime", "date"} /\ e.bounds = NoneValue
           /\ e.kind = "CalendarDate" => e.types = {"date"} /\ e.bounds = NoneValue
           /\ e.kind = "Iterable" => e.types = {"list", "tuple"}
           /\ e.kind = "Tuple" => e.types = {"tuple"}
           /\ e.kind = "List" => e.types = {"list"}
           /\ e.kind \in ListKinds => e.lengths \in Lengths
           /\ e.kind = "ClassSelector" => e.class \in OfferedClasses
           /\ e.kind \in PathKinds => e.search \in SearchPaths
<1> USE DEF NumberKinds, ListKinds, PathKinds, OtherKinds
<1>1. CASE e \in Strings \cup ByteStrings \cup Booleans \cup Callables \cup Colours \cup IPAddresses
  BY <1>1 DEF Strings, ByteStrings, Booleans, Callables, Colours, IPAddresses
<1>2. CASE e \in Numbers \cup Integers_
  BY <1>2 DEF Numbers, Integers_
<1>3. CASE e \in Dates \cup CalendarDates
  BY <1>3 DEF Dates, CalendarDates
<1>4. CASE e \in Iterables \cup Tuples \cup Lists
  BY <1>4 DEF Iterables, Tuples, Lists
<1>5. CASE e \in Selectors \cup TupleSelectors \cup ClassSelectors \cup Paths
  BY <1>5 DEF Selectors, TupleSelectors, ClassSelectors, Paths
<1> QED
  BY <1>1, <1>2, <1>3, <1>4, <1>5 DEF Options

\* Numbers and dates are returned as they are.
LEMMA NumbersFit ==
    ASSUME NEW e \in Options, NEW v, e.kind \in NumberKinds, Adapt(e, v) # Raised
    PROVE  Adapt(e, v) = v /\ Accepted(e, v)
<1>1. Adapt(e, v) = NumberAdapt(e, v)
  BY DEF Adapt, NumberKinds
<1>2. v = NumberAdapt(e, v) /\ v # Raised
  BY <1>1 DEF NumberAdapt
<1>3. CASE v = NoneValue
  <2>1. e.none
    BY <1>1, <1>3, OptionsFacts DEF NumberAdapt, Is, NoneValue, NumberKinds
  <2> QED
    BY <1>1, <1>2, <1>3, <2>1 DEF Accepted, Legal, IsValue, NoneValue, NumberKinds
<1>4. CASE v # NoneValue
  <2>1. Is(v, e.types) /\ (e.bounds = NoneValue \/ (Below(v, e.bounds) /\ Above(v, e.bounds)))
    BY <1>1, <1>4 DEF NumberAdapt
  <2>2. /\ e.kind = "Number" => Is(v, {"int", "float"})
        /\ e.kind = "Integer" => Is(v, {"int"})
        /\ e.kind \in {"Date", "CalendarDate"} => v.t \in {"date", "datetime"}
        /\ v.t \in {"bool", "int", "float", "date", "datetime"}
    BY <2>1, OptionsFacts DEF Is, NumberKinds
  <2>3. Legal(e, v)
    BY <1>4, <2>1, <2>2 DEF Legal, NumberKinds
  <2> QED
    BY <1>1, <1>2, <2>2, <2>3 DEF Accepted, IsValue, NumberKinds
<1> QED
  BY <1>3, <1>4

\* What a list or a tuple may be.
LEMMA IterableFits ==
    ASSUME NEW e \in Options, NEW v, e.kind \in ListKinds, IsValue(v), IterableAdapt(e, v) # Raised
    PROVE  /\ IterableAdapt(e, v) = v
           /\ Legal(e, v)
           /\ v = NoneValue \/ v.t \in e.types
<1>1. IterableAdapt(e, v) = v
  BY DEF IterableAdapt
<1>2. CASE v = NoneValue
  BY <1>1, <1>2, OptionsFacts DEF IterableAdapt, Legal, Is, NoneValue, ListKinds
<1>3. CASE v # NoneValue
  <2>1. Is(v, e.types)
    BY <1>3 DEF IterableAdapt
  <2>2. v.t \in e.types /\ v.t \in {"list", "tuple"}
    BY <2>1, OptionsFacts DEF Is, ListKinds
  <2>3. DOMAIN v.items = 1..Len(v.items) /\ Len(v.items) \in Nat
    BY <2>2 DEF IsValue
  <2>4. e.items # {} => \A i \in DOMAIN v.items : Is(v.items[i], e.items)
    BY <1>3, <2>1, <2>3 DEF IterableAdapt
  <2>5. IF e.lengths.low # NoLimit THEN Len(v.items) \in e.lengths.low .. e.lengths.high
        ELSE e.lengths.length \in {NoLimit, Len(v.items)}
    <3>1. e.lengths.low # NoLimit => e.lengths.low \in Nat /\ e.lengths.high \in Nat
      BY OptionsFacts, ValuesAssumption DEF Lengths, Absent
    <3> QED
      BY <1>3, <2>1, <2>3, <3>1 DEF IterableAdapt
  <2> QED
    BY <1>1, <1>3, <2>2, <2>4, <2>5 DEF Legal, ListKinds
<1> QED
  BY <1>2, <1>3

\* A list that is taken for a tuple, or a tuple for a list, is one from then on.
LEMMA ListsFit ==
    ASSUME NEW e \in Options, NEW v, e.kind \in ListKinds, IsValue(v), Adapt(e, v) # Raised
    PROVE  /\ Accepted(e, Adapt(e, v)) /\ Settled(e, Adapt(e, v))
           /\ Adapt(e, v) = v \/ Adapt(e, v).t \in {"list", "tuple"}
<1> DEFINE w == CASE e.kind = "Tuple" /\ e.lists /\ Is(v, {"list"}) -> Listed("tuple", v.items)
                  [] e.kind = "List" /\ e.tuples /\ Is(v, {"tuple"}) -> Listed("list", v.items)
                  [] OTHER -> v
<1>1. IsValue(w) /\ Adapt(e, v) = IterableAdapt(e, w) /\ (w = v \/ w.t \in {"list", "tuple"})
  <2>1. CASE e.kind = "Tuple" /\ e.lists /\ Is(v, {"list"})
    BY <2>1 DEF Adapt, TupleAdapt, IsValue, Listed, Is
  <2>2. CASE e.kind = "List" /\ e.tuples /\ Is(v, {"tuple"})
    BY <2>2 DEF Adapt, ListAdapt, IsValue, Listed, Is
  <2>3. CASE /\ ~(e.kind = "Tuple" /\ e.lists /\ Is(v, {"list"}))
             /\ ~(e.kind = "List" /\ e.tuples /\ Is(v, {"tuple"}))
    BY <2>3 DEF Adapt, TupleAdapt, ListAdapt, ListKinds
  <2> QED
    BY <2>1, <2>2, <2>3
<1> HIDE DEF w
<1>2. /\ IterableAdapt(e, w) = w /\ Legal(e, w)
      /\ w = NoneValue \/ w.t \in e.types
  BY <1>1, IterableFits
<1>3. w = NoneValue \/ w.t \in {"list", "tuple"}
  BY <1>2, OptionsFacts DEF ListKinds
<1>4. Accepted(e, w)
  BY <1>1, <1>2, <1>3 DEF Accepted, ListKinds, PathKinds, NoneValue, Raised
<1>5. Settled(e, w)
  <2>1. e.kind = "Tuple" => ~Is(w, {"list"})
    BY <1>2, OptionsFacts DEF Is, NoneValue
  <2>2. e.kind = "List" => ~Is(w, {"tuple"})
    BY <1>2, OptionsFacts DEF Is, NoneValue
  <2>3. Adapt(e, w) = IterableAdapt(e, w)
    BY <2>1, <2>2 DEF Adapt, TupleAdapt, ListAdapt, ListKinds
  <2> QED
    BY <1>2, <2>3 DEF Settled
<1> QED
  BY <1>1, <1>2, <1>3, <1>4, <1>5

\* A type that checks and returns what it is given.
LEMMA ScalarsFit ==
    ASSUME NEW e \in Options, NEW v, IsValue(v), Adapt(e, v) # Raised,
           e.kind \in {"String", "Bytes", "IPAddress", "Boolean", "Callable", "CSS3Color"}
    PROVE  /\ Adapt(e, v) = v \/ HeldAsNone(e, Adapt(e, v))
           /\ Accepted(e, Adapt(e, v))
<1>1. CASE e.kind \in {"String", "Bytes", "Boolean", "Callable"}
  <2>1. /\ Adapt(e, v) = v
        /\ v = NoneValue => e.none
        /\ v # NoneValue => /\ e.kind = "String" => Is(v, {"str"})
                            /\ e.kind = "Bytes" => Is(v, {"bytes"})
                            /\ e.kind = "Boolean" => Is(v, {"bool"})
                            /\ e.kind = "Callable" => Is(v, {"function", "class"})
    <3>1. CASE e.kind = "String"
      BY <3>1 DEF Adapt, StringAdapt
    <3>2. CASE e.kind = "Bytes"
      BY <3>2 DEF Adapt, BytesAdapt
    <3>3. CASE e.kind = "Boolean"
      BY <3>3 DEF Adapt, BooleanAdapt, Is, NoneValue
    <3>4. CASE e.kind = "Callable"
      BY <3>4 DEF Adapt, CallableAdapt, Is, NoneValue
    <3> QED
      BY <1>1, <3>1, <3>2, <3>3, <3>4
  <2>2. Legal(e, v)
    BY <1>1, <2>1 DEF Legal, Is
  <2> QED
    BY <1>1, <2>1, <2>2 DEF Accepted
<1>2. CASE e.kind = "IPAddress"
  <2>1. Adapt(e, v) = IPAddressAdapt(e, v)
    BY <1>2 DEF Adapt
  <2>2. Adapt(e, v) = v \/ Adapt(e, v) = NoneValue
    BY <2>1 DEF IPAddressAdapt
  <2>3. Adapt(e, v) # NoneValue => v.t = "str"
    BY <2>1 DEF IPAddressAdapt, Is
  <2> QED
    BY <1>2, <2>2, <2>3 DEF Accepted, Legal, HeldAsNone, IsValue, NoneValue
<1>3. CASE e.kind = "CSS3Color"
  <2>1. Adapt(e, v) = CSS3ColorAdapt(e, v)
    BY <1>3 DEF Adapt
  <2>2. Adapt(e, v) = v \/ Adapt(e, v) = NoneValue
    BY <2>1 DEF CSS3ColorAdapt
  <2>3. Adapt(e, v) # NoneValue => v.t = "str"
    BY <2>1 DEF CSS3ColorAdapt, Is
  <2> QED
    BY <1>3, <2>2, <2>3 DEF Accepted, Legal, HeldAsNone, IsValue, NoneValue
<1> QED
  BY <1>1, <1>2, <1>3

\* One of the objects, None, or a tuple of the objects.
LEMMA SelectorsFit ==
    ASSUME NEW e \in Options, NEW v, IsValue(v), Adapt(e, v) # Raised,
           e.kind \in {"Selector", "TupleSelector", "ClassSelector"}
    PROVE  /\ Accepted(e, Adapt(e, v)) /\ Settled(e, Adapt(e, v))
           /\ Adapt(e, v) = v \/ (e.kind = "TupleSelector" /\ Adapt(e, v).t = "tuple")
<1>1. CASE e.kind = "Selector"
  <2>1. Adapt(e, v) = SelectorAdapt(e, v)
    BY <1>1 DEF Adapt
  <2>2. Adapt(e, v) = v /\ (IsIn(v, e.objects) \/ (e.none /\ v = NoneValue))
    BY <2>1 DEF SelectorAdapt
  <2> QED
    BY <1>1, <2>2 DEF Accepted, Settled, Legal
<1>2. CASE e.kind = "ClassSelector"
  <2>1. Adapt(e, v) = ClassSelectorAdapt(e, v)
    BY <1>2 DEF Adapt
  <2>2. Adapt(e, v) = v
    BY <2>1 DEF ClassSelectorAdapt
  <2>3. "none" \notin e.class
    BY <1>2, OptionsFacts, ValuesAssumption
  <2>4. v = NoneValue => e.none
    BY <2>1, <2>3 DEF ClassSelectorAdapt, Is, NoneValue
  <2>5. v # NoneValue => IF e.isinstance THEN Is(v, e.class) ELSE v.t = "class"
    BY <2>1, <2>2 DEF ClassSelectorAdapt, Is
  <2> QED
    BY <1>2, <2>2, <2>4, <2>5 DEF Accepted, Settled, Legal
<1>3. CASE e.kind = "TupleSelector"
  <2> DEFINE w == IF Is(v, {"list"}) /\ e.lists THEN Listed("tuple", v.items) ELSE v
  <2>1. Adapt(e, v) = TupleSelectorAdapt(e, v)
    BY <1>3 DEF Adapt
  <2>2. CASE (v = NoneValue /\ e.none) \/ IsIn(v, e.objects)
    <3>1. Adapt(e, v) = v
      BY <2>1, <2>2 DEF TupleSelectorAdapt
    <3> QED
      BY <1>3, <2>2, <3>1 DEF Accepted, Settled, Legal
  <2>3. CASE ~((v = NoneValue /\ e.none) \/ IsIn(v, e.objects))
    <3>1. /\ Adapt(e, v) = w /\ Is(w, {"tuple"})
          /\ \A i \in DOMAIN w.items : IsIn(w.items[i], e.objects)
      BY <2>1, <2>3 DEF TupleSelectorAdapt
    <3>2. w.t = "tuple" /\ w # NoneValue /\ w # Raised
      BY <3>1 DEF Is, NoneValue, Raised
    <3>3. IsValue(w)
      BY <3>2 DEF IsValue, Is, Listed
    <3> HIDE DEF w
    <3>4. ~Is(w, {"list"})
      BY <3>2 DEF Is
    <3>5. TupleSelectorAdapt(e, w) = w
      BY <3>1, <3>2, <3>4 DEF TupleSelectorAdapt
    <3>6. Adapt(e, w) = w
      BY <1>3, <3>5 DEF Adapt
    <3>7. Legal(e, w)
      BY <1>3, <3>1, <3>2 DEF Legal
    <3> QED
      BY <1>3, <3>1, <3>2, <3>3, <3>6, <3>7 DEF Accepted, Settled
  <2> QED
    BY <2>2, <2>3
<1> QED
  BY <1>1, <1>2, <1>3

\* A path that was found is found again, from the root.
LEMMA PathsFit ==
    ASSUME NEW e \in Options, NEW v, e.kind \in PathKinds, IsValue(v), Adapt(e, v) # Raised,
           SearchesFromRoot
    PROVE  /\ Accepted(e, Adapt(e, v)) /\ Adapt(e, Adapt(e, v)) = Adapt(e, v)
           /\ Adapt(e, v) = v \/ Adapt(e, v).t = "path"
<1>1. Adapt(e, v) = PathAdapt(e, v)
  BY DEF Adapt, PathKinds
<1>2. CASE v = NoneValue
  <2>1. e.none /\ Adapt(e, v) = v
    BY <1>1, <1>2 DEF PathAdapt, Is, NoneValue
  <2> QED
    BY <1>2, <2>1 DEF Accepted, Legal, PathGet
<1>3. CASE v # NoneValue
  <2> DEFINE r == Resolved(e.kind, e.search, v)
  <2>1. v.t = "path" /\ Adapt(e, v) = r /\ IsPath(v)
    BY <1>1, <1>3 DEF PathAdapt, Is, IsValue
  <2>2. /\ IsPath(r) /\ r.absolute
        /\ Exists(e.kind, r)
    <3>1. CASE v.absolute
      BY <2>1, <3>1 DEF Resolved
    <3>2. CASE ~v.absolute
      <4> DEFINE prefixes == IF e.search = <<>> THEN <<Path(TRUE, WorkingDirectory)>> ELSE e.search
                 found == {i \in DOMAIN prefixes : Exists(e.kind, Under(prefixes[i], v))}
      <4>1. found # {} /\ r = Under(prefixes[Min(found)], v)
        <5>1. r = IF found = {} THEN Raised ELSE Under(prefixes[Min(found)], v)
          BY <3>2, Zenon DEF Resolved
        <5> HIDE DEF r, found
        <5> QED
          BY <2>1, <5>1
      <4>2. DOMAIN prefixes \subseteq Nat
        <5>1. CASE e.search = <<>>
          BY <5>1
        <5>2. CASE e.search # <<>>
          <6>1. e.search \in Seq(ToSet(e.search))
            BY OptionsFacts, ValuesAssumption
          <6> QED
            BY <5>2, <6>1
        <5> QED
          BY <5>1, <5>2
      <4>3. \A i \in DOMAIN prefixes : IsPath(prefixes[i]) /\ prefixes[i].absolute
        <5>1. CASE e.search = <<>>
          BY <5>1 DEF IsPath, Path
        <5>2. CASE e.search # <<>>
          <6>1. e.search \in SearchPaths
            BY OptionsFacts
          <6>2. e.search \in Seq(ToSet(e.search)) /\ \A p \in ToSet(e.search) : IsPath(p)
            BY <6>1, ValuesAssumption
          <6> QED
            BY <5>2, <6>1, <6>2 DEF SearchesFromRoot
        <5> QED
          BY <5>1, <5>2
      <4> HIDE DEF prefixes
      <4>4. Min(found) \in found
        <5>1. found \subseteq Nat
          BY <4>2
        <5>2. PICK m \in found : \A k \in found : m <= k
          BY <4>1, <5>1, LeastOf
        <5> QED
          BY <5>2 DEF Min
      <4>5. PICK i \in DOMAIN prefixes : r = Under(prefixes[i], v) /\ Exists(e.kind, Under(prefixes[i], v))
        BY <4>1, <4>4
      <4>6. IsPath(Under(prefixes[i], v)) /\ Under(prefixes[i], v).absolute
        BY <4>3 DEF IsPath, Path, Under
      <4> QED
        BY <4>5, <4>6
    <3> QED
      BY <3>1, <3>2
  <2> HIDE DEF r
  <2>3. r.t = "path" /\ r # NoneValue /\ r # Raised
    BY <2>2 DEF IsPath, Path, NoneValue, Raised
  <2>4. Resolved(e.kind, e.search, r) = r
    BY <2>2 DEF Resolved
  <2>5. Adapt(e, r) = r
    BY <2>3, <2>4 DEF Adapt, PathAdapt, Is, PathKinds
  <2>6. Legal(e, r)
    BY <2>3 DEF Legal, PathKinds
  <2> QED
    BY <2>1, <2>2, <2>3, <2>4, <2>5, <2>6 DEF Accepted, IsValue, PathGet
<1> QED
  BY <1>2, <1>3

\* Every type returns a legal value, which it returns again.
LEMMA AdaptFits ==
    ASSUME NEW e \in Options, NEW v, IsValue(v), Adapt(e, v) # Raised, SearchesFromRoot
    PROVE  /\ Accepted(e, Adapt(e, v)) /\ Settled(e, Adapt(e, v))
           /\ Storable(v) => Storable(Adapt(e, v))
<1>1. CASE e.kind \in NumberKinds
  BY <1>1, NumbersFit DEF Settled
<1>2. CASE e.kind \in ListKinds
  BY <1>2, ListsFit DEF Storable, NoneValue
<1>3. CASE e.kind \in PathKinds
  BY <1>3, PathsFit DEF Settled, Storable
<1>4. CASE e.kind \in {"Selector", "TupleSelector", "ClassSelector"}
  BY <1>4, SelectorsFit DEF Storable
<1>5. CASE e.kind \in {"String", "Bytes", "IPAddress", "Boolean", "Callable", "CSS3Color"}
  BY <1>5, ScalarsFit DEF Settled, Storable, HeldAsNone, NoneValue
<1> QED
  BY <1>1, <1>2, <1>3, <1>4, <1>5, OptionsFacts DEF OtherKinds

\* Of what comes back from JSON, only these values are not what was stored.
LEMMA RestoredFacts ==
    ASSUME NEW v, IsValue(v), Storable(v), v # Raised
    PROVE  /\ Restored(v) # Raised /\ IsValue(Restored(v)) /\ Storable(Restored(v))
           /\ v.t = "tuple" => Restored(v).t = "list"
           /\ v.t \notin Unrepresentable => Restored(v) = v
BY DEF Restored, IsValue, Storable, Unrepresentable, Listed, Word, Text, Raised

\* What a restart makes of a stored value is that value, or may be lost.
LEMMA LosesLittle ==
    ASSUME NEW e \in Options, NEW v, Accepted(e, v), Settled(e, v), Storable(v), SearchesFromRoot,
           NEW w, w = Adapt(e, Restored(v)), w # v
    PROVE  MayBeLost(e, IF w = Raised THEN v ELSE w)
<1>1. IsValue(v) /\ v # Raised
  BY DEF Accepted
<1>2. CASE HeldAsNone(e, v)
  <2>1. Restored(v) = v
    BY <1>2 DEF HeldAsNone, Restored, NoneValue
  <2>2. w = Raised
    BY <1>1, <1>2, <2>1, ScalarsFit DEF HeldAsNone
  <2> QED
    BY <1>2, <2>2 DEF MayBeLost
<1>3. CASE ~HeldAsNone(e, v)
  <2>1. Adapt(e, v) = v /\ Legal(e, v)
    BY <1>3 DEF Settled, Accepted
  <2>2. v.t \in Unrepresentable /\ v # NoneValue
    BY <1>1, <2>1, RestoredFacts DEF Unrepresentable, NoneValue
  <2>3. CASE e.kind \in {"Selector", "TupleSelector"} /\ IsIn(v, e.objects)
    <3>1. PICK i \in DOMAIN e.objects : Equal(v, e.objects[i])
      BY <2>3 DEF IsIn
    <3>2. v = e.objects[i]
      BY <2>2, <3>1 DEF Equal, Numeric, Unrepresentable
    <3> QED
      BY <2>2, <2>3, <3>1, <3>2 DEF MayBeLost
  <2>4. CASE ~(e.kind \in {"Selector", "TupleSelector"} /\ IsIn(v, e.objects))
    <3>1. e.kind \in {"Bytes", "Date", "CalendarDate", "Tuple", "Iterable", "TupleSelector", "ClassSelector"}
      BY <2>1, <2>2, <2>4, OptionsFacts
      DEF Legal, Is, Unrepresentable, NumberKinds, ListKinds, PathKinds, OtherKinds
    <3>2. CASE e.kind = "ClassSelector"
      BY <2>1, <2>2, <2>4, <3>2 DEF Legal, Is, MayBeLost, Unrepresentable
    <3>3. CASE e.kind \in {"Tuple", "Iterable", "TupleSelector"}
      <4>1. v.t = "tuple"
        BY <2>1, <2>2, <2>4, <3>3, OptionsFacts DEF Legal, Unrepresentable
      <4>2. Restored(v).t = "list" /\ IsValue(Restored(v))
        BY <1>1, <4>1, RestoredFacts
      <4>3. w = Raised \/ w.t \in {"tuple", "list"}
        BY <3>3, <4>2, ListsFit, SelectorsFit DEF ListKinds
      <4> QED
        BY <3>3, <4>1, <4>3 DEF MayBeLost
    <3>4. CASE e.kind \in {"Bytes", "Date", "CalendarDate"}
      BY <3>4 DEF MayBeLost
    <3> QED
      BY <3>1, <3>2, <3>3, <3>4
  <2> QED
    BY <2>3, <2>4
<1> QED
  BY <1>2, <1>3

(* What is held, stored and taken for a default is what the type made of a *)
(* value; the last restart lost what may be lost.                          *)
ValuesInvariant ==
    /\ TypeOK
    /\ Accepted(d, default)
    /\ isSet => Accepted(d, held)
    /\ saved # Raised => Accepted(d, saved) /\ Settled(d, saved) /\ Storable(saved)
    /\ LosesOnlyUnrepresentable

LEMMA ValuesInit == ASSUME SearchesFromRoot PROVE Init => ValuesInvariant
<1> SUFFICES ASSUME Init PROVE ValuesInvariant
  OBVIOUS
<1>1. PICK e \in Descriptors : d = [e EXCEPT !.none = @ \/ constant]
  BY Zenon DEF Init
<1>2. d \in Descriptors
  <2>1. CASE constant
    <3>1. d = [e EXCEPT !.none = TRUE]
      BY <1>1, <2>1, Zenon
    <3> QED
      BY <3>1, ValuesAssumption
  <2>2. CASE ~constant
    BY <1>1, <2>2, ValuesAssumption, OptionsFacts
  <2> QED
    BY <2>1, <2>2
<1>3. PICK v \in Defaults : default = Adapt(d, v) /\ default # Raised
  BY DEF Init
<1>4. Accepted(d, default)
  BY <1>2, <1>3, ValuesAssumption, AdaptFits
<1> QED
  BY <1>2, <1>3, <1>4 DEF Init, ValuesInvariant, TypeOK, LosesOnlyUnrepresentable, NoneValue, Raised

\* A value that is set is what the type made of one.
LEMMA SetKeeps ==
    ASSUME ValuesInvariant, SearchesFromRoot,
           NEW v, Set(v), Accepted(d, v), Settled(d, v)
    PROVE  ValuesInvariant'
<1>1. UNCHANGED <<d, constant, default>> /\ held' = v /\ v # Raised /\ isSet' = TRUE /\ lost' = FALSE
  BY DEF Set
<1>2. saved' = saved \/ (saved' = v /\ Storable(v))
  BY DEF Set, Restored, Storable
<1> QED
  BY <1>1, <1>2
  DEF ValuesInvariant, TypeOK, LosesOnlyUnrepresentable, Accepted, Settled, Storable

LEMMA WriteValueKeeps ==
    ASSUME ValuesInvariant, SearchesFromRoot, NEW v \in Given(d), Write(v) \/ WriteInBounds(v)
    PROVE  ValuesInvariant'
<1>1. d \in Descriptors /\ d \in Options /\ IsValue(v)
  BY ValuesAssumption DEF ValuesInvariant, TypeOK
<1>2. CASE Write(v)
  <2>1. Set(Adapt(d, v)) /\ Adapt(d, v) # Raised
    BY <1>2 DEF Write, Set
  <2> QED
    BY <1>1, <2>1, AdaptFits, SetKeeps
<1>3. CASE WriteInBounds(v)
  <2>1. d.kind \in NumberKinds /\ Set(SetInBounds(d, v)) /\ SetInBounds(d, v) # Raised
    BY <1>3 DEF WriteInBounds, Set, NumberKinds
  <2>2. PICK x : SetInBounds(d, v) = NumberAdapt(d, x)
    BY <2>1 DEF SetInBounds
  <2>3. SetInBounds(d, v) = Adapt(d, x)
    BY <2>1, <2>2 DEF Adapt, NumberKinds
  <2>4. Accepted(d, SetInBounds(d, v)) /\ Settled(d, SetInBounds(d, v))
    BY <1>1, <2>1, <2>3, NumbersFit DEF Settled
  <2> QED
    BY <2>1, <2>4, SetKeeps
<1> QED
  BY <1>2, <1>3

LEMMA RestartKeepsValues ==
    ASSUME ValuesInvariant, SearchesFromRoot, Restart
    PROVE  ValuesInvariant'
<1> DEFINE w == IF saved = Raised \/ Restored(saved) = Raised THEN Raised ELSE Adapt(d, Restored(saved))
<1>1. RestartWith(w)
  BY DEF Restart
<1>2. d \in Descriptors /\ d \in Options
  BY ValuesAssumption DEF ValuesInvariant, TypeOK
<1>3. ASSUME saved # Raised
      PROVE  /\ w # Raised => Accepted(d, w) /\ Settled(d, w) /\ Storable(w)
             /\ w # saved => MayBeLost(d, IF w = Raised THEN saved ELSE w)
  <2>1. Accepted(d, saved) /\ Settled(d, saved) /\ Storable(saved) /\ IsValue(saved)
    BY <1>3 DEF ValuesInvariant, Accepted
  <2>2. Restored(saved) # Raised /\ IsValue(Restored(saved)) /\ Storable(Restored(saved))
    BY <1>3, <2>1, RestoredFacts
  <2>3. w = Adapt(d, Restored(saved))
    BY <1>3, <2>2
  <2> HIDE DEF w
  <2>4. w # Raised => Accepted(d, w) /\ Settled(d, w) /\ Storable(w)
    BY <1>2, <2>2, <2>3, AdaptFits
  <2>5. w # saved => MayBeLost(d, IF w = Raised THEN saved ELSE w)
    BY <1>2, <2>1, <2>3, LosesLittle
  <2> QED
    BY <2>4, <2>5
<1>4. saved = Raised => w = Raised
  OBVIOUS
<1> HIDE DEF w
<1>5. /\ UNCHANGED <<d, constant, default>>
      /\ held' = IF w = Raised THEN NoneValue ELSE w
      /\ isSet' = (w # Raised)
      /\ saved' = IF w = Raised THEN saved ELSE w
      /\ lost' = (saved # Raised /\ w # saved)
  BY <1>1 DEF RestartWith
<1>6. TypeOK'
  BY <1>5 DEF ValuesInvariant, TypeOK, NoneValue, Raised
<1>7. Accepted(d, default)' /\ (isSet => Accepted(d, held))'
  <2>1. isSet' => held' = w /\ saved # Raised /\ Accepted(d, w)
    BY <1>3, <1>4, <1>5
  <2> QED
    BY <1>5, <2>1 DEF ValuesInvariant, Accepted
<1>8. (saved # Raised => Accepted(d, saved) /\ Settled(d, saved) /\ Storable(saved))'
  BY <1>3, <1>4, <1>5 DEF ValuesInvariant, Accepted, Settled, Storable
<1>9. LosesOnlyUnrepresentable'
  <2>1. lost' => MayBeLost(d, saved')
    BY <1>3, <1>5
  <2> QED
    BY <1>5, <2>1 DEF LosesOnlyUnrepresentable, MayBeLost
<1> QED
  BY <1>6, <1>7, <1>8, <1>9 DEF ValuesInvariant

LEMMA ValuesNext == ASSUME SearchesFromRoot PROVE ValuesInvariant /\ [Next]_vars => ValuesInvariant'
<1> SUFFICES ASSUME ValuesInvariant, [Next]_vars PROVE ValuesInvariant'
  OBVIOUS
<1>1. CASE UNCHANGED vars
  BY <1>1 DEF vars, ValuesInvariant, TypeOK, LosesOnlyUnrepresentable, Accepted, Settled, Storable
<1>2. CASE Next
  BY <1>2, WriteValueKeeps, RestartKeepsValues DEF Next
<1> QED
  BY <1>1, <1>2

(* The types of properties and the parameters of the same name.            *)
LEMMA TwinsFit == ASSUME ValuesInvariant PROVE TwinsAgree
<1>1. d \in Options /\ \A v \in Given(d) : IsValue(v)
  BY ValuesAssumption DEF ValuesInvariant, TypeOK
<1> SUFFICES ASSUME NEW v \in Given(d), d.kind \in TwinKinds,
                    ~(d.kind \in {"Number", "Integer"} /\ d.crop /\ d.bounds # NoneValue),
                    ~(d.kind = "IPAddress" /\ v = Word("localhost")),
                    ~(d.kind = "Boolean" /\ v = NoneValue)
             PROVE  Adapt(d, v) = ParameterAdapt(d, v)
  BY DEF TwinsAgree
<1>2. CASE d.kind = "String"
  BY <1>2 DEF Adapt, ParameterAdapt, StringAdapt, StringPasses, Is, NoneValue
<1>3. CASE d.kind = "Bytes"
  BY <1>3 DEF Adapt, ParameterAdapt, BytesAdapt, BytesPasses, Is, NoneValue
<1>4. CASE d.kind = "IPAddress"
  <2>1. IPAddressAdapt(d, v) = IF IPAddressPasses(v, d.v4, d.v6, d.localhost, d.none) THEN v ELSE Raised
    BY <1>4 DEF IPAddressAdapt, IPAddressPasses
  <2> QED
    BY <1>4, <2>1 DEF Adapt, ParameterAdapt
<1>5. CASE d.kind \in {"Number", "Integer"}
  <2>1. NumberAdapt(d, v) = NumberParameter(d, v)
    BY <1>5 DEF NumberAdapt, NumberParameter, NumberPasses
  <2> QED
    BY <1>5, <2>1 DEF Adapt, ParameterAdapt
<1>6. CASE d.kind = "Boolean"
  BY <1>6 DEF Adapt, ParameterAdapt, BooleanAdapt, BooleanParameter
<1>7. ASSUME NEW w, IsValue(w), d.kind \in ListKinds
      PROVE  IterableAdapt(d, w) = IF IterablePasses(w, d.lengths, d.types, d.items, d.none) THEN w ELSE Raised
  <2>1. CASE ~Is(w, d.types)
    BY <2>1 DEF IterableAdapt, IterablePasses
  <2>2. CASE Is(w, d.types)
    <3>1. DOMAIN w.items = 1..Len(w.items) /\ Len(w.items) \in Nat
      BY <1>1, <1>7, <2>2, OptionsFacts DEF Is, IsValue, ListKinds
    <3>2. d.lengths.low # NoLimit => d.lengths.low \in Nat /\ d.lengths.high \in Nat
      BY <1>1, <1>7, OptionsFacts, ValuesAssumption DEF Lengths, Absent
    <3> QED
      BY <2>2, <3>1, <3>2 DEF IterableAdapt, IterablePasses
  <2> QED
    BY <2>1, <2>2
<1>8. CASE d.kind = "Iterable"
  BY <1>1, <1>7, <1>8 DEF Adapt, ParameterAdapt, ListKinds
<1>9. CASE d.kind = "Tuple"
  <2> DEFINE w == IF d.lists /\ Is(v, {"list"}) THEN Listed("tuple", v.items) ELSE v
  <2>1. IsValue(w)
    BY <1>1 DEF IsValue, Is, Listed
  <2>2. Adapt(d, v) = IterableAdapt(d, w) /\ ParameterAdapt(d, v) = TupleParameter(d, v)
    BY <1>9 DEF Adapt, ParameterAdapt, TupleAdapt
  <2> QED
    BY <1>7, <1>9, <2>1, <2>2 DEF TupleParameter, ListKinds
<1>10. CASE d.kind = "List"
  <2> DEFINE w == IF d.tuples /\ Is(v, {"tuple"}) THEN Listed("list", v.items) ELSE v
  <2>1. IsValue(w)
    BY <1>1 DEF IsValue, Is, Listed
  <2>2. Adapt(d, v) = IterableAdapt(d, w) /\ ParameterAdapt(d, v) = ListParameter(d, v)
    BY <1>10 DEF Adapt, ParameterAdapt, ListAdapt
  <2> QED
    BY <1>7, <1>10, <2>1, <2>2 DEF ListParameter, ListKinds
<1> QED
  BY <1>2, <1>3, <1>4, <1>5, <1>6, <1>8, <1>9, <1>10 DEF TwinKinds

(* Groups of an address: the empty ones, and how many.                     *)
Blanks(ps) == {i \in DOMAIN ps : ps[i] = NoDigits}

LEMMA CountedBlanks ==
    ASSUME NEW n \in Nat, NEW B, B \subseteq 1..n
    PROVE  /\ Cardinality(B) \in Nat
           /\ Cardinality(B) = 0 <=> B = {}
           /\ Cardinality(B) = 1 <=> \E k \in 1..n : B = {k}
           /\ Cardinality(B) = 2 <=> \E i \in 1..n, k \in 1..n : i # k /\ B = {i, k}
           /\ n = 3 => (Cardinality(B) = 3 <=> B = {1, 2, 3})
           /\ Cardinality(B) = n <=> B = 1..n
<1>1. IsFiniteSet(1..n) /\ Cardinality(1..n) = n
  BY FS_Interval
<1>2. IsFiniteSet(B) /\ Cardinality(B) \in Nat
  BY <1>1, FS_Subset, FS_CardinalityType
<1>3. Cardinality(B) = 0 <=> B = {}
  BY <1>2, FS_EmptySet
<1>4. \A i, k : Cardinality({k}) = 1 /\ (i # k => Cardinality({i, k}) = 2)
  <2> TAKE i, k
  <2>1. IsFiniteSet({k}) /\ Cardinality({k}) = 1
    BY FS_Singleton
  <2>2. {i, k} = {k} \cup {i}
    OBVIOUS
  <2>3. i # k => Cardinality({k} \cup {i}) = 2
    BY <2>1, FS_AddElement
  <2> QED
    BY <2>1, <2>2, <2>3
<1>5. Cardinality(B) = 1 <=> \E k \in 1..n : B = {k}
  <2>1. Cardinality(B) = 1 => \E k : B = {k}
    BY <1>2, FS_Singleton
  <2> QED
    BY <1>4, <2>1
<1>6. ASSUME Cardinality(B) = 2 PROVE \E i \in 1..n, k \in 1..n : i # k /\ B = {i, k}
  <2>1. PICK i \in B : TRUE
    BY <1>3, <1>6
  <2>2. IsFiniteSet(B \ {i}) /\ Cardinality(B \ {i}) = Cardinality(B) - 1
    BY <1>2, <2>1, FS_RemoveElement
  <2>3. Cardinality(B \ {i}) = 1
    BY <1>6, <2>2
  <2>4. PICK k : B \ {i} = {k}
    BY <2>2, <2>3, FS_Singleton
  <2>5. B = {i, k} /\ i # k
    BY <2>1, <2>4
  <2> QED
    BY <2>5
<1>7. Cardinality(B) = n <=> B = 1..n
  BY <1>1, <1>2, FS_Subset
<1>8. n = 3 => 1..n = {1, 2, 3}
  OBVIOUS
<1>9. ASSUME NEW i \in 1..n, NEW k \in 1..n, i # k, B = {i, k} PROVE Cardinality(B) = 2
  BY <1>4, <1>9
<1> QED
  BY <1>2, <1>3, <1>5, <1>6, <1>7, <1>8, <1>9

\* The four ways to count the empty groups B of n, and where they may be.
ByCount(n, B) ==
    \/ B = {} /\ n = 8
    \/ n < 9 /\ \E k \in 2..(n - 1) : B = {k}
    \/ n < 10 /\ \E i \in {1, n}, k \in 2..(n - 1) : B = {i, k}
    \/ n = 3 /\ B = {1, 2, 3}
ByPlace(n, B) ==
    \/ n = 8 /\ B = {}
    \/ \E m \in 0..n, k \in 0..n : m + k < 8 /\ n = Side(m) + 1 + Side(k) /\ B = Gap(m, k, n)
    \/ n < 10 /\ \E i \in {1, n}, k \in 2..(n - 1) : B = {i, k}

LEMMA BlanksPlaced ==
    ASSUME NEW n \in Nat \ {0}, NEW B, B \subseteq 1..n
    PROVE  ByCount(n, B) <=> ByPlace(n, B)
<1> DEFINE Spans(m, k) == m + k < 8 /\ n = Side(m) + 1 + Side(k) /\ B = Gap(m, k, n)
<1> USE DEF Side, Gap
<1>1. ASSUME n < 9, NEW k \in 2..(n - 1), B = {k} PROVE k - 1 \in 0..n /\ n - k \in 0..n /\ Spans(k - 1, n - k)
  BY <1>1
<1>2. n = 3 /\ B = {1, 2, 3} => 0 \in 0..n /\ Spans(0, 0)
  OBVIOUS
<1>3. ASSUME NEW m \in 0..n, NEW k \in 0..n, Spans(m, k)
      PROVE  \/ n < 9 /\ \E j \in 2..(n - 1) : B = {j}
             \/ n < 10 /\ \E i \in {1, n}, j \in 2..(n - 1) : B = {i, j}
             \/ n = 3 /\ B = {1, 2, 3}
  <2>1. CASE m = 0 /\ k = 0
    BY <1>3, <2>1
  <2>2. CASE m = 0 /\ k # 0
    <3>1. n = 2 + k /\ B = {1, 2} /\ n < 10 /\ 2 \in 2..(n - 1)
      BY <1>3, <2>2
    <3> QED
      BY <3>1
  <2>3. CASE m # 0 /\ k = 0
    <3>1. n = m + 2 /\ B = {n, m + 1} /\ n < 10 /\ m + 1 \in 2..(n - 1)
      BY <1>3, <2>3
    <3> QED
      BY <3>1
  <2>4. CASE m # 0 /\ k # 0
    <3>1. n = m + 1 + k /\ B = {m + 1} /\ n < 9 /\ m + 1 \in 2..(n - 1)
      BY <1>3, <2>4
    <3> QED
      BY <3>1
  <2> QED
    BY <2>1, <2>2, <2>3, <2>4
<1> HIDE DEF Spans, Side, Gap
<1>4. \/ n < 9 /\ \E k \in 2..(n - 1) : B = {k}
      \/ n = 3 /\ B = {1, 2, 3}
      => \E m \in 0..n, k \in 0..n : Spans(m, k)
  <2>1. ASSUME n < 9, NEW k \in 2..(n - 1), B = {k} PROVE \E m \in 0..n, j \in 0..n : Spans(m, j)
    <3>1. k - 1 \in 0..n /\ n - k \in 0..n /\ Spans(k - 1, n - k)
      BY <1>1, <2>1
    <3> QED
      BY <3>1, Zenon
  <2> QED
    BY <1>2, <2>1
<1> QED
  BY <1>3, <1>4 DEF Spans, ByCount, ByPlace

LEMMA GroupsCounted ==
    ASSUME NEW ps \in Pieces
    PROVE  IsIPv6(Text(ps, 0)) = "yes" <=> ValidIPv6(ps) \/ StrayColon(ps)
<1> DEFINE n == Len(ps)
           B == Blanks(ps)
<1>1. /\ ps \in Seq(ToSet(ps)) /\ n \in Nat \ {0} /\ DOMAIN ps = 1..n
      /\ \A i \in 1..n : ps[i] = NoDigits \/ Group(ps[i])
  <2>1. ps \in Seq(ToSet(ps)) /\ ps # <<>> /\ \A p \in ToSet(ps) : p = NoDigits \/ Group(p)
    BY ValuesAssumption
  <2> QED
    BY <2>1
<1>2. B \subseteq 1..n /\ \A i \in 1..n : ps[i] = NoDigits <=> i \in B
  BY <1>1 DEF Blanks
<1>3. Last(ps) = ps[n] /\ Head(ps) = ps[1] /\ ps[n] \notin Dotted
  <2>1. NoDigits \notin Dotted
    BY Zenon DEF NoDigits, Dotted, Quad
  <2> QED
    BY <1>1, <2>1 DEF Last, Group
<1>4. IsIPv6(Text(ps, 0)) = "yes" <=>
        /\ n # 1
        /\ \/ Cardinality(B) = 0 /\ n - Cardinality(B) = 8
           \/ Cardinality(B) = 1 /\ ps[1] # NoDigits /\ ps[n] # NoDigits /\ n - Cardinality(B) < 8
           \/ Cardinality(B) = 2 /\ (ps[1] # NoDigits) # (ps[n] # NoDigits) /\ n - Cardinality(B) < 8
           \/ Cardinality(B) = 3 /\ n - Cardinality(B) = 0
  BY <1>1, <1>3 DEF IsIPv6, Text, Blanks
<1> HIDE DEF n, B
<1>5. IsIPv6(Text(ps, 0)) = "yes" <=> ByCount(n, B)
  <2>1. Cardinality(B) = 0 <=> B = {}
    BY <1>1, <1>2, CountedBlanks
  <2>6. /\ 1 \in 1..n /\ n \in 1..n
        /\ ps[1] = NoDigits <=> 1 \in B
        /\ ps[n] = NoDigits <=> n \in B
    BY <1>1, <1>2
  <2>2. n # 1 /\ Cardinality(B) = 1 /\ ps[1] # NoDigits /\ ps[n] # NoDigits <=> \E k \in 2..(n - 1) : B = {k}
    <3>1. Cardinality(B) = 1 <=> \E k \in 1..n : B = {k}
      BY <1>1, <1>2, CountedBlanks
    <3>2. ASSUME NEW k \in 1..n, B = {k} PROVE 1 \notin B /\ n \notin B <=> k \in 2..(n - 1)
      BY <1>1, <3>2
    <3>3. ASSUME NEW k \in 2..(n - 1) PROVE k \in 1..n /\ n # 1
      BY <1>1, <3>3
    <3>4. ASSUME n = 1, NEW k \in 1..n, B = {k} PROVE 1 \in B
      BY <3>4
    <3> QED
      BY <2>6, <3>1, <3>2, <3>3, <3>4
  <2>3. n # 1 /\ Cardinality(B) = 2 /\ (ps[1] # NoDigits) # (ps[n] # NoDigits)
        <=> \E i \in {1, n}, k \in 2..(n - 1) : B = {i, k}
    <3>1. Cardinality(B) = 2 <=> \E i \in 1..n, k \in 1..n : i # k /\ B = {i, k}
      BY <1>1, <1>2, CountedBlanks
    <3>2. (ps[1] # NoDigits) # (ps[n] # NoDigits) <=> ~(1 \in B <=> n \in B)
      BY <2>6
    <3>3. ASSUME NEW i \in 1..n, NEW k \in 1..n, i # k, B = {i, k}, ~(1 \in B <=> n \in B)
          PROVE  n # 1 /\ \E a \in {1, n}, b \in 2..(n - 1) : B = {a, b}
      <4>1. CASE i \in {1, n}
        <5>1. k \in 2..(n - 1)
          BY <1>1, <3>3, <4>1
        <5> QED
          BY <3>3, <4>1, <5>1
      <4>2. CASE i \notin {1, n}
        <5>1. k \in {1, n} /\ i \in 2..(n - 1) /\ B = {k, i}
          BY <1>1, <3>3, <4>2
        <5> QED
          BY <3>3, <5>1
      <4> QED
        BY <4>1, <4>2
    <3>4. ASSUME NEW i \in {1, n}, NEW k \in 2..(n - 1), B = {i, k}
          PROVE  i \in 1..n /\ k \in 1..n /\ i # k /\ n # 1 /\ ~(1 \in B <=> n \in B)
      BY <1>1, <3>4
    <3> QED
      BY <3>1, <3>2, <3>3, <3>4
  <2>4. Cardinality(B) = 3 /\ n = 3 <=> n = 3 /\ B = {1, 2, 3}
    BY <1>1, <1>2, CountedBlanks
  <2>5. Cardinality(B) \in Nat
    BY <1>1, <1>2, CountedBlanks
  <2> QED
    BY <1>1, <1>4, <2>1, <2>2, <2>3, <2>4, <2>5 DEF ByCount
<1>6. StrayColon(ps) <=> n < 10 /\ \E i \in {1, n}, k \in 2..(n - 1) : B = {i, k}
  BY <1>1 DEF StrayColon, Blanks, n, B
<1>7. ValidIPv6(ps) <=>
        \/ n = 8 /\ B = {}
        \/ \E m \in 0..n, k \in 0..n : m + k < 8 /\ n = Side(m) + 1 + Side(k) /\ B = Gap(m, k, n)
  <2>1. NoDigits \notin ToSet(ps) <=> B = {}
    BY <1>1, <1>2 DEF ToSet
  <2> QED
    BY <2>1, Zenon DEF ValidIPv6, n, B, Blanks
<1>8. ByCount(n, B) <=> ByPlace(n, B)
  BY <1>1, <1>2, BlanksPlaced
<1>9. ByPlace(n, B) <=> ValidIPv6(ps) \/ StrayColon(ps)
  BY <1>6, <1>7, Zenon DEF ByPlace
<1> QED
  BY <1>5, <1>8, <1>9

(* Whatever is written, cropped or restored, the value a reader gets is    *)
(* one its type allows, a restart loses only what JSON cannot represent, a *)
(* path is found again, the groups of an address are counted right, and    *)
(* the parameter types agree, for every descriptor and every value         *)
(* (validate_and_adapt() in properties.py and parameters.py, meta.py:665). *)
THEOREM AllValuesSurvive == ASSUME SearchesFromRoot PROVE ThingsSpec => []ValuesSurvive
<1>1. ThingsInit => ValuesInvariant
  BY ValuesInit DEF ThingsInit
<1>2. ValuesInvariant /\ [ThingsNext]_allVars => ValuesInvariant'
  <2>1. [ThingsNext]_allVars => [Next]_vars
    BY DEF ThingsNext, allVars
  <2> QED
    BY <2>1, ValuesNext
<1>3. ValuesInvariant => ValuesSurvive
  <2> SUFFICES ASSUME ValuesInvariant
               PROVE  /\ TypeOK /\ ReadsAreLegal /\ LosesOnlyUnrepresentable
                      /\ TwinsAgree /\ CountsGroups /\ PathReadsBack
    BY DEF ValuesSurvive
  <2>1. Accepted(d, Value)
    BY DEF ValuesInvariant, Value
  <2>2. ReadsAreLegal
    BY <2>1 DEF Accepted, ReadsAreLegal
  <2>3. PathReadsBack
    BY <2>1 DEF Accepted, PathReadsBack
  <2>4. CountsGroups
    BY GroupsCounted DEF CountsGroups
  <2> QED
    BY <2>2, <2>3, <2>4, TwinsFit DEF ValuesInvariant
<1> QED
  BY <1>1, <1>2, <1>3, PTL DEF ThingsSpec

(***************************************************************************)
(* The registry of adapters: SerializerRegistry.                           *)
(***************************************************************************)
\* A serializer that may be found under a name: registered, or built in.
Serves(f, n) == <<f, n>> \in Registrations \/ (n \in DOMAIN Modules /\ f = Modules[n])

(* Attributes and content types name serializers that serve them; a thread *)
(* imports one that is built in.                                           *)
AttributesFit == \A n \in Adapters!Names : attribute[n] # None => Serves(attribute[n], n)
NamesFit ==
    \A f \in Adapters!Formats : typeNames[f] # None =>
        /\ Serves(f, typeNames[f])
        /\ typeNames[f] \in DOMAIN Modules \/ attribute[typeNames[f]] # None
ImportsFit == \A t \in Importers : imports[t] # None => imports[t] \in DOMAIN Modules

\* The serializer of an object has a content type that is registered; so has
\* the default.
KnownOnly ==
    \A k \in Adapters!Owners \X Adapters!Keys : serializerOf[k] # None => typeNames[serializerOf[k]] # None
DefaultKnown == typeNames["json"] # None
SentFits == sent # None /\ sent.by # "event" => sent.label = sent.format /\ typeNames[sent.format] # None

TableFits == NamesFit /\ KnownOnly /\ DefaultKnown /\ SentFits

AdaptersInvariant ==
    /\ Adapters!TypeOK /\ AttributesFit /\ ImportsFit /\ TableFits
    /\ Adapters!PristineAfterReset /\ Adapters!LaterPreferred

(* The sets that names, formats and owners are from.                       *)
LEMMA AdaptersShape ==
    ASSUME Adapters!RegistryAssumption
    PROVE  /\ DOMAIN Modules \subseteq Adapters!Names /\ None \notin Adapters!Names
           /\ None \notin Adapters!Formats /\ "json" \in Adapters!Formats
           /\ \A n \in DOMAIN Modules : Modules[n] \in Adapters!Formats
           /\ {"default", "json"} \subseteq DOMAIN Modules /\ Modules["default"] = "json" /\ Modules["json"] = "json"
           /\ \A r \in Registrations : r[1] \in Adapters!Formats /\ r[2] \in Adapters!Names
           /\ \A thing \in EncodedThings : thing \in Adapters!Owners /\ ClassOf[thing] \in Adapters!Owners
           /\ EncodedObjects \subseteq Adapters!Keys /\ Adapters!Owners \subseteq Adapters!Keys
BY DEF Adapters!RegistryAssumption, Adapters!Names, Adapters!Formats, Adapters!Owners, Adapters!Keys,
       Adapters!Range

(* The table of content types, as it was imported.                         *)
LEMMA PristineFits ==
    ASSUME Adapters!RegistryAssumption
    PROVE  /\ Adapters!Pristine \in [Adapters!Formats -> Adapters!Names \cup {None}]
           /\ Adapters!Pristine["json"] # None
           /\ \A f \in Adapters!Formats : Adapters!Pristine[f] # None =>
                Adapters!Pristine[f] \in DOMAIN Modules /\ f = Modules[Adapters!Pristine[f]]
<1> USE AdaptersShape
<1>1. ASSUME NEW f \in Adapters!Formats
      PROVE  /\ Adapters!Pristine[f] \in Adapters!Names \cup {None}
             /\ Adapters!Pristine[f] # None => <<f, Adapters!Pristine[f]>> \in Registered
             /\ (\E n \in Adapters!Names : <<f, n>> \in Registered) => Adapters!Pristine[f] # None
  BY DEF Adapters!Pristine
<1>2. ASSUME NEW f, NEW n, <<f, n>> \in Registered PROVE n \in DOMAIN Modules /\ f = Modules[n]
  BY <1>2 DEF Adapters!RegistryAssumption
<1>3. <<"json", "json">> \in Registered
  BY DEF Adapters!RegistryAssumption
<1>4. Adapters!Pristine \in [Adapters!Formats -> Adapters!Names \cup {None}]
  BY <1>1 DEF Adapters!Pristine
<1> QED
  BY <1>1, <1>2, <1>3, <1>4

(* A name stands for one format.                                           *)
LEMMA OneFits ==
    ASSUME Adapters!OneFormatEach, NEW f, NEW g, NEW n, Serves(f, n), Serves(g, n) PROVE f = g
<1> DEFINE given == Registrations \cup {<<Modules[m], m>> : m \in DOMAIN Modules}
<1>1. <<f, n>> \in given /\ <<g, n>> \in given
  BY DEF Serves
<1>2. \A r, q \in given : r[2] = q[2] => r[1] = q[1]
  BY DEF Adapters!OneFormatEach
<1>3. <<f, n>>[2] = <<g, n>>[2] => <<f, n>>[1] = <<g, n>>[1]
  BY <1>1, <1>2
<1> QED
  BY <1>3

(* A serializer that is found by a registered content type has it.         *)
LEMMA FoundHasType ==
    ASSUME Adapters!RegistryAssumption, Adapters!OneFormatEach, AttributesFit, NamesFit,
           NEW f \in Adapters!Formats, typeNames \in [Adapters!Formats -> Adapters!Names \cup {None}],
           typeNames[f] # None
    PROVE  Adapters!OfType(f) = f
<1>1. PICK n \in Adapters!Names : n = typeNames[f]
  OBVIOUS
<1>2. Serves(f, n) /\ (n \in DOMAIN Modules \/ attribute[n] # None)
  BY <1>1 DEF NamesFit
<1>3. attribute[n] # None => Serves(attribute[n], n)
  BY <1>1 DEF AttributesFit
<1>4. n \in DOMAIN Modules => Serves(Modules[n], n)
  BY DEF Serves
<1>5. Adapters!Named(n) = f
  BY <1>2, <1>3, <1>4, OneFits DEF Adapters!Named
<1> QED
  BY <1>1, <1>5 DEF Adapters!OfType

(* What an object is encoded with has a content type that is registered.   *)
LEMMA EncodedIsKnown ==
    ASSUME Adapters!RegistryAssumption, Adapters!OneFormatEach, AdaptersInvariant,
           NEW thing \in EncodedThings, NEW o \in EncodedObjects,
           Adapters!ForObject(thing, o) # None
    PROVE  /\ Adapters!ForObject(thing, o) \in Adapters!Formats
           /\ typeNames[Adapters!ForObject(thing, o)] # None
<1> DEFINE found(w) == serializerOf[<<w, o>>] # None \/ typeOf[<<w, o>>] # None
           by(w) == IF serializerOf[<<w, o>>] # None THEN serializerOf[<<w, o>>]
                    ELSE Adapters!OfType(typeOf[<<w, o>>])
<1>1. /\ {serializerOf, typeOf} \subseteq [Adapters!Owners \X Adapters!Keys -> Adapters!Formats \cup {None}]
      /\ typeNames \in [Adapters!Formats -> Adapters!Names \cup {None}]
      /\ attribute \in [Adapters!Names -> Adapters!Formats \cup {None}]
  BY DEF AdaptersInvariant, Adapters!TypeOK
<1>2. AttributesFit /\ NamesFit /\ KnownOnly /\ DefaultKnown
  BY DEF AdaptersInvariant, TableFits
<1>3. ASSUME NEW w \in Adapters!Owners, found(w), by(w) # None
      PROVE  by(w) \in Adapters!Formats /\ typeNames[by(w)] # None
  <2>1. <<w, o>> \in Adapters!Owners \X Adapters!Keys
    BY AdaptersShape
  <2>2. CASE serializerOf[<<w, o>>] # None
    BY <1>1, <1>2, <2>1, <2>2 DEF KnownOnly
  <2>3. CASE serializerOf[<<w, o>>] = None
    <3>1. PICK f \in Adapters!Formats : f = typeOf[<<w, o>>]
      BY <1>1, <1>3, <2>1, <2>3
    <3>2. typeNames[f] # None
      BY <1>3, <2>3, <3>1 DEF Adapters!OfType
    <3>3. Adapters!OfType(f) = f
      BY <1>1, <1>2, <3>2, FoundHasType
    <3> QED
      BY <2>3, <3>1, <3>2, <3>3
  <2> QED
    BY <2>2, <2>3
<1>4. Adapters!Named("default") = "json"
  <2>1. attribute["default"] # None => Serves(attribute["default"], "default")
    BY <1>2, AdaptersShape DEF AttributesFit
  <2>2. Serves(Modules["default"], "default")
    BY AdaptersShape DEF Serves
  <2> QED
    BY <2>1, <2>2, OneFits, AdaptersShape DEF Adapters!Named
<1>5. Adapters!ForObject(thing, o) =
        IF found(thing) THEN by(thing)
        ELSE IF found(ClassOf[thing]) THEN by(ClassOf[thing]) ELSE "json"
  BY <1>4 DEF Adapters!ForObject
<1> HIDE DEF found, by
<1> QED
  BY <1>2, <1>3, <1>5, AdaptersShape DEF DefaultKnown

(* The registry is pristine at first.                                      *)
LEMMA AdaptersInit ==
    ASSUME Adapters!RegistryAssumption, Adapters!Init PROVE AdaptersInvariant
<1> USE AdaptersShape, PristineFits DEF Adapters!Init
<1>1. Adapters!TypeOK
  <2>1. /\ attribute \in [Adapters!Names -> Adapters!Formats \cup {None}]
        /\ imports \in [Importers -> Adapters!Names \cup {None}]
        /\ registrations \in 0 .. MaxRegistrations
    BY DEF Adapters!RegistryAssumption
  <2>2. {serializerOf, typeOf} \subseteq [Adapters!Owners \X Adapters!Keys -> Adapters!Formats \cup {None}]
    BY DEF Adapters!Nothing
  <2>3. predicates \in Seq(Validators) /\ flags \in Seq(Flags) /\ order \in Seq(Validators) \X Seq(Flags)
    <3>1. <<>> \in Seq(Validators) /\ <<>> \in Seq(Flags)
      OBVIOUS
    <3>2. predicates = <<>> /\ flags = <<>> /\ order = <<<<>>, <<>>>>
      BY Zenon
    <3>3. \A a \in Seq(Validators), b \in Seq(Flags) : <<a, b>> \in Seq(Validators) \X Seq(Flags)
      OBVIOUS
    <3>4. <<<<>>, <<>>>> \in Seq(Validators) \X Seq(Flags)
      BY <3>1, <3>3
    <3> QED
      BY Zenon, <3>1, <3>2, <3>4
  <2> QED
    BY <2>1, <2>2, <2>3 DEF Adapters!TypeOK
<1>2. AttributesFit /\ ImportsFit /\ Adapters!PristineAfterReset /\ Adapters!LaterPreferred
  BY DEF AttributesFit, ImportsFit, Adapters!PristineAfterReset, Adapters!LaterPreferred
<1>3. NamesFit /\ DefaultKnown
  BY DEF NamesFit, DefaultKnown, Serves
<1>4. KnownOnly /\ SentFits
  BY DEF KnownOnly, Adapters!Nothing, SentFits
<1> QED
  BY <1>1, <1>2, <1>3, <1>4 DEF AdaptersInvariant, TableFits

(* One element less, whichever is taken out.                               *)
LEMMA WithoutFacts ==
    ASSUME NEW S, NEW q \in Seq(S), NEW gone PROVE Adapters!Without(q, gone) \in Seq(S)
<1>1. CASE \E i \in DOMAIN q : q[i] \in gone
  <2>1. (CHOOSE i \in DOMAIN q : q[i] \in gone) \in DOMAIN q
    BY <1>1
  <2>2. \A k \in DOMAIN q : Adapters!RemoveAt(q, k) = RemoveAt(q, k)
    BY DEF Adapters!RemoveAt, RemoveAt
  <2> QED
    BY <1>1, <2>1, <2>2, RemoveAtIndex DEF Adapters!Without
<1>2. CASE ~\E i \in DOMAIN q : q[i] \in gone
  BY <1>2 DEF Adapters!Without
<1> QED
  BY <1>1, <1>2

(* Steps that leave the tables, what was sent and what was registered.     *)
LEMMA TablesSame ==
    ASSUME TableFits, UNCHANGED <<typeNames, serializerOf, sent>>,
           \A n \in Adapters!Names : attribute[n] # None => attribute'[n] # None,
           typeNames \in [Adapters!Formats -> Adapters!Names \cup {None}]
    PROVE  TableFits'
<1>1. NamesFit'
  BY DEF TableFits, NamesFit
<1> QED
  BY <1>1 DEF TableFits, KnownOnly, DefaultKnown, SentFits

(* An import sets what is built in under its name.                         *)
LEMMA ImportsKeep ==
    ASSUME Adapters!RegistryAssumption, AdaptersInvariant, NEW t \in Importers,
           \/ Adapters!Install(t)
           \/ \E n \in Adapters!Names : Adapters!Import(t, n)
    PROVE  AdaptersInvariant'
<1> USE AdaptersShape DEF AdaptersInvariant
<1>a. /\ attribute \in [Adapters!Names -> Adapters!Formats \cup {None}]
      /\ imports \in [Importers -> Adapters!Names \cup {None}]
      /\ typeNames \in [Adapters!Formats -> Adapters!Names \cup {None}]
  BY DEF Adapters!TypeOK
<1>1. CASE Adapters!Install(t)
  <2>1. PICK n \in DOMAIN Modules : n = imports[t] /\ n \in Adapters!Names
    BY <1>1 DEF Adapters!Install, ImportsFit
  <2>2. /\ attribute' = [attribute EXCEPT ![n] = Modules[n]]
        /\ imports' = [imports EXCEPT ![t] = None]
        /\ UNCHANGED <<typeNames, serializerOf, typeOf, touched, registrations, sent, predicates, flags, order>>
    BY <1>1, <2>1 DEF Adapters!Install, Adapters!precedence
  <2>3. Adapters!TypeOK'
    BY <2>2 DEF Adapters!TypeOK
  <2>4. AttributesFit'
    BY <1>a, <2>2 DEF AttributesFit, Serves
  <2>5. ImportsFit'
    BY <1>a, <2>2 DEF ImportsFit
  <2>6. TableFits'
    BY <1>a, <2>2, TablesSame
  <2>7. Adapters!PristineAfterReset'
    BY <1>a, <2>2 DEF Adapters!PristineAfterReset
  <2>8. Adapters!LaterPreferred'
    BY <2>2 DEF Adapters!LaterPreferred
  <2> QED
    BY <2>3, <2>4, <2>5, <2>6, <2>7, <2>8
<1>2. ASSUME NEW n \in Adapters!Names, Adapters!Import(t, n) PROVE AdaptersInvariant'
  <2>2. /\ imports' = [imports EXCEPT ![t] = n] /\ n \in DOMAIN Modules
        /\ UNCHANGED <<attribute, typeNames, serializerOf, typeOf, touched, registrations, sent,
                       predicates, flags, order>>
    BY <1>2 DEF Adapters!Import, Adapters!precedence
  <2>3. Adapters!TypeOK'
    BY <2>2 DEF Adapters!TypeOK
  <2>4. AttributesFit'
    BY <2>2 DEF AttributesFit
  <2>5. ImportsFit'
    BY <1>a, <2>2 DEF ImportsFit
  <2>6. TableFits'
    BY <1>a, <2>2, TablesSame
  <2>7. Adapters!PristineAfterReset' /\ Adapters!LaterPreferred'
    BY <2>2 DEF Adapters!PristineAfterReset, Adapters!LaterPreferred
  <2> QED
    BY <2>3, <2>4, <2>5, <2>6, <2>7
<1> QED
  BY <1>1, <1>2

(* A serializer that is registered serves its name, and its name finds a   *)
(* content type.                                                           *)
LEMMA RegisterKeeps ==
    ASSUME Adapters!RegistryAssumption, AdaptersInvariant,
           NEW r \in Registrations, NEW override \in BOOLEAN, Adapters!Register(r[1], r[2], override)
    PROVE  AdaptersInvariant'
<1> USE AdaptersShape DEF AdaptersInvariant
<1>a. /\ attribute \in [Adapters!Names -> Adapters!Formats \cup {None}]
      /\ typeNames \in [Adapters!Formats -> Adapters!Names \cup {None}]
      /\ serializerOf \in [Adapters!Owners \X Adapters!Keys -> Adapters!Formats \cup {None}]
      /\ sent \in Adapters!Payloads \cup {None}
  BY DEF Adapters!TypeOK
<1>1. PICK f \in Adapters!Formats, n \in Adapters!Names : f = r[1] /\ n = r[2]
  OBVIOUS
<1>2. /\ <<f, n>> \in Registrations
      /\ typeNames' = [typeNames EXCEPT ![f] = n] /\ attribute' = [attribute EXCEPT ![n] = f]
      /\ registrations < MaxRegistrations /\ registrations' = registrations + 1 /\ touched' = TRUE
      /\ UNCHANGED <<imports, serializerOf, typeOf, sent, predicates, flags, order>>
  BY <1>1 DEF Adapters!Register, Adapters!Counted, Adapters!precedence
<1>3. Adapters!TypeOK'
  BY <1>2 DEF Adapters!TypeOK, Adapters!RegistryAssumption
<1>4. AttributesFit' /\ ImportsFit'
  BY <1>a, <1>2 DEF AttributesFit, ImportsFit, Serves
<1>5. NamesFit'
  BY <1>a, <1>2 DEF TableFits, NamesFit, Serves
<1>6. KnownOnly' /\ DefaultKnown'
  BY <1>a, <1>2 DEF TableFits, KnownOnly, DefaultKnown
<1>7. SentFits'
  BY <1>a, <1>2 DEF TableFits, SentFits, Adapters!Payloads
<1>8. Adapters!PristineAfterReset' /\ Adapters!LaterPreferred'
  BY <1>2 DEF Adapters!PristineAfterReset, Adapters!LaterPreferred
<1> QED
  BY <1>3, <1>4, <1>5, <1>6, <1>7, <1>8 DEF TableFits

(* A reset is as good as the first state.                                  *)
LEMMA ResetKeeps ==
    ASSUME Adapters!RegistryAssumption, AdaptersInvariant, Adapters!Reset PROVE AdaptersInvariant'
<1> USE AdaptersShape, PristineFits DEF AdaptersInvariant
<1>1. /\ serializerOf' = Adapters!Nothing /\ typeOf' = Adapters!Nothing /\ typeNames' = Adapters!Pristine
      /\ attribute' = [n \in Adapters!Names |-> None] /\ touched' = FALSE /\ sent' = None
      /\ UNCHANGED <<imports, registrations, predicates, flags, order>>
  BY DEF Adapters!Reset, Adapters!precedence
<1>2. Adapters!TypeOK'
  <2>1. {serializerOf', typeOf'} \subseteq [Adapters!Owners \X Adapters!Keys -> Adapters!Formats \cup {None}]
    BY <1>1 DEF Adapters!Nothing
  <2>2. attribute' \in [Adapters!Names -> Adapters!Formats \cup {None}]
    BY <1>1
  <2> QED
    BY <1>1, <2>1, <2>2 DEF Adapters!TypeOK
<1>3. AttributesFit' /\ ImportsFit' /\ Adapters!PristineAfterReset' /\ Adapters!LaterPreferred'
  <2>1. Adapters!Pristine' = Adapters!Pristine
    BY DEF Adapters!Pristine
  <2> QED
    BY <1>1, <2>1 DEF AttributesFit, ImportsFit, Adapters!PristineAfterReset, Adapters!LaterPreferred
<1>4. NamesFit' /\ DefaultKnown'
  BY <1>1 DEF NamesFit, DefaultKnown, Serves
<1>5. KnownOnly' /\ SentFits'
  BY <1>1 DEF KnownOnly, SentFits, Adapters!Nothing
<1> QED
  BY <1>2, <1>3, <1>4, <1>5 DEF TableFits

(* A serializer or a content type is given to an object.                   *)
LEMMA ObjectsKeep ==
    ASSUME Adapters!RegistryAssumption, AdaptersInvariant,
           NEW w \in Adapters!Owners, NEW o \in Adapters!Keys, NEW f \in Adapters!Formats,
           Adapters!RegisterForObject(w, o, f) \/ Adapters!RegisterContentType(w, o, f)
    PROVE  AdaptersInvariant'
<1> USE AdaptersShape DEF AdaptersInvariant
<1>a. /\ serializerOf \in [Adapters!Owners \X Adapters!Keys -> Adapters!Formats \cup {None}]
      /\ typeOf \in [Adapters!Owners \X Adapters!Keys -> Adapters!Formats \cup {None}]
      /\ <<w, o>> \in Adapters!Owners \X Adapters!Keys
  BY DEF Adapters!TypeOK
<1>1. /\ registrations < MaxRegistrations /\ registrations' = registrations + 1 /\ touched' = TRUE
      /\ UNCHANGED <<attribute, imports, typeNames, sent, predicates, flags, order>>
      /\ \/ serializerOf' = [serializerOf EXCEPT ![<<w, o>>] = f] /\ typeNames[f] # None /\ typeOf' = typeOf
         \/ typeOf' = [typeOf EXCEPT ![<<w, o>>] = f] /\ serializerOf' = serializerOf
  BY DEF Adapters!RegisterForObject, Adapters!RegisterContentType, Adapters!Counted, Adapters!precedence
<1>2. Adapters!TypeOK'
  <2>1. {serializerOf', typeOf'} \subseteq [Adapters!Owners \X Adapters!Keys -> Adapters!Formats \cup {None}]
    BY <1>a, <1>1
  <2>2. registrations' \in 0 .. MaxRegistrations /\ touched' \in BOOLEAN
    BY <1>1 DEF Adapters!TypeOK, Adapters!RegistryAssumption
  <2> QED
    BY <1>1, <2>1, <2>2 DEF Adapters!TypeOK
<1>3. AttributesFit' /\ ImportsFit' /\ Adapters!PristineAfterReset' /\ Adapters!LaterPreferred'
  BY <1>1 DEF AttributesFit, ImportsFit, Adapters!PristineAfterReset, Adapters!LaterPreferred
<1>4. NamesFit' /\ DefaultKnown' /\ SentFits'
  BY <1>1 DEF TableFits, NamesFit, DefaultKnown, SentFits
<1>5. KnownOnly'
  BY <1>a, <1>1 DEF TableFits, KnownOnly
<1> QED
  BY <1>2, <1>3, <1>4, <1>5 DEF TableFits

(* What is encoded is labelled with a content type that is known.          *)
LEMMA SendKeeps ==
    ASSUME Adapters!RegistryAssumption, Adapters!OneFormatEach, AdaptersInvariant,
           NEW by \in {"reply", "event", "push"}, NEW thing \in EncodedThings, NEW o \in EncodedObjects,
           Adapters!Send(by, thing, o)
    PROVE  AdaptersInvariant'
<1> USE AdaptersShape DEF AdaptersInvariant
<1>1. PICK f \in Adapters!Formats : f = Adapters!ForObject(thing, o) /\ typeNames[f] # None
  BY EncodedIsKnown DEF Adapters!Send
<1>2. /\ sent' = [by |-> by, object |-> o, format |-> f, label |-> IF by = "event" THEN "json" ELSE f]
      /\ UNCHANGED <<attribute, imports, typeNames, serializerOf, typeOf, touched, registrations,
                     predicates, flags, order>>
  BY <1>1 DEF Adapters!Send, Adapters!Label, Adapters!precedence
<1>3. Adapters!TypeOK'
  BY <1>2 DEF Adapters!TypeOK, Adapters!Payloads
<1>4. AttributesFit' /\ ImportsFit' /\ Adapters!PristineAfterReset' /\ Adapters!LaterPreferred'
  BY <1>2 DEF AttributesFit, ImportsFit, Adapters!PristineAfterReset, Adapters!LaterPreferred
<1>5. NamesFit' /\ DefaultKnown' /\ KnownOnly'
  BY <1>2 DEF TableFits, NamesFit, DefaultKnown, KnownOnly
<1>6. SentFits'
  BY <1>1, <1>2 DEF SentFits
<1> QED
  BY <1>3, <1>4, <1>5, <1>6 DEF TableFits

(* A validator or a backend is registered.                                 *)
LEMMA PrecedenceKeeps ==
    ASSUME Adapters!RegistryAssumption, AdaptersInvariant,
           \/ \E v \in Validators : Adapters!RegisterValidator(v)
           \/ \E r \in Flags : Adapters!RegisterBackend(r)
    PROVE  AdaptersInvariant'
<1> USE DEF AdaptersInvariant
<1>a. /\ predicates \in Seq(Validators) /\ flags \in Seq(Flags)
      /\ order[1] \in Seq(Validators) /\ order[2] \in Seq(Flags)
  BY DEF Adapters!TypeOK
<1>b. /\ registrations < MaxRegistrations /\ registrations' = registrations + 1
      /\ UNCHANGED <<attribute, imports, typeNames, serializerOf, typeOf, touched, sent>>
  BY DEF Adapters!RegisterValidator, Adapters!RegisterBackend, Adapters!Counted
<1>c. /\ predicates' \in Seq(Validators) /\ flags' \in Seq(Flags)
      /\ order' \in Seq(Validators) \X Seq(Flags) /\ predicates' = order'[1]
  <2>1. ASSUME NEW v \in Validators, Adapters!RegisterValidator(v) PROVE <1>c!:
    <3>0. PICK w \in Seq(Validators) : w = Adapters!Without(predicates, {v})
      BY <1>a, WithoutFacts
    <3>1. Append(w, v) \in Seq(Validators)
      OBVIOUS
    <3>2. /\ predicates' = Append(w, v) /\ flags' = flags /\ order' = <<Append(w, v), order[2]>>
      BY <2>1, <3>0, <3>1 DEF Adapters!RegisterValidator, Adapters!LaterPreferred
    <3> QED
      BY <1>a, <3>1, <3>2
  <2>2. ASSUME NEW r \in Flags, Adapters!RegisterBackend(r) PROVE <1>c!:
    <3>1. PICK rest \in Seq(Flags) : rest = Adapters!Without(flags, {x \in Flags : x[1] = r[2]})
      BY <1>a, WithoutFacts
    <3>0. PICK w \in Seq(Flags) : w = Adapters!Without(order[2], {x \in Flags : x[1] = r[1]})
      BY <1>a, WithoutFacts
    <3>2. Append(w, r) \in Seq(Flags)
      OBVIOUS
    <3>3. /\ flags' = IF \E i \in DOMAIN rest : rest[i][1] = r[1]
                      THEN [i \in DOMAIN rest |-> IF rest[i][1] = r[1] THEN r ELSE rest[i]]
                      ELSE Append(rest, r)
          /\ order' = <<order[1], Append(w, r)>> /\ predicates' = predicates
      BY <2>2, <3>0, <3>1, <3>2 DEF Adapters!RegisterBackend
    <3>4. [i \in DOMAIN rest |-> IF rest[i][1] = r[1] THEN r ELSE rest[i]] \in Seq(Flags)
      OBVIOUS
    <3>5. flags' \in Seq(Flags)
      BY <3>3, <3>4
    <3> QED
      BY <1>a, <3>2, <3>3, <3>5 DEF Adapters!LaterPreferred
  <2> QED
    BY <2>1, <2>2
<1>1. Adapters!TypeOK'
  <2>1. registrations' \in 0 .. MaxRegistrations
    BY <1>b DEF Adapters!TypeOK, Adapters!RegistryAssumption
  <2>2. /\ attribute' \in [Adapters!Names -> Adapters!Formats \cup {None}]
        /\ imports' \in [Importers -> Adapters!Names \cup {None}]
        /\ typeNames' \in [Adapters!Formats -> Adapters!Names \cup {None}]
        /\ {serializerOf', typeOf'} \subseteq [Adapters!Owners \X Adapters!Keys -> Adapters!Formats \cup {None}]
        /\ touched' \in BOOLEAN /\ sent' \in Adapters!Payloads \cup {None}
    BY <1>b DEF Adapters!TypeOK
  <2> QED
    BY <1>c, <2>1, <2>2 DEF Adapters!TypeOK
<1>2. AttributesFit' /\ ImportsFit' /\ Adapters!PristineAfterReset'
  BY <1>b DEF AttributesFit, ImportsFit, Adapters!PristineAfterReset
<1>3. TableFits'
  BY <1>b DEF TableFits, NamesFit, DefaultKnown, KnownOnly, SentFits
<1> QED
  BY <1>c, <1>1, <1>2, <1>3 DEF Adapters!LaterPreferred

(* Each step keeps the invariant.                                          *)
LEMMA AdaptersNext ==
    ASSUME Adapters!RegistryAssumption, Adapters!OneFormatEach, AdaptersInvariant,
           [Adapters!Next]_Adapters!vars
    PROVE  AdaptersInvariant'
<1>1. CASE UNCHANGED Adapters!vars
  <2>1. UNCHANGED <<attribute, imports, typeNames, serializerOf, typeOf, touched, registrations, sent,
                    predicates, flags, order>>
    BY <1>1 DEF Adapters!vars, Adapters!precedence
  <2>2. Adapters!TypeOK' /\ AttributesFit' /\ ImportsFit'
    BY <2>1 DEF AdaptersInvariant, Adapters!TypeOK, AttributesFit, ImportsFit
  <2>3. TableFits' /\ Adapters!PristineAfterReset' /\ Adapters!LaterPreferred'
    BY <2>1 DEF AdaptersInvariant, TableFits, NamesFit, DefaultKnown, KnownOnly, SentFits,
                Adapters!PristineAfterReset, Adapters!LaterPreferred
  <2> QED
    BY <2>2, <2>3 DEF AdaptersInvariant
<1>2. ASSUME NEW t \in Importers, Adapters!Install(t) \/ \E n \in Adapters!Names : Adapters!Import(t, n)
      PROVE  AdaptersInvariant'
  BY <1>2, ImportsKeep
<1>3. ASSUME NEW r \in Registrations, NEW override \in BOOLEAN, Adapters!Register(r[1], r[2], override)
      PROVE  AdaptersInvariant'
  BY <1>3, RegisterKeeps
<1>4. ASSUME NEW w \in Adapters!Owners, NEW f \in Adapters!Formats,
             \/ \E o \in EncodedObjects :
                  Adapters!RegisterForObject(w, o, f) \/ Adapters!RegisterContentType(w, o, f)
             \/ Adapters!RegisterForObject(w, w, f)
      PROVE  AdaptersInvariant'
  BY <1>4, ObjectsKeep, AdaptersShape
<1>5. ASSUME NEW by \in {"reply", "event", "push"}, NEW thing \in EncodedThings, NEW o \in EncodedObjects,
             Adapters!Send(by, thing, o)
      PROVE  AdaptersInvariant'
  BY <1>5, SendKeeps
<1> QED
  BY <1>1, <1>2, <1>3, <1>4, <1>5, ResetKeeps, PrecedenceKeeps DEF Adapters!Next

(* A reply decodes, for what it was encoded with has a content type that   *)
(* leads to the serializer of that type.                                   *)
LEMMA AdaptersHold ==
    ASSUME Adapters!RegistryAssumption, Adapters!OneFormatEach, AdaptersInvariant
    PROVE  Adapters!TypeOK /\ Adapters!LabelDecodes /\ Adapters!PristineAfterReset /\ Adapters!LaterPreferred
<1>1. ASSUME sent # None, sent.by # "event" PROVE Adapters!Decodes(sent)
  <2>1. PICK f \in Adapters!Formats : f = sent.format /\ sent.label = f /\ typeNames[f] # None
    BY <1>1 DEF AdaptersInvariant, TableFits, SentFits, Adapters!TypeOK, Adapters!Payloads
  <2>2. Adapters!OfType(f) = f
    BY <2>1, FoundHasType DEF AdaptersInvariant, TableFits, Adapters!TypeOK
  <2> QED
    BY <2>1, <2>2 DEF Adapters!Decodes
<1> QED
  BY <1>1 DEF Adapters!LabelDecodes, AdaptersInvariant

(* A reply is decoded with the serializer it was encoded with, whatever    *)
(* names, formats, Things and threads there are, and whatever is           *)
(* registered, imported or reset meanwhile, unless one name is given to    *)
(* serializers of two content types (operations.py:360).                   *)
THEOREM AllAdaptersFit ==
    ASSUME Adapters!OneFormatEach PROVE ThingsSpec => []AdaptersFit
<1>1. ThingsInit => AdaptersInvariant
  BY ThingsAssumption, AdaptersInit DEF ThingsInit
<1>2. AdaptersInvariant /\ [ThingsNext]_allVars => AdaptersInvariant'
  <2>1. [ThingsNext]_allVars => [Adapters!Next]_Adapters!vars
    BY DEF ThingsNext, allVars, adaptersVars, Adapters!vars, Adapters!precedence
  <2> QED
    BY <2>1, ThingsAssumption, AdaptersNext
<1>3. AdaptersInvariant => AdaptersFit
  BY ThingsAssumption, AdaptersHold DEF AdaptersFit
<1> QED
  BY <1>1, <1>2, <1>3, PTL DEF ThingsSpec

(***************************************************************************)
(* Rows of a database: PropertyTables.                                     *)
(***************************************************************************)
TableSessions ==
    [at : {"idle", "selected"}, todo : SUBSET Columns, found : SUBSET Columns, each : BOOLEAN]

(* A Thing that was created holds values, and only it writes.              *)
HeldAreValues ==
    \A t \in TableThings : loaded[t] # None => loaded[t] \in [Columns -> TableValues]
SelectedIsCreated ==
    \A t \in TableThings : session[t].at = "selected" \/ batch[t] # None => loaded[t] # None

\* There is one row for a key and name, and it is what was written last.
RowsOnce == \A r, q \in rows : r.key = q.key /\ r.name = q.name => r = q
RowsFollow == \A r \in rows : r.value = written[<<r.key, r.name>>]
RowsThere ==
    \A k \in Tables!Keys \X Columns :
        written[k] # None => \E r \in rows : r.key = k[1] /\ r.name = k[2]
RowsInvariant ==
    /\ rows \subseteq Tables!Rows /\ written \in [Tables!Keys \X Columns -> TableValues \cup {None}]
    /\ RowsOnce /\ RowsFollow /\ RowsThere

\* What a Thing holds is stored, about to be stored, or collected.
Single(t) == \A u \in TableThings \ {t} : Tables!Key(u) # Tables!Key(t)
Pending(t, p) ==
    \/ session[t].at = "selected" /\ p \in session[t].todo
    \/ batch[t] # None /\ batch[t][p] # None
Followed(t) ==
    loaded[t] # None /\ t \notin broken /\ Single(t) =>
        \A p \in Tables!Loaded(t) : written[<<Tables!Key(t), p>>] = loaded[t][p] \/ Pending(t, p)

TablesInvariant ==
    /\ Tables!TypeOK /\ session \in [TableThings -> TableSessions]
    /\ HeldAreValues /\ SelectedIsCreated /\ RowsInvariant
    /\ \A t \in TableThings : Followed(t)

(* The sets that keys, formats and sessions are from.                      *)
LEMMA TablesShape ==
    ASSUME Tables!TablesAssumption
    PROVE  /\ None \notin TableValues /\ TableDefault \in TableValues
           /\ \A t \in TableThings : /\ Tables!Key(t) \in Tables!Keys
                                     /\ PropertiesOf[t] \subseteq Columns /\ Tables!Loaded(t) \subseteq Columns
           /\ Tables!Idle \in TableSessions /\ Tables!Idle.at = "idle"
           /\ \A e \in Encodings : e \in [Columns -> Tables!Formats]
           /\ \A k \in KnownFormats : k \subseteq Tables!Formats
           /\ Tables!NoValues \in [Columns -> TableValues \cup {None}]
           /\ \A f \in [Columns -> TableValues \cup {None}] : f # None
           /\ MaxStarts \in Nat /\ MaxWrites \in Nat
BY DEF Tables!TablesAssumption, Tables!Keys, Tables!Idle, TableSessions, Tables!Formats, Tables!Loaded,
       Tables!NoValues

\* Rows of some names are replaced, or are new, and have the values `vals`.
Replaced(K, N, vals, fresh) ==
    /\ K \in Tables!Keys /\ N \subseteq Columns /\ vals \in [Columns -> TableValues]
    /\ fresh \subseteq Tables!Rows
    /\ \A r \in fresh : r.key = K /\ r.name \in N /\ r.value = vals[r.name]
    /\ \A r, q \in fresh : r.name = q.name => r = q
    /\ \A p \in N : \E r \in fresh : r.name = p
    /\ \A r : r \in rows' <=> r \in fresh \/ (r \in rows /\ (r.key # K \/ r.name \notin N))
    /\ written' \in [Tables!Keys \X Columns -> TableValues \cup {None}]
    /\ \A k \in Tables!Keys \X Columns :
           written'[k] = IF k[1] = K /\ k[2] \in N THEN vals[k[2]] ELSE written[k]

(* Replacing rows keeps one row for each name, with what was written.      *)
LEMMA RowsReplaced ==
    ASSUME Tables!TablesAssumption, RowsInvariant, NEW K, NEW N, NEW vals, NEW fresh,
           Replaced(K, N, vals, fresh)
    PROVE  RowsInvariant'
<1> USE DEF Replaced
<1>a. /\ rows \subseteq Tables!Rows /\ written \in [Tables!Keys \X Columns -> TableValues \cup {None}]
      /\ RowsOnce /\ RowsFollow /\ RowsThere
  BY DEF RowsInvariant
<1>b. \A r \in Tables!Rows : r.key \in Tables!Keys /\ r.name \in Columns
  BY DEF Tables!Rows
<1>1. /\ rows' \subseteq Tables!Rows /\ written' \in [Tables!Keys \X Columns -> TableValues \cup {None}]
  BY <1>a
<1>2. RowsOnce'
  BY <1>a DEF RowsOnce
<1>3. RowsFollow'
  <2> SUFFICES ASSUME NEW r \in rows' PROVE r.value = written'[<<r.key, r.name>>]
    BY DEF RowsFollow
  <2>1. r.key \in Tables!Keys /\ r.name \in Columns
    BY <1>1, <1>b
  <2>2. written'[<<r.key, r.name>>] = IF r.key = K /\ r.name \in N THEN vals[r.name] ELSE written[<<r.key, r.name>>]
    BY <1>a, <2>1
  <2> QED
    BY <1>a, <2>2 DEF RowsFollow
<1>4. RowsThere'
  <2> SUFFICES ASSUME NEW k \in Tables!Keys \X Columns, written'[k] # None
               PROVE  \E r \in rows' : r.key = k[1] /\ r.name = k[2]
    BY DEF RowsThere
  <2>1. CASE k[1] = K /\ k[2] \in N
    BY <2>1
  <2>2. CASE ~(k[1] = K /\ k[2] \in N)
    <3>1. written[k] # None
      BY <1>a, <2>2
    <3>2. PICK r \in rows : r.key = k[1] /\ r.name = k[2]
      BY <1>a, <3>1 DEF RowsThere
    <3> QED
      BY <2>2, <3>2
  <2> QED
    BY <2>1, <2>2
<1> QED
  BY <1>1, <1>2, <1>3, <1>4 DEF RowsInvariant

(* What a commit stores of a property is one row.                          *)
LEMMA StoredIsRow ==
    ASSUME Tables!TablesAssumption, TablesInvariant, NEW t \in TableThings, NEW p \in Columns, loaded[t] # None
    PROVE  \E f \in Tables!Formats :
             Tables!Stored(t, p) = {[key |-> Tables!Key(t), name |-> p, value |-> loaded[t][p], format |-> f]}
<1> DEFINE row(f) == [key |-> Tables!Key(t), name |-> p, value |-> loaded[t][p], format |-> f]
<1> DEFINE f == serializer[p]
<1>1. f \in Tables!Formats /\ Tables!Row(t, p, loaded[t][p]) = row(f)
  BY TablesShape DEF TablesInvariant, Tables!TypeOK, Tables!Row
<1>2. CASE p \in session[t].found /\ Tables!Named(t, p) # {}
  <2>1. PICK r \in Tables!Named(t, p) : Tables!Named(t, p) = {r} /\ r \in Tables!Rows /\ r.name = p
    BY <1>2 DEF TablesInvariant, RowsInvariant, RowsOnce, Tables!Named, Tables!Of
  <2>2. Tables!ForRow(r) \in Tables!Formats
    BY <2>1, TablesShape DEF TablesInvariant, Tables!TypeOK, Tables!ForRow, Tables!Rows
  <2>3. Tables!Stored(t, p) =
          {[Tables!Row(t, p, loaded[t][p]) EXCEPT !.format = IF Backend = "sql" THEN Tables!ForRow(q) ELSE @] :
             q \in Tables!Named(t, p)}
    BY <1>2 DEF Tables!Stored
  <2>4. Tables!Stored(t, p) = {[row(f) EXCEPT !.format = IF Backend = "sql" THEN Tables!ForRow(r) ELSE f]}
    BY <1>1, <2>1, <2>3
  <2>5. [row(f) EXCEPT !.format = IF Backend = "sql" THEN Tables!ForRow(r) ELSE f]
          = row(IF Backend = "sql" THEN Tables!ForRow(r) ELSE f)
    OBVIOUS
  <2> QED
    BY <1>1, <2>2, <2>4, <2>5
<1>3. CASE ~(p \in session[t].found /\ Tables!Named(t, p) # {})
  <2>1. Tables!Stored(t, p) = {Tables!Row(t, p, loaded[t][p])}
    BY <1>3, Zenon DEF Tables!Stored
  <2> QED
    BY <1>1, <2>1
<1> QED
  BY <1>2, <1>3

(* There are no rows at first, and no Thing.                               *)
LEMMA TablesInit ==
    ASSUME Tables!TablesAssumption, Tables!Init PROVE TablesInvariant
<1> USE TablesShape DEF Tables!Init
<1>1. Tables!TypeOK
  <2>1. \A t \in TableThings : session[t].at \in {"idle", "selected"} /\ session[t].todo \subseteq Columns
    BY DEF Tables!Idle
  <2>2. starts \in 0 .. MaxStarts /\ writes \in 0 .. MaxWrites
    OBVIOUS
  <2>3. /\ loaded \in [TableThings -> [Columns -> TableValues \cup {None}] \cup {None}]
        /\ batch \in [TableThings -> [Columns -> TableValues \cup {None}] \cup {None}]
        /\ written \in [Tables!Keys \X Columns -> TableValues \cup {None}]
    OBVIOUS
  <2> QED
    BY <2>1, <2>2, <2>3 DEF Tables!TypeOK
<1>2. session \in [TableThings -> TableSessions] /\ HeldAreValues /\ SelectedIsCreated
  BY DEF HeldAreValues, SelectedIsCreated
<1>3. RowsInvariant
  BY DEF RowsInvariant, RowsOnce, RowsFollow, RowsThere
<1>4. \A t \in TableThings : Followed(t)
  BY DEF Followed
<1> QED
  BY <1>1, <1>2, <1>3, <1>4 DEF TablesInvariant

(* The types of what the steps change.                                     *)
LEMMA TablesTyped ==
    ASSUME TablesInvariant
    PROVE  /\ loaded \in [TableThings -> [Columns -> TableValues \cup {None}] \cup {None}]
           /\ batch \in [TableThings -> [Columns -> TableValues \cup {None}] \cup {None}]
           /\ session \in [TableThings -> TableSessions] /\ broken \subseteq TableThings
           /\ written \in [Tables!Keys \X Columns -> TableValues \cup {None}]
           /\ starts \in 0 .. MaxStarts /\ writes \in 0 .. MaxWrites
           /\ serializer \in Encodings /\ known \in KnownFormats
BY DEF TablesInvariant, Tables!TypeOK

(* What keeps the type invariant.                                          *)
LEMMA TablesTypedAgain ==
    ASSUME Tables!TablesAssumption,
           loaded' \in [TableThings -> [Columns -> TableValues \cup {None}] \cup {None}],
           batch' \in [TableThings -> [Columns -> TableValues \cup {None}] \cup {None}],
           session' \in [TableThings -> TableSessions], broken' \subseteq TableThings,
           starts' \in 0 .. MaxStarts, writes' \in 0 .. MaxWrites,
           serializer' \in Encodings, known' \in KnownFormats, RowsInvariant'
    PROVE  Tables!TypeOK'
<1>1. \A t \in TableThings : session'[t].at \in {"idle", "selected"} /\ session'[t].todo \subseteq Columns
  BY DEF TableSessions
<1> QED
  BY <1>1 DEF Tables!TypeOK, RowsInvariant

(* Things that a step does not concern follow what they followed.          *)
LEMMA OthersFollow ==
    ASSUME Tables!TablesAssumption, TablesInvariant, NEW t \in TableThings, NEW u \in TableThings \ {t},
           loaded'[u] = loaded[u], session'[u] = session[u], batch'[u] = batch[u], u \in broken => u \in broken',
           \A p \in Columns : Tables!Key(u) # Tables!Key(t) =>
               written'[<<Tables!Key(u), p>>] = written[<<Tables!Key(u), p>>]
    PROVE  Followed(u)'
<1>1. Followed(u)
  BY DEF TablesInvariant
<1>2. Single(u) => Tables!Key(u) # Tables!Key(t)
  BY DEF Single
<1>3. Tables!Loaded(u) \subseteq Columns
  BY TablesShape
<1> QED
  BY <1>1, <1>2, <1>3 DEF Followed, Pending, Single, Tables!Key, Tables!Loaded

(* A Thing that is created holds the values of its rows, and stores its    *)
(* defaults in the rows that are missing.                                  *)
LEMMA CreateKeeps ==
    ASSUME Tables!TablesAssumption, TablesInvariant, NEW t \in TableThings, Tables!Create(t)
    PROVE  TablesInvariant'
<1> USE TablesShape
<1> DEFINE N == Tables!Missing(t)  K == Tables!Key(t)  L == Tables!Loaded(t)
           mine == [p \in Columns |-> IF p \in L \ N THEN (CHOOSE r \in Tables!Named(t, p) : TRUE).value
                                      ELSE TableDefault]
           fresh == {Tables!Row(t, p, TableDefault) : p \in N}
<1>a. RowsInvariant /\ serializer \in Encodings
  BY DEF TablesInvariant, Tables!TypeOK
<1>1. /\ rows' = rows \cup fresh /\ loaded' = [loaded EXCEPT ![t] = mine]
      /\ written' = [k \in DOMAIN written |-> IF k[1] = K /\ k[2] \in N THEN TableDefault ELSE written[k]]
      /\ UNCHANGED <<serializer, known, starts, session, batch, broken, writes>>
      /\ loaded[t] = None
  BY DEF Tables!Create, Tables!process
<1>2. N \subseteq L /\ N \subseteq Columns /\ \A p \in N : Tables!Named(t, p) = {}
  BY DEF Tables!Missing
<1>3. ASSUME NEW p \in L \ N
      PROVE  /\ mine[p] \in TableValues /\ mine[p] = written[<<K, p>>]
  <2>1. PICK r \in Tables!Named(t, p) : r = (CHOOSE q \in Tables!Named(t, p) : TRUE)
    BY <1>3 DEF Tables!Missing
  <2>2. r \in rows /\ r.key = K /\ r.name = p
    BY <2>1 DEF Tables!Named, Tables!Of
  <2>3. r.value \in TableValues /\ r.value = written[<<K, p>>]
    BY <1>a, <2>2 DEF RowsInvariant, RowsFollow, Tables!Rows
  <2> QED
    BY <1>3, <2>1, <2>3
<1>4. mine \in [Columns -> TableValues]
  BY <1>3
<1>5. RowsInvariant'
  <2>1. fresh \in SUBSET Tables!Rows
    BY <1>a, <1>2 DEF Tables!Row, Tables!Rows
  <2>2. \A r \in fresh : r.key = K /\ r.name \in N /\ r.value = TableDefault
    BY DEF Tables!Row
  <2>3. ASSUME NEW r \in fresh, NEW q \in fresh, r.name = q.name PROVE r = q
    <3>1. PICK p \in N, o \in N : r = Tables!Row(t, p, TableDefault) /\ q = Tables!Row(t, o, TableDefault)
      OBVIOUS
    <3>2. r.name = p /\ q.name = o
      BY <3>1 DEF Tables!Row
    <3> QED
      BY <2>3, <3>1, <3>2
  <2>4. ASSUME NEW p \in N PROVE \E r \in fresh : r.name = p
    <3>1. Tables!Row(t, p, TableDefault) \in fresh /\ Tables!Row(t, p, TableDefault).name = p
      BY DEF Tables!Row
    <3> QED
      BY <3>1
  <2>5. \A r : r \in rows' <=> r \in fresh \/ (r \in rows /\ (r.key # K \/ r.name \notin N))
    BY <1>1, <1>2 DEF Tables!Named, Tables!Of
  <2> DEFINE vals == [p \in Columns |-> TableDefault]
  <2>6. vals \in [Columns -> TableValues] /\ \A p \in N : vals[p] = TableDefault
    BY <1>2
  <2>7. /\ written' \in [Tables!Keys \X Columns -> TableValues \cup {None}]
        /\ \A k \in Tables!Keys \X Columns :
              written'[k] = IF k[1] = K /\ k[2] \in N THEN vals[k[2]] ELSE written[k]
    BY <1>1, <2>6, TablesTyped
  <2> HIDE DEF vals, fresh, N
  <2>8. \A r \in fresh : r.key = K /\ r.name \in N /\ r.value = vals[r.name]
    BY <2>2, <2>6
  <2>9. K \in Tables!Keys /\ N \in SUBSET Columns
    BY <1>2
  <2> HIDE DEF K
  <2> QED
    <3>1. Replaced(K, N, vals, fresh)
      BY <2>1, <2>3, <2>4, <2>5, <2>6, <2>7, <2>8, <2>9 DEF Replaced
    <3> QED
      BY <1>a, <3>1, RowsReplaced
<1> HIDE DEF mine, fresh
<1>6. HeldAreValues' /\ SelectedIsCreated' /\ session' \in [TableThings -> TableSessions]
  <2>1. [Columns -> TableValues] \subseteq [Columns -> TableValues \cup {None}]
    OBVIOUS
  <2>2. mine # None
    BY <1>4, <2>1
  <2> QED
    BY <1>1, <1>4, <2>2, TablesTyped DEF TablesInvariant, HeldAreValues, SelectedIsCreated
<1>7. Tables!TypeOK'
  <2>1. [Columns -> TableValues] \subseteq [Columns -> TableValues \cup {None}]
    OBVIOUS
  <2> QED
    BY <1>1, <1>4, <1>5, <1>6, <2>1, TablesTyped, TablesTypedAgain
<1>8. Followed(t)'
  <2> SUFFICES ASSUME NEW p \in L PROVE written'[<<K, p>>] = loaded'[t][p]
    BY DEF Followed, Tables!Key, Tables!Loaded
  <2>1. loaded'[t] = mine
    BY <1>1, TablesTyped
  <2>2. <<K, p>> \in DOMAIN written /\ p \in Columns
    BY TablesTyped
  <2>3. written'[<<K, p>>] = IF p \in N THEN TableDefault ELSE written[<<K, p>>]
    BY <1>1, <2>2
  <2>4. p \in N => mine[p] = TableDefault
    BY <2>2 DEF mine
  <2> QED
    BY <1>3, <2>1, <2>3, <2>4
<1>9. ASSUME NEW u \in TableThings \ {t} PROVE Followed(u)'
  <2>1. ASSUME NEW p \in Columns, Tables!Key(u) # K
        PROVE  written'[<<Tables!Key(u), p>>] = written[<<Tables!Key(u), p>>]
    BY <1>1, <2>1, TablesTyped
  <2> QED
    BY <1>1, <2>1, TablesTyped, OthersFollow
<1> QED
  BY <1>5, <1>6, <1>7, <1>8, <1>9 DEF TablesInvariant

(* Steps that leave the rows.                                              *)
LEMMA RowsSame ==
    ASSUME RowsInvariant, UNCHANGED <<rows, written>> PROVE RowsInvariant'
BY DEF RowsInvariant, RowsOnce, RowsFollow, RowsThere

(* A write is held, and about to be stored.                                *)
LEMMA WriteKeeps ==
    ASSUME Tables!TablesAssumption, TablesInvariant, NEW t \in TableThings,
           NEW p \in PropertiesOf[t], NEW v \in TableValues, Tables!Write(t, p, v)
    PROVE  TablesInvariant'
<1> USE TablesShape
<1> DEFINE mine == [loaded[t] EXCEPT ![p] = v]
           now == [at |-> "selected", todo |-> {p}, found |-> {q \in {p} : Tables!Named(t, q) # {}}, each |-> FALSE]
<1>1. /\ loaded[t] # None /\ session[t] = Tables!Idle /\ writes < MaxWrites /\ writes' = writes + 1
      /\ loaded' = [loaded EXCEPT ![t] = mine]
      /\ UNCHANGED <<rows, serializer, known, starts, written, broken>>
      /\ \/ batch[t] # None /\ batch' = [batch EXCEPT ![t] = [batch[t] EXCEPT ![p] = v]] /\ session' = session
         \/ batch[t] = None /\ batch' = batch /\ session' = [session EXCEPT ![t] = now]
  BY DEF Tables!Write, Tables!Select, Tables!process
<1>2. p \in Columns /\ v # None /\ now \in TableSessions /\ now.at = "selected" /\ now.todo = {p}
  BY DEF TableSessions
<1>3. loaded[t] \in [Columns -> TableValues] /\ mine \in [Columns -> TableValues]
      /\ mine[p] = v /\ \A q \in Columns : q # p => mine[q] = loaded[t][q]
  BY <1>1, <1>2 DEF TablesInvariant, HeldAreValues
<1>4. [Columns -> TableValues] \subseteq [Columns -> TableValues \cup {None}]
  OBVIOUS
<1>5. batch[t] # None => /\ batch[t] \in [Columns -> TableValues \cup {None}]
                         /\ [batch[t] EXCEPT ![p] = v] \in [Columns -> TableValues \cup {None}]
  BY <1>2, TablesTyped
<1> HIDE DEF mine, now
<1>6. RowsInvariant'
  BY <1>1, RowsSame DEF TablesInvariant
<1>7. loaded' \in [TableThings -> [Columns -> TableValues \cup {None}] \cup {None}]
  BY <1>1, <1>3, <1>4, TablesTyped
<1>8. batch' \in [TableThings -> [Columns -> TableValues \cup {None}] \cup {None}]
  BY <1>1, <1>5, TablesTyped
<1>9. session' \in [TableThings -> TableSessions]
  BY <1>1, <1>2, TablesTyped
<1>10. writes' \in 0 .. MaxWrites
  BY <1>1, TablesTyped
<1>11. Tables!TypeOK'
  BY <1>1, <1>6, <1>7, <1>8, <1>9, <1>10, TablesTyped, TablesTypedAgain
<1>12. mine # None
  BY <1>3, <1>4
<1>13. HeldAreValues' /\ SelectedIsCreated'
  BY <1>1, <1>3, <1>12, TablesTyped DEF TablesInvariant, HeldAreValues, SelectedIsCreated
<1>14. Followed(t)'
  <2> SUFFICES ASSUME (loaded[t] # None /\ t \notin broken /\ Single(t))', NEW q \in Tables!Loaded(t)
               PROVE  written'[<<Tables!Key(t), q>>] = loaded'[t][q] \/ Pending(t, q)'
    BY DEF Followed, Tables!Key, Tables!Loaded
  <2>1. loaded'[t] = mine
    BY <1>1, TablesTyped
  <2>2. written[<<Tables!Key(t), q>>] = loaded[t][q] \/ Pending(t, q)
    BY <1>1 DEF TablesInvariant, Followed, Single, Tables!Key
  <2>3. CASE batch[t] # None
    <3>1. batch'[t] = [batch[t] EXCEPT ![p] = v] /\ batch'[t] # None
      BY <1>1, <1>5, <2>3, TablesTyped
    <3>2. CASE q = p
      BY <1>2, <1>5, <2>3, <3>1, <3>2 DEF Pending
    <3>3. CASE q # p
      <4>1. q \in Columns /\ mine[q] = loaded[t][q]
        BY <1>3, <3>3
      <4>2. batch'[t][q] = batch[t][q]
        BY <1>5, <2>3, <3>1, <3>3, <4>1
      <4>3. session[t].at # "selected"
        BY <1>1
      <4> QED
        BY <1>1, <2>1, <2>2, <3>1, <4>1, <4>2, <4>3 DEF Pending
    <3> QED
      BY <3>2, <3>3
  <2>4. CASE batch[t] = None
    <3>1. session'[t] = now
      BY <1>1, <2>4, TablesTyped
    <3>2. CASE q = p
      BY <1>2, <3>1, <3>2 DEF Pending
    <3>3. CASE q # p
      <4>1. q \in Columns /\ mine[q] = loaded[t][q]
        BY <1>3, <3>3
      <4>3. session[t].at # "selected"
        BY <1>1
      <4> QED
        BY <1>1, <2>1, <2>2, <2>4, <4>1, <4>3 DEF Pending
    <3> QED
      BY <3>2, <3>3
  <2> QED
    BY <2>3, <2>4
<1>15. ASSUME NEW u \in TableThings \ {t} PROVE Followed(u)'
  BY <1>1, TablesTyped, OthersFollow
<1> QED
  BY <1>6, <1>9, <1>11, <1>13, <1>14, <1>15 DEF TablesInvariant

(* A session that has stored some names, or failed to, goes on with the    *)
(* others.                                                                 *)
LEMMA AfterFacts ==
    ASSUME Tables!TablesAssumption, TablesInvariant, NEW t \in TableThings, NEW now \in Tables!Batches(t)
    PROVE  /\ now \subseteq session[t].todo /\ now \subseteq Columns
           /\ Tables!After(t, now) \in TableSessions
           /\ Tables!After(t, now) = Tables!Idle => now = session[t].todo \/ session[t] = Tables!Idle
           /\ session[t].at = "selected" =>
                \A p \in session[t].todo \ now :
                    Tables!After(t, now).at = "selected" /\ p \in Tables!After(t, now).todo
<1>1. session[t] \in TableSessions
  BY DEF TablesInvariant
<1>2. now \subseteq session[t].todo
  BY DEF Tables!Batches
<1>3. session[t].todo \subseteq Columns
  BY <1>1 DEF TableSessions
<1>4. CASE session[t].todo = now
  BY <1>2, <1>3, <1>4, TablesShape DEF Tables!After
<1>5. CASE session[t].todo # now
  <2>1. Tables!After(t, now) = [session[t] EXCEPT !.todo = session[t].todo \ now]
    BY <1>5 DEF Tables!After
  <2>2. /\ Tables!After(t, now).at = session[t].at /\ Tables!After(t, now).todo = session[t].todo \ now
        /\ Tables!After(t, now) \in TableSessions
    BY <1>1, <2>1 DEF TableSessions
  <2>3. session[t].todo \ now # {}
    BY <1>2, <1>5
  <2>4. Tables!After(t, now) # Tables!Idle
    BY <2>2, <2>3 DEF Tables!Idle
  <2> QED
    BY <1>2, <1>3, <2>2, <2>4
<1> QED
  BY <1>4, <1>5

(* A commit stores what is held, in the rows of its batch.                 *)
LEMMA CommitKeeps ==
    ASSUME Tables!TablesAssumption, TablesInvariant, NEW t \in TableThings, Tables!Commit(t)
    PROVE  TablesInvariant'
<1> USE TablesShape
<1> DEFINE K == Tables!Key(t)
<1>1. PICK N \in Tables!Batches(t) :
        /\ rows' = {r \in rows : r.key # K \/ r.name \notin N} \cup UNION {Tables!Stored(t, p) : p \in N}
        /\ written' = [k \in DOMAIN written |-> IF k[1] = K /\ k[2] \in N THEN loaded[t][k[2]] ELSE written[k]]
        /\ session' = [session EXCEPT ![t] = Tables!After(t, N)]
  BY DEF Tables!Commit
<1>2. /\ session[t].at = "selected"
      /\ UNCHANGED <<serializer, known, starts, loaded, batch, broken, writes>>
  BY DEF Tables!Commit, Tables!process
<1>3. loaded[t] # None /\ loaded[t] \in [Columns -> TableValues]
  BY <1>2 DEF TablesInvariant, HeldAreValues, SelectedIsCreated
<1>4. /\ N \subseteq session[t].todo /\ N \subseteq Columns /\ Tables!After(t, N) \in TableSessions
      /\ \A p \in session[t].todo \ N :
           Tables!After(t, N).at = "selected" /\ p \in Tables!After(t, N).todo
  BY <1>2, AfterFacts
<1> DEFINE fresh == UNION {Tables!Stored(t, p) : p \in N}
<1>5. ASSUME NEW p \in N
      PROVE  \E f \in Tables!Formats :
                Tables!Stored(t, p) = {[key |-> K, name |-> p, value |-> loaded[t][p], format |-> f]}
  BY <1>3, <1>4, StoredIsRow
<1>6. Replaced(K, N, loaded[t], fresh)
  <2>1. ASSUME NEW r \in fresh
        PROVE  /\ r \in Tables!Rows /\ r.key = K /\ r.name \in N /\ r.value = loaded[t][r.name]
               /\ Tables!Stored(t, r.name) = {r}
    <3>1. PICK p \in N : r \in Tables!Stored(t, p)
      OBVIOUS
    <3>2. PICK f \in Tables!Formats :
             Tables!Stored(t, p) = {[key |-> K, name |-> p, value |-> loaded[t][p], format |-> f]}
      BY <1>5
    <3>3. r = [key |-> K, name |-> p, value |-> loaded[t][p], format |-> f]
      BY <3>1, <3>2
    <3>4. p \in Columns /\ loaded[t][p] \in TableValues
      BY <1>3, <1>4
    <3>5. r \in Tables!Rows
      BY <3>3, <3>4 DEF Tables!Rows
    <3> QED
      BY <3>2, <3>3, <3>5
  <2>2. ASSUME NEW r \in fresh, NEW q \in fresh, r.name = q.name PROVE r = q
    BY <2>1, <2>2
  <2>3. ASSUME NEW p \in N PROVE \E r \in fresh : r.name = p
    <3>1. PICK f \in Tables!Formats :
             Tables!Stored(t, p) = {[key |-> K, name |-> p, value |-> loaded[t][p], format |-> f]}
      BY <1>5
    <3>2. [key |-> K, name |-> p, value |-> loaded[t][p], format |-> f] \in fresh
      BY <3>1
    <3> QED
      BY <3>2
  <2> HIDE DEF fresh
  <2>4. \A r : r \in rows' <=> r \in fresh \/ (r \in rows /\ (r.key # K \/ r.name \notin N))
    BY <1>1 DEF fresh
  <2>5. ASSUME NEW k \in Tables!Keys \X Columns
        PROVE  /\ written'[k] = IF k[1] = K /\ k[2] \in N THEN loaded[t][k[2]] ELSE written[k]
               /\ written'[k] \in TableValues \cup {None}
    BY <1>1, <1>3, <1>4, TablesTyped
  <2>6. written' \in [Tables!Keys \X Columns -> TableValues \cup {None}]
    BY <1>1, <2>5, TablesTyped
  <2> QED
    BY <1>3, <1>4, <2>1, <2>2, <2>3, <2>4, <2>5, <2>6 DEF Replaced
<1> HIDE DEF fresh
<1>7. RowsInvariant'
  BY <1>6, RowsReplaced DEF TablesInvariant
<1>8. session' \in [TableThings -> TableSessions]
  BY <1>1, <1>4, TablesTyped
<1>9. Tables!TypeOK'
  BY <1>2, <1>7, <1>8, TablesTyped, TablesTypedAgain
<1>10. HeldAreValues' /\ SelectedIsCreated'
  BY <1>1, <1>2, <1>3, TablesTyped DEF TablesInvariant, HeldAreValues, SelectedIsCreated
<1>11. Followed(t)'
  <2> SUFFICES ASSUME (loaded[t] # None /\ t \notin broken /\ Single(t))', NEW p \in Tables!Loaded(t)
               PROVE  written'[<<K, p>>] = loaded[t][p] \/ Pending(t, p)'
    BY <1>2 DEF Followed, Tables!Key, Tables!Loaded
  <2>1. written[<<K, p>>] = loaded[t][p] \/ Pending(t, p)
    BY <1>2 DEF TablesInvariant, Followed, Single, Tables!Key
  <2>2. written'[<<K, p>>] = IF p \in N THEN loaded[t][p] ELSE written[<<K, p>>]
    BY <1>1, TablesTyped
  <2>3. session'[t] = Tables!After(t, N)
    BY <1>1, TablesTyped
  <2> QED
    BY <1>2, <1>4, <2>1, <2>2, <2>3 DEF Pending
<1>12. ASSUME NEW u \in TableThings \ {t} PROVE Followed(u)'
  <2>1. ASSUME NEW p \in Columns, Tables!Key(u) # K
        PROVE  written'[<<Tables!Key(u), p>>] = written[<<Tables!Key(u), p>>]
    BY <1>1, <2>1, TablesTyped
  <2> QED
    BY <1>1, <1>2, <2>1, TablesTyped, OthersFollow
<1> QED
  BY <1>7, <1>8, <1>9, <1>10, <1>11, <1>12 DEF TablesInvariant

(* A creation or a commit that raises.                                     *)
LEMMA RaisesKeep ==
    ASSUME Tables!TablesAssumption, TablesInvariant, NEW t \in TableThings,
           Tables!CreateRaises(t) \/ Tables!CommitRaises(t)
    PROVE  TablesInvariant'
<1> USE TablesShape
<1>1. /\ UNCHANGED <<rows, serializer, known, starts, loaded, batch, written, writes>>
      /\ broken' = broken \cup {t}
      /\ \/ session' = session
         \/ \E now \in Tables!Batches(t) : session' = [session EXCEPT ![t] = Tables!After(t, now)]
      /\ session' = session \/ loaded[t] # None
  BY DEF Tables!CreateRaises, Tables!CommitRaises, Tables!process, TablesInvariant, SelectedIsCreated
<1>2. session' \in [TableThings -> TableSessions] /\ \A u \in TableThings \ {t} : session'[u] = session[u]
  BY <1>1, AfterFacts, TablesTyped
<1>3. RowsInvariant'
  BY <1>1, RowsSame DEF TablesInvariant
<1>4. Tables!TypeOK'
  BY <1>1, <1>2, <1>3, TablesTyped, TablesTypedAgain
<1>5. HeldAreValues' /\ SelectedIsCreated'
  BY <1>1, <1>2 DEF TablesInvariant, HeldAreValues, SelectedIsCreated
<1>6. Followed(t)'
  BY <1>1 DEF Followed
<1>7. ASSUME NEW u \in TableThings \ {t} PROVE Followed(u)'
  BY <1>1, <1>2, OthersFollow
<1> QED
  BY <1>2, <1>3, <1>4, <1>5, <1>6, <1>7 DEF TablesInvariant

(* A batch begins or ends; none is begun within another.                   *)
LEMMA BatchKeeps ==
    ASSUME Tables!TablesAssumption, ~Nested, TablesInvariant, NEW t \in TableThings,
           Tables!EnterBatch(t) \/ \E raised \in BOOLEAN : Tables!LeaveBatch(t, raised)
    PROVE  TablesInvariant'
<1> USE TablesShape
<1> DEFINE names == {p \in Columns : batch[t][p] # None}
           now(raised) == [at |-> "selected", todo |-> names,
                           found |-> {p \in names : Tables!Named(t, p) # {}}, each |-> raised]
<1>1. /\ UNCHANGED <<rows, serializer, known, starts, loaded, written, broken, writes>>
      /\ session[t] = Tables!Idle
      /\ \/ batch[t] = None /\ loaded[t] # None /\ batch' = [batch EXCEPT ![t] = Tables!NoValues] /\ session' = session
         \/ /\ batch[t] # None /\ batch' = [batch EXCEPT ![t] = None]
            /\ \/ names = {} /\ session' = session
               \/ \E raised \in BOOLEAN : session' = [session EXCEPT ![t] = now(raised)]
  BY DEF Tables!EnterBatch, Tables!LeaveBatch, Tables!Select, Tables!process
<1>2. \A raised \in BOOLEAN : now(raised) \in TableSessions /\ now(raised).at = "selected" /\ now(raised).todo = names
  BY DEF TableSessions
<1> HIDE DEF now
<1>3. session' \in [TableThings -> TableSessions] /\ \A u \in TableThings \ {t} : session'[u] = session[u]
  <2>1. session' = session \/ \E s \in TableSessions : session' = [session EXCEPT ![t] = s]
    BY <1>1, <1>2
  <2> QED
    BY <2>1, TablesTyped
<1>4. /\ batch' \in [TableThings -> [Columns -> TableValues \cup {None}] \cup {None}]
      /\ \A u \in TableThings \ {t} : batch'[u] = batch[u]
  BY <1>1, TablesTyped
<1>5. RowsInvariant'
  BY <1>1, RowsSame DEF TablesInvariant
<1>6. Tables!TypeOK'
  BY <1>1, <1>3, <1>4, <1>5, TablesTyped, TablesTypedAgain
<1>7. batch[t] # None => loaded[t] # None
  BY DEF TablesInvariant, SelectedIsCreated
<1>8. HeldAreValues' /\ SelectedIsCreated'
  BY <1>1, <1>3, <1>4, <1>7 DEF TablesInvariant, HeldAreValues, SelectedIsCreated
<1>9. Followed(t)'
  <2> SUFFICES ASSUME (loaded[t] # None /\ t \notin broken /\ Single(t))', NEW p \in Tables!Loaded(t)
               PROVE  written[<<Tables!Key(t), p>>] = loaded[t][p] \/ Pending(t, p)'
    BY <1>1 DEF Followed, Tables!Key, Tables!Loaded
  <2>1. written[<<Tables!Key(t), p>>] = loaded[t][p] \/ Pending(t, p)
    BY <1>1 DEF TablesInvariant, Followed, Single, Tables!Key
  <2>2. session[t].at # "selected"
    BY <1>1
  <2>3. Pending(t, p) => batch[t] # None /\ p \in names
    BY <2>2 DEF Pending
  <2>4. CASE Pending(t, p)
    <3>1. PICK raised \in BOOLEAN : session' = [session EXCEPT ![t] = now(raised)]
      BY <1>1, <2>3, <2>4
    <3> QED
      BY <1>2, <2>3, <2>4, <3>1, TablesTyped DEF Pending
  <2> QED
    BY <2>1, <2>4
<1>10. ASSUME NEW u \in TableThings \ {t} PROVE Followed(u)'
  BY <1>1, <1>3, <1>4, OthersFollow
<1> QED
  BY <1>3, <1>5, <1>6, <1>8, <1>9, <1>10 DEF TablesInvariant

(* Another process begins with what is stored.                             *)
LEMMA RestartKeeps ==
    ASSUME Tables!TablesAssumption, TablesInvariant, Tables!Restart PROVE TablesInvariant'
<1> USE TablesShape
<1>1. /\ starts < MaxStarts /\ starts' = starts + 1 /\ serializer' \in Encodings /\ known' \in KnownFormats
      /\ loaded' = [t \in TableThings |-> None] /\ session' = [t \in TableThings |-> Tables!Idle]
      /\ batch' = [t \in TableThings |-> None] /\ broken' = {} /\ UNCHANGED <<rows, written, writes>>
  BY DEF Tables!Restart
<1>2. RowsInvariant'
  BY <1>1, RowsSame DEF TablesInvariant
<1>3. session' \in [TableThings -> TableSessions] /\ starts' \in 0 .. MaxStarts
  BY <1>1, TablesTyped
<1>4. Tables!TypeOK'
  BY <1>1, <1>2, <1>3, TablesTyped, TablesTypedAgain
<1>5. HeldAreValues' /\ SelectedIsCreated' /\ \A t \in TableThings : Followed(t)'
  BY <1>1 DEF HeldAreValues, SelectedIsCreated, Followed
<1> QED
  BY <1>2, <1>3, <1>4, <1>5 DEF TablesInvariant

(* Each step keeps the invariant, when no batch begins within a batch.     *)
LEMMA TablesNext ==
    ASSUME Tables!TablesAssumption, ~Nested, TablesInvariant, [Tables!Next]_Tables!vars
    PROVE  TablesInvariant'
<1>1. CASE UNCHANGED Tables!vars
  <2>1. UNCHANGED <<rows, serializer, known, starts, loaded, session, batch, written, broken, writes>>
    BY <1>1 DEF Tables!vars, Tables!process
  <2>2. RowsInvariant'
    BY <2>1, RowsSame DEF TablesInvariant
  <2>3. Tables!TypeOK'
    BY <2>1, <2>2, TablesTyped, TablesTypedAgain
  <2>4. HeldAreValues' /\ SelectedIsCreated' /\ session' \in [TableThings -> TableSessions]
    BY <2>1 DEF TablesInvariant, HeldAreValues, SelectedIsCreated
  <2>5. \A t \in TableThings : Followed(t)'
    BY <2>1 DEF TablesInvariant, Followed, Pending, Single, Tables!Key, Tables!Loaded
  <2> QED
    BY <2>2, <2>3, <2>4, <2>5 DEF TablesInvariant
<1>2. ASSUME NEW t \in TableThings, NEW p \in PropertiesOf[t], NEW v \in TableValues, Tables!Write(t, p, v)
      PROVE  TablesInvariant'
  BY <1>2, WriteKeeps
<1>3. ASSUME NEW t \in TableThings,
             \/ Tables!Create(t) \/ Tables!CreateRaises(t) \/ Tables!Commit(t) \/ Tables!CommitRaises(t)
             \/ Tables!EnterBatch(t) \/ \E raised \in BOOLEAN : Tables!LeaveBatch(t, raised)
      PROVE  TablesInvariant'
  BY <1>3, CreateKeeps, CommitKeeps, RaisesKeep, BatchKeeps
<1> QED
  BY <1>1, <1>2, <1>3, RestartKeeps DEF Tables!Next

(* Cardinality is that of FiniteSets.                                      *)
LEMMA TablesCardinality == ASSUME NEW S PROVE Tables!Cardinality(S) = Cardinality(S)
BY DEF Tables!Cardinality, Cardinality

(* The invariant says what the properties do.                              *)
LEMMA TablesHold ==
    ASSUME Tables!TablesAssumption, TablesInvariant
    PROVE  Tables!TypeOK /\ Tables!RowsAreLastStored /\ Tables!QuietIsStored
<1>1. Tables!RowsAreLastStored
  <2> DEFINE of(k) == {r \in rows : r.key = k[1] /\ r.name = k[2]}
  <2>0. DOMAIN written = Tables!Keys \X Columns
    BY TablesTyped
  <2> SUFFICES ASSUME NEW k \in Tables!Keys \X Columns
               PROVE  /\ Cardinality(of(k)) = IF written[k] = None THEN 0 ELSE 1
                      /\ \A r \in of(k) : r.value = written[k]
    BY <2>0, TablesCardinality DEF Tables!RowsAreLastStored
  <2> DEFINE found == of(k)
  <2>1. ASSUME NEW r \in found PROVE r.value = written[k] /\ r.value \in TableValues
    <3>1. k = <<r.key, r.name>>
      OBVIOUS
    <3> QED
      BY <3>1 DEF TablesInvariant, RowsInvariant, RowsFollow, Tables!Rows
  <2>2. CASE written[k] = None
    <3>1. found = {}
      BY <2>1, <2>2, TablesShape
    <3> QED
      BY <2>2, <3>1, FS_EmptySet
  <2>3. CASE written[k] # None
    <3>1. PICK r \in found : found = {r}
      BY <2>3 DEF TablesInvariant, RowsInvariant, RowsThere, RowsOnce
    <3> QED
      BY <2>1, <2>3, <3>1, FS_Singleton
  <2> QED
    BY <2>2, <2>3
<1>2. Tables!QuietIsStored
  <2> SUFFICES ASSUME NEW t \in TableThings, NEW p \in Tables!Loaded(t),
                      loaded[t] # None, session[t] = Tables!Idle, batch[t] = None, t \notin broken,
                      \A u \in TableThings \ {t} : Tables!Key(u) # Tables!Key(t)
               PROVE  written[<<Tables!Key(t), p>>] = loaded[t][p]
    BY DEF Tables!QuietIsStored
  <2>1. written[<<Tables!Key(t), p>>] = loaded[t][p] \/ Pending(t, p)
    BY DEF TablesInvariant, Followed, Single
  <2> QED
    BY <2>1, TablesShape DEF Pending
<1> QED
  BY <1>1, <1>2 DEF TablesInvariant

(* A row is the last value stored for it, whichever Thing of its ID stored *)
(* it, and a Thing holds what its rows hold once its write or its batch    *)
(* has ended, for any Things, classes, properties, serializers and         *)
(* restarts, unless a batch begins within a batch (sqlalchemydb.py:469).   *)
THEOREM AllTablesFollow == ASSUME ~Nested PROVE ThingsSpec => []TablesFollow
<1>1. ThingsInit => TablesInvariant
  BY ThingsAssumption, TablesInit DEF ThingsInit
<1>2. TablesInvariant /\ [ThingsNext]_allVars => TablesInvariant'
  <2>1. [ThingsNext]_allVars => [Tables!Next]_Tables!vars
    BY DEF ThingsNext, allVars, tablesVars, Tables!vars, Tables!process
  <2> QED
    BY <2>1, ThingsAssumption, TablesNext
<1>3. TablesInvariant => TablesFollow
  BY ThingsAssumption, TablesHold DEF TablesFollow
<1> QED
  BY <1>1, <1>2, <1>3, PTL DEF ThingsSpec

(***************************************************************************)
(* The members that a Thing knows: ThingRegistries.                        *)
(***************************************************************************)
(* The registries, and what each is computed from and selects.             *)
RegistryNames == {"properties", "remote", "db", "db_init", "db_commit", "db_persisting", "events", "plain",
                  "change_events"}
FromOf(q) == Registries!Computed[q].from
SelectedBy(q) == Registries!Computed[q].of

\* What the registries show for members `ms` and the cache c.
Shows(ms, c, f) ==
    f = [q \in RegistryNames |->
            IF c[q] # None THEN c[q]
            ELSE SelectedBy(q) \cap (IF FromOf(q) = "class" THEN ms ELSE f[FromOf(q)])]
Shown(ms, c) == CHOOSE f : Shows(ms, c, f)

(* The nine registries and the ones they are computed from.                *)
LEMMA RegistriesShape ==
    /\ Registries!Registries = RegistryNames
    /\ FromOf("properties") = "class" /\ FromOf("events") = "class"
    /\ FromOf("remote") = "properties" /\ FromOf("db") = "properties"
    /\ FromOf("db_init") = "db" /\ FromOf("db_commit") = "db" /\ FromOf("db_persisting") = "db"
    /\ FromOf("plain") = "events" /\ FromOf("change_events") = "events"
    /\ SelectedBy("db_init") = PersistMembers \cup InitialMembers
    /\ SelectedBy("db") = PersistMembers \cup CommitMembers \cup InitialMembers
    /\ SelectedBy("properties") = MemberProperties
    /\ SelectedBy("events") = MemberEvents \cup Registries!ChangeEvents
    /\ SelectedBy("plain") = MemberEvents /\ SelectedBy("change_events") = Registries!ChangeEvents
BY DEF Registries!Registries, RegistryNames, FromOf, SelectedBy, Registries!Computed, Registries!Stored

(* What is shown is defined: a registry is three steps from the class at   *)
(* most.                                                                   *)
LEMMA ShownShows == ASSUME NEW ms, NEW c PROVE Shows(ms, c, Shown(ms, c))
<1> DEFINE step(f) == [q \in RegistryNames |->
                         IF c[q] # None THEN c[q]
                         ELSE SelectedBy(q) \cap (IF FromOf(q) = "class" THEN ms ELSE f[FromOf(q)])]
           f0 == [q \in RegistryNames |-> {}]
           f1 == step(f0)  f2 == step(f1)  f3 == step(f2)
<1>0. ASSUME NEW f, NEW q \in RegistryNames
      PROVE  step(f)[q] = IF c[q] # None THEN c[q]
                          ELSE SelectedBy(q) \cap (IF FromOf(q) = "class" THEN ms ELSE f[FromOf(q)])
  OBVIOUS
<1>a. ASSUME NEW f, NEW g, NEW q \in RegistryNames, FromOf(q) # "class" => f[FromOf(q)] = g[FromOf(q)]
      PROVE  step(f)[q] = step(g)[q]
  BY <1>0, <1>a
<1> HIDE DEF step, f0
<1>1. \A f, g : step(f)["properties"] = step(g)["properties"] /\ step(f)["events"] = step(g)["events"]
  <2> SUFFICES ASSUME NEW f, NEW g
               PROVE  step(f)["properties"] = step(g)["properties"] /\ step(f)["events"] = step(g)["events"]
    OBVIOUS
  <2> QED
    BY <1>a, RegistriesShape DEF RegistryNames
<1>2. \A f, g : \A q \in {"remote", "db", "plain", "change_events"} : step(step(f))[q] = step(step(g))[q]
  <2> SUFFICES ASSUME NEW f, NEW g, NEW q \in {"remote", "db", "plain", "change_events"}
               PROVE  step(step(f))[q] = step(step(g))[q]
    OBVIOUS
  <2>1. q \in RegistryNames /\ FromOf(q) \in {"properties", "events"}
    BY RegistriesShape DEF RegistryNames
  <2>2. step(f)[FromOf(q)] = step(g)[FromOf(q)]
    BY <1>1, <2>1
  <2> QED
    BY <1>a, <2>1, <2>2
<1>3. ASSUME NEW q \in RegistryNames PROVE step(f3)[q] = f3[q]
  <2>1. FromOf(q) \in {"class", "properties", "events", "db"}
    BY RegistriesShape DEF RegistryNames
  <2>2. FromOf(q) # "class" => f3[FromOf(q)] = f2[FromOf(q)]
    BY <1>1, <1>2, <2>1
  <2> QED
    BY <1>a, <2>2
<1>4. Shows(ms, c, f3)
  <2>1. step(f3) = f3
    <3>1. /\ step(f3) = [q \in RegistryNames |-> step(f3)[q]] /\ f3 = [q \in RegistryNames |-> f3[q]]
      BY DEF step
    <3> QED
      BY <1>3, <3>1
  <2> QED
    BY <2>1 DEF Shows, step
<1> QED
  BY <1>4 DEF Shown

(* A registry shows its cache, or else what it selects.                    *)
LEMMA ShownAt ==
    ASSUME NEW ms, NEW c, NEW q \in RegistryNames
    PROVE  /\ c[q] # None => Shown(ms, c)[q] = c[q]
           /\ c[q] = None /\ FromOf(q) = "class" => Shown(ms, c)[q] = SelectedBy(q) \cap ms
           /\ c[q] = None /\ FromOf(q) # "class" =>
                 Shown(ms, c)[q] = SelectedBy(q) \cap Shown(ms, c)[FromOf(q)]
<1> DEFINE f == Shown(ms, c)
<1>1. Shows(ms, c, f)
  BY ShownShows
<1> HIDE DEF f
<1>2. f[q] = IF c[q] # None THEN c[q]
             ELSE SelectedBy(q) \cap (IF FromOf(q) = "class" THEN ms ELSE f[FromOf(q)])
  BY <1>1 DEF Shows
<1> QED
  BY <1>2 DEF f

(* What the program shows is what is defined here.                         *)
LEMMA ContentsShown ==
    ASSUME NEW c PROVE \A q \in RegistryNames : Registries!Contents(c, q) = Shown(members, c)[q]
BY RegistriesShape DEF Registries!Contents, Shown, Shows, FromOf, SelectedBy

\* Registries whose contents are all that the class has.
Complete(ms, c) ==
    \A r \in RegistryNames \ {"db_commit", "plain"} : Shown(ms, c)[r] = ms \cap SelectedBy(r)

(* A cleared cache is complete.                                            *)
LEMMA CompleteIsCleared ==
    /\ Registries!ClearedSeesAllButTwo <=> (cleared.all => Complete(members, cache))
    /\ Registries!ClearedSeesAllButTwo' <=> (cleared'.all => Complete(members', cache'))
<1>1. Registries!ClearedSeesAllButTwo <=> (cleared.all => Complete(members, cache))
  BY RegistriesShape DEF Registries!ClearedSeesAllButTwo, Complete, Registries!Contents, Shown, Shows, FromOf,
     SelectedBy
<1>2. Registries!ClearedSeesAllButTwo' <=> (cleared'.all => Complete(members', cache'))
  BY RegistriesShape DEF Registries!ClearedSeesAllButTwo, Complete, Registries!Contents, Shown, Shows, FromOf,
     SelectedBy
<1> QED
  BY <1>1, <1>2

(* A registry that is read is computed, and what it is computed from.      *)
LEMMA EventsMiss ==
    cache["events"] = None => "events" \in Registries!Misses(cache, "events")
<1> DEFINE steps(f) == [q \in RegistryNames |->
                          IF cache[q] # None THEN {}
                          ELSE {q} \cup (IF FromOf(q) = "class" THEN {} ELSE f[FromOf(q)])]
           Missed(f) == f = steps(f)
           one(q) == IF cache[q] # None THEN {} ELSE {q}
           two(q) == IF cache[q] # None THEN {} ELSE {q} \cup one(FromOf(q))
           g == [q \in RegistryNames |->
                   IF FromOf(q) = "class" THEN one(q)
                   ELSE IF FromOf(q) = "db" THEN (IF cache[q] # None THEN {} ELSE {q} \cup two("db"))
                   ELSE two(q)]
<1>1. ASSUME NEW q \in RegistryNames PROVE steps(g)[q] = g[q]
  <2>1. \/ FromOf(q) = "class"
        \/ FromOf(q) \in RegistryNames /\ FromOf(FromOf(q)) = "class" /\ FromOf(q) # "db" /\ FromOf(q) # "class"
        \/ FromOf(q) = "db" /\ "db" \in RegistryNames /\ FromOf("db") # "class" /\ FromOf("db") # "db"
    BY RegistriesShape DEF RegistryNames
  <2>2. /\ steps(g)[q] = IF cache[q] # None THEN {}
                         ELSE {q} \cup (IF FromOf(q) = "class" THEN {} ELSE g[FromOf(q)])
        /\ \A p \in RegistryNames :
              g[p] = IF FromOf(p) = "class" THEN one(p)
                     ELSE IF FromOf(p) = "db" THEN (IF cache[p] # None THEN {} ELSE {p} \cup two("db"))
                     ELSE two(p)
    OBVIOUS
  <2> HIDE DEF g, steps
  <2> QED
    BY <2>1, <2>2
<1>2. Missed(g)
  <2>1. g = [q \in RegistryNames |-> g[q]] /\ steps(g) = [q \in RegistryNames |-> steps(g)[q]]
    OBVIOUS
  <2> HIDE DEF g, steps
  <2> QED
    BY <1>1, <2>1
<1> DEFINE missed == CHOOSE f : Missed(f)
<1>3. Registries!Misses(cache, "events") = missed["events"]
  BY RegistriesShape DEF Registries!Misses, FromOf
<1>4. Missed(missed)
  <2> HIDE DEF Missed
  <2> QED
    BY <1>2
<1> HIDE DEF missed, g
<1> QED
  BY <1>3, <1>4, RegistriesShape DEF RegistryNames

(* What a Thing reads once it reads again.                                 *)
LEMMA ReadShows ==
    ASSUME NEW ms, NEW c, NEW b,
           \A q \in RegistryNames : b[q] = c[q] \/ b[q] = Shown(ms, c)[q]
    PROVE  /\ \A q \in RegistryNames : Shown(ms, b)[q] = Shown(ms, c)[q]
           /\ \A q \in RegistryNames : c[q] # None => b[q] = c[q]
<1> DEFINE f == Shown(ms, c)  g == Shown(ms, b)
<1>1. ASSUME NEW q \in RegistryNames
      PROVE  /\ f[q] = IF c[q] # None THEN c[q]
                       ELSE SelectedBy(q) \cap (IF FromOf(q) = "class" THEN ms ELSE f[FromOf(q)])
             /\ g[q] = IF b[q] # None THEN b[q]
                       ELSE SelectedBy(q) \cap (IF FromOf(q) = "class" THEN ms ELSE g[FromOf(q)])
  <2>1. /\ c[q] # None => f[q] = c[q]
        /\ c[q] = None /\ FromOf(q) = "class" => f[q] = SelectedBy(q) \cap ms
        /\ c[q] = None /\ FromOf(q) # "class" => f[q] = SelectedBy(q) \cap f[FromOf(q)]
    BY ShownAt
  <2>2. /\ b[q] # None => g[q] = b[q]
        /\ b[q] = None /\ FromOf(q) = "class" => g[q] = SelectedBy(q) \cap ms
        /\ b[q] = None /\ FromOf(q) # "class" => g[q] = SelectedBy(q) \cap g[FromOf(q)]
    BY ShownAt
  <2> HIDE DEF f, g
  <2> QED
    BY <2>1, <2>2
<1> HIDE DEF f, g
<1>2. ASSUME NEW q \in RegistryNames PROVE c[q] # None => b[q] = c[q]
  BY <1>1 DEF f
<1>a. ASSUME NEW q \in RegistryNames, FromOf(q) # "class" => g[FromOf(q)] = f[FromOf(q)]
      PROVE  g[q] = f[q]
  BY <1>a, <1>1 DEF f
<1>3. g["properties"] = f["properties"] /\ g["events"] = f["events"]
  BY <1>a, RegistriesShape DEF RegistryNames
<1>4. g["db"] = f["db"]
  BY <1>3, <1>a, RegistriesShape DEF RegistryNames
<1>5. ASSUME NEW q \in RegistryNames PROVE g[q] = f[q]
  <2>1. FromOf(q) \in {"class", "properties", "events", "db"}
    BY RegistriesShape DEF RegistryNames
  <2> QED
    BY <1>3, <1>4, <1>a, <2>1
<1> QED
  BY <1>2, <1>5 DEF f, g

(***************************************************************************)
(* The invariant.                                                          *)
(***************************************************************************)

\* Members of the class that are not there yet have nothing stored.
LateAreNew == \A p \in MemberProperties \ members : p \in Late /\ stored[p] = None

\* The plain events that are described are events of the class, and of the
\* registry of events; which holds no more than its event loop knows.
PlainAreEvents ==
    Shown(members, cache)["plain"] \subseteq members \cap Shown(members, cache)["events"]
LoopKnows ==
    bus # None /\ ~cleared.unbound => cache["events"] # None /\ cache["events"] \subseteq registered[bus]

(* There are no event loops before the Thing is created.                   *)
UnmadeIsUnbound == ~made => bus = None

RegistriesInvariant ==
    /\ Registries!TypeOK /\ LateAreNew /\ UnmadeIsUnbound /\ PlainAreEvents /\ LoopKnows
    /\ Registries!ClearedSeesAllButTwo /\ Registries!StoredIsHeld

(* The invariant says what the property does.                              *)
LEMMA RegistriesHold == RegistriesInvariant => Registries!DescribedIsRegistered
<1>1. cache["events"] # None => Shown(members, cache)["events"] = cache["events"]
  BY ShownAt DEF RegistryNames
<1>2. Registries!Contents(cache, "plain") = Shown(members, cache)["plain"]
  BY ContentsShown DEF RegistryNames
<1> QED
  BY <1>1, <1>2 DEF RegistriesInvariant, Registries!DescribedIsRegistered, LoopKnows, PlainAreEvents

(* What is shown is a selection.                                           *)
LEMMA ContentsTyped ==
    ASSUME Registries!TypeOK, NEW q \in RegistryNames
    PROVE  Registries!Contents(cache, q) \subseteq SelectedBy(q)
<1>1. (Shown(members, cache)[q] = cache[q] /\ cache[q] # None)
        \/ Shown(members, cache)[q] \subseteq SelectedBy(q)
  BY ShownAt
<1> QED
  BY <1>1, ContentsShown, RegistriesShape DEF Registries!TypeOK, SelectedBy

\* A step that reads some registries, and leaves the class.
Reads == \A q \in RegistryNames : cache'[q] = cache[q] \/ cache'[q] = Registries!Contents(cache, q)

(* Reading changes nothing that a registry shows.                          *)
LEMMA ReadingKeeps ==
    ASSUME RegistriesInvariant, Reads, members' = members
    PROVE  /\ \A r \in RegistryNames : cache'[r] # None => cache'[r] \subseteq SelectedBy(r)
           /\ \A r \in RegistryNames : cache[r] # None => cache'[r] = cache[r]
           /\ PlainAreEvents'
           /\ (cleared'.all => cleared.all) => Registries!ClearedSeesAllButTwo'
<1>0. /\ \A q \in RegistryNames : Shown(members, cache')[q] = Shown(members, cache)[q]
      /\ \A q \in RegistryNames : cache[q] # None => cache'[q] = cache[q]
  <2>1. \A q \in RegistryNames : cache'[q] = cache[q] \/ cache'[q] = Shown(members, cache)[q]
    BY ContentsShown DEF Reads
  <2> QED
    BY <2>1, ReadShows
<1>1. \A q \in RegistryNames : Shown(members', cache')[q] = Shown(members, cache)[q]
  BY <1>0
<1>2. \A r \in RegistryNames : cache'[r] # None => cache'[r] \subseteq SelectedBy(r)
  BY ContentsTyped, RegistriesShape DEF RegistriesInvariant, Reads, Registries!TypeOK, SelectedBy
<1>3. PlainAreEvents'
  <2>1. "plain" \in RegistryNames /\ "events" \in RegistryNames
    BY DEF RegistryNames
  <2>2. PlainAreEvents' <=> Shown(members', cache')["plain"] \subseteq members' \cap Shown(members', cache')["events"]
    BY DEF PlainAreEvents, Shown, Shows, FromOf, SelectedBy
  <2> QED
    BY <1>1, <2>1, <2>2 DEF RegistriesInvariant, PlainAreEvents
<1>4. cleared.all => Complete(members', cache')
  <2>1. cleared.all => Complete(members, cache)
    BY CompleteIsCleared DEF RegistriesInvariant
  <2> QED
    BY <1>1, <2>1 DEF Complete
<1>5. Registries!ClearedSeesAllButTwo' <=> (cleared'.all => Complete(members', cache'))
  BY CompleteIsCleared
<1> QED
  BY <1>0, <1>2, <1>3, <1>4, <1>5

(* The types of what the steps change.                                     *)
LEMMA RegistriesTyped ==
    Registries!TypeOK <=>
    /\ members \subseteq MemberProperties \cup MemberEvents \cup Registries!ChangeEvents
    /\ \A r \in RegistryNames : cache[r] # None => cache[r] \subseteq SelectedBy(r)
    /\ dispatchers # None =>
         /\ DOMAIN dispatchers \subseteq MemberEvents \cup Registries!ChangeEvents
         /\ \A e \in DOMAIN dispatchers : dispatchers[e] \in Loops \cup {None}
    /\ value \in [MemberProperties -> MemberValues \cup {None}]
    /\ old \in [MemberProperties -> MemberValues \cup {None}]
    /\ stored \in [MemberProperties -> MemberValues \cup {None}]
    /\ told \in [MemberProperties -> MemberValues \cup {None}]
    /\ bus \in Loops \cup {None}
    /\ registered \in [Loops -> SUBSET (MemberEvents \cup Registries!ChangeEvents)]
    /\ made \in BOOLEAN /\ strayed \in BOOLEAN
    /\ cleared \in [all : BOOLEAN, unbound : BOOLEAN] /\ operations \in 0 .. MaxOperations
BY RegistriesShape DEF Registries!TypeOK, SelectedBy

(* What keeps the type invariant.                                          *)
LEMMA RegistriesTypedAgain ==
    ASSUME members' \subseteq MemberProperties \cup MemberEvents \cup Registries!ChangeEvents,
           \A r \in RegistryNames : cache'[r] # None => cache'[r] \subseteq SelectedBy(r),
           dispatchers' # None =>
             /\ DOMAIN dispatchers' \subseteq MemberEvents \cup Registries!ChangeEvents
             /\ \A e \in DOMAIN dispatchers' : dispatchers'[e] \in Loops \cup {None},
           value' \in [MemberProperties -> MemberValues \cup {None}],
           old' \in [MemberProperties -> MemberValues \cup {None}],
           stored' \in [MemberProperties -> MemberValues \cup {None}],
           told' \in [MemberProperties -> MemberValues \cup {None}],
           bus' \in Loops \cup {None},
           registered' \in [Loops -> SUBSET (MemberEvents \cup Registries!ChangeEvents)],
           made' \in BOOLEAN, strayed' \in BOOLEAN,
           cleared' \in [all : BOOLEAN, unbound : BOOLEAN], operations' \in 0 .. MaxOperations
    PROVE  Registries!TypeOK'
BY RegistriesShape DEF Registries!TypeOK, SelectedBy, Registries!ChangeEvents, Registries!ChangeEvent

(* A step that reads registries, and leaves the class and the event loops. *)
LEMMA QuietKeeps ==
    ASSUME RegistriesInvariant, Reads, UNCHANGED <<members, cleared, bus, registered>>
    PROVE  /\ \A r \in RegistryNames : cache'[r] # None => cache'[r] \subseteq SelectedBy(r)
           /\ PlainAreEvents' /\ LoopKnows' /\ Registries!ClearedSeesAllButTwo'
<1>1. LoopKnows'
  <2>1. "events" \in RegistryNames
    BY DEF RegistryNames
  <2>2. cache["events"] # None => cache'["events"] = cache["events"]
    BY <2>1, ReadingKeeps
  <2> QED
    BY <2>2 DEF RegistriesInvariant, LoopKnows
<1> QED
  BY <1>1, ReadingKeeps

\* The steps that do not touch the registries of the class.
LEMMA DictionaryStepsKeep ==
    ASSUME Registries!RegistriesAssumption, RegistriesInvariant,
           UNCHANGED <<members, cache, cleared, bus, registered, made, strayed>> /\ dispatchers' = dispatchers,
           operations' \in 0 .. MaxOperations,
           value' \in [MemberProperties -> MemberValues \cup {None}],
           old' \in [MemberProperties -> MemberValues \cup {None}],
           stored' \in [MemberProperties -> MemberValues \cup {None}],
           told' \in [MemberProperties -> MemberValues \cup {None}],
           \A p \in MemberProperties \ members : stored'[p] = stored[p],
           \A p \in PersistMembers : \/ stored'[p] = stored[p] /\ value'[p] = value[p]
                                    \/ stored'[p] = value'[p]
    PROVE  RegistriesInvariant'
<1>1. Reads
  BY DEF Reads
<1>2. Registries!TypeOK'
  <2>1. /\ members \subseteq MemberProperties \cup MemberEvents \cup Registries!ChangeEvents
        /\ dispatchers # None =>
             /\ DOMAIN dispatchers \subseteq MemberEvents \cup Registries!ChangeEvents
             /\ \A e \in DOMAIN dispatchers : dispatchers[e] \in Loops \cup {None}
        /\ bus \in Loops \cup {None} /\ made \in BOOLEAN /\ strayed \in BOOLEAN
        /\ registered \in [Loops -> SUBSET (MemberEvents \cup Registries!ChangeEvents)]
        /\ cleared \in [all : BOOLEAN, unbound : BOOLEAN]
    BY RegistriesTyped DEF RegistriesInvariant
  <2>2. \A r \in RegistryNames : cache'[r] # None => cache'[r] \subseteq SelectedBy(r)
    BY <1>1, QuietKeeps
  <2> QED
    BY <2>1, <2>2, RegistriesTypedAgain
<1>3. LateAreNew' /\ UnmadeIsUnbound' /\ Registries!StoredIsHeld'
  BY DEF RegistriesInvariant, LateAreNew, UnmadeIsUnbound, Registries!StoredIsHeld
<1> QED
  BY <1>1, <1>2, <1>3, QuietKeeps DEF RegistriesInvariant

(* A write or a read of a property stores what it holds.                   *)
LEMMA DictionaryKeeps ==
    ASSUME Registries!RegistriesAssumption, RegistriesInvariant,
           NEW p \in MemberProperties, NEW v \in MemberValues, Registries!Write(p, v) \/ Registries!ReadProperty(p)
    PROVE  RegistriesInvariant'
<1>0. /\ value \in [MemberProperties -> MemberValues \cup {None}]
      /\ old \in [MemberProperties -> MemberValues \cup {None}]
      /\ stored \in [MemberProperties -> MemberValues \cup {None}]
      /\ told \in [MemberProperties -> MemberValues \cup {None}]
      /\ operations \in 0 .. MaxOperations
  BY RegistriesTyped DEF RegistriesInvariant
<1>1. PICK w \in MemberValues \cup {None} : Registries!PushChange(p, w)
  BY <1>0 DEF Registries!Write, Registries!ReadProperty
<1>2. /\ p \in members /\ operations < MaxOperations /\ operations' = operations + 1
      /\ UNCHANGED <<members, cache, dispatchers, made, bus, registered, strayed, cleared>>
  BY DEF Registries!Write, Registries!ReadProperty, Registries!Operation
<1>3. /\ old' = old \/ old' = [old EXCEPT ![p] = w]
      /\ told' = told \/ told' = [told EXCEPT ![p] = w]
  BY <1>1 DEF Registries!PushChange
<1>4. \/ UNCHANGED <<value, stored>>
      \/ /\ value' = [value EXCEPT ![p] = v]
         /\ stored' = IF p \in PersistMembers \cup CommitMembers THEN [stored EXCEPT ![p] = v] ELSE stored
  BY DEF Registries!Write, Registries!ReadProperty
<1>5. /\ old' \in [MemberProperties -> MemberValues \cup {None}]
      /\ told' \in [MemberProperties -> MemberValues \cup {None}]
  BY <1>0, <1>3
<1>6. /\ value' \in [MemberProperties -> MemberValues \cup {None}]
      /\ stored' \in [MemberProperties -> MemberValues \cup {None}]
      /\ \A q \in MemberProperties \ members : stored'[q] = stored[q]
      /\ \A q \in MemberProperties : q # p => stored'[q] = stored[q] /\ value'[q] = value[q]
  BY <1>0, <1>2, <1>4
<1>7. p \in PersistMembers => (stored'[p] = stored[p] /\ value'[p] = value[p]) \/ stored'[p] = value'[p]
  BY <1>0, <1>4
<1>8. PersistMembers \subseteq MemberProperties /\ MaxOperations \in Nat
  BY DEF Registries!RegistriesAssumption
<1>9. operations' \in 0 .. MaxOperations
  BY <1>0, <1>2, <1>8
<1> QED
  BY <1>2, <1>5, <1>6, <1>7, <1>8, <1>9, DictionaryStepsKeep

(* What Read() gives.                                                      *)
LEMMA ReadIsReads ==
    ASSUME NEW r \in RegistryNames, cache' = Registries!Read(cache, r)
    PROVE  Reads
BY RegistriesShape DEF Reads, Registries!Read

\* The operations that read: a registry, the dispatchers, one of them.
LEMMA ReadingStepsKeep ==
    ASSUME Registries!RegistriesAssumption, RegistriesInvariant,
           \/ \E r \in RegistryNames : Registries!ReadRegistry(r)
           \/ Registries!ReadDispatchers
           \/ \E e \in MemberEvents \cup Registries!ChangeEvents : Registries!PushCached(e)
    PROVE  RegistriesInvariant'
<1> DEFINE es == MemberEvents \cup Registries!ChangeEvents
           Typed(f) == DOMAIN f \subseteq es /\ \A e \in DOMAIN f : f[e] \in Loops \cup {None}
<1>0. /\ members \subseteq MemberProperties \cup MemberEvents \cup Registries!ChangeEvents
      /\ dispatchers # None => Typed(dispatchers)
      /\ value \in [MemberProperties -> MemberValues \cup {None}]
      /\ old \in [MemberProperties -> MemberValues \cup {None}]
      /\ stored \in [MemberProperties -> MemberValues \cup {None}]
      /\ told \in [MemberProperties -> MemberValues \cup {None}]
      /\ bus \in Loops \cup {None} /\ made \in BOOLEAN /\ strayed \in BOOLEAN
      /\ registered \in [Loops -> SUBSET es]
      /\ cleared \in [all : BOOLEAN, unbound : BOOLEAN] /\ operations \in 0 .. MaxOperations
  BY RegistriesTyped DEF RegistriesInvariant
<1>1. /\ operations < MaxOperations /\ operations' = operations + 1
      /\ UNCHANGED <<members, made, value, old, stored, told, bus, registered, cleared>>
  BY DEF Registries!ReadRegistry, Registries!ReadDispatchers, Registries!PushCached, Registries!Operation,
         Registries!kept
<1>2. Reads
  <2>1. (\E r \in RegistryNames : cache' = Registries!Read(cache, r)) \/ cache' = cache
    BY DEF Registries!ReadRegistry, Registries!ReadDispatchers, Registries!PushCached, RegistryNames
  <2> QED
    BY <2>1, ReadIsReads DEF Reads
<1>3. dispatchers' = dispatchers \/ dispatchers' = [e \in Registries!Contents(cache, "events") |-> bus]
  BY DEF Registries!ReadRegistry, Registries!ReadDispatchers, Registries!PushCached
<1>4. Typed([e \in Registries!Contents(cache, "events") |-> bus])
  <2>1. Registries!Contents(cache, "events") \subseteq es
    BY ContentsTyped, RegistriesShape DEF RegistriesInvariant, RegistryNames
  <2> QED
    BY <1>0, <2>1
<1>5. strayed' \in BOOLEAN
  <2>1. \/ strayed' = strayed
        \/ \E e \in MemberEvents \cup Registries!ChangeEvents :
              strayed' = (strayed \/ (dispatchers[e] \notin {None, bus} /\ e \in registered[dispatchers[e]]))
    BY DEF Registries!ReadRegistry, Registries!ReadDispatchers, Registries!PushCached
  <2> QED
    BY <1>0, <2>1
<1>6. operations' \in 0 .. MaxOperations
  BY <1>0, <1>1 DEF Registries!RegistriesAssumption
<1>7. Registries!TypeOK'
  <2>1. \A r \in RegistryNames : cache'[r] # None => cache'[r] \subseteq SelectedBy(r)
    BY <1>1, <1>2, QuietKeeps
  <2>2. dispatchers' # None => Typed(dispatchers')
    <3> HIDE DEF Typed
    <3> QED
      BY <1>0, <1>3, <1>4
  <2> QED
    BY <1>0, <1>1, <1>5, <1>6, <2>1, <2>2, RegistriesTypedAgain
<1>8. LateAreNew' /\ UnmadeIsUnbound' /\ Registries!StoredIsHeld'
  BY <1>1 DEF RegistriesInvariant, LateAreNew, UnmadeIsUnbound, Registries!StoredIsHeld
<1> QED
  BY <1>1, <1>2, <1>7, <1>8, QuietKeeps DEF RegistriesInvariant

(* What is shown when nothing is computed, or all that clear() leaves.     *)
LEMMA ClearedShows ==
    ASSUME Registries!RegistriesAssumption, NEW ms, NEW c,
           \A q \in RegistryNames \ {"db_commit", "plain"} : c[q] = None
    PROVE  /\ Complete(ms, c)
           /\ c["plain"] = None => Shown(ms, c)["plain"] = ms \cap MemberEvents
<1>1. /\ Shown(ms, c)["properties"] = ms \cap SelectedBy("properties")
      /\ Shown(ms, c)["events"] = ms \cap SelectedBy("events")
  BY ShownAt, RegistriesShape DEF RegistryNames
<1>2. /\ \A q \in {"remote", "db"} : Shown(ms, c)[q] = SelectedBy(q) \cap Shown(ms, c)["properties"]
      /\ \A q \in {"db_init", "db_persisting"} : Shown(ms, c)[q] = SelectedBy(q) \cap Shown(ms, c)["db"]
      /\ Shown(ms, c)["change_events"] = SelectedBy("change_events") \cap Shown(ms, c)["events"]
      /\ c["plain"] = None => Shown(ms, c)["plain"] = SelectedBy("plain") \cap Shown(ms, c)["events"]
  BY ShownAt, RegistriesShape DEF RegistryNames
<1>3. /\ SelectedBy("remote") \subseteq SelectedBy("properties")
      /\ SelectedBy("db") \subseteq SelectedBy("properties")
      /\ SelectedBy("db_init") \subseteq SelectedBy("db") /\ SelectedBy("db_persisting") \subseteq SelectedBy("db")
      /\ SelectedBy("change_events") \subseteq SelectedBy("events")
      /\ SelectedBy("plain") \subseteq SelectedBy("events") /\ SelectedBy("plain") = MemberEvents
  BY DEF SelectedBy, Registries!Computed, Registries!Stored, Registries!RegistriesAssumption
<1>4. Complete(ms, c)
  BY <1>1, <1>2, <1>3 DEF Complete, RegistryNames
<1> QED
  BY <1>1, <1>2, <1>3, <1>4

\* The types of what the other steps leave.
TypedParts ==
    /\ members \subseteq MemberProperties \cup MemberEvents \cup Registries!ChangeEvents
    /\ dispatchers # None =>
         /\ DOMAIN dispatchers \subseteq MemberEvents \cup Registries!ChangeEvents
         /\ \A e \in DOMAIN dispatchers : dispatchers[e] \in Loops \cup {None}
    /\ value \in [MemberProperties -> MemberValues \cup {None}]
    /\ old \in [MemberProperties -> MemberValues \cup {None}]
    /\ stored \in [MemberProperties -> MemberValues \cup {None}]
    /\ told \in [MemberProperties -> MemberValues \cup {None}]
    /\ bus \in Loops \cup {None} /\ made \in BOOLEAN /\ strayed \in BOOLEAN
    /\ registered \in [Loops -> SUBSET (MemberEvents \cup Registries!ChangeEvents)]
    /\ cleared \in [all : BOOLEAN, unbound : BOOLEAN]

(* clear() of both registries.                                             *)
LEMMA ClearKeeps ==
    ASSUME Registries!RegistriesAssumption, RegistriesInvariant, Registries!Clear
    PROVE  RegistriesInvariant'
<1>0. TypedParts /\ operations \in 0 .. MaxOperations
      /\ \A r \in RegistryNames : cache[r] # None => cache[r] \subseteq SelectedBy(r)
  BY RegistriesTyped DEF RegistriesInvariant, TypedParts
<1>1. /\ operations < MaxOperations /\ operations' = operations + 1
      /\ cache' = [r \in RegistryNames |-> IF r \in {"db_commit", "plain"} THEN cache[r] ELSE None]
      /\ dispatchers' = None /\ cleared' = [all |-> TRUE, unbound |-> bus # None]
      /\ UNCHANGED <<members, made, value, old, stored, told, bus, registered, strayed>>
  BY RegistriesShape DEF Registries!Clear, Registries!Operation, Registries!kept
<1>2. Registries!TypeOK'
  <2>1. operations' \in 0 .. MaxOperations
    BY <1>0, <1>1 DEF Registries!RegistriesAssumption
  <2>2. \A r \in RegistryNames : cache'[r] # None => cache'[r] \subseteq SelectedBy(r)
    BY <1>0, <1>1
  <2>3. cleared' \in [all : BOOLEAN, unbound : BOOLEAN]
    BY <1>1
  <2> QED
    BY <1>0, <1>1, <2>1, <2>2, <2>3, RegistriesTypedAgain DEF TypedParts
<1>3. Registries!ClearedSeesAllButTwo' /\ PlainAreEvents'
  <2>1. \A q \in RegistryNames \ {"db_commit", "plain"} : cache'[q] = None
    BY <1>1
  <2>2. /\ Complete(members', cache')
        /\ cache'["plain"] = None => Shown(members', cache')["plain"] = members' \cap MemberEvents
    BY <2>1, ClearedShows
  <2>3. Registries!ClearedSeesAllButTwo'
    BY <2>2, CompleteIsCleared
  <2>4. Shown(members', cache')["events"] = members' \cap SelectedBy("events")
    BY <2>2 DEF Complete, RegistryNames
  <2>5. SelectedBy("events") = MemberEvents \cup Registries!ChangeEvents /\ SelectedBy("plain") = MemberEvents
    BY RegistriesShape
  <2>6. CASE cache["plain"] = None
    <3>1. cache'["plain"] = None
      BY <1>1, <2>6 DEF RegistryNames
    <3> QED
      BY <2>2, <2>4, <2>5, <2>3, <3>1 DEF PlainAreEvents
  <2>7. CASE cache["plain"] # None
    <3>1. cache'["plain"] = cache["plain"]
      BY <1>1 DEF RegistryNames
    <3>2. Shown(members', cache')["plain"] = cache["plain"] /\ Shown(members, cache)["plain"] = cache["plain"]
      BY <2>7, <3>1, ShownAt DEF RegistryNames
    <3>3. cache["plain"] \subseteq MemberEvents /\ cache["plain"] \subseteq members
      BY <1>0, <2>5, <2>7, <3>2 DEF RegistriesInvariant, PlainAreEvents, RegistryNames
    <3> QED
      BY <1>1, <2>3, <2>4, <2>5, <3>2, <3>3 DEF PlainAreEvents
  <2> QED
    BY <2>6, <2>7
<1>4. LateAreNew' /\ UnmadeIsUnbound' /\ LoopKnows' /\ Registries!StoredIsHeld'
  <2>1. LoopKnows'
    BY <1>1 DEF LoopKnows
  <2> QED
    BY <1>1, <2>1 DEF RegistriesInvariant, LateAreNew, UnmadeIsUnbound, Registries!StoredIsHeld
<1> QED
  BY <1>2, <1>3, <1>4 DEF RegistriesInvariant

(* A member that is added is new.                                          *)
LEMMA AddMemberKeeps ==
    ASSUME Registries!RegistriesAssumption, RegistriesInvariant, NEW m \in Late, Registries!AddMember(m)
    PROVE  RegistriesInvariant'
<1>0. TypedParts /\ operations \in 0 .. MaxOperations
      /\ \A r \in RegistryNames : cache[r] # None => cache[r] \subseteq SelectedBy(r)
  BY RegistriesTyped DEF RegistriesInvariant, TypedParts
<1>1. /\ members' = members \cup Registries!MemberSet({m}) /\ cleared' = [cleared EXCEPT !.all = FALSE]
      /\ UNCHANGED <<cache, dispatchers, made, value, old, stored, told, bus, registered, strayed, operations>>
  BY DEF Registries!AddMember, Registries!kept
<1>2. members \subseteq members'
      /\ members' \subseteq MemberProperties \cup MemberEvents \cup Registries!ChangeEvents
  BY <1>0, <1>1 DEF TypedParts, Registries!MemberSet, Registries!RegistriesAssumption, Registries!ChangeEvents
<1>3. cleared' \in [all : BOOLEAN, unbound : BOOLEAN] /\ cleared'.all = FALSE /\ cleared'.unbound = cleared.unbound
  BY <1>0, <1>1 DEF TypedParts
<1>4. Registries!TypeOK'
  BY <1>0, <1>1, <1>2, <1>3, RegistriesTypedAgain DEF TypedParts
<1>5. LateAreNew' /\ UnmadeIsUnbound' /\ LoopKnows' /\ Registries!StoredIsHeld'
  <2>1. LoopKnows'
    BY <1>1, <1>3 DEF RegistriesInvariant, LoopKnows
  <2>2. LateAreNew'
    BY <1>1, <1>2 DEF RegistriesInvariant, LateAreNew
  <2> QED
    BY <1>1, <2>1, <2>2 DEF RegistriesInvariant, UnmadeIsUnbound, Registries!StoredIsHeld
<1>6. PlainAreEvents'
  <2> DEFINE ms == members'
  <2>1. "plain" \in RegistryNames /\ "events" \in RegistryNames
    BY DEF RegistryNames
  <2>2. FromOf("plain") = "events" /\ FromOf("events") = "class"
        /\ SelectedBy("events") = MemberEvents \cup Registries!ChangeEvents /\ SelectedBy("plain") = MemberEvents
    BY RegistriesShape
  <2>3. Shown(members, cache)["events"] \subseteq Shown(ms, cache)["events"]
    BY <1>2, <2>1, <2>2, ShownAt
  <2>4. CASE cache["plain"] # None
    <3>1. Shown(ms, cache)["plain"] = Shown(members, cache)["plain"]
      BY <2>1, <2>4, ShownAt
    <3> QED
      BY <1>1, <1>2, <2>3, <3>1 DEF RegistriesInvariant, PlainAreEvents
  <2>5. CASE cache["plain"] = None
    <3>1. Shown(ms, cache)["plain"] = MemberEvents \cap Shown(ms, cache)["events"]
      BY <2>1, <2>2, <2>5, ShownAt
    <3>2. CASE cache["events"] = None
      <4>1. Shown(ms, cache)["events"] \subseteq ms
        BY <2>1, <2>2, <3>2, ShownAt
      <4> QED
        BY <1>1, <3>1, <4>1 DEF PlainAreEvents
    <3>3. CASE cache["events"] # None
      <4>1. Shown(ms, cache)["events"] = Shown(members, cache)["events"]
        BY <2>1, <3>3, ShownAt
      <4>2. Shown(members, cache)["plain"] = MemberEvents \cap Shown(members, cache)["events"]
        BY <2>1, <2>2, <2>5, ShownAt
      <4> QED
        BY <1>1, <1>2, <3>1, <4>1, <4>2 DEF RegistriesInvariant, PlainAreEvents
    <3> QED
      BY <3>2, <3>3
  <2> QED
    BY <2>4, <2>5
<1>7. Registries!ClearedSeesAllButTwo'
  BY <1>3, CompleteIsCleared
<1> QED
  BY <1>4, <1>5, <1>6, <1>7 DEF RegistriesInvariant

\* A Thing is created with what is stored of it, or its defaults.
LEMMA MakeKeeps ==
    ASSUME Registries!RegistriesAssumption, RegistriesInvariant, NEW given \in Registries!Givens,
           Registries!Create(given)
    PROVE  RegistriesInvariant'
<1> DEFINE none == Registries!Nothing
           loaded_ == Registries!Contents(none, "db_init")
           missing == {p \in loaded_ : stored[p] = None}
           own == [p \in MemberProperties |->
                     IF p \in DOMAIN given /\ p \in members THEN given[p] ELSE MemberDefault]
<1>0. TypedParts /\ operations \in 0 .. MaxOperations
  BY RegistriesTyped DEF RegistriesInvariant, TypedParts
<1>1. /\ ~made /\ made' = TRUE /\ cache' = Registries!Read(none, "db_init")
      /\ value' = [p \in MemberProperties |-> IF p \in loaded_ \ missing THEN stored[p] ELSE own[p]]
      /\ stored' = [p \in MemberProperties |-> IF p \in missing THEN own[p] ELSE stored[p]]
      /\ UNCHANGED <<members, dispatchers, old, told, bus, registered, strayed, cleared, operations>>
  BY DEF Registries!Create
<1>2. \A q \in RegistryNames : none[q] = None
  BY RegistriesShape DEF Registries!Nothing
<1>3. \A q \in RegistryNames : Registries!Contents(none, q) = Shown(members, none)[q]
  BY ContentsShown
<1>4. \A q \in RegistryNames : cache'[q] = none[q] \/ cache'[q] = Shown(members, none)[q]
  BY <1>1, <1>3, RegistriesShape DEF Registries!Read
<1> HIDE DEF none
<1>5. \A q \in RegistryNames : Shown(members, cache')[q] = Shown(members, none)[q]
  BY <1>4, ReadShows
<1>6. Complete(members, none) /\ Shown(members, none)["plain"] = members \cap MemberEvents
  BY <1>2, ClearedShows DEF RegistryNames
<1>7. loaded_ = members \cap (PersistMembers \cup InitialMembers)
  BY <1>3, <1>6, RegistriesShape DEF Complete, RegistryNames
<1> HIDE DEF loaded_
<1>8. own \in [MemberProperties -> MemberValues]
  <2>1. \A p \in DOMAIN given : given[p] \in MemberValues
    BY DEF Registries!Givens
  <2>2. MemberDefault \in MemberValues
    BY DEF Registries!RegistriesAssumption
  <2> QED
    BY <2>1, <2>2
<1>9. Registries!TypeOK'
  <2>1. /\ value' \in [MemberProperties -> MemberValues \cup {None}]
        /\ stored' \in [MemberProperties -> MemberValues \cup {None}]
    <3> HIDE DEF own, missing
    <3> QED
      BY <1>0, <1>1, <1>8 DEF TypedParts
  <2>2. ASSUME NEW r \in RegistryNames, cache'[r] # None PROVE cache'[r] \subseteq SelectedBy(r)
    <3>1. cache'[r] = Shown(members, none)[r]
      BY <1>2, <1>4, <2>2
    <3>2. Shown(members, none)[r] \subseteq SelectedBy(r)
      BY <1>2, ShownAt
    <3> QED
      BY <3>1, <3>2
  <2> QED
    BY <1>0, <1>1, <2>1, <2>2, RegistriesTypedAgain DEF TypedParts
<1>10. Registries!ClearedSeesAllButTwo' /\ PlainAreEvents'
  <2>1. \A q \in RegistryNames : Shown(members', cache')[q] = Shown(members, none)[q]
    BY <1>1, <1>5
  <2>2. Complete(members', cache')
    BY <1>1, <1>6, <2>1 DEF Complete
  <2>3. Shown(members, none)["events"] = members \cap (MemberEvents \cup Registries!ChangeEvents)
    BY <1>6, RegistriesShape DEF Complete, RegistryNames
  <2>4. /\ Shown(members', cache')["plain"] = members \cap MemberEvents
        /\ Shown(members', cache')["events"] = members \cap (MemberEvents \cup Registries!ChangeEvents)
    BY <1>6, <2>1, <2>3 DEF RegistryNames
  <2>5. PlainAreEvents'
    BY <1>1, <2>4 DEF PlainAreEvents
  <2> QED
    BY <2>2, <2>5, CompleteIsCleared
<1>11. bus = None
  BY <1>1 DEF RegistriesInvariant, UnmadeIsUnbound
<1>12. LateAreNew'
  <2> SUFFICES ASSUME NEW p \in MemberProperties \ members PROVE p \in Late /\ stored'[p] = None
    BY <1>1 DEF LateAreNew
  <2>1. p \notin missing
    BY <1>7
  <2>2. stored'[p] = stored[p]
    BY <1>1, <2>1
  <2> QED
    BY <2>2 DEF RegistriesInvariant, LateAreNew
<1>13. Registries!StoredIsHeld'
  <2> SUFFICES ASSUME NEW p \in PersistMembers
               PROVE  stored'[p] = value'[p] \/ (p \in Late /\ stored'[p] = None)
    BY DEF Registries!StoredIsHeld
  <2>1. p \in MemberProperties
    BY DEF Registries!RegistriesAssumption
  <2>2. CASE p \in members
    <3>1. p \in loaded_
      BY <1>7, <2>2
    <3> QED
      BY <1>1, <2>1, <3>1
  <2>3. CASE p \notin members
    BY <1>12, <1>1, <2>1, <2>3 DEF LateAreNew
  <2> QED
    BY <2>2, <2>3
<1> QED
  BY <1>1, <1>9, <1>10, <1>11, <1>12, <1>13 DEF RegistriesInvariant, LoopKnows, UnmadeIsUnbound

(* A Thing goes away; what is stored of it stays.                          *)
LEMMA DestroyKeeps ==
    ASSUME Registries!RegistriesAssumption, RegistriesInvariant, Registries!Destroy
    PROVE  RegistriesInvariant'
<1>0. TypedParts /\ operations \in 0 .. MaxOperations
  BY RegistriesTyped DEF RegistriesInvariant, TypedParts
<1>1. /\ operations < MaxOperations /\ operations' = operations + 1 /\ made' = FALSE
      /\ cache' = [r \in RegistryNames |-> None] /\ dispatchers' = None
      /\ value' = [p \in MemberProperties |-> MemberDefault]
      /\ old' = [p \in MemberProperties |-> None] /\ told' = [p \in MemberProperties |-> None]
      /\ bus' = None /\ registered' = [l \in Loops |-> {}]
      /\ cleared' = [all |-> FALSE, unbound |-> FALSE] /\ UNCHANGED <<members, stored, strayed>>
  BY RegistriesShape DEF Registries!Destroy, Registries!Operation, Registries!Nothing
<1>2. Registries!TypeOK'
  <2>1. operations' \in 0 .. MaxOperations
    BY <1>0, <1>1 DEF Registries!RegistriesAssumption
  <2>2. cleared' \in [all : BOOLEAN, unbound : BOOLEAN]
    BY <1>1
  <2>3. \A r \in RegistryNames : cache'[r] = None
    BY <1>1
  <2>4. /\ value' \in [MemberProperties -> MemberValues \cup {None}]
        /\ old' \in [MemberProperties -> MemberValues \cup {None}]
        /\ told' \in [MemberProperties -> MemberValues \cup {None}]
        /\ registered' \in [Loops -> SUBSET (MemberEvents \cup Registries!ChangeEvents)]
    BY <1>1 DEF Registries!RegistriesAssumption
  <2> QED
    BY <1>0, <1>1, <2>1, <2>2, <2>3, <2>4, RegistriesTypedAgain DEF TypedParts
<1>3. Registries!ClearedSeesAllButTwo' /\ PlainAreEvents'
  <2>1. \A r \in RegistryNames : cache'[r] = None
    BY <1>1
  <2>2. Complete(members', cache') /\ Shown(members', cache')["plain"] = members' \cap MemberEvents
    BY <2>1, ClearedShows DEF RegistryNames
  <2>3. Shown(members', cache')["events"] = members' \cap (MemberEvents \cup Registries!ChangeEvents)
    BY <2>2, RegistriesShape DEF Complete, RegistryNames
  <2> QED
    BY <2>2, <2>3, CompleteIsCleared DEF PlainAreEvents
<1> QED
  BY <1>1, <1>2, <1>3 DEF RegistriesInvariant, LateAreNew, LoopKnows, UnmadeIsUnbound, Registries!StoredIsHeld

\* An event loop begins to serve the Thing.
LEMMA BindKeeps ==
    ASSUME Registries!RegistriesAssumption, RegistriesInvariant, NEW l \in Loops, Registries!Bind(l)
    PROVE  RegistriesInvariant'
<1> DEFINE es == Registries!Contents(cache, "events")
<1>0. TypedParts /\ operations \in 0 .. MaxOperations
  BY RegistriesTyped DEF RegistriesInvariant, TypedParts
<1>1. /\ operations < MaxOperations /\ operations' = operations + 1 /\ made
      /\ bus' = l /\ cache' = Registries!Read(cache, "events")
      /\ registered' = [registered EXCEPT ![l] = @ \cup es]
      /\ told' = [p \in MemberProperties |-> None] /\ cleared' = [cleared EXCEPT !.unbound = FALSE]
      /\ UNCHANGED <<members, dispatchers, made, value, old, stored, strayed>>
  BY DEF Registries!Bind, Registries!Operation
<1>2. Reads
  BY <1>1, ReadIsReads DEF RegistryNames
<1>3. cleared' \in [all : BOOLEAN, unbound : BOOLEAN] /\ cleared'.all = cleared.all
  BY <1>0, <1>1 DEF TypedParts
<1>4. /\ \A r \in RegistryNames : cache'[r] # None => cache'[r] \subseteq SelectedBy(r)
      /\ \A r \in RegistryNames : cache[r] # None => cache'[r] = cache[r]
      /\ PlainAreEvents' /\ Registries!ClearedSeesAllButTwo'
  BY <1>1, <1>2, <1>3, ReadingKeeps
<1>5. es \subseteq MemberEvents \cup Registries!ChangeEvents
  BY ContentsTyped, RegistriesShape DEF RegistriesInvariant, RegistryNames
<1>6. es # None /\ cache'["events"] = es
  <2>1. es = Shown(members, cache)["events"] /\ "events" \in RegistryNames
    BY ContentsShown DEF RegistryNames
  <2>2. CASE cache["events"] # None
    BY <1>4, <2>1, <2>2, ShownAt
  <2>3. CASE cache["events"] = None
    <3>1. cache'["events"] = es
      BY <1>1, <2>1, <2>3, EventsMiss, RegistriesShape DEF Registries!Read
    <3>2. es # None
      BY <1>5 DEF Registries!RegistriesAssumption
    <3> QED
      BY <3>1, <3>2
  <2> QED
    BY <2>2, <2>3
<1> HIDE DEF es
<1>7. registered' \in [Loops -> SUBSET (MemberEvents \cup Registries!ChangeEvents)] /\ es \subseteq registered'[l]
  BY <1>0, <1>1, <1>5 DEF TypedParts
<1>8. Registries!TypeOK'
  <2>1. operations' \in 0 .. MaxOperations
    BY <1>0, <1>1 DEF Registries!RegistriesAssumption
  <2> QED
    BY <1>0, <1>1, <1>3, <1>4, <1>7, <2>1, RegistriesTypedAgain DEF TypedParts
<1>9. LateAreNew' /\ LoopKnows' /\ UnmadeIsUnbound' /\ Registries!StoredIsHeld'
  <2>1. LoopKnows'
    BY <1>1, <1>6, <1>7 DEF LoopKnows
  <2> QED
    BY <1>1, <2>1 DEF RegistriesInvariant, LateAreNew, UnmadeIsUnbound, Registries!StoredIsHeld
<1> QED
  BY <1>4, <1>8, <1>9 DEF RegistriesInvariant

(* Before a Thing is created nothing is computed, and nothing is stored.   *)
LEMMA RegistriesInit ==
    ASSUME Registries!RegistriesAssumption, Registries!Init PROVE RegistriesInvariant
<1>1. /\ members = Registries!MemberSet((MemberProperties \cup MemberEvents) \ Late)
      /\ \A r \in RegistryNames : cache[r] = None
      /\ dispatchers = None /\ made = FALSE
      /\ value = [p \in MemberProperties |-> MemberDefault]
      /\ old = [p \in MemberProperties |-> None] /\ stored = old /\ told = old
      /\ bus = None /\ registered = [l \in Loops |-> {}]
      /\ strayed = FALSE /\ cleared = [all |-> FALSE, unbound |-> FALSE] /\ operations = 0
  BY RegistriesShape DEF Registries!Init, Registries!Nothing
<1>2. Registries!TypeOK
  <2>1. members \subseteq MemberProperties \cup MemberEvents \cup Registries!ChangeEvents
    BY <1>1 DEF Registries!MemberSet, Registries!ChangeEvents, Registries!RegistriesAssumption
  <2>2. /\ value \in [MemberProperties -> MemberValues \cup {None}]
        /\ old \in [MemberProperties -> MemberValues \cup {None}]
        /\ registered \in [Loops -> SUBSET (MemberEvents \cup Registries!ChangeEvents)]
        /\ cleared \in [all : BOOLEAN, unbound : BOOLEAN] /\ operations \in 0 .. MaxOperations
    BY <1>1 DEF Registries!RegistriesAssumption
  <2> QED
    BY <1>1, <2>1, <2>2, RegistriesTyped
<1>3. PlainAreEvents /\ LateAreNew
  <2>1. Complete(members, cache) /\ Shown(members, cache)["plain"] = members \cap MemberEvents
    BY <1>1, ClearedShows DEF RegistryNames
  <2>2. Shown(members, cache)["events"] = members \cap (MemberEvents \cup Registries!ChangeEvents)
    BY <2>1, RegistriesShape DEF Complete, RegistryNames
  <2>3. LateAreNew
    BY <1>1 DEF LateAreNew, Registries!MemberSet
  <2> QED
    BY <2>1, <2>2, <2>3 DEF PlainAreEvents
<1> QED
  BY <1>1, <1>2, <1>3 DEF RegistriesInvariant, UnmadeIsUnbound, LoopKnows, Registries!ClearedSeesAllButTwo,
     Registries!StoredIsHeld

\* Every operation keeps the invariant.
LEMMA RegistriesNext ==
    ASSUME Registries!RegistriesAssumption, RegistriesInvariant, [Registries!Next]_Registries!vars
    PROVE  RegistriesInvariant'
<1>1. CASE UNCHANGED Registries!vars
  <2>1. UNCHANGED <<members, cache, dispatchers, made, value, old, stored, told, bus, registered, strayed,
                    cleared, operations>>
    BY <1>1 DEF Registries!vars, Registries!kept
  <2> QED
    BY <2>1, RegistriesTyped, DictionaryStepsKeep DEF RegistriesInvariant
<1>2. CASE \E p \in MemberProperties : Registries!ReadProperty(p) \/ \E v \in MemberValues : Registries!Write(p, v)
  <2>1. MemberDefault \in MemberValues
    BY DEF Registries!RegistriesAssumption
  <2> QED
    BY <1>2, <2>1, DictionaryKeeps
<1>3. CASE \/ \E r \in Registries!Registries : Registries!ReadRegistry(r)
           \/ Registries!ReadDispatchers
           \/ \E e \in MemberEvents \cup Registries!ChangeEvents : Registries!PushCached(e)
  BY <1>3, ReadingStepsKeep, RegistriesShape
<1>4. CASE \/ \E given \in Registries!Givens : Registries!Create(given)
           \/ Registries!Destroy \/ Registries!Clear
           \/ \E m \in Late : Registries!AddMember(m)
           \/ \E l \in Loops : Registries!Bind(l)
  BY <1>4, MakeKeeps, DestroyKeeps, ClearKeeps, AddMemberKeeps, BindKeeps
<1> QED
  BY <1>1, <1>2, <1>3, <1>4 DEF Registries!Next

(* However members are added to the class at runtime, and caches filled    *)
(* and cleared, over any number of event loops: a cleared cache shows all  *)
(* of the class but for the two that are forgotten, no event is described  *)
(* that the loop would refuse, and a Thing holds what is stored of it      *)
(* (meta.py:182 and :656, tm.py:268, property.py:331).                     *)
THEOREM AllRegistriesAgree == ThingsSpec => []RegistriesAgree
<1>1. ThingsInit => RegistriesInvariant
  BY ThingsAssumption, RegistriesInit DEF ThingsInit
<1>2. RegistriesInvariant /\ [ThingsNext]_allVars => RegistriesInvariant'
  <2>1. [ThingsNext]_allVars => [Registries!Next]_Registries!vars
    BY DEF ThingsNext, allVars, registriesVars, Registries!vars, Registries!kept
  <2> QED
    BY <2>1, ThingsAssumption, RegistriesNext
<1>3. RegistriesInvariant => RegistriesAgree
  BY RegistriesHold DEF RegistriesInvariant, RegistriesAgree
<1> QED
  BY <1>1, <1>2, <1>3, PTL DEF ThingsSpec

(***************************************************************************)
(* Lists and dictionaries that check what is put in: TypedContainers.      *)
(***************************************************************************)
(* Contents of a list and of a dictionary, and what refers to them.        *)
ItemLists == Seq(Items)
AnyKey == DictKeys \cup BadKeys
Dictionaries == UNION {[ks -> Items \cup {"none"}] : ks \in SUBSET AnyKey}
Containers_ == [ref : Refs, constant : BOOLEAN]
Insertions == [ref : Refs, item : Items]

IsList(p) == Kind[p] = "list"
Waiting(r) == {t \in ContainerThreads : checked[t] # None /\ checked[t].ref = r}

\* What the variables hold.  A container of a list is never one of a dict.
ContainersTyped ==
    /\ inner \in [Refs -> ItemLists \cup Dictionaries \cup {None}]
    /\ prop \in [Contained -> Containers_ \cup {None}]
    /\ checked \in [ContainerThreads -> Insertions \cup {None}]
HeldHaveKind ==
    \A p \in Contained : prop[p] # None =>
        inner[prop[p].ref] \in IF IsList(p) THEN ItemLists ELSE Dictionaries
(* Properties have containers of their own; a thread that has passed the   *)
(* checks inserts an int into a list.                                      *)
OwnPlaces == \A p, q \in Contained : prop[p] # None /\ prop[q] # None /\ prop[p].ref = prop[q].ref => p = q
CheckedAreInts ==
    \A t \in ContainerThreads : checked[t] # None =>
        /\ checked[t].item = "int" /\ inner[checked[t].ref] \in ItemLists
        /\ \A p \in Contained : prop[p] # None /\ prop[p].ref = checked[t].ref => IsList(p)

\* An item of a property at i.
ItemFits(p, i, x) ==
    \/ IsList(p) /\ x = "int"
    \/ Kind[p] = "dict" /\ (x = "none" \/ (i \in DictKeys /\ x = "int"))
    \/ Kind[p] = "mapping" /\ (x = "none" \/ IF i \in DictKeys THEN x = "int" ELSE Unspecified)
AllFit(p, c) == \A i \in DOMAIN c : ItemFits(p, i, c[i])
ItemsFit == \A p \in Contained : prop[p] # None /\ prop[p].ref \notin bypassed => AllFit(p, inner[prop[p].ref])

\* Items that are checked and not yet put in count for a list.
NearlyFull ==
    \A p \in Contained : prop[p] # None /\ IsList(p) /\ prop[p].ref \notin bypassed =>
        Len(inner[prop[p].ref]) + Cardinality(Waiting(prop[p].ref)) <= High + Cardinality(ContainerThreads) - 1

ContainersInvariant ==
    /\ ContainersTyped /\ HeldHaveKind /\ OwnPlaces /\ CheckedAreInts /\ ItemsFit /\ NearlyFull

(* The threads that wait are some of the threads; all but one, while one   *)
(* is idle.                                                                *)
LEMMA WaitingFacts ==
    ASSUME Containers!ContainersAssumption, NEW r
    PROVE  /\ IsFiniteSet(Waiting(r)) /\ Cardinality(Waiting(r)) \in Nat
           /\ Cardinality(Waiting(r)) <= Cardinality(ContainerThreads) /\ Cardinality(ContainerThreads) \in Nat
           /\ Cardinality(ContainerThreads) >= 1
           /\ Containers!Idle => Cardinality(Waiting(r)) <= Cardinality(ContainerThreads) - 1
<1>1. IsFiniteSet(ContainerThreads) /\ ContainerThreads # {}
  BY DEF Containers!ContainersAssumption, Containers!IsFiniteSet, IsFiniteSet
<1>2. Waiting(r) \subseteq ContainerThreads
  BY DEF Waiting
<1>3. IsFiniteSet(Waiting(r)) /\ Cardinality(Waiting(r)) \in Nat
      /\ Cardinality(Waiting(r)) <= Cardinality(ContainerThreads) /\ Cardinality(ContainerThreads) \in Nat
  BY <1>1, <1>2, FS_Subset, FS_CardinalityType
<1>4. Cardinality(ContainerThreads) >= 1
  BY <1>1, <1>3, FS_EmptySet
<1>5. ASSUME Containers!Idle PROVE Cardinality(Waiting(r)) <= Cardinality(ContainerThreads) - 1
  <2>1. PICK t \in ContainerThreads : checked[t] = None
    BY <1>5 DEF Containers!Idle
  <2>2. Waiting(r) \subseteq ContainerThreads \ {t}
    BY <2>1 DEF Waiting
  <2>3. IsFiniteSet(ContainerThreads \ {t}) /\ Cardinality(ContainerThreads \ {t}) = Cardinality(ContainerThreads) - 1
    BY <1>1, FS_RemoveElement
  <2> QED
    BY <2>2, <2>3, FS_Subset, FS_CardinalityType
<1> QED
  BY <1>3, <1>4, <1>5

(* Lengths are lengths of sequences.                                       *)
LEMMA LengthIsLen == ASSUME NEW c \in ItemLists PROVE Containers!Length(c) = Len(c) /\ Len(c) \in Nat
<1>1. DOMAIN c = 1 .. Len(c) /\ Len(c) \in Nat
  BY LenProperties DEF ItemLists
<1>2. Cardinality(1 .. Len(c)) = Len(c)
  <2>1. 1 \in Int /\ Len(c) \in Int
    BY <1>1
  <2>2. Cardinality(1 .. Len(c)) = IF 1 > Len(c) THEN 0 ELSE Len(c) - 1 + 1
    BY <2>1, FS_Interval
  <2> QED
    BY <1>1, <2>2
<1> QED
  BY <1>1, <1>2 DEF Containers!Length, Containers!Cardinality, Cardinality

(***************************************************************************)
(* What the operations do to a list, or a dictionary, that is held.        *)
(***************************************************************************)

\* The list of p becomes s: it fits, unless it was changed past the checks,
\* and it is no longer than it was, or than the upper bound.
ListBecomes(p, s) ==
    /\ prop[p] # None /\ IsList(p) /\ s \in ItemLists
    /\ inner' = [inner EXCEPT ![prop[p].ref] = s] /\ UNCHANGED <<prop, checked>>
    /\ bypassed \subseteq bypassed'
    /\ prop[p].ref \notin bypassed' =>
          /\ AllFit(p, s)
          /\ Len(s) <= Len(inner[prop[p].ref]) \/ (Len(s) <= High /\ Containers!Idle)

(* A dictionary becomes another, which has its type.                       *)
DictBecomes(p, c) ==
    /\ prop[p] # None /\ ~IsList(p) /\ c \in Dictionaries
    /\ inner' = [inner EXCEPT ![prop[p].ref] = c] /\ UNCHANGED <<prop, checked, bypassed>>
    /\ prop[p].ref \notin bypassed => AllFit(p, c)

(* What is held after a step.                                              *)
LEMMA ItemsFitAfter ==
    ASSUME \A q \in Contained : prop'[q] # None /\ prop'[q].ref \notin bypassed' =>
             AllFit(q, inner'[prop'[q].ref])
    PROVE  ItemsFit'
<1>1. \A q \in Contained : prop'[q] # None /\ prop'[q].ref \notin bypassed' =>
        \A i \in DOMAIN inner'[prop'[q].ref] : ItemFits(q, i, inner'[prop'[q].ref][i])
  BY DEF AllFit
<1> QED
  BY <1>1 DEF ItemsFit, AllFit, ItemFits, IsList

(* A list that becomes another of its type keeps the invariant.            *)
LEMMA ListBecomesKeeps ==
    ASSUME Containers!ContainersAssumption, ContainersInvariant, NEW p \in Contained, NEW s, ListBecomes(p, s)
    PROVE  ContainersInvariant'
<1> DEFINE r == prop[p].ref
<1>1. /\ prop[p] # None /\ IsList(p) /\ s \in ItemLists /\ inner' = [inner EXCEPT ![r] = s]
      /\ prop' = prop /\ checked' = checked /\ bypassed \subseteq bypassed'
      /\ r \notin bypassed' => /\ AllFit(p, s)
                               /\ Len(s) <= Len(inner[r]) \/ (Len(s) <= High /\ Containers!Idle)
  BY DEF ListBecomes
<1>2. r \in Refs /\ inner[r] \in ItemLists
  BY <1>1 DEF ContainersInvariant, ContainersTyped, HeldHaveKind, Containers_
<1>3. ContainersTyped'
  BY <1>1, <1>2 DEF ContainersInvariant, ContainersTyped
<1>4. inner'[r] = s /\ \A q \in Refs : q # r => inner'[q] = inner[q]
  BY <1>1, <1>2 DEF ContainersInvariant, ContainersTyped
<1>5. \A q \in Contained : prop[q] # None => prop[q].ref \in Refs /\ (prop[q].ref = r => q = p)
  BY <1>1 DEF ContainersInvariant, ContainersTyped, OwnPlaces, Containers_
<1>6. HeldHaveKind'
  BY <1>1, <1>4, <1>5 DEF ContainersInvariant, HeldHaveKind, IsList
<1>7. OwnPlaces'
  BY <1>1 DEF ContainersInvariant, OwnPlaces
<1>8. CheckedAreInts'
  <2>1. \A t \in ContainerThreads : checked[t] # None => checked[t].ref \in Refs
    BY DEF ContainersInvariant, ContainersTyped, Insertions
  <2>2. \A t \in ContainerThreads : checked[t] # None => inner'[checked[t].ref] \in ItemLists
    BY <1>1, <1>4, <2>1 DEF ContainersInvariant, CheckedAreInts
  <2> QED
    BY <1>1, <2>2 DEF ContainersInvariant, CheckedAreInts, IsList
<1>9. ItemsFit'
  <2>1. ASSUME NEW q \in Contained, prop[q] # None, prop[q].ref \notin bypassed'
        PROVE  AllFit(q, inner'[prop[q].ref])
    <3>1. CASE prop[q].ref = r
      BY <1>1, <1>4, <1>5, <2>1, <3>1
    <3>2. CASE prop[q].ref # r
      BY <1>1, <1>4, <1>5, <2>1, <3>2 DEF ContainersInvariant, ItemsFit
    <3> QED
      BY <3>1, <3>2
  <2> QED
    BY <1>1, <2>1, ItemsFitAfter
<1>10. NearlyFull'
  <2> SUFFICES ASSUME NEW q \in Contained, prop[q] # None, IsList(q), prop[q].ref \notin bypassed'
               PROVE  Len(inner'[prop[q].ref]) + Cardinality(Waiting(prop[q].ref))
                        <= High + Cardinality(ContainerThreads) - 1
    BY <1>1 DEF NearlyFull, IsList, Waiting
  <2>1. prop[q].ref \notin bypassed
    BY <1>1
  <2>2. CASE prop[q].ref # r
    BY <1>4, <1>5, <2>1, <2>2 DEF ContainersInvariant, NearlyFull
  <2>3. CASE prop[q].ref = r
    <3>1. /\ Len(inner[r]) + Cardinality(Waiting(r)) <= High + Cardinality(ContainerThreads) - 1
          /\ Len(inner[r]) \in Nat /\ Len(s) \in Nat /\ High \in Nat
      BY <1>1, <1>2, <2>1, <2>3, LengthIsLen
         DEF ContainersInvariant, NearlyFull, Containers!ContainersAssumption
    <3>2. Len(s) <= Len(inner[r]) \/ (Len(s) <= High /\ Containers!Idle)
      BY <1>1, <2>3
    <3> QED
      BY <1>4, <2>3, <3>1, <3>2, WaitingFacts
  <2> QED
    BY <2>2, <2>3
<1> QED
  BY <1>3, <1>6, <1>7, <1>8, <1>9, <1>10 DEF ContainersInvariant

\* The same of dictionaries, which threads do not wait to fill.
LEMMA DictBecomesKeeps ==
    ASSUME Containers!ContainersAssumption, ContainersInvariant, NEW p \in Contained, NEW c, DictBecomes(p, c)
    PROVE  ContainersInvariant'
<1> DEFINE r == prop[p].ref
<1>1. /\ prop[p] # None /\ ~IsList(p) /\ c \in Dictionaries /\ inner' = [inner EXCEPT ![r] = c]
      /\ prop' = prop /\ checked' = checked /\ bypassed' = bypassed
      /\ r \notin bypassed => AllFit(p, c)
  BY DEF DictBecomes
<1>2. r \in Refs
  BY <1>1 DEF ContainersInvariant, ContainersTyped, Containers_
<1>3. ContainersTyped'
  BY <1>1, <1>2 DEF ContainersInvariant, ContainersTyped
<1>4. inner'[r] = c /\ \A q \in Refs : q # r => inner'[q] = inner[q]
  BY <1>1, <1>2 DEF ContainersInvariant, ContainersTyped
<1>5. \A q \in Contained : prop[q] # None => prop[q].ref \in Refs /\ (prop[q].ref = r => q = p)
  BY <1>1 DEF ContainersInvariant, ContainersTyped, OwnPlaces, Containers_
<1>6. HeldHaveKind'
  BY <1>1, <1>4, <1>5 DEF ContainersInvariant, HeldHaveKind, IsList
<1>7. OwnPlaces'
  BY <1>1 DEF ContainersInvariant, OwnPlaces
<1>8. CheckedAreInts'
  <2>1. \A t \in ContainerThreads : checked[t] # None => checked[t].ref \in Refs /\ checked[t].ref # r
    BY <1>1 DEF ContainersInvariant, ContainersTyped, Insertions, CheckedAreInts
  <2>2. \A t \in ContainerThreads : checked[t] # None => inner'[checked[t].ref] \in ItemLists
    BY <1>1, <1>4, <2>1 DEF ContainersInvariant, CheckedAreInts
  <2> QED
    BY <1>1, <2>2 DEF ContainersInvariant, CheckedAreInts, IsList
<1>9. ItemsFit'
  <2> SUFFICES ASSUME NEW q \in Contained, prop[q] # None, prop[q].ref \notin bypassed
               PROVE  AllFit(q, inner'[prop[q].ref])
    BY <1>1, ItemsFitAfter
  <2> QED
    BY <1>1, <1>4, <1>5 DEF ContainersInvariant, ItemsFit
<1>10. NearlyFull'
  <2> SUFFICES ASSUME NEW q \in Contained, prop[q] # None, IsList(q), prop[q].ref \notin bypassed
               PROVE  Len(inner'[prop[q].ref]) + Cardinality(Waiting(prop[q].ref))
                        <= High + Cardinality(ContainerThreads) - 1
    BY <1>1 DEF NearlyFull, IsList, Waiting
  <2>1. prop[q].ref # r
    BY <1>1, <1>5
  <2> QED
    BY <1>4, <1>5, <2>1 DEF ContainersInvariant, NearlyFull
<1> QED
  BY <1>3, <1>6, <1>7, <1>8, <1>9, <1>10 DEF ContainersInvariant

(* What is typed fits, item by item.                                       *)
LEMMA TypedFits ==
    ASSUME Containers!ContainersAssumption, NEW p \in Contained, NEW c, Containers!Typed(p, c) PROVE AllFit(p, c)
<1>1. Kind[p] \in {"list", "dict", "mapping"}
  BY DEF Containers!ContainersAssumption
<1> QED
  BY <1>1 DEF Containers!Typed, Containers!ListItems, Containers!DictItems, Containers!MappingItems, AllFit, ItemFits,
     IsList

(* A key that is set alone fits when the dictionary of it has its type.    *)
LEMMA KeyFits ==
    ASSUME Containers!ContainersAssumption, NEW p \in Contained, NEW k, NEW x,
           Containers!Typed(p, Containers!WithKey(<<>>, k, x))
    PROVE  ItemFits(p, k, x)
<1> DEFINE c == Containers!WithKey(<<>>, k, x)
<1>1. k \in DOMAIN c /\ c[k] = x
  BY DEF Containers!WithKey
<1>2. AllFit(p, c)
  BY TypedFits
<1> HIDE DEF c
<1> QED
  BY <1>1, <1>2 DEF AllFit

\* What a property holds.
LEMMA HeldFacts ==
    ASSUME ContainersInvariant, NEW p \in Contained, prop[p] # None
    PROVE  /\ prop[p].ref \in Refs /\ prop[p].constant \in BOOLEAN
           /\ Containers!Content(p) = inner[prop[p].ref]
           /\ IsList(p) => inner[prop[p].ref] \in ItemLists
           /\ ~IsList(p) => inner[prop[p].ref] \in Dictionaries
           /\ prop[p].ref \notin bypassed => AllFit(p, inner[prop[p].ref])
BY DEF ContainersInvariant, ContainersTyped, HeldHaveKind, Containers_, Containers!Content, ItemsFit

(* ItemLists that operations make.                                             *)
LEMMA JoinedLists ==
    ASSUME NEW p, IsList(p), NEW c \in ItemLists, NEW xs \in ItemLists
    PROVE  /\ c \o xs \in ItemLists /\ Len(c \o xs) = Len(c) + Len(xs)
           /\ AllFit(p, c) /\ Containers!ListItems(xs) => AllFit(p, c \o xs)
<1>1. c \o xs \in Seq(Items) /\ Len(c \o xs) = Len(c) + Len(xs)
      /\ \A i \in 1 .. Len(c) + Len(xs) : (c \o xs)[i] = IF i <= Len(c) THEN c[i] ELSE xs[i - Len(c)]
  BY ConcatProperties DEF ItemLists
<1>2. /\ DOMAIN c = 1 .. Len(c) /\ DOMAIN xs = 1 .. Len(xs) /\ DOMAIN (c \o xs) = 1 .. Len(c) + Len(xs)
      /\ Len(c) \in Nat /\ Len(xs) \in Nat
  BY <1>1, LenProperties DEF ItemLists
<1>3. ASSUME AllFit(p, c), Containers!ListItems(xs) PROVE AllFit(p, c \o xs)
  <2> SUFFICES ASSUME NEW i \in 1 .. Len(c) + Len(xs) PROVE ItemFits(p, i, (c \o xs)[i])
    BY <1>2 DEF AllFit
  <2>1. CASE i <= Len(c)
    <3>1. c[i] = "int"
      BY <1>2, <1>3, <2>1 DEF AllFit, ItemFits, IsList
    <3> QED
      BY <1>1, <2>1, <3>1 DEF ItemFits
  <2>2. CASE ~(i <= Len(c))
    <3>1. i - Len(c) \in DOMAIN xs
      BY <1>2, <2>2
    <3> QED
      BY <1>1, <1>3, <2>2, <3>1 DEF ItemFits, Containers!ListItems
  <2> QED
    BY <2>1, <2>2
<1> QED
  BY <1>1, <1>3 DEF ItemLists

\* ItemLists the operations are called with.
LEMMA GivenLists == ASSUME NEW n \in Nat, NEW c \in Containers!ListsUpTo(n) PROVE c \in ItemLists
<1>1. PICK k \in 0 .. n : c \in [1 .. k -> Items]
  BY DEF Containers!ListsUpTo
<1> QED
  BY <1>1 DEF ItemLists

(* Nothing changes.                                                        *)
LEMMA NothingKeeps ==
    ASSUME ContainersInvariant, UNCHANGED <<inner, prop, checked, bypassed>> PROVE ContainersInvariant'
BY DEF ContainersInvariant, ContainersTyped, HeldHaveKind, OwnPlaces, CheckedAreInts, ItemsFit, NearlyFull,
   Waiting, AllFit, ItemFits, IsList

(* append(), insert(), extend(), += and *=, assignments to an item, del,   *)
(* clear(), and what is done to the list itself.                           *)
LEMMA ListStepsKeep ==
    ASSUME Containers!ContainersAssumption, ContainersInvariant, NEW p \in Contained, Containers!Idle,
           \/ \E xs \in ItemLists : Kind[p] = "list" /\ (Containers!Extend(p, xs) \/ Containers!AddAndAssign(p, xs))
           \/ \E x \in Items : Containers!Raw(p, x)
           \/ \E i \in 1 .. High, x \in Items : Containers!SetItem(p, i, x)
           \/ \E i \in 1 .. High : Containers!RemoveItem(p, i)
           \/ Containers!Clear(p) \/ Containers!Double(p)
    PROVE  ContainersInvariant'
<1> DEFINE r == prop[p].ref  c == inner[r]
<1>0. High \in Nat /\ Low \in Nat
  BY DEF Containers!ContainersAssumption
<1>1. ASSUME UNCHANGED <<inner, prop, checked, bypassed>> PROVE ContainersInvariant'
  BY <1>1, NothingKeeps
<1>2. ASSUME NEW xs \in ItemLists, Kind[p] = "list", Containers!Extend(p, xs) \/ Containers!AddAndAssign(p, xs)
      PROVE  ContainersInvariant'
  <2>1. CASE UNCHANGED <<inner, prop, checked, bypassed>>
    BY <1>1, <2>1
  <2>2. CASE ~UNCHANGED <<inner, prop, checked, bypassed>>
    <3>1. /\ prop[p] # None /\ Containers!Room(p, Len(xs)) /\ Containers!ListItems(xs)
          /\ inner' = [inner EXCEPT ![r] = inner[r] \o xs] /\ UNCHANGED <<prop, checked, bypassed>>
      BY <1>2, <2>2 DEF Containers!Extend, Containers!AddAndAssign, Containers!Holds, Containers!Raises
    <3>2. c \in ItemLists /\ IsList(p)
      BY <1>2, <3>1, HeldFacts DEF IsList
    <3>3. Len(c \o xs) <= High
      BY <1>0, <3>1, <3>2, JoinedLists, HeldFacts, LengthIsLen, SMTT(30) DEF Containers!Room
    <3>4. ListBecomes(p, c \o xs)
      BY <3>1, <3>2, <3>3, JoinedLists, HeldFacts DEF ListBecomes
    <3> QED
      BY <3>4, ListBecomesKeeps
  <2> QED
    BY <2>1, <2>2
<1>3. ASSUME NEW x \in Items, Containers!Raw(p, x) PROVE ContainersInvariant'
  <2>1. /\ prop[p] # None /\ Kind[p] = "list" /\ inner' = [inner EXCEPT ![r] = Append(c, x)]
        /\ UNCHANGED <<prop, checked>> /\ bypassed' = bypassed \cup {r}
    BY <1>3 DEF Containers!Raw
  <2>2. Append(c, x) \in ItemLists
    BY <2>1, HeldFacts, AppendProperties DEF ItemLists, IsList
  <2>3. ListBecomes(p, Append(c, x))
    BY <2>1, <2>2 DEF ListBecomes, IsList
  <2> QED
    BY <2>3, ListBecomesKeeps
<1>4. ASSUME NEW i \in 1 .. High, NEW x \in Items, Containers!SetItem(p, i, x) PROVE ContainersInvariant'
  <2>1. CASE UNCHANGED <<inner, prop, checked, bypassed>>
    BY <1>1, <2>1
  <2>2. CASE ~UNCHANGED <<inner, prop, checked, bypassed>>
    <3> DEFINE s == [c EXCEPT ![i] = x]
    <3>1. /\ prop[p] # None /\ Kind[p] = "list" /\ i \in DOMAIN Containers!Content(p) /\ x = "int"
          /\ inner' = [inner EXCEPT ![r][i] = x] /\ UNCHANGED <<prop, checked, bypassed>>
      BY <1>4, <2>2 DEF Containers!SetItem, Containers!Holds, Containers!Raises
    <3>2. c \in ItemLists /\ IsList(p) /\ i \in DOMAIN c /\ (r \notin bypassed => AllFit(p, c))
      BY <3>1, HeldFacts DEF IsList
    <3>3. s \in ItemLists /\ Len(s) = Len(c) /\ DOMAIN s = DOMAIN c
      BY <3>1, <3>2 DEF ItemLists
    <3>4. AllFit(p, c) => AllFit(p, s)
      BY <3>1, <3>2, <3>3 DEF AllFit, ItemFits
    <3>5. inner' = [inner EXCEPT ![r] = s]
      BY <3>1
    <3>6. Len(s) <= Len(c)
      BY <3>2, <3>3, LengthIsLen
    <3> HIDE DEF s
    <3>7. ListBecomes(p, s)
      BY <3>1, <3>2, <3>3, <3>4, <3>5, <3>6 DEF ListBecomes
    <3> QED
      BY <3>7, ListBecomesKeeps
  <2> QED
    BY <2>1, <2>2
<1>5. ASSUME NEW i \in 1 .. High, Containers!RemoveItem(p, i) PROVE ContainersInvariant'
  <2> DEFINE s == RemoveAt(c, i)
  <2>1. /\ prop[p] # None /\ Kind[p] = "list" /\ i \in DOMAIN Containers!Content(p)
        /\ inner' = [inner EXCEPT ![r] = s] /\ UNCHANGED <<prop, checked, bypassed>>
    BY <1>5 DEF Containers!RemoveItem, Containers!Holds, Containers!RemoveAt, RemoveAt
  <2>2. c \in Seq(Items) /\ IsList(p) /\ i \in DOMAIN c /\ (r \notin bypassed => AllFit(p, c))
    BY <2>1, HeldFacts DEF IsList, ItemLists
  <2>3. s \in Seq(Items) /\ Len(s) = Len(c) - 1
        /\ \A j \in 1 .. (Len(c) - 1) : s[j] = IF j <= i - 1 THEN c[j] ELSE c[j + 1]
    BY <2>2, RemoveAtIndex
  <2> HIDE DEF s
  <2>4. DOMAIN s = 1 .. (Len(c) - 1) /\ DOMAIN c = 1 .. Len(c) /\ Len(c) \in Nat
    BY <2>2, <2>3, LenProperties
  <2>5. AllFit(p, c) => AllFit(p, s)
    <3> SUFFICES ASSUME AllFit(p, c), NEW j \in 1 .. (Len(c) - 1) PROVE ItemFits(p, j, s[j])
      BY <2>4 DEF AllFit
    <3>1. j \in DOMAIN c /\ j + 1 \in DOMAIN c
      BY <2>4
    <3>2. c[j] = "int" /\ c[j + 1] = "int"
      BY <2>2, <3>1 DEF AllFit, ItemFits, IsList
    <3> QED
      BY <2>2, <2>3, <3>2 DEF ItemFits
  <2>6. ListBecomes(p, s)
    BY <2>1, <2>2, <2>3, <2>4, <2>5 DEF ListBecomes, ItemLists
  <2> QED
    BY <2>6, ListBecomesKeeps
<1>6. ASSUME Containers!Clear(p) PROVE ContainersInvariant'
  <2>1. /\ prop[p] # None /\ IsList(p) /\ inner' = [inner EXCEPT ![r] = <<>>]
        /\ UNCHANGED <<prop, checked, bypassed>>
    BY <1>6 DEF Containers!Clear, Containers!Holds, IsList
  <2>2. <<>> \in ItemLists /\ Len(<<>>) = 0 /\ AllFit(p, <<>>)
    BY DEF ItemLists, AllFit
  <2>3. ListBecomes(p, <<>>)
    BY <1>0, <2>1, <2>2 DEF ListBecomes
  <2> QED
    BY <2>3, ListBecomesKeeps
<1>7. ASSUME Containers!Double(p) PROVE ContainersInvariant'
  <2>1. /\ prop[p] # None /\ IsList(p) /\ inner' = [inner EXCEPT ![r] = c \o c]
        /\ UNCHANGED <<prop, checked>> /\ bypassed' = bypassed \cup {r}
    BY <1>7, HeldFacts DEF Containers!Double, Containers!Holds, IsList
  <2>2. c \o c \in ItemLists
    BY <2>1, HeldFacts, JoinedLists
  <2>3. ListBecomes(p, c \o c)
    BY <2>1, <2>2 DEF ListBecomes
  <2> QED
    BY <2>3, ListBecomesKeeps
<1> QED
  BY <1>2, <1>3, <1>4, <1>5, <1>6, <1>7

(* Dictionaries that operations make.                                      *)
LEMMA DictionaryFacts ==
    ASSUME Containers!ContainersAssumption, NEW p \in Contained, ~IsList(p), NEW c \in Dictionaries
    PROVE  /\ \A k \in AnyKey, x \in Items \cup {"none"} :
                 /\ Containers!WithKey(c, k, x) \in Dictionaries
                 /\ AllFit(p, c) /\ ItemFits(p, k, x) => AllFit(p, Containers!WithKey(c, k, x))
           /\ \A ks : /\ [k \in DOMAIN c \ ks |-> c[k]] \in Dictionaries
                      /\ AllFit(p, c) => AllFit(p, [k \in DOMAIN c \ ks |-> c[k]])
           /\ \A ds \in Dictionaries :
                 LET both == [k \in DOMAIN c \cup DOMAIN ds |-> IF k \in DOMAIN ds THEN ds[k] ELSE c[k]]
                 IN  both \in Dictionaries /\ (AllFit(p, c) /\ AllFit(p, ds) => AllFit(p, both))
<1>0. \A f : f \in Dictionaries <=> \E ks \in SUBSET AnyKey : f \in [ks -> Items \cup {"none"}]
  BY DEF Dictionaries
<1>1. DOMAIN c \subseteq AnyKey /\ \A k \in DOMAIN c : c[k] \in Items \cup {"none"}
  BY <1>0
<1>2. ASSUME NEW k \in AnyKey, NEW x \in Items \cup {"none"}
      PROVE  /\ Containers!WithKey(c, k, x) \in Dictionaries
             /\ AllFit(p, c) /\ ItemFits(p, k, x) => AllFit(p, Containers!WithKey(c, k, x))
  <2> DEFINE e == Containers!WithKey(c, k, x)
  <2>1. e = [j \in DOMAIN c \cup {k} |-> IF j = k THEN x ELSE c[j]]
    BY DEF Containers!WithKey
  <2>2. e \in [DOMAIN c \cup {k} -> Items \cup {"none"}] /\ DOMAIN c \cup {k} \subseteq AnyKey
    BY <1>1, <2>1
  <2>3. e \in Dictionaries
    BY <1>0, <2>2
  <2>4. AllFit(p, c) /\ ItemFits(p, k, x) => AllFit(p, e)
    BY <2>1 DEF AllFit
  <2> QED
    BY <2>3, <2>4
<1>3. ASSUME NEW ks
      PROVE  /\ [k \in DOMAIN c \ ks |-> c[k]] \in Dictionaries
             /\ AllFit(p, c) => AllFit(p, [k \in DOMAIN c \ ks |-> c[k]])
  <2> DEFINE e == [k \in DOMAIN c \ ks |-> c[k]]
  <2>1. e \in [DOMAIN c \ ks -> Items \cup {"none"}] /\ DOMAIN c \ ks \subseteq AnyKey
    BY <1>1
  <2>2. AllFit(p, c) => AllFit(p, e)
    BY DEF AllFit
  <2> HIDE DEF e
  <2>3. e \in Dictionaries
    BY <1>0, <2>1
  <2> QED
    BY <2>2, <2>3 DEF e
<1>4. ASSUME NEW ds \in Dictionaries
      PROVE  LET both == [k \in DOMAIN c \cup DOMAIN ds |-> IF k \in DOMAIN ds THEN ds[k] ELSE c[k]]
             IN  both \in Dictionaries /\ (AllFit(p, c) /\ AllFit(p, ds) => AllFit(p, both))
  <2> DEFINE e == [k \in DOMAIN c \cup DOMAIN ds |-> IF k \in DOMAIN ds THEN ds[k] ELSE c[k]]
  <2>1. DOMAIN ds \subseteq AnyKey /\ \A k \in DOMAIN ds : ds[k] \in Items \cup {"none"}
    BY <1>0
  <2>2. e \in [DOMAIN c \cup DOMAIN ds -> Items \cup {"none"}] /\ DOMAIN c \cup DOMAIN ds \subseteq AnyKey
    BY <1>1, <2>1
  <2>3. AllFit(p, c) /\ AllFit(p, ds) => AllFit(p, e)
    BY DEF AllFit
  <2> HIDE DEF e
  <2>4. e \in Dictionaries
    BY <1>0, <2>2
  <2> QED
    BY <2>3, <2>4 DEF e
<1> QED
  BY <1>2, <1>3, <1>4

\* Keys are set, updated, removed, or given None.
LEMMA DictStepsKeep ==
    ASSUME Containers!ContainersAssumption, ContainersInvariant, NEW p \in Contained,
           \/ \E c \in Containers!Dicts : Kind[p] # "list" /\ Containers!Update(p, c)
           \/ \E k \in AnyKey, x \in Items : Containers!SetKey(p, k, x)
           \/ \E ks \in SUBSET AnyKey : Containers!RemoveKeys(p, ks)
           \/ \E k \in AnyKey : Containers!SetDefault(p, k)
    PROVE  ContainersInvariant'
<1> DEFINE r == prop[p].ref  c == inner[r]
<1>0. CASE UNCHANGED <<inner, prop, checked, bypassed>>
  BY <1>0, NothingKeeps
<1>a. CASE ~UNCHANGED <<inner, prop, checked, bypassed>>
  <2>0. prop[p] # None /\ ~IsList(p) /\ UNCHANGED <<prop, checked, bypassed>>
    BY <1>a DEF Containers!Update, Containers!SetKey, Containers!RemoveKeys, Containers!SetDefault,
                Containers!Holds, Containers!Raises, IsList
  <2>1. c \in Dictionaries /\ (r \notin bypassed => AllFit(p, c)) /\ Containers!Content(p) = c
    BY <2>0, HeldFacts
  <2>2. \A k : ItemFits(p, k, "none")
    <3>1. Kind[p] \in {"list", "dict", "mapping"}
      BY DEF Containers!ContainersAssumption
    <3> QED
      BY <2>0, <3>1 DEF ItemFits, IsList
  <2>3. ASSUME NEW ds \in Containers!Dicts, Containers!Update(p, ds) PROVE \E e : DictBecomes(p, e)
    <3> DEFINE e == [k \in DOMAIN c \cup DOMAIN ds |-> IF k \in DOMAIN ds THEN ds[k] ELSE c[k]]
    <3>1. Containers!Typed(p, ds) /\ inner' = [inner EXCEPT ![r] = e]
      BY <1>a, <2>3 DEF Containers!Update, Containers!Raises
    <3>2. ds \in Dictionaries
      <4>1. PICK ks \in SUBSET AnyKey : ds \in [ks -> Items]
        BY DEF Containers!Dicts, AnyKey
      <4>2. ds \in [ks -> Items \cup {"none"}]
        BY <4>1
      <4> QED
        BY <4>2 DEF Dictionaries
    <3>3. e \in Dictionaries /\ (AllFit(p, c) => AllFit(p, e))
      BY <2>0, <2>1, <3>1, <3>2, DictionaryFacts, TypedFits
    <3> HIDE DEF e
    <3> QED
      BY <2>0, <2>1, <3>1, <3>3 DEF DictBecomes
  <2>4. ASSUME NEW k \in AnyKey, NEW x \in Items, Containers!SetKey(p, k, x) PROVE \E e : DictBecomes(p, e)
    <3> DEFINE e == Containers!WithKey(c, k, x)
    <3>1. Containers!Typed(p, Containers!WithKey(<<>>, k, x)) /\ inner' = [inner EXCEPT ![r] = e]
      BY <1>a, <2>4 DEF Containers!SetKey, Containers!Raises
    <3>2. e \in Dictionaries /\ (AllFit(p, c) => AllFit(p, e))
      BY <2>0, <2>1, <3>1, DictionaryFacts, KeyFits
    <3> HIDE DEF e
    <3> QED
      BY <2>0, <2>1, <3>1, <3>2 DEF DictBecomes
  <2>5. ASSUME NEW ks \in SUBSET AnyKey, Containers!RemoveKeys(p, ks) PROVE \E e : DictBecomes(p, e)
    <3> DEFINE e == [k \in DOMAIN c \ ks |-> c[k]]
    <3>1. inner' = [inner EXCEPT ![r] = e]
      BY <2>5 DEF Containers!RemoveKeys
    <3>2. e \in Dictionaries /\ (AllFit(p, c) => AllFit(p, e))
      BY <2>0, <2>1, DictionaryFacts
    <3> HIDE DEF e
    <3> QED
      BY <2>0, <2>1, <3>1, <3>2 DEF DictBecomes
  <2>6. ASSUME NEW k \in AnyKey, Containers!SetDefault(p, k) PROVE \E e : DictBecomes(p, e)
    <3> DEFINE e == Containers!WithKey(c, k, "none")
    <3>1. inner' = [inner EXCEPT ![r] = e]
      BY <2>6 DEF Containers!SetDefault
    <3>2. e \in Dictionaries /\ (AllFit(p, c) => AllFit(p, e))
      BY <2>0, <2>1, <2>2, DictionaryFacts
    <3> HIDE DEF e
    <3> QED
      BY <2>0, <2>1, <3>1, <3>2 DEF DictBecomes
  <2> QED
    BY <2>3, <2>4, <2>5, <2>6, DictBecomesKeeps
<1> QED
  BY <1>0, <1>a

(* The property is set: a new container around what was given.             *)
LEMMA AssignKeeps ==
    ASSUME Containers!ContainersAssumption, ContainersInvariant, NEW p \in Contained, NEW c,
           (IsList(p) /\ c \in ItemLists) \/ (~IsList(p) /\ c \in Containers!Dicts), Containers!Assign(p, c)
    PROVE  ContainersInvariant'
<1>1. CASE UNCHANGED <<inner, prop, checked, bypassed>>
  BY <1>1, NothingKeeps
<1>2. CASE ~UNCHANGED <<inner, prop, checked, bypassed>>
  <2>1. PICK r \in Refs :
          /\ inner[r] = None /\ Containers!ForSet(p, c)
          /\ inner' = [inner EXCEPT ![r] = c] /\ UNCHANGED <<checked, bypassed>>
          /\ prop' = [prop EXCEPT ![p] = [ref |-> r, constant |-> p \in Constant]]
    <3> DEFINE f == CHOOSE r \in Containers!Fresh : TRUE
    <3>1. f \in Containers!Fresh
      BY DEF Containers!Assign
    <3>2. f \in Refs /\ inner[f] = None
      BY <3>1 DEF Containers!Fresh
    <3>3. /\ Containers!ForSet(p, c) /\ inner' = [inner EXCEPT ![f] = c] /\ UNCHANGED <<checked, bypassed>>
          /\ prop' = [prop EXCEPT ![p] = [ref |-> f, constant |-> p \in Constant]]
      BY <1>2 DEF Containers!Assign, Containers!Raises
    <3> HIDE DEF f
    <3> QED
      BY <3>2, <3>3
  <2> DEFINE h == [ref |-> r, constant |-> p \in Constant]
  <2>2. c \in IF IsList(p) THEN ItemLists ELSE Dictionaries
    <3>1. \A ks \in SUBSET AnyKey : [ks -> Items] \subseteq [ks -> Items \cup {"none"}]
      OBVIOUS
    <3> QED
      BY <3>1 DEF Containers!Dicts, Dictionaries, AnyKey
  <2>3. None \notin ItemLists /\ None \notin Dictionaries
    BY DEF Containers!ContainersAssumption, ItemLists, Dictionaries, AnyKey
  <2>4. h \in Containers_ /\ h.ref = r
    BY DEF Containers_
  <2> HIDE DEF h
  <2>5. /\ inner' \in [Refs -> ItemLists \cup Dictionaries \cup {None}] /\ inner'[r] = c
        /\ \A q \in Refs : q # r => inner'[q] = inner[q]
    BY <2>1, <2>2 DEF ContainersInvariant, ContainersTyped
  <2>6. /\ prop' \in [Contained -> Containers_ \cup {None}] /\ prop'[p] = h
        /\ \A q \in Contained : q # p => prop'[q] = prop[q]
    BY <2>1, <2>4 DEF ContainersInvariant, ContainersTyped, h
  <2>7. \A q \in Contained : prop[q] # None => prop[q].ref \in Refs /\ prop[q].ref # r
    BY <2>1, <2>3 DEF ContainersInvariant, ContainersTyped, HeldHaveKind, Containers_
  <2>8. \A t \in ContainerThreads : checked[t] # None => checked[t].ref \in Refs /\ checked[t].ref # r
    BY <2>1, <2>3 DEF ContainersInvariant, ContainersTyped, CheckedAreInts, Insertions
  <2>9. ContainersTyped' /\ HeldHaveKind' /\ OwnPlaces'
    <3>1. ContainersTyped'
      BY <2>1, <2>5, <2>6 DEF ContainersInvariant, ContainersTyped
    <3>2. HeldHaveKind'
      BY <2>2, <2>4, <2>5, <2>6, <2>7 DEF ContainersInvariant, HeldHaveKind, IsList
    <3>3. OwnPlaces'
      BY <2>4, <2>6, <2>7 DEF ContainersInvariant, OwnPlaces
    <3> QED
      BY <3>1, <3>2, <3>3
  <2>10. CheckedAreInts'
    <3> SUFFICES ASSUME NEW t \in ContainerThreads, checked[t] # None
                 PROVE  /\ checked[t].item = "int" /\ inner'[checked[t].ref] \in ItemLists
                        /\ \A q \in Contained : prop'[q] # None /\ prop'[q].ref = checked[t].ref => IsList(q)
      BY <2>1 DEF CheckedAreInts, IsList
    <3> QED
      BY <2>4, <2>5, <2>6, <2>8 DEF ContainersInvariant, CheckedAreInts
  <2>11. ItemsFit'
    <3> SUFFICES ASSUME NEW q \in Contained, prop'[q] # None, prop'[q].ref \notin bypassed
                 PROVE  AllFit(q, inner'[prop'[q].ref])
      BY <2>1, ItemsFitAfter
    <3>1. AllFit(p, c)
      BY <2>1, TypedFits DEF Containers!ForSet
    <3> QED
      BY <2>4, <2>5, <2>6, <2>7, <3>1 DEF ContainersInvariant, ItemsFit
  <2>12. NearlyFull'
    <3> SUFFICES ASSUME NEW q \in Contained, prop'[q] # None, IsList(q), prop'[q].ref \notin bypassed
                 PROVE  Len(inner'[prop'[q].ref]) + Cardinality(Waiting(prop'[q].ref))
                          <= High + Cardinality(ContainerThreads) - 1
      BY <2>1 DEF NearlyFull, IsList, Waiting
    <3>1. CASE q # p
      BY <2>5, <2>6, <2>7, <3>1 DEF ContainersInvariant, NearlyFull
    <3>2. CASE q = p
      <4>1. Waiting(r) = {}
        BY <2>8 DEF Waiting
      <4>2. Len(c) \in Nat /\ Len(c) <= High /\ High \in Nat
        BY <2>1, <2>2, <3>2, LengthIsLen DEF Containers!ForSet, Containers!ContainersAssumption
      <4> QED
        BY <2>4, <2>5, <2>6, <3>2, <4>1, <4>2, WaitingFacts, FS_EmptySet
    <3> QED
      BY <3>1, <3>2
  <2> QED
    BY <2>9, <2>10, <2>11, <2>12 DEF ContainersInvariant
<1> QED
  BY <1>1, <1>2

\* A property is restored, and no thread is in between.
LEMMA RestoreKeeps ==
    ASSUME Containers!ContainersAssumption, ContainersInvariant, NEW p \in Contained, Containers!Restore(p)
    PROVE  ContainersInvariant'
<1>1. /\ prop[p] # None /\ inner' = inner /\ bypassed' = bypassed
      /\ checked' = [t \in ContainerThreads |-> None]
      /\ prop' = [prop EXCEPT ![p].constant = FALSE] \/ prop' = [prop EXCEPT ![p] = None]
  BY DEF Containers!Restore
<1>2. /\ prop' \in [Contained -> Containers_ \cup {None}]
      /\ \A q \in Contained : prop'[q] # None => prop[q] # None /\ prop'[q].ref = prop[q].ref
  <2>1. prop[p] \in Containers_
    BY <1>1 DEF ContainersInvariant, ContainersTyped
  <2>2. [prop[p] EXCEPT !.constant = FALSE] \in Containers_ /\ [prop[p] EXCEPT !.constant = FALSE].ref = prop[p].ref
    BY <2>1 DEF Containers_
  <2> QED
    BY <1>1, <2>1, <2>2 DEF ContainersInvariant, ContainersTyped
<1>3. ContainersTyped' /\ HeldHaveKind' /\ OwnPlaces' /\ CheckedAreInts'
  BY <1>1, <1>2 DEF ContainersInvariant, ContainersTyped, HeldHaveKind, OwnPlaces, CheckedAreInts, IsList
<1>4. ItemsFit'
  <2> SUFFICES ASSUME NEW q \in Contained, prop'[q] # None, prop'[q].ref \notin bypassed
               PROVE  AllFit(q, inner[prop'[q].ref])
    BY <1>1, ItemsFitAfter
  <2> QED
    BY <1>2 DEF ContainersInvariant, ItemsFit
<1>5. NearlyFull'
  <2> SUFFICES ASSUME NEW q \in Contained, NEW r, prop'[q] # None, r = prop'[q].ref, IsList(q), r \notin bypassed
               PROVE  Len(inner[r]) + Cardinality(Waiting(r)') <= High + Cardinality(ContainerThreads) - 1
    BY <1>1 DEF NearlyFull, IsList, Waiting
  <2>1. prop[q] # None /\ prop[q].ref = r
    BY <1>2
  <2>2. Waiting(r)' = {}
    BY <1>1 DEF Waiting
  <2>3. /\ Len(inner[r]) + Cardinality(Waiting(r)) <= High + Cardinality(ContainerThreads) - 1
        /\ Len(inner[r]) \in Nat /\ High \in Nat
    BY <2>1, HeldFacts, LengthIsLen DEF ContainersInvariant, NearlyFull, Containers!ContainersAssumption
  <2>4. Cardinality({}) = 0
    BY FS_EmptySet
  <2> QED
    BY <2>1, <2>2, <2>3, <2>4, WaitingFacts
<1> QED
  BY <1>1, <1>3, <1>4, <1>5 DEF ContainersInvariant

(* An item is checked: there is room for it, whoever else has checked one. *)
LEMMA CheckKeeps ==
    ASSUME Containers!ContainersAssumption, ContainersInvariant, NEW p \in Contained,
           NEW t \in ContainerThreads, NEW x \in Items, Containers!CheckInsertion(t, p, x)
    PROVE  ContainersInvariant'
<1>1. CASE UNCHANGED <<inner, prop, checked, bypassed>>
  BY <1>1, NothingKeeps
<1>2. CASE ~UNCHANGED <<inner, prop, checked, bypassed>>
  <2> DEFINE r == prop[p].ref  n == [ref |-> r, item |-> x]
  <2>1. /\ prop[p] # None /\ IsList(p) /\ checked[t] = None /\ Containers!Room(p, 1) /\ x = "int"
        /\ checked' = [checked EXCEPT ![t] = n] /\ UNCHANGED <<inner, prop, bypassed>>
    BY <1>2 DEF Containers!CheckInsertion, Containers!Holds, Containers!Raises, IsList
  <2>2. /\ r \in Refs /\ inner[r] \in ItemLists /\ Len(inner[r]) \in Nat /\ Len(inner[r]) + 1 <= High /\ High \in Nat
    BY <2>1, HeldFacts, LengthIsLen DEF Containers!Room, Containers!ContainersAssumption
  <2>3. n \in Insertions /\ n.ref = r /\ n.item = "int"
    BY <2>1, <2>2 DEF Insertions
  <2> HIDE DEF n
  <2>4. /\ checked' \in [ContainerThreads -> Insertions \cup {None}] /\ checked'[t] = n
        /\ \A u \in ContainerThreads : u # t => checked'[u] = checked[u]
    BY <2>1, <2>3 DEF ContainersInvariant, ContainersTyped
  <2>5. \A q \in Contained : prop[q] # None /\ prop[q].ref = r => q = p
    BY <2>1 DEF ContainersInvariant, OwnPlaces
  <2>6. ContainersTyped' /\ HeldHaveKind' /\ OwnPlaces' /\ ItemsFit'
    BY <2>1, <2>4 DEF ContainersInvariant, ContainersTyped, HeldHaveKind, OwnPlaces, ItemsFit, AllFit, ItemFits, IsList
  <2>7. CheckedAreInts'
    <3> SUFFICES ASSUME NEW u \in ContainerThreads, checked'[u] # None
                 PROVE  /\ checked'[u].item = "int" /\ inner[checked'[u].ref] \in ItemLists
                        /\ \A q \in Contained : prop[q] # None /\ prop[q].ref = checked'[u].ref => IsList(q)
      BY <2>1 DEF CheckedAreInts, IsList
    <3>1. CASE u = t
      BY <2>1, <2>2, <2>3, <2>4, <2>5, <3>1
    <3>2. CASE u # t
      BY <2>4, <3>2 DEF ContainersInvariant, CheckedAreInts
    <3> QED
      BY <3>1, <3>2
  <2>8. NearlyFull'
    <3> SUFFICES ASSUME NEW q \in Contained, prop[q] # None, IsList(q), prop[q].ref \notin bypassed
                 PROVE  Len(inner[prop[q].ref]) + Cardinality({u \in ContainerThreads :
                                                     checked'[u] # None /\ checked'[u].ref = prop[q].ref})
                          <= High + Cardinality(ContainerThreads) - 1
      BY <2>1 DEF NearlyFull, IsList, Waiting
    <3> DEFINE now == {u \in ContainerThreads : checked'[u] # None /\ checked'[u].ref = prop[q].ref}
    <3>1. CASE q = p
      <4>1. IsFiniteSet(ContainerThreads) /\ now \subseteq ContainerThreads
        BY DEF Containers!ContainersAssumption, Containers!IsFiniteSet, IsFiniteSet
      <4> HIDE DEF now
      <4>2. Cardinality(now) <= Cardinality(ContainerThreads) /\ Cardinality(now) \in Nat
            /\ Cardinality(ContainerThreads) \in Nat
        BY <4>1, FS_Subset, FS_CardinalityType
      <4> QED
        BY <2>2, <3>1, <4>2 DEF now
    <3>2. CASE q # p
      <4>1. now = Waiting(prop[q].ref)
        BY <2>1, <2>3, <2>4, <2>5, <3>2 DEF Waiting
      <4> QED
        BY <4>1 DEF ContainersInvariant, NearlyFull
    <3> QED
      BY <3>1, <3>2
  <2> QED
    BY <2>6, <2>7, <2>8 DEF ContainersInvariant
<1> QED
  BY <1>1, <1>2

\* An item that was checked is put in.
LEMMA InsertKeeps ==
    ASSUME Containers!ContainersAssumption, ContainersInvariant, NEW t \in ContainerThreads, Containers!Insert(t)
    PROVE  ContainersInvariant'
<1> DEFINE r == checked[t].ref  s == Append(inner[r], checked[t].item)
<1>1. /\ checked[t] # None /\ inner' = [inner EXCEPT ![r] = s] /\ checked' = [checked EXCEPT ![t] = None]
      /\ prop' = prop /\ bypassed' = bypassed
  BY DEF Containers!Insert
<1>2. r \in Refs /\ inner[r] \in Seq(Items) /\ checked[t].item = "int" /\ checked[t].item \in Items
      /\ \A q \in Contained : prop[q] # None /\ prop[q].ref = r => IsList(q)
  BY <1>1 DEF ContainersInvariant, ContainersTyped, Insertions, CheckedAreInts, ItemLists
<1>3. /\ s \in Seq(Items) /\ Len(s) = Len(inner[r]) + 1 /\ Len(inner[r]) \in Nat
      /\ \A i \in 1 .. Len(inner[r]) : s[i] = inner[r][i]
      /\ s[Len(inner[r]) + 1] = "int"
  BY <1>2, AppendProperties, LenProperties
<1>4. DOMAIN s = 1 .. Len(inner[r]) + 1 /\ DOMAIN inner[r] = 1 .. Len(inner[r])
  BY <1>2, <1>3, LenProperties
<1> HIDE DEF s
<1>5. /\ inner' \in [Refs -> ItemLists \cup Dictionaries \cup {None}] /\ inner'[r] = s
      /\ \A q \in Refs : q # r => inner'[q] = inner[q]
  BY <1>1, <1>2, <1>3 DEF ContainersInvariant, ContainersTyped, ItemLists
<1>6. /\ checked' \in [ContainerThreads -> Insertions \cup {None}] /\ checked'[t] = None
      /\ \A u \in ContainerThreads : u # t => checked'[u] = checked[u]
  BY <1>1 DEF ContainersInvariant, ContainersTyped
<1>7. \A q \in Contained : prop[q] # None => prop[q].ref \in Refs
  BY HeldFacts
<1>8. ContainersTyped' /\ OwnPlaces'
  BY <1>1, <1>5, <1>6 DEF ContainersInvariant, ContainersTyped, OwnPlaces
<1>9. HeldHaveKind'
  BY <1>1, <1>2, <1>3, <1>5, <1>7 DEF ContainersInvariant, HeldHaveKind, IsList, ItemLists
<1>10. CheckedAreInts'
  <2> SUFFICES ASSUME NEW u \in ContainerThreads, checked'[u] # None
               PROVE  /\ checked'[u].item = "int" /\ inner'[checked'[u].ref] \in ItemLists
                      /\ \A q \in Contained : prop[q] # None /\ prop[q].ref = checked'[u].ref => IsList(q)
    BY <1>1 DEF CheckedAreInts, IsList
  <2>1. u # t /\ checked'[u] = checked[u] /\ checked[u].ref \in Refs
    BY <1>6 DEF ContainersInvariant, ContainersTyped, Insertions
  <2> QED
    BY <1>3, <1>5, <2>1 DEF ContainersInvariant, CheckedAreInts, ItemLists
<1>11. ItemsFit'
  <2> SUFFICES ASSUME NEW q \in Contained, prop[q] # None, prop[q].ref \notin bypassed
               PROVE  AllFit(q, inner'[prop[q].ref])
    BY <1>1, ItemsFitAfter
  <2>1. AllFit(q, inner[prop[q].ref])
    BY HeldFacts
  <2>2. CASE prop[q].ref # r
    BY <1>5, <1>7, <2>1, <2>2
  <2>3. CASE prop[q].ref = r
    <3>1. IsList(q)
      BY <1>2, <2>3
    <3>2. ASSUME NEW i \in DOMAIN s PROVE s[i] = "int"
      <4>1. CASE i = Len(inner[r]) + 1
        BY <1>3, <4>1
      <4>2. CASE i # Len(inner[r]) + 1
        <5>1. i \in 1 .. Len(inner[r])
          BY <1>3, <1>4, <4>2
        <5> QED
          BY <1>3, <1>4, <2>1, <2>3, <3>1, <5>1 DEF AllFit, ItemFits, IsList
      <4> QED
        BY <4>1, <4>2
    <3> QED
      BY <1>5, <2>3, <3>1, <3>2 DEF AllFit, ItemFits
  <2> QED
    BY <2>2, <2>3
<1>12. NearlyFull'
  <2> SUFFICES ASSUME NEW q \in Contained, prop[q] # None, IsList(q), prop[q].ref \notin bypassed
               PROVE  Len(inner'[prop[q].ref]) + Cardinality({u \in ContainerThreads :
                                                   checked'[u] # None /\ checked'[u].ref = prop[q].ref})
                        <= High + Cardinality(ContainerThreads) - 1
    BY <1>1 DEF NearlyFull, IsList, Waiting
  <2> DEFINE now == {u \in ContainerThreads : checked'[u] # None /\ checked'[u].ref = prop[q].ref}
  <2>1. Len(inner[prop[q].ref]) + Cardinality(Waiting(prop[q].ref)) <= High + Cardinality(ContainerThreads) - 1
    BY DEF ContainersInvariant, NearlyFull
  <2>2. CASE prop[q].ref # r
    <3>1. now = Waiting(prop[q].ref)
      BY <1>1, <1>6, <2>2 DEF Waiting
    <3> QED
      BY <1>5, <1>7, <2>1, <2>2, <3>1
  <2>3. CASE prop[q].ref = r
    <3>1. now = Waiting(r) \ {t} /\ t \in Waiting(r)
      BY <1>1, <1>6, <2>3 DEF Waiting
    <3>2. Cardinality(now) = Cardinality(Waiting(r)) - 1
      BY <3>1, WaitingFacts, FS_RemoveElement, ZenonT(30)
    <3>3. High \in Nat
      BY DEF Containers!ContainersAssumption
    <3> HIDE DEF now
    <3>4. Len(inner'[r]) + Cardinality(now) <= High + Cardinality(ContainerThreads) - 1
      BY <1>3, <1>5, <2>1, <2>3, <3>2, <3>3, WaitingFacts
    <3> QED
      BY <2>3, <3>4 DEF now
  <2> QED
    BY <2>2, <2>3
<1> QED
  BY <1>8, <1>9, <1>10, <1>11, <1>12 DEF ContainersInvariant

(* Before anything is set.                                                 *)
LEMMA ContainersInit == Containers!Init => ContainersInvariant
BY DEF Containers!Init, ContainersInvariant, ContainersTyped, HeldHaveKind, OwnPlaces, CheckedAreInts, ItemsFit,
       NearlyFull

\* Every operation keeps the invariant.
LEMMA ContainersNext ==
    ASSUME Containers!ContainersAssumption, ContainersInvariant, [Containers!Next]_Containers!vars
    PROVE  ContainersInvariant'
<1>0. High + 1 \in Nat
  BY DEF Containers!ContainersAssumption
<1>1. CASE UNCHANGED Containers!vars
  BY <1>1, NothingKeeps DEF Containers!vars
<1>2. ASSUME NEW t \in ContainerThreads, Containers!Insert(t) PROVE ContainersInvariant'
  BY <1>2, InsertKeeps
<1>3. ASSUME NEW p \in Contained, Containers!Idle,
             \/ \E c \in Containers!ListsUpTo(High + 1) :
                   Kind[p] = "list" /\ (Containers!Assign(p, c) \/ Containers!Extend(p, c)
                                         \/ Containers!AddAndAssign(p, c))
             \/ \E c \in Containers!Dicts : Kind[p] # "list" /\ (Containers!Assign(p, c) \/ Containers!Update(p, c))
             \/ \E x \in Items :
                   \/ Containers!Raw(p, x)
                   \/ \E t \in ContainerThreads : Containers!CheckInsertion(t, p, x)
                   \/ \E i \in 1 .. High : Containers!SetItem(p, i, x)
                   \/ \E k \in AnyKey : Containers!SetKey(p, k, x)
             \/ \E i \in 1 .. High : Containers!RemoveItem(p, i)
             \/ \E ks \in SUBSET AnyKey : Containers!RemoveKeys(p, ks)
             \/ \E k \in AnyKey : Containers!SetDefault(p, k)
             \/ Containers!Restore(p) \/ Containers!Clear(p) \/ Containers!Double(p)
      PROVE  ContainersInvariant'
  <2>1. ASSUME NEW c \in Containers!ListsUpTo(High + 1), Kind[p] = "list",
               Containers!Assign(p, c) \/ Containers!Extend(p, c) \/ Containers!AddAndAssign(p, c)
        PROVE  ContainersInvariant'
    <3>1. c \in ItemLists
      BY <1>0, GivenLists
    <3>2. CASE Containers!Assign(p, c)
      BY <2>1, <3>1, <3>2, AssignKeeps DEF IsList
    <3>3. CASE Containers!Extend(p, c) \/ Containers!AddAndAssign(p, c)
      BY <1>3, <2>1, <3>1, <3>3, ListStepsKeep
    <3> QED
      BY <2>1, <3>2, <3>3
  <2>2. ASSUME NEW c \in Containers!Dicts, Kind[p] # "list", Containers!Assign(p, c) PROVE ContainersInvariant'
    BY <2>2, AssignKeeps DEF IsList
  <2>3. CASE \/ \E c \in Containers!Dicts : Kind[p] # "list" /\ Containers!Update(p, c)
             \/ \E k \in AnyKey, x \in Items : Containers!SetKey(p, k, x)
             \/ \E ks \in SUBSET AnyKey : Containers!RemoveKeys(p, ks)
             \/ \E k \in AnyKey : Containers!SetDefault(p, k)
    BY <2>3, DictStepsKeep
  <2>4. CASE \/ \E x \in Items : Containers!Raw(p, x)
             \/ \E i \in 1 .. High, x \in Items : Containers!SetItem(p, i, x)
             \/ \E i \in 1 .. High : Containers!RemoveItem(p, i)
             \/ Containers!Clear(p) \/ Containers!Double(p)
    BY <1>3, <2>4, ListStepsKeep
  <2>5. ASSUME NEW t \in ContainerThreads, NEW x \in Items, Containers!CheckInsertion(t, p, x)
        PROVE  ContainersInvariant'
    BY <2>5, CheckKeeps
  <2>6. CASE Containers!Restore(p)
    BY <2>6, RestoreKeeps
  <2> QED
    BY <1>3, <2>1, <2>2, <2>3, <2>4, <2>5, <2>6
<1> QED
  BY <1>1, <1>2, <1>3 DEF Containers!Next, AnyKey

(* What the invariant says of the contents.                                *)
LEMMA ContainersHold ==
    ASSUME Containers!ContainersAssumption, ContainersInvariant
    PROVE  Containers!TypeOK /\ Containers!ItemsTyped /\ Containers!NearlyBounded
<1>1. Containers!TypeOK
  BY DEF ContainersInvariant, ContainersTyped, Containers_, Insertions, Containers!TypeOK
<1>2. Containers!ItemsTyped
  <2> SUFFICES ASSUME NEW p \in Contained, prop[p] # None, prop[p].ref \notin bypassed,
                      NEW i \in DOMAIN Containers!Content(p),
                      ~Containers!Typed(p, Containers!WithKey(<<>>, IF Kind[p] = "list" THEN 1 ELSE i,
                                                              Containers!Content(p)[i]))
               PROVE  Kind[p] # "list" /\ Containers!Content(p)[i] = "none"
    BY DEF Containers!ItemsTyped
  <2> DEFINE x == Containers!Content(p)[i]  k == IF Kind[p] = "list" THEN 1 ELSE i
             e == Containers!WithKey(<<>>, k, x)
  <2>1. ItemFits(p, i, x)
    BY HeldFacts DEF AllFit
  <2>2. DOMAIN e = {k} /\ e[k] = x
    BY DEF Containers!WithKey
  <2>3. ~Containers!Typed(p, e)
    OBVIOUS
  <2>4. k = IF Kind[p] = "list" THEN 1 ELSE i
    OBVIOUS
  <2> HIDE DEF x, e, k
  <2>5. Kind[p] # "list" /\ x = "none"
    BY <2>1, <2>2, <2>3, <2>4 DEF ItemFits, IsList, Containers!Typed, Containers!ListItems, Containers!DictItems,
                                  Containers!MappingItems
  <2> QED
    BY <2>5 DEF x
<1>3. Containers!NearlyBounded
  <2> SUFFICES ASSUME NEW p \in Contained, prop[p] # None, Kind[p] = "list", prop[p].ref \notin bypassed
               PROVE  Containers!Length(Containers!Content(p)) <= High + Containers!Cardinality(ContainerThreads) - 1
    BY DEF Containers!NearlyBounded, Containers!Holds
  <2> DEFINE c == inner[prop[p].ref]
  <2>1. Containers!Content(p) = c /\ c \in ItemLists
    BY HeldFacts DEF IsList
  <2>2. Len(c) + Cardinality(Waiting(prop[p].ref)) <= High + Cardinality(ContainerThreads) - 1
    BY DEF ContainersInvariant, NearlyFull, IsList
  <2>3. Containers!Cardinality(ContainerThreads) = Cardinality(ContainerThreads) /\ High \in Nat
    BY DEF Containers!Cardinality, Cardinality, Containers!ContainersAssumption
  <2>4. Len(c) <= High + Cardinality(ContainerThreads) - 1
    BY <2>1, <2>2, <2>3, LengthIsLen, WaitingFacts
  <2> QED
    BY <2>1, <2>3, <2>4, LengthIsLen
<1> QED
  BY <1>1, <1>2, <1>3

(* Whatever operations are used, by any number of threads: what is in a    *)
(* typed container has its type, but for the None of setdefault(), and a   *)
(* list is longer than its bound by no more than one item for each further *)
(* thread, unless it is changed past the checks (parameters.py:2337).      *)
THEOREM AllContentsAreTyped == ThingsSpec => []ContentsAreTyped
<1>1. ThingsInit => ContainersInvariant
  BY ContainersInit DEF ThingsInit
<1>2. ContainersInvariant /\ [ThingsNext]_allVars => ContainersInvariant'
  <2>1. [ThingsNext]_allVars => [Containers!Next]_Containers!vars
    BY DEF ThingsNext, allVars, containersVars, Containers!vars
  <2> QED
    BY <2>1, ThingsAssumption, ContainersNext
<1>3. ContainersInvariant => ContentsAreTyped
  BY ThingsAssumption, ContainersHold DEF ContentsAreTyped
<1> QED
  BY <1>1, <1>2, <1>3, PTL DEF ThingsSpec

(***************************************************************************)
(* The state machine: ThingStates.                                         *)
(***************************************************************************)
\* How many elements of a sequence are in S.
Count(S, w) == Cardinality({i \in DOMAIN w : w[i] \in S})
One(b) == IF b THEN 1 ELSE 0

(* A count is a number, and nothing is in the empty sequence.              *)
LEMMA CountType ==
    ASSUME NEW F, NEW w \in Seq(F), NEW S
    PROVE  /\ Count(S, w) \in Nat /\ IsFiniteSet({i \in DOMAIN w : w[i] \in S})
           /\ w = <<>> => Count(S, w) = 0
<1> DEFINE P == {i \in DOMAIN w : w[i] \in S}
<1>1. DOMAIN w = 1 .. Len(w) /\ Len(w) \in Nat
  BY LenProperties
<1>2. IsFiniteSet(1 .. Len(w))
  BY <1>1, FS_Interval
<1>3. P \in SUBSET (1 .. Len(w))
  BY <1>1
<1> HIDE DEF P
<1>4. IsFiniteSet(P) /\ Cardinality(P) \in Nat
  BY <1>2, <1>3, FS_Subset, FS_CardinalityType
<1>5. w = <<>> => P = {}
  BY <1>1, <1>3
<1> QED
  BY <1>4, <1>5, FS_EmptySet DEF Count, P

(* What is appended counts once.                                           *)
LEMMA CountAppend ==
    ASSUME NEW F, NEW w \in Seq(F), NEW v \in F, NEW S
    PROVE  Count(S, Append(w, v)) = Count(S, w) + One(v \in S)
<1> DEFINE a == Append(w, v)  n == Len(w)
           P == {i \in DOMAIN w : w[i] \in S}  Q == {i \in DOMAIN a : a[i] \in S}
<1>1. DOMAIN w = 1 .. n /\ n \in Nat /\ DOMAIN a = 1 .. n + 1
  BY LenProperties, AppendProperties
<1>2. a[n + 1] = v /\ \A i \in 1 .. n : a[i] = w[i]
  BY AppendProperties
<1>3. IsFiniteSet(P) /\ Cardinality(P) \in Nat
  BY CountType DEF Count
<1>4. Q = IF v \in S THEN P \cup {n + 1} ELSE P
  <2> HIDE DEF a, n
  <2> QED
    BY <1>1, <1>2
<1>5. n + 1 \notin P
  BY <1>1
<1> HIDE DEF P, Q, n, a
<1>6. Cardinality(P \cup {n + 1}) = Cardinality(P) + 1
  BY <1>3, <1>5, FS_AddElement
<1>7. Cardinality(Q) = Cardinality(P) + One(v \in S)
  BY <1>3, <1>4, <1>6 DEF One
<1> QED
  BY <1>7 DEF Count, P, Q, a

(* What is put in front counts once.                                       *)
LEMMA CountPush ==
    ASSUME NEW F, NEW w \in Seq(F), NEW v \in F, NEW S
    PROVE  /\ <<v>> \o w \in Seq(F) /\ <<v>> \o w # <<>> /\ Len(<<v>> \o w) = Len(w) + 1
           /\ Head(<<v>> \o w) = v /\ Tail(<<v>> \o w) = w
           /\ Count(S, <<v>> \o w) = Count(S, w) + One(v \in S)
<1> DEFINE a == <<v>> \o w  n == Len(w)
           P == {i \in DOMAIN w : w[i] \in S}  Q == {i \in DOMAIN a : a[i] \in S}
           R == Q \ {1}
<1>1. <<v>> \in Seq(F) /\ Len(<<v>>) = 1 /\ <<v>>[1] = v
  OBVIOUS
<1>2. /\ a \in Seq(F) /\ Len(a) = n + 1
      /\ \A i \in 1 .. n + 1 : a[i] = IF i <= 1 THEN v ELSE w[i - 1]
  <2>1. /\ a \in Seq(F) /\ Len(a) = Len(<<v>>) + n
        /\ \A i \in 1 .. Len(<<v>>) + n : a[i] = IF i <= Len(<<v>>) THEN <<v>>[i] ELSE w[i - Len(<<v>>)]
    BY <1>1, ConcatProperties
  <2>2. n \in Nat
    BY LenProperties
  <2>3. Len(a) = n + 1
    BY <1>1, <2>1, <2>2
  <2>4. ASSUME NEW i \in 1 .. n + 1 PROVE a[i] = IF i <= 1 THEN v ELSE w[i - 1]
    <3>1. i \in 1 .. Len(<<v>>) + n
      BY <1>1, <2>2
    <3>2. i <= 1 => i = 1
      BY <2>2
    <3> QED
      BY <1>1, <2>1, <3>1, <3>2
  <2> QED
    BY <2>1, <2>3, <2>4
<1>3. DOMAIN w = 1 .. n /\ n \in Nat /\ DOMAIN a = 1 .. n + 1
  BY <1>2, LenProperties
<1>4. a # <<>> /\ Head(a) = v /\ Tail(a) = w
  <2>1. a # <<>>
    BY <1>2, <1>3, EmptySeq
  <2>2. Head(a) = a[1] /\ a[1] = v
    BY <1>2, <1>3
  <2>3. Tail(a) \in Seq(F) /\ Len(Tail(a)) = n /\ \A i \in 1 .. n : Tail(a)[i] = a[i + 1]
    <3>1. Tail(a) \in Seq(F) /\ Len(Tail(a)) = Len(a) - 1 /\ \A i \in 1 .. Len(Tail(a)) : Tail(a)[i] = a[i + 1]
      BY <1>2, <2>1, HeadTailProperties
    <3> QED
      BY <1>2, <1>3, <3>1
  <2>4. ASSUME NEW i \in 1 .. n PROVE a[i + 1] = w[i]
    <3>1. i + 1 \in 1 .. n + 1 /\ ~(i + 1 <= 1) /\ (i + 1) - 1 = i
      BY <1>3
    <3> QED
      BY <1>2, <3>1
  <2>5. Tail(a) = w
    BY <2>3, <2>4, SeqEqual
  <2> QED
    BY <2>1, <2>2, <2>5
<1>5. IsFiniteSet(P) /\ Cardinality(P) \in Nat /\ IsFiniteSet(Q) /\ Cardinality(Q) \in Nat
  BY <1>2, CountType DEF Count
<1>6. P \subseteq Nat /\ R \subseteq Nat /\ \A i \in Nat : i \in P <=> i + 1 \in R
  <2>1. ASSUME NEW i \in Nat PROVE i \in P <=> i + 1 \in R
    <3> HIDE DEF a, n
    <3>1. i \in 1 .. n <=> i + 1 \in 1 .. n + 1 /\ i + 1 # 1
      BY <1>3
    <3>2. i \in 1 .. n => a[i + 1] = w[i]
      <4>1. i \in 1 .. n => i + 1 \in 1 .. n + 1 /\ ~(i + 1 <= 1) /\ (i + 1) - 1 = i
        BY <1>3
      <4> QED
        BY <1>2, <4>1 DEF a
    <3> QED
      BY <1>3, <3>1, <3>2
  <2> QED
    BY <1>3, <2>1
<1>7. 1 \in Q <=> v \in S
  BY <1>2, <1>3
<1> HIDE DEF P, Q, a, n
<1>8. R \subseteq Nat \ {0} /\ IsFiniteSet(R)
  <2>1. IsFiniteSet(R)
    BY <1>5, FS_RemoveElement
  <2>2. 0 \notin R
    BY <1>3 DEF Q
  <2> QED
    BY <1>6, <2>1, <2>2
<1> HIDE DEF R
<1>9. Cardinality(R) = Cardinality(P)
  <2> DEFINE f == [i \in P |-> i + 1]
  <2>1. f \in Bijection(P, R)
    <3>1. f \in [P -> R]
      BY <1>6
    <3>2. \A i, j \in P : f[i] = f[j] => i = j
      BY <1>6
    <3>3. \A j \in R : \E i \in P : f[i] = j
      <4> SUFFICES ASSUME NEW j \in R PROVE j - 1 \in P /\ f[j - 1] = j
        OBVIOUS
      <4>1. j - 1 \in Nat /\ (j - 1) + 1 = j
        BY <1>8
      <4> QED
        BY <1>6, <4>1
    <3> QED
      BY <3>1, <3>2, <3>3 DEF Bijection, Injection, Surjection, IsInjective
  <2>2. ExistsBijection(P, R)
    BY <2>1 DEF ExistsBijection
  <2> QED
    BY <1>5, <2>2, FS_Bijection
<1>10. Cardinality(Q) = Cardinality(R) + One(v \in S)
  <2>1. Cardinality(Q \ {1}) = IF 1 \in Q THEN Cardinality(Q) - 1 ELSE Cardinality(Q)
    BY <1>5, FS_RemoveElement
  <2> QED
    BY <1>5, <1>7, <2>1 DEF One, R
<1>11. Count(S, a) = Count(S, w) + One(v \in S)
  BY <1>9, <1>10 DEF Count, P, Q
<1> QED
  BY <1>2, <1>4, <1>11 DEF a, n

(* A sequence that is not empty counts its head and its tail.              *)
LEMMA CountTail ==
    ASSUME NEW F, NEW w \in Seq(F), w # <<>>, NEW S
    PROVE  /\ Head(w) \in F /\ Tail(w) \in Seq(F)
           /\ Count(S, w) = Count(S, Tail(w)) + One(Head(w) \in S)
<1>1. w = <<Head(w)>> \o Tail(w) /\ Tail(w) \in Seq(F) /\ Head(w) \in F
  BY HeadThenTail
<1>2. Count(S, <<Head(w)>> \o Tail(w)) = Count(S, Tail(w)) + One(Head(w) \in S)
  BY <1>1, CountPush, ZenonT(30)
<1> QED
  BY <1>1, <1>2

(***************************************************************************)
(* The invariant.  A call of set_state() that assigned owes a callback to  *)
(* the state it left and one to the state it enters.                       *)
(***************************************************************************)
OwesExit(s) == {f \in States!Frames : f.from = s /\ f.at \in {"push", "exit"}}
OwesEnter(s) == {f \in States!Frames : f.to = s /\ f.at \in {"push", "exit", "enter"}}

\* A call on the stack knows its states once it has compared them; only the
\* innermost one is about to assign or to push.
Waits(f) == f \in States!Frames /\ f.at \in {"enter", "return"} /\ f.to \in MachineStates
Runs(f) ==
    /\ f \in States!Frames
    /\ f.at # "compare" => f.to \in MachineStates
    /\ f.at \in {"push", "exit"} => f.from \in MachineStates
StackFits(w) == w \in Seq(States!Frames) /\ (w # <<>> => Runs(Head(w)) /\ Tail(w) \in Seq({f \in States!Frames : Waits(f)}))

\* The callbacks that ran and those that are owed are what the trail says, in
\* the state `now`.
Counted(w, now, tr, en, le) ==
    \A s \in MachineStates :
        /\ Count({s}, en) + Count(OwesEnter(s), w) = Count({s}, tr)
        /\ Count({s}, le) + Count(OwesExit(s), w) + One(s = now) = Count({s}, tr) + One(s = InitialState)

\* The state after a trail, and the events that tell it.
After(tr) == IF tr = <<>> THEN InitialState ELSE tr[Len(tr)]
Tells(ne, tr) == ne = tr \/ ne = <<InitialState>> \o tr

\* An event is missing exactly while the innermost call is about to push it.
Told(w, tr, ne) ==
    /\ (w = <<>> \/ Head(w).at # "push") => Tells(ne, tr)
    /\ w # <<>> /\ Head(w).at = "push" =>
          \E p \in Seq(MachineStates) : /\ tr = Append(p, Head(w).to) /\ Tells(ne, p)
                                        /\ Head(w).to # After(p)
    /\ w # <<>> /\ Head(w).at = "assign" => Head(w).to # After(tr)

\* What one Thing keeps: stack, state, trail, callbacks and events.
Typed(w, k, tr, en, le, ne) ==
    /\ StackFits(w) /\ k \in MachineStates \cup {None}
    /\ tr \in Seq(MachineStates) /\ en \in Seq(MachineStates) /\ le \in Seq(MachineStates) /\ ne \in Seq(MachineStates)
    /\ k = IF tr = <<>> THEN None ELSE After(tr)
Fits(w, k, tr, en, le, ne, raised) ==
    Typed(w, k, tr, en, le, ne) /\ (~raised => Counted(w, After(tr), tr, en, le) /\ Told(w, tr, ne))

Calls(c) == {t \in StateThreads : ServedBy[t] = c}
StatesInvariant ==
    /\ States!TypeOK
    /\ \A t \in StateThreads :
         LET c == ServedBy[t] IN Fits(stack[t], kept[c], trail[c], entered[c], left[c], news[c], c \in failed)
    /\ \A c \in ThingClasses : Calls(c) = {} => Fits(<<>>, kept[c], trail[c], entered[c], left[c], news[c], c \in failed)

(***************************************************************************)
(* Steps of a stack.                                                       *)
(***************************************************************************)
\* A call that begins: it will compare.
Begins(s) == [to |-> s, from |-> None, at |-> "compare"]

\* A stack w2 owes what w owes, but h for f.
Differs(w2, w, h, f) == \A S : Count(S, w2) = Count(S, w) - One(h \in S) + One(f \in S)

(* A stack that is not empty: its innermost call and those that wait.      *)
LEMMA StackParts ==
    ASSUME NEW w, StackFits(w), w # <<>>
    PROVE  /\ Runs(Head(w)) /\ Head(w) \in States!Frames
           /\ Tail(w) \in Seq({f \in States!Frames : Waits(f)}) /\ Tail(w) \in Seq(States!Frames)
           /\ \A S : Count(S, w) \in Nat /\ Count(S, Tail(w)) \in Nat
           /\ \A S : Count(S, w) = Count(S, Tail(w)) + One(Head(w) \in S)
<1>1. /\ w \in Seq(States!Frames) /\ Runs(Head(w))
      /\ Tail(w) \in Seq({f \in States!Frames : Waits(f)})
  BY DEF StackFits
<1>2. Head(w) \in States!Frames /\ Tail(w) \in Seq(States!Frames)
  BY <1>1, HeadTailProperties
<1>3. ASSUME NEW S PROVE Count(S, w) \in Nat /\ Count(S, Tail(w)) \in Nat
  BY <1>1, <1>2, CountType
<1>4. ASSUME NEW S PROVE Count(S, w) = Count(S, Tail(w)) + One(Head(w) \in S)
  BY <1>1, CountTail
<1> QED
  BY <1>1, <1>2, <1>3, <1>4

(* A call in front of calls that wait.                                     *)
LEMMA StackPushed ==
    ASSUME NEW r, r \in Seq({f \in States!Frames : Waits(f)}), NEW f, Runs(f)
    PROVE  /\ StackFits(<<f>> \o r) /\ <<f>> \o r # <<>> /\ Head(<<f>> \o r) = f
           /\ \A S : Count(S, <<f>> \o r) = Count(S, r) + One(f \in S)
           /\ \A S : Count(S, r) \in Nat
<1>1. f \in States!Frames
  BY DEF Runs
<1>2. r \in Seq(States!Frames)
  <2> DEFINE W == {g \in States!Frames : Waits(g)}
  <2>1. r \in Seq(W) /\ W \subseteq States!Frames
    OBVIOUS
  <2> QED
    BY <2>1, LenProperties, ElementOfSeq, SeqDef, IsASeq
<1>3. /\ <<f>> \o r \in Seq(States!Frames) /\ <<f>> \o r # <<>>
      /\ Head(<<f>> \o r) = f /\ Tail(<<f>> \o r) = r
  BY <1>1, <1>2, CountPush
<1>4. ASSUME NEW S PROVE Count(S, <<f>> \o r) = Count(S, r) + One(f \in S)
  BY <1>1, <1>2, CountPush
<1>5. ASSUME NEW S PROVE Count(S, r) \in Nat
  BY <1>2, CountType
<1> QED
  BY <1>3, <1>4, <1>5 DEF StackFits

(* The innermost call goes on.                                             *)
LEMMA StackGoes ==
    ASSUME NEW w, StackFits(w), w # <<>>, NEW f, Runs(f)
    PROVE  /\ StackFits(<<f>> \o Tail(w)) /\ <<f>> \o Tail(w) # <<>> /\ Head(<<f>> \o Tail(w)) = f
           /\ Differs(<<f>> \o Tail(w), w, Head(w), f)
<1>1. /\ Tail(w) \in Seq({g \in States!Frames : Waits(g)})
      /\ \A S : Count(S, w) \in Nat /\ Count(S, Tail(w)) \in Nat
      /\ \A S : Count(S, w) = Count(S, Tail(w)) + One(Head(w) \in S)
  BY StackParts
<1>2. /\ StackFits(<<f>> \o Tail(w)) /\ <<f>> \o Tail(w) # <<>> /\ Head(<<f>> \o Tail(w)) = f
      /\ \A S : Count(S, <<f>> \o Tail(w)) = Count(S, Tail(w)) + One(f \in S)
  BY <1>1, StackPushed
<1>3. ASSUME NEW S PROVE Count(S, <<f>> \o Tail(w)) = Count(S, w) - One(Head(w) \in S) + One(f \in S)
  <2> DEFINE a == Count(S, <<f>> \o Tail(w))  b == Count(S, Tail(w))  c == Count(S, w)
  <2>1. a = b + One(f \in S) /\ c = b + One(Head(w) \in S) /\ b \in Nat
    BY <1>1, <1>2
  <2> HIDE DEF a, b, c
  <2>2. a = c - One(Head(w) \in S) + One(f \in S)
    BY <2>1 DEF One
  <2> QED
    BY <2>2 DEF a, c
<1> QED
  BY <1>2, <1>3 DEF Differs

(* The innermost call waits for one that begins, which owes nothing.       *)
LEMMA StackCalls ==
    ASSUME NEW w, StackFits(w), w # <<>>, NEW f, Waits(f), NEW s \in MachineStates
    PROVE  /\ StackFits(<<Begins(s), f>> \o Tail(w)) /\ <<Begins(s), f>> \o Tail(w) # <<>>
           /\ Head(<<Begins(s), f>> \o Tail(w)) = Begins(s)
           /\ \A S : Begins(s) \notin S =>
                Count(S, <<Begins(s), f>> \o Tail(w)) = Count(S, w) - One(Head(w) \in S) + One(f \in S)
<1> DEFINE g == Begins(s)  r == <<f>> \o Tail(w)  W == {h \in States!Frames : Waits(h)}
<1>1. Runs(f) /\ f \in States!Frames /\ f \in W
  BY DEF Waits, Runs
<1>2. Runs(g)
  BY DEF Runs, Begins, States!Frames
<1>3. /\ Tail(w) \in Seq(W) /\ \A S : Count(S, r) = Count(S, w) - One(Head(w) \in S) + One(f \in S)
  BY <1>1, StackParts, StackGoes DEF Differs
<1>4. r \in Seq(W)
  BY <1>1, <1>3, CountPush
<1>5. /\ StackFits(<<g>> \o r) /\ <<g>> \o r # <<>> /\ Head(<<g>> \o r) = g
      /\ \A S : Count(S, <<g>> \o r) = Count(S, r) + One(g \in S)
      /\ \A S : Count(S, r) \in Nat
  BY <1>2, <1>4, StackPushed
<1>6. <<g, f>> \o Tail(w) = <<g>> \o r
  <2>1. <<g>> \in Seq(States!Frames) /\ <<f>> \in Seq(States!Frames) /\ Tail(w) \in Seq(States!Frames)
    <3>1. g \in States!Frames /\ f \in States!Frames /\ Tail(w) \in Seq(States!Frames)
      BY <1>1, <1>2, StackParts DEF Runs
    <3> HIDE DEF g
    <3> QED
      BY <3>1
  <2>2. <<g, f>> = <<g>> \o <<f>>
    OBVIOUS
  <2> QED
    BY <2>1, <2>2, ConcatAssociative
<1>7. ASSUME NEW S, g \notin S PROVE Count(S, <<g>> \o r) = Count(S, r)
  BY <1>5, <1>7 DEF One
<1> HIDE DEF g, r
<1>8. ASSUME NEW S, g \notin S
      PROVE  Count(S, <<g>> \o r) = Count(S, w) - One(Head(w) \in S) + One(f \in S)
  BY <1>3, <1>7, <1>8
<1> QED
  BY <1>5, <1>6, <1>8 DEF g

(* The innermost call returns.                                             *)
LEMMA StackReturns ==
    ASSUME NEW w, StackFits(w), w # <<>>
    PROVE  /\ StackFits(Tail(w)) /\ (Tail(w) # <<>> => Head(Tail(w)).at \in {"enter", "return"})
           /\ \A S : Head(w) \notin S => Count(S, Tail(w)) = Count(S, w)
<1> DEFINE r == Tail(w)  W == {h \in States!Frames : Waits(h)}
<1>1. r \in Seq(W) /\ r \in Seq(States!Frames)
  BY StackParts
<1>2. ASSUME r # <<>> PROVE Head(r) \in W /\ Tail(r) \in Seq(W)
  BY <1>1, <1>2, HeadTailProperties
<1>3. StackFits(r)
  BY <1>1, <1>2 DEF StackFits, Waits, Runs
<1>4. ASSUME NEW S, Head(w) \notin S PROVE Count(S, r) = Count(S, w)
  <2>1. Count(S, w) = Count(S, r) + One(Head(w) \in S) /\ Count(S, r) \in Nat
    BY StackParts
  <2> HIDE DEF r
  <2> QED
    BY <1>4, <2>1 DEF One
<1> QED
  BY <1>2, <1>3, <1>4 DEF Waits

(***************************************************************************)
(* Steps of a Thing.                                                       *)
(***************************************************************************)
(* Nothing is in the histories of a Thing that was not asked for anything. *)
LEMMA FitsAtFirst ==
    ASSUME States!StatesAssumption
    PROVE  \A b : Fits(<<>>, None, <<>>, <<>>, <<>>, <<>>, b)
<1>1. StackFits(<<>>) /\ <<>> \in Seq(MachineStates)
  BY DEF StackFits
<1>2. \A S : Count(S, <<>>) = 0
  <2>1. <<>> \in Seq(MachineStates)
    OBVIOUS
  <2> QED
    BY <2>1, CountType
<1>3. Typed(<<>>, None, <<>>, <<>>, <<>>, <<>>)
  BY <1>1 DEF Typed
<1>4. Counted(<<>>, After(<<>>), <<>>, <<>>, <<>>)
  BY <1>2 DEF Counted, After, One
<1>5. Told(<<>>, <<>>, <<>>)
  BY DEF Told, Tells
<1> QED
  BY <1>3, <1>4, <1>5 DEF Fits

(* An exception empties the stack.                                         *)
LEMMA RaiseFits ==
    ASSUME NEW w, NEW k, NEW tr, NEW en, NEW le, NEW ne, Typed(w, k, tr, en, le, ne),
           NEW en2 \in Seq(MachineStates), NEW le2 \in Seq(MachineStates)
    PROVE  Fits(<<>>, k, tr, en2, le2, ne, TRUE)
BY DEF Fits, Typed, StackFits

(* A call begins.                                                          *)
LEMMA BeginFits ==
    ASSUME States!StatesAssumption, NEW k, NEW tr, NEW en, NEW le, NEW ne, NEW b, Fits(<<>>, k, tr, en, le, ne, b),
           NEW s \in MachineStates \cup {"unknown"}
    PROVE  Fits(<<Begins(s)>>, k, tr, en, le, ne, b)
<1> DEFINE g == Begins(s)  w == <<g>> \o <<>>
<1>1. Runs(g) /\ <<>> \in Seq({f \in States!Frames : Waits(f)})
  BY DEF Runs, Begins, States!Frames
<1>2. w = <<g>>
  OBVIOUS
<1>3. /\ StackFits(w) /\ w # <<>> /\ Head(w) = g
      /\ \A S : Count(S, w) = Count(S, <<>>) + One(g \in S)
      /\ \A S : Count(S, <<>>) \in Nat
  BY <1>1, StackPushed
<1>4. \A S : g \notin S => Count(S, w) = Count(S, <<>>)
  <2> SUFFICES ASSUME NEW S, g \notin S PROVE Count(S, w) = Count(S, <<>>)
    OBVIOUS
  <2>1. Count(S, w) = Count(S, <<>>) + One(g \in S) /\ Count(S, <<>>) \in Nat
    BY <1>3
  <2> HIDE DEF w
  <2> QED
    BY <2>1 DEF One
<1>5. g.at = "compare" /\ \A q : g \notin OwesExit(q) /\ g \notin OwesEnter(q)
  BY DEF Begins, OwesExit, OwesEnter
<1> HIDE DEF w, g
<1>6. Typed(w, k, tr, en, le, ne)
  BY <1>3 DEF Fits, Typed
<1>7. Counted(<<>>, After(tr), tr, en, le) => Counted(w, After(tr), tr, en, le)
  BY <1>4, <1>5 DEF Counted
<1>8. Told(<<>>, tr, ne) => Told(w, tr, ne)
  BY <1>3, <1>5 DEF Told
<1>9. Fits(w, k, tr, en, le, ne, b)
  BY <1>6, <1>7, <1>8 DEF Fits
<1> QED
  BY <1>2, <1>9 DEF g

\* What StackGoes and StackCalls have in common: the innermost call h becomes f.
Becomes(w2, w, h, f) ==
    /\ StackFits(w2) /\ w2 # <<>>
    /\ \A s \in MachineStates :
         /\ Count(OwesEnter(s), w2) = Count(OwesEnter(s), w) - One(h \in OwesEnter(s)) + One(f \in OwesEnter(s))
         /\ Count(OwesExit(s), w2) = Count(OwesExit(s), w) - One(h \in OwesExit(s)) + One(f \in OwesExit(s))
         /\ Count(OwesEnter(s), w) \in Nat /\ Count(OwesExit(s), w) \in Nat

(* The call goes on, or waits for another.                                 *)
LEMMA GoesBecomes ==
    ASSUME NEW w, StackFits(w), w # <<>>, NEW f, Runs(f)
    PROVE  Becomes(<<f>> \o Tail(w), w, Head(w), f) /\ Head(<<f>> \o Tail(w)) = f
<1> DEFINE w2 == <<f>> \o Tail(w)  h == Head(w)
<1>1. /\ StackFits(w2) /\ w2 # <<>> /\ Head(w2) = f
      /\ \A S : Count(S, w2) = Count(S, w) - One(h \in S) + One(f \in S)
  BY StackGoes DEF Differs
<1>2. \A S : Count(S, w) \in Nat
  BY StackParts
<1> HIDE DEF w2, h
<1>3. Becomes(w2, w, h, f)
  BY <1>1, <1>2 DEF Becomes
<1> QED
  BY <1>1, <1>3 DEF w2, h

(* The innermost call waits for a call of set_state() that a callback      *)
(* makes.                                                                  *)
LEMMA CallsBecomes ==
    ASSUME NEW w, StackFits(w), w # <<>>, NEW f, Waits(f), NEW s \in MachineStates
    PROVE  /\ Becomes(<<Begins(s), f>> \o Tail(w), w, Head(w), f)
           /\ Head(<<Begins(s), f>> \o Tail(w)).at = "compare"
<1> DEFINE w2 == <<Begins(s), f>> \o Tail(w)  h == Head(w)
<1>1. /\ StackFits(w2) /\ w2 # <<>> /\ Head(w2) = Begins(s)
      /\ \A S : Begins(s) \notin S => Count(S, w2) = Count(S, w) - One(h \in S) + One(f \in S)
  BY StackCalls
<1>2. Begins(s).at = "compare" /\ \A q : Begins(s) \notin OwesExit(q) /\ Begins(s) \notin OwesEnter(q)
  BY DEF Begins, OwesExit, OwesEnter
<1> HIDE DEF w2, h
<1>3. \A S : Count(S, w) \in Nat
  BY StackParts
<1>4. Becomes(w2, w, h, f)
  BY <1>1, <1>2, <1>3 DEF Becomes
<1> QED
  BY <1>1, <1>2, <1>4 DEF w2, h

(* A step of the innermost call that owes as much as before and tells      *)
(* nothing.                                                                *)
LEMMA QuietFits ==
    ASSUME NEW w, NEW k, NEW tr, NEW en, NEW le, NEW ne, NEW b, Fits(w, k, tr, en, le, ne, b), w # <<>>,
           NEW f, NEW w2, Becomes(w2, w, Head(w), f), Head(w).at \in {"compare"}, f.at \in {"return", "assign"},
           Head(w2) = f, f.at = "assign" => f.to # After(tr)
    PROVE  Fits(w2, k, tr, en, le, ne, b)
<1> DEFINE h == Head(w)
<1>1. \A q : h \notin OwesExit(q) /\ h \notin OwesEnter(q) /\ f \notin OwesExit(q) /\ f \notin OwesEnter(q)
  BY DEF OwesExit, OwesEnter
<1>2. \A s \in MachineStates : Count(OwesEnter(s), w2) = Count(OwesEnter(s), w)
                               /\ Count(OwesExit(s), w2) = Count(OwesExit(s), w)
  BY <1>1 DEF Becomes, One
<1>3. Typed(w2, k, tr, en, le, ne)
  BY DEF Fits, Typed, Becomes
<1>4. Counted(w, After(tr), tr, en, le) => Counted(w2, After(tr), tr, en, le)
  BY <1>2 DEF Counted
<1>5. Told(w, tr, ne) => Told(w2, tr, ne)
  BY DEF Told
<1> QED
  BY <1>3, <1>4, <1>5 DEF Fits

(* The events of a trail end with the state after it.                      *)
LEMMA TellsFacts ==
    ASSUME NEW p \in Seq(MachineStates), NEW ne \in Seq(MachineStates), Tells(ne, p), InitialState \in MachineStates
    PROVE  /\ ne # <<>> => ne[Len(ne)] = After(p)
           /\ ne = <<>> => p = <<>>
           /\ \A v \in MachineStates : Tells(Append(ne, v), Append(p, v))
<1> DEFINE i == <<InitialState>>  n == Len(p)
<1>1. i \in Seq(MachineStates) /\ Len(i) = 1 /\ i[1] = InitialState
  OBVIOUS
<1>2. /\ i \o p \in Seq(MachineStates) /\ Len(i \o p) = n + 1 /\ n \in Nat /\ i \o p # <<>>
      /\ (i \o p)[1] = InitialState /\ \A j \in 1 .. n : (i \o p)[j + 1] = p[j]
  <2>1. n \in Nat
    BY LenProperties
  <2>2. /\ i \o p \in Seq(MachineStates) /\ Len(i \o p) = Len(i) + n
        /\ \A j \in 1 .. Len(i) + n : (i \o p)[j] = IF j <= Len(i) THEN i[j] ELSE p[j - Len(i)]
    BY <1>1, ConcatProperties
  <2> HIDE DEF i, n
  <2>3. Len(i \o p) = n + 1
    BY <1>1, <2>1, <2>2
  <2>4. 1 \in 1 .. Len(i) + n /\ 1 <= Len(i)
    BY <1>1, <2>1
  <2>5. (i \o p)[1] = InitialState
    BY <1>1, <2>2, <2>4
  <2>6. ASSUME NEW j \in 1 .. n PROVE (i \o p)[j + 1] = p[j]
    <3>1. j + 1 \in 1 .. Len(i) + n /\ ~(j + 1 <= Len(i)) /\ (j + 1) - Len(i) = j
      BY <1>1, <2>1
    <3> QED
      BY <2>2, <3>1
  <2>7. i \o p # <<>>
    BY <2>1, <2>2, <2>3, EmptySeq
  <2> QED
    BY <2>1, <2>2, <2>3, <2>5, <2>6, <2>7
<1>3. p = <<>> <=> n = 0
  BY EmptySeq
<1>4. (i \o p)[n + 1] = After(p)
  <2> HIDE DEF i
  <2>1. CASE n = 0
    BY <1>2, <1>3, <2>1 DEF After
  <2>2. CASE n # 0
    <3>1. n \in 1 .. n
      BY <1>2, <2>2
    <3>2. (i \o p)[n + 1] = p[n]
      BY <1>2, <3>1
    <3> QED
      BY <1>3, <2>2, <3>2 DEF After
  <2> QED
    BY <2>1, <2>2
<1>5. ASSUME NEW v \in MachineStates PROVE i \o Append(p, v) = Append(i \o p, v)
  <2>1. <<v>> \in Seq(MachineStates)
    OBVIOUS
  <2>2. Append(p, v) = p \o <<v>> /\ Append(i \o p, v) = (i \o p) \o <<v>>
    BY <1>2, AppendIsConcat
  <2>3. (i \o p) \o <<v>> = i \o (p \o <<v>>)
    BY <1>1, <2>1, ConcatAssociative
  <2> QED
    BY <2>2, <2>3
<1>6. ne # <<>> => ne[Len(ne)] = After(p)
  <2>1. CASE ne = p
    BY <2>1 DEF After
  <2>2. CASE ne = i \o p
    <3>1. Len(ne) = n + 1
      BY <1>2, <2>2
    <3> HIDE DEF i, n
    <3> QED
      BY <1>4, <2>2, <3>1
  <2> QED
    BY <2>1, <2>2 DEF Tells
<1>7. ne = <<>> => p = <<>>
  BY <1>2 DEF Tells
<1>8. ASSUME NEW v \in MachineStates PROVE Tells(Append(ne, v), Append(p, v))
  BY <1>5 DEF Tells
<1> QED
  BY <1>6, <1>7, <1>8

\* A read of `state` tells it if it is another one than at the last read.
StateIsRead(ne, ne2, now) ==
    /\ ne # <<>> /\ ne[Len(ne)] = now => ne2 = ne
    /\ ~(ne # <<>> /\ ne[Len(ne)] = now) => ne2 = Append(ne, now)

(* The state is assigned.                                                  *)
LEMMA AssignFits ==
    ASSUME InitialState \in MachineStates, None \notin MachineStates,
           NEW w, NEW k, NEW tr, NEW en, NEW le, NEW ne, NEW b, Fits(w, k, tr, en, le, ne, b), w # <<>>,
           NEW f, NEW w2, Becomes(w2, w, Head(w), f), Head(w2) = f, Head(w).at = "assign",
           f = [to |-> Head(w).to, from |-> After(tr), at |-> "push"], f \in States!Frames
    PROVE  Fits(w2, Head(w).to, Append(tr, Head(w).to), en, le, ne, b)
<1> DEFINE h == Head(w)  to == Head(w).to  tr2 == Append(tr, to)
<1>1. /\ Typed(w, k, tr, en, le, ne) /\ StackFits(w) /\ Runs(h) /\ to \in MachineStates /\ tr \in Seq(MachineStates)
  BY DEF Fits, Typed, StackFits, Runs
<1>2. tr2 \in Seq(MachineStates) /\ tr2 # <<>> /\ After(tr2) = to
  BY <1>1, AppendProperties DEF After
<1>3. Typed(w2, to, tr2, en, le, ne)
  BY <1>1, <1>2 DEF Typed, Becomes
<1>4. \A s : h \notin OwesExit(s) /\ h \notin OwesEnter(s)
  BY DEF OwesExit, OwesEnter
<1>5. \A s : (f \in OwesExit(s) <=> s = After(tr)) /\ (f \in OwesEnter(s) <=> s = to)
  BY DEF OwesExit, OwesEnter
<1>6. ASSUME Counted(w, After(tr), tr, en, le) PROVE Counted(w2, to, tr2, en, le)
  <2> SUFFICES ASSUME NEW s \in MachineStates
               PROVE  /\ Count({s}, en) + Count(OwesEnter(s), w2) = Count({s}, tr2)
                      /\ Count({s}, le) + Count(OwesExit(s), w2) + One(s = to) = Count({s}, tr2) + One(s = InitialState)
    BY DEF Counted
  <2>1. /\ Count({s}, en) + Count(OwesEnter(s), w) = Count({s}, tr)
        /\ Count({s}, le) + Count(OwesExit(s), w) + One(s = After(tr)) = Count({s}, tr) + One(s = InitialState)
    BY <1>6 DEF Counted
  <2>2. Count({s}, tr2) = Count({s}, tr) + One(s = to)
    <3>1. Count({s}, tr2) = Count({s}, tr) + One(to \in {s})
      BY <1>1, CountAppend
    <3> QED
      BY <3>1 DEF One
  <2>3. /\ Count(OwesEnter(s), w2) = Count(OwesEnter(s), w) + One(s = to)
        /\ Count(OwesExit(s), w2) = Count(OwesExit(s), w) + One(s = After(tr))
        /\ Count(OwesEnter(s), w) \in Nat /\ Count(OwesExit(s), w) \in Nat
    BY <1>4, <1>5 DEF Becomes, One
  <2>4. Count({s}, en) \in Nat /\ Count({s}, le) \in Nat /\ Count({s}, tr) \in Nat
    BY <1>1, CountType DEF Typed
  <2>5. One(s = to) \in Nat /\ One(s = After(tr)) \in Nat /\ One(s = InitialState) \in Nat
    BY DEF One
  <2> QED
    BY <2>1, <2>2, <2>3, <2>4, <2>5, SMTT(30)
<1>7. ASSUME Told(w, tr, ne) PROVE Told(w2, tr2, ne)
  <2>1. Tells(ne, tr) /\ to # After(tr)
    BY <1>7 DEF Told
  <2>2. w2 # <<>> /\ Head(w2).at = "push" /\ Head(w2).to = to
    BY DEF Becomes
  <2> HIDE DEF to
  <2> QED
    BY <1>1, <2>1, <2>2 DEF Told
<1> QED
  BY <1>2, <1>3, <1>6, <1>7 DEF Fits

(* The change event is pushed.                                             *)
LEMMA PushFits ==
    ASSUME InitialState \in MachineStates, None \notin MachineStates,
           NEW w, NEW k, NEW tr, NEW en, NEW le, NEW ne, NEW b, Fits(w, k, tr, en, le, ne, b), w # <<>>,
           NEW f, NEW w2, Becomes(w2, w, Head(w), f), Head(w2) = f, Head(w).at = "push",
           f = [Head(w) EXCEPT !.at = "exit"], NEW ne2, StateIsRead(ne, ne2, After(tr))
    PROVE  Fits(w2, k, tr, en, le, ne2, b)
<1> DEFINE h == Head(w)
<1>1. /\ Typed(w, k, tr, en, le, ne) /\ StackFits(w) /\ Runs(h) /\ h \in States!Frames
      /\ tr \in Seq(MachineStates) /\ ne \in Seq(MachineStates)
      /\ h.to \in MachineStates
  BY DEF Fits, Typed, StackFits, Runs
<1>2. f \in States!Frames /\ f.to = h.to /\ f.from = h.from /\ f.at = "exit"
  BY <1>1 DEF States!Frames
<1>3. \A s : (h \in OwesExit(s) <=> f \in OwesExit(s)) /\ (h \in OwesEnter(s) <=> f \in OwesEnter(s))
  BY <1>1, <1>2 DEF OwesExit, OwesEnter
<1>4. \A s \in MachineStates : Count(OwesEnter(s), w2) = Count(OwesEnter(s), w)
                               /\ Count(OwesExit(s), w2) = Count(OwesExit(s), w)
  BY <1>3 DEF Becomes, One
<1>5. After(tr) \in MachineStates
  <2>1. CASE tr = <<>>
    BY <2>1 DEF After
  <2>2. CASE tr # <<>>
    BY <1>1, <2>2, LenProperties, EmptySeq, ElementOfSeq DEF After
  <2> QED
    BY <2>1, <2>2
<1>6. ne2 \in Seq(MachineStates)
  <2>1. Append(ne, After(tr)) \in Seq(MachineStates)
    BY <1>1, <1>5, AppendProperties
  <2> QED
    BY <1>1, <2>1 DEF StateIsRead
<1>7. Typed(w2, k, tr, en, le, ne2)
  BY <1>1, <1>6 DEF Typed, Becomes
<1>8. Counted(w, After(tr), tr, en, le) => Counted(w2, After(tr), tr, en, le)
  BY <1>4 DEF Counted
<1>9. ASSUME Told(w, tr, ne) PROVE Told(w2, tr, ne2)
  <2>1. PICK p \in Seq(MachineStates) : tr = Append(p, h.to) /\ Tells(ne, p) /\ h.to # After(p)
    BY <1>9 DEF Told
  <2>2. After(tr) = h.to
    BY <1>1, <2>1, AppendProperties DEF After
  <2>3. ne2 = Append(ne, h.to)
    BY <1>1, <2>1, <2>2, TellsFacts DEF StateIsRead
  <2>4. Tells(ne2, tr)
    BY <1>1, <2>1, <2>3, TellsFacts
  <2> QED
    BY <1>2, <2>4 DEF Told
<1> QED
  BY <1>7, <1>8, <1>9 DEF Fits

(* `state` is read while nothing is under way.                             *)
LEMMA ReadFits ==
    ASSUME InitialState \in MachineStates, None \notin MachineStates,
           NEW k, NEW tr, NEW en, NEW le, NEW ne, NEW b, Fits(<<>>, k, tr, en, le, ne, b),
           NEW ne2, StateIsRead(ne, ne2, After(tr))
    PROVE  Fits(<<>>, k, tr, en, le, ne2, b)
<1>1. /\ Typed(<<>>, k, tr, en, le, ne) /\ tr \in Seq(MachineStates) /\ ne \in Seq(MachineStates)
  BY DEF Fits, Typed
<1>2. After(tr) \in MachineStates
  <2>1. CASE tr = <<>>
    BY <2>1 DEF After
  <2>2. CASE tr # <<>>
    BY <1>1, <2>2, LenProperties, EmptySeq, ElementOfSeq DEF After
  <2> QED
    BY <2>1, <2>2
<1>3. ne2 \in Seq(MachineStates)
  <2>1. Append(ne, After(tr)) \in Seq(MachineStates)
    BY <1>1, <1>2, AppendProperties
  <2> QED
    BY <1>1, <2>1 DEF StateIsRead
<1>4. Typed(<<>>, k, tr, en, le, ne2)
  BY <1>1, <1>3 DEF Typed
<1>5. ASSUME Told(<<>>, tr, ne) PROVE Told(<<>>, tr, ne2)
  <2>1. Tells(ne, tr)
    BY <1>5 DEF Told
  <2>2. CASE ne = <<>>
    <3>1. tr = <<>> /\ After(tr) = InitialState
      BY <1>1, <2>1, <2>2, TellsFacts DEF After
    <3>2. ne2 = <<InitialState>>
      BY <2>2, <3>1 DEF StateIsRead
    <3>3. <<InitialState>> \o <<>> = <<InitialState>>
      OBVIOUS
    <3> QED
      BY <3>1, <3>2, <3>3 DEF Told, Tells
  <2>3. CASE ne # <<>>
    <3>1. ne2 = ne
      BY <1>1, <2>1, <2>3, TellsFacts DEF StateIsRead
    <3> QED
      BY <1>5, <3>1
  <2> QED
    BY <2>2, <2>3
<1> QED
  BY <1>4, <1>5 DEF Fits

(* A callback of the state that was left is called.                        *)
LEMMA ExitFits ==
    ASSUME NEW w, NEW k, NEW tr, NEW en, NEW le, NEW ne, NEW b, Fits(w, k, tr, en, le, ne, b), w # <<>>,
           NEW f, NEW w2, Becomes(w2, w, Head(w), f), Head(w2).at \notin {"push", "assign"}, Head(w).at = "exit",
           f = [Head(w) EXCEPT !.at = "enter"]
    PROVE  Fits(w2, k, tr, en, Append(le, Head(w).from), ne, b)
<1> DEFINE h == Head(w)  le2 == Append(le, h.from)
<1>1. /\ Typed(w, k, tr, en, le, ne) /\ StackFits(w) /\ Runs(h) /\ h \in States!Frames
      /\ h.from \in MachineStates /\ le \in Seq(MachineStates) /\ en \in Seq(MachineStates) /\ tr \in Seq(MachineStates)
  BY DEF Fits, Typed, StackFits, Runs
<1>2. f \in States!Frames /\ f.to = h.to /\ f.from = h.from /\ f.at = "enter"
  BY <1>1 DEF States!Frames
<1>3. /\ \A s : h \in OwesEnter(s) <=> f \in OwesEnter(s)
      /\ \A s : f \notin OwesExit(s)
      /\ \A s : h \in OwesExit(s) <=> s = h.from
  BY <1>1, <1>2 DEF OwesExit, OwesEnter
<1>4. le2 \in Seq(MachineStates)
  BY <1>1, AppendProperties
<1>5. Typed(w2, k, tr, en, le2, ne)
  BY <1>1, <1>4 DEF Typed, Becomes
<1>6. ASSUME Counted(w, After(tr), tr, en, le) PROVE Counted(w2, After(tr), tr, en, le2)
  <2> SUFFICES ASSUME NEW s \in MachineStates
               PROVE  /\ Count({s}, en) + Count(OwesEnter(s), w2) = Count({s}, tr)
                      /\ Count({s}, le2) + Count(OwesExit(s), w2) + One(s = After(tr))
                           = Count({s}, tr) + One(s = InitialState)
    BY DEF Counted
  <2>1. /\ Count({s}, en) + Count(OwesEnter(s), w) = Count({s}, tr)
        /\ Count({s}, le) + Count(OwesExit(s), w) + One(s = After(tr)) = Count({s}, tr) + One(s = InitialState)
    BY <1>6 DEF Counted
  <2>2. Count({s}, le2) = Count({s}, le) + One(s = h.from)
    <3>1. Count({s}, le2) = Count({s}, le) + One(h.from \in {s})
      BY <1>1, CountAppend
    <3> QED
      BY <3>1 DEF One
  <2>3. /\ Count(OwesEnter(s), w2) = Count(OwesEnter(s), w)
        /\ Count(OwesExit(s), w2) = Count(OwesExit(s), w) - One(s = h.from)
        /\ Count(OwesEnter(s), w) \in Nat /\ Count(OwesExit(s), w) \in Nat
    BY <1>3 DEF Becomes, One
  <2>4. Count({s}, en) \in Nat /\ Count({s}, le) \in Nat /\ Count({s}, tr) \in Nat
    BY <1>1, CountType
  <2>5. One(s = h.from) \in Nat /\ One(s = After(tr)) \in Nat /\ One(s = InitialState) \in Nat
    BY DEF One
  <2> HIDE DEF h
  <2> QED
    BY <2>1, <2>2, <2>3, <2>4, <2>5
<1>7. Told(w, tr, ne) => Told(w2, tr, ne)
  BY DEF Told
<1> QED
  BY <1>5, <1>6, <1>7 DEF Fits

(* A callback of the state that is entered is called.                      *)
LEMMA EnterFits ==
    ASSUME NEW w, NEW k, NEW tr, NEW en, NEW le, NEW ne, NEW b, Fits(w, k, tr, en, le, ne, b), w # <<>>,
           NEW f, NEW w2, Becomes(w2, w, Head(w), f), Head(w2).at \notin {"push", "assign"}, Head(w).at = "enter",
           f = [Head(w) EXCEPT !.at = "return"]
    PROVE  Fits(w2, k, tr, Append(en, Head(w).to), le, ne, b)
<1> DEFINE h == Head(w)  en2 == Append(en, h.to)
<1>1. /\ Typed(w, k, tr, en, le, ne) /\ StackFits(w) /\ Runs(h) /\ h \in States!Frames
      /\ h.to \in MachineStates /\ le \in Seq(MachineStates) /\ en \in Seq(MachineStates) /\ tr \in Seq(MachineStates)
  BY DEF Fits, Typed, StackFits, Runs
<1>2. f \in States!Frames /\ f.to = h.to /\ f.from = h.from /\ f.at = "return"
  BY <1>1 DEF States!Frames
<1>3. /\ \A s : f \notin OwesEnter(s) /\ f \notin OwesExit(s) /\ h \notin OwesExit(s)
      /\ \A s : h \in OwesEnter(s) <=> s = h.to
  BY <1>1, <1>2 DEF OwesExit, OwesEnter
<1>4. en2 \in Seq(MachineStates)
  BY <1>1, AppendProperties
<1>5. Typed(w2, k, tr, en2, le, ne)
  BY <1>1, <1>4 DEF Typed, Becomes
<1>6. ASSUME Counted(w, After(tr), tr, en, le) PROVE Counted(w2, After(tr), tr, en2, le)
  <2> SUFFICES ASSUME NEW s \in MachineStates
               PROVE  /\ Count({s}, en2) + Count(OwesEnter(s), w2) = Count({s}, tr)
                      /\ Count({s}, le) + Count(OwesExit(s), w2) + One(s = After(tr))
                           = Count({s}, tr) + One(s = InitialState)
    BY DEF Counted
  <2>1. /\ Count({s}, en) + Count(OwesEnter(s), w) = Count({s}, tr)
        /\ Count({s}, le) + Count(OwesExit(s), w) + One(s = After(tr)) = Count({s}, tr) + One(s = InitialState)
    BY <1>6 DEF Counted
  <2>2. Count({s}, en2) = Count({s}, en) + One(s = h.to)
    <3>1. Count({s}, en2) = Count({s}, en) + One(h.to \in {s})
      BY <1>1, CountAppend
    <3> QED
      BY <3>1 DEF One
  <2>3. /\ Count(OwesEnter(s), w2) = Count(OwesEnter(s), w) - One(s = h.to)
        /\ Count(OwesExit(s), w2) = Count(OwesExit(s), w)
        /\ Count(OwesEnter(s), w) \in Nat /\ Count(OwesExit(s), w) \in Nat
    BY <1>3 DEF Becomes, One
  <2>4. Count({s}, en) \in Nat /\ Count({s}, le) \in Nat /\ Count({s}, tr) \in Nat
    BY <1>1, CountType
  <2>5. One(s = h.to) \in Nat /\ One(s = After(tr)) \in Nat /\ One(s = InitialState) \in Nat
    BY DEF One
  <2> HIDE DEF h
  <2> QED
    BY <2>1, <2>2, <2>3, <2>4, <2>5
<1>7. Told(w, tr, ne) => Told(w2, tr, ne)
  BY DEF Told
<1> QED
  BY <1>5, <1>6, <1>7 DEF Fits

(* A call returns to the one that waits for it.                            *)
LEMMA ReturnFits ==
    ASSUME NEW w, NEW k, NEW tr, NEW en, NEW le, NEW ne, NEW b, Fits(w, k, tr, en, le, ne, b), w # <<>>,
           Head(w).at = "return"
    PROVE  Fits(Tail(w), k, tr, en, le, ne, b)
<1> DEFINE h == Head(w)  r == Tail(w)
<1>1. Typed(w, k, tr, en, le, ne) /\ StackFits(w)
  BY DEF Fits, Typed
<1>2. /\ StackFits(r) /\ (r # <<>> => Head(r).at \in {"enter", "return"})
      /\ \A S : h \notin S => Count(S, r) = Count(S, w)
  BY <1>1, StackReturns
<1>3. \A s : h \notin OwesExit(s) /\ h \notin OwesEnter(s)
  BY DEF OwesExit, OwesEnter
<1> HIDE DEF h, r
<1>4. Typed(r, k, tr, en, le, ne)
  BY <1>1, <1>2 DEF Typed
<1>5. Counted(w, After(tr), tr, en, le) => Counted(r, After(tr), tr, en, le)
  BY <1>2, <1>3 DEF Counted
<1>6. Told(w, tr, ne) => Told(r, tr, ne)
  BY <1>2 DEF Told, h
<1>7. Fits(r, k, tr, en, le, ne, b)
  BY <1>4, <1>5, <1>6 DEF Fits
<1> QED
  BY <1>7 DEF r

(***************************************************************************)
(* Steps of the composition.                                               *)
(***************************************************************************)
\* A step of the thread t that leaves its Thing with what fits it.
Leaves(t, w, k, tr, en, le, ne) ==
    LET c == ServedBy[t] IN
    /\ stack' = [stack EXCEPT ![t] = w] /\ kept' = [kept EXCEPT ![c] = k] /\ trail' = [trail EXCEPT ![c] = tr]
    /\ entered' = [entered EXCEPT ![c] = en] /\ left' = [left EXCEPT ![c] = le] /\ news' = [news EXCEPT ![c] = ne]
    /\ failed' = failed \/ failed' = failed \cup {c}
    /\ Fits(w, k, tr, en, le, ne, c \in failed')
    /\ created' = created /\ listed' = listed /\ wrote' = wrote /\ moves' \in 0 .. MaxMoves

(* Such a step keeps the invariant.                                        *)
LEMMA StatesMove ==
    ASSUME States!StatesAssumption, States!OneThreadEach, StatesInvariant, NEW t \in StateThreads,
           NEW w, NEW k, NEW tr, NEW en, NEW le, NEW ne, Leaves(t, w, k, tr, en, le, ne)
    PROVE  StatesInvariant'
<1> DEFINE c == ServedBy[t]
<1>0. /\ stack' = [stack EXCEPT ![t] = w] /\ kept' = [kept EXCEPT ![c] = k] /\ trail' = [trail EXCEPT ![c] = tr]
      /\ entered' = [entered EXCEPT ![c] = en] /\ left' = [left EXCEPT ![c] = le] /\ news' = [news EXCEPT ![c] = ne]
      /\ failed' = failed \/ failed' = failed \cup {c}
      /\ Fits(w, k, tr, en, le, ne, c \in failed')
      /\ created' = created /\ listed' = listed /\ wrote' = wrote /\ moves' \in 0 .. MaxMoves
  BY DEF Leaves
<1>1. /\ c \in ThingClasses /\ States!TypeOK
      /\ w \in Seq(States!Frames) /\ k \in MachineStates \cup {None}
      /\ tr \in Seq(MachineStates) /\ en \in Seq(MachineStates) /\ le \in Seq(MachineStates)
      /\ ne \in Seq(MachineStates \cup {None})
  <2>1. Typed(w, k, tr, en, le, ne) /\ StackFits(w)
    BY <1>0 DEF Fits, Typed
  <2>2. ne \in Seq(MachineStates \cup {None})
    BY <2>1, LenProperties, ElementOfSeq, SeqDef, IsASeq DEF Typed
  <2>3. c \in ThingClasses
    BY DEF States!StatesAssumption
  <2> QED
    BY <2>1, <2>2, <2>3 DEF Typed, StackFits, StatesInvariant
<1>2. /\ stack \in [StateThreads -> Seq(States!Frames)] /\ kept \in [ThingClasses -> MachineStates \cup {None}]
      /\ trail \in [ThingClasses -> Seq(MachineStates)] /\ entered \in [ThingClasses -> Seq(MachineStates)]
      /\ left \in [ThingClasses -> Seq(MachineStates)] /\ news \in [ThingClasses -> Seq(MachineStates \cup {None})]
      /\ failed \subseteq ThingClasses
  BY <1>1 DEF States!TypeOK
<1>3. States!TypeOK'
  <2>1. /\ stack' \in [StateThreads -> Seq(States!Frames)] /\ kept' \in [ThingClasses -> MachineStates \cup {None}]
        /\ trail' \in [ThingClasses -> Seq(MachineStates)] /\ entered' \in [ThingClasses -> Seq(MachineStates)]
        /\ left' \in [ThingClasses -> Seq(MachineStates)] /\ news' \in [ThingClasses -> Seq(MachineStates \cup {None})]
        /\ failed' \subseteq ThingClasses
    BY <1>0, <1>1, <1>2
  <2> QED
    BY <1>0, <1>1, <2>1 DEF States!TypeOK
<1>4. ASSUME NEW u \in StateThreads, NEW q, q = ServedBy[u]
      PROVE  Fits(stack[u], kept[q], trail[q], entered[q], left[q], news[q], q \in failed)'
  <2>1. CASE u = t
    <3>1. /\ stack'[u] = w /\ kept'[q] = k /\ trail'[q] = tr /\ entered'[q] = en /\ left'[q] = le /\ news'[q] = ne
      BY <1>0, <1>1, <1>2, <1>4, <2>1
    <3>2. q = c
      BY <1>4, <2>1
    <3> QED
      BY <1>0, <3>1, <3>2, ZenonT(30) DEF Fits, Counted, Told, Typed
  <2>2. CASE u # t
    <3>1. q # c
      BY <1>4, <2>2 DEF States!OneThreadEach
    <3>2. /\ stack'[u] = stack[u] /\ kept'[q] = kept[q] /\ trail'[q] = trail[q] /\ entered'[q] = entered[q]
          /\ left'[q] = left[q] /\ news'[q] = news[q] /\ (q \in failed' <=> q \in failed)
      <4>1. q \in ThingClasses
        BY <1>4 DEF States!StatesAssumption
      <4> QED
        BY <1>0, <1>1, <1>2, <2>2, <3>1, <4>1
    <3>3. Fits(stack[u], kept[q], trail[q], entered[q], left[q], news[q], q \in failed)
      BY <1>4 DEF StatesInvariant
    <3> QED
      <4>1. CASE q \in failed
        BY <3>2, <3>3, <4>1 DEF Fits
      <4>2. CASE q \notin failed
        BY <3>2, <3>3, <4>2 DEF Fits
      <4> QED
        BY <4>1, <4>2
  <2> QED
    BY <2>1, <2>2
<1>5. ASSUME NEW q \in ThingClasses, Calls(q) = {}
      PROVE  Fits(<<>>, kept[q], trail[q], entered[q], left[q], news[q], q \in failed)'
  <2>1. q # c
    BY <1>5 DEF Calls
  <2>2. /\ kept'[q] = kept[q] /\ trail'[q] = trail[q] /\ entered'[q] = entered[q]
        /\ left'[q] = left[q] /\ news'[q] = news[q] /\ (q \in failed' <=> q \in failed)
    BY <1>0, <1>1, <1>2, <1>5, <2>1
  <2>3. Fits(<<>>, kept[q], trail[q], entered[q], left[q], news[q], q \in failed)
    BY <1>5 DEF StatesInvariant
  <2> QED
    BY <2>2, <2>3 DEF Fits, Counted, Told, Typed
<1> QED
  BY <1>3, <1>4, <1>5 DEF StatesInvariant, Calls

(* What is not assigned is as it was.                                      *)
LEMMA StaysAt == ASSUME NEW S, NEW T, NEW f \in [S -> T], NEW x PROVE f = [f EXCEPT ![x] = f[x]]
OBVIOUS

(* A Thing is in a state, the one its trail ends with.                     *)
LEMMA StateIsAfter ==
    ASSUME States!StatesAssumption, StatesInvariant, NEW t \in StateThreads, NEW c, c = ServedBy[t]
    PROVE  /\ States!StateOf(c) = After(trail[c]) /\ After(trail[c]) \in MachineStates
           /\ Typed(stack[t], kept[c], trail[c], entered[c], left[c], news[c]) /\ StackFits(stack[t])
           /\ Fits(stack[t], kept[c], trail[c], entered[c], left[c], news[c], c \in failed)
           /\ c \in ThingClasses /\ InitialState \in MachineStates /\ None \notin MachineStates
           /\ stack \in [StateThreads -> Seq(States!Frames)] /\ kept \in [ThingClasses -> MachineStates \cup {None}]
           /\ trail \in [ThingClasses -> Seq(MachineStates)] /\ entered \in [ThingClasses -> Seq(MachineStates)]
           /\ left \in [ThingClasses -> Seq(MachineStates)] /\ news \in [ThingClasses -> Seq(MachineStates \cup {None})]
           /\ moves \in 0 .. MaxMoves /\ MaxMoves \in Nat
<1>1. Fits(stack[t], kept[c], trail[c], entered[c], left[c], news[c], c \in failed)
  BY DEF StatesInvariant
<1>2. Typed(stack[t], kept[c], trail[c], entered[c], left[c], news[c]) /\ StackFits(stack[t])
  BY <1>1 DEF Fits, Typed
<1>3. InitialState \in MachineStates /\ None \notin MachineStates /\ c \in ThingClasses /\ MaxMoves \in Nat
  BY DEF States!StatesAssumption
<1>4. After(trail[c]) \in MachineStates
  <2>1. trail[c] \in Seq(MachineStates)
    BY <1>2 DEF Typed
  <2>2. CASE trail[c] = <<>>
    BY <1>3, <2>2 DEF After
  <2>3. CASE trail[c] # <<>>
    BY <2>1, <2>3, LenProperties, EmptySeq, ElementOfSeq DEF After
  <2> QED
    BY <2>2, <2>3
<1>5. States!StateOf(c) = After(trail[c])
  <2>1. kept[c] = IF trail[c] = <<>> THEN None ELSE After(trail[c])
    BY <1>2 DEF Typed
  <2>2. trail[c] = <<>> => After(trail[c]) = InitialState
    BY DEF After
  <2> QED
    BY <1>3, <1>4, <2>1, <2>2 DEF States!StateOf
<1>6. /\ stack \in [StateThreads -> Seq(States!Frames)] /\ kept \in [ThingClasses -> MachineStates \cup {None}]
      /\ trail \in [ThingClasses -> Seq(MachineStates)] /\ entered \in [ThingClasses -> Seq(MachineStates)]
      /\ left \in [ThingClasses -> Seq(MachineStates)] /\ news \in [ThingClasses -> Seq(MachineStates \cup {None})]
      /\ moves \in 0 .. MaxMoves
  BY DEF StatesInvariant, States!TypeOK
<1> QED
  BY <1>1, <1>2, <1>3, <1>4, <1>5, <1>6

(* A step that leaves the stacks and the histories alone.                  *)
LEMMA StatesQuiet ==
    ASSUME StatesInvariant, UNCHANGED <<kept, stack, news, trail, entered, left, failed, moves>>,
           created' \subseteq ThingClasses, listed' \in [Guarded -> (SUBSET MachineStates) \cup {None}],
           wrote' \subseteq [thing : ThingClasses, object : Guarded, state : MachineStates]
    PROVE  StatesInvariant'
<1>1. States!TypeOK'
  BY DEF StatesInvariant, States!TypeOK
<1>2. ASSUME NEW u \in StateThreads, NEW q, q = ServedBy[u]
      PROVE  Fits(stack[u], kept[q], trail[q], entered[q], left[q], news[q], q \in failed)'
  <2>1. Fits(stack[u], kept[q], trail[q], entered[q], left[q], news[q], q \in failed)
    BY <1>2 DEF StatesInvariant
  <2> QED
    BY <2>1 DEF Fits, Counted, Told, Typed
<1>3. ASSUME NEW q \in ThingClasses, Calls(q) = {}
      PROVE  Fits(<<>>, kept[q], trail[q], entered[q], left[q], news[q], q \in failed)'
  <2>1. Fits(<<>>, kept[q], trail[q], entered[q], left[q], news[q], q \in failed)
    BY <1>3 DEF StatesInvariant
  <2> QED
    BY <2>1 DEF Fits, Counted, Told, Typed
<1> QED
  BY <1>1, <1>2, <1>3 DEF StatesInvariant, Calls

(* A Thing is created, or a property is written.                           *)
LEMMA CreateOrWriteKeeps ==
    ASSUME States!StatesAssumption, StatesInvariant,
           \/ \E c \in ThingClasses : States!Create(c)
           \/ \E t \in StateThreads, o \in Guarded : States!WriteProperty(t, o) \/ States!WriteMultiple(t, o)
    PROVE  StatesInvariant'
<1>0. /\ created \subseteq ThingClasses /\ listed \in [Guarded -> (SUBSET MachineStates) \cup {None}]
      /\ wrote \subseteq [thing : ThingClasses, object : Guarded, state : MachineStates]
  BY DEF StatesInvariant, States!TypeOK
<1>1. ASSUME NEW c \in ThingClasses, States!Create(c) PROVE StatesInvariant'
  <2>1. /\ created' \subseteq ThingClasses
        /\ UNCHANGED <<kept, stack, news, trail, entered, left, failed, wrote, moves>>
        /\ listed' = [o \in Guarded |->
              IF c \in Machineless \/ Machines[c][o] = {} THEN listed[o]
              ELSE Machines[c][o] \cup IF listed[o] = None THEN {} ELSE listed[o]]
    BY <1>0, <1>1 DEF States!Create, States!history
  <2>2. \A o \in Guarded : Machines[c][o] \subseteq MachineStates
    BY DEF States!StatesAssumption
  <2>3. listed' \in [Guarded -> (SUBSET MachineStates) \cup {None}]
    BY <1>0, <2>1, <2>2
  <2> QED
    BY <1>0, <2>1, <2>3, StatesQuiet
<1>2. ASSUME NEW t \in StateThreads, NEW o \in Guarded, States!WriteProperty(t, o) \/ States!WriteMultiple(t, o)
      PROVE  StatesInvariant'
  <2> DEFINE c == ServedBy[t]
  <2>1. /\ wrote' = wrote \cup {[thing |-> c, object |-> o, state |-> States!StateOf(c)]}
        /\ UNCHANGED <<created, listed, kept, stack, news, trail, entered, left, failed, moves>>
    BY <1>2 DEF States!WriteProperty, States!WriteMultiple, States!Written, States!history
  <2>2. States!StateOf(c) \in MachineStates /\ c \in ThingClasses
    BY StateIsAfter
  <2> HIDE DEF c
  <2>3. wrote' \subseteq [thing : ThingClasses, object : Guarded, state : MachineStates]
    BY <1>0, <2>1, <2>2
  <2> QED
    BY <1>0, <2>1, <2>3, StatesQuiet
<1> QED
  BY <1>1, <1>2

(* An action is invoked, or `state` is read.                               *)
LEMMA BeginOrReadKeeps ==
    ASSUME States!StatesAssumption, States!OneThreadEach, ~PlainEnum, StatesInvariant, NEW t \in StateThreads,
           \/ \E o \in Guarded, s \in MachineStates \cup {"unknown"} : States!InvokeAction(t, o, s)
           \/ States!ReadState(t)
    PROVE  StatesInvariant'
<1> DEFINE c == ServedBy[t]
<1>0. /\ States!StateOf(c) = After(trail[c]) /\ c \in ThingClasses
      /\ Fits(stack[t], kept[c], trail[c], entered[c], left[c], news[c], c \in failed)
      /\ InitialState \in MachineStates /\ None \notin MachineStates
      /\ stack = [stack EXCEPT ![t] = stack[t]] /\ kept = [kept EXCEPT ![c] = kept[c]]
      /\ trail = [trail EXCEPT ![c] = trail[c]] /\ entered = [entered EXCEPT ![c] = entered[c]]
      /\ left = [left EXCEPT ![c] = left[c]] /\ news = [news EXCEPT ![c] = news[c]]
      /\ moves \in 0 .. MaxMoves /\ MaxMoves \in Nat
  BY StateIsAfter, StaysAt
<1>1. ASSUME NEW o \in Guarded, NEW s \in MachineStates \cup {"unknown"}, States!InvokeAction(t, o, s)
      PROVE  StatesInvariant'
  <2>1. /\ stack[t] = <<>> /\ stack' = [stack EXCEPT ![t] = <<Begins(s)>>]
        /\ moves < MaxMoves /\ moves' = moves + 1
        /\ UNCHANGED <<created, listed, kept, news, trail, entered, left, failed, wrote>>
    BY <1>1 DEF States!InvokeAction, States!Free, Begins, States!history
  <2>2. Fits(<<Begins(s)>>, kept[c], trail[c], entered[c], left[c], news[c], c \in failed)
    BY <1>0, <2>1, BeginFits
  <2>3. moves' \in 0 .. MaxMoves
    BY <1>0, <2>1
  <2>4. Fits(<<Begins(s)>>, kept[c], trail[c], entered[c], left[c], news[c], c \in failed')
    BY <2>1, <2>2
  <2>5. Leaves(t, <<Begins(s)>>, kept[c], trail[c], entered[c], left[c], news[c])
    BY <1>0, <2>1, <2>3, <2>4 DEF Leaves
  <2> QED
    BY <2>5, StatesMove
<1>2. ASSUME States!ReadState(t) PROVE StatesInvariant'
  <2> DEFINE ne2 == IF news[c] # <<>> /\ States!Last(news[c]) = States!CurrentState(c) THEN news[c]
                    ELSE Append(news[c], States!CurrentState(c))
  <2>1. /\ stack[t] = <<>> /\ news' = [news EXCEPT ![c] = ne2]
        /\ UNCHANGED <<created, listed, kept, stack, trail, entered, left, failed, wrote, moves>>
    BY <1>2 DEF States!ReadState, States!Free, States!Observed, States!history
  <2>2. States!CurrentState(c) = After(trail[c])
    BY <1>0 DEF States!CurrentState, States!Nameless
  <2>3. StateIsRead(news[c], ne2, After(trail[c]))
    BY <2>2 DEF StateIsRead, States!Last
  <2> HIDE DEF ne2
  <2>4. Fits(<<>>, kept[c], trail[c], entered[c], left[c], ne2, c \in failed)
    BY <1>0, <2>1, <2>3, ReadFits
  <2> HIDE DEF c
  <2>5. Fits(stack[t], kept[c], trail[c], entered[c], left[c], ne2, c \in failed')
    BY <2>1, <2>4
  <2>6. Leaves(t, stack[t], kept[c], trail[c], entered[c], left[c], ne2)
    BY <1>0, <2>1, <2>5 DEF Leaves, c
  <2> QED
    BY <2>6, StatesMove
<1> QED
  BY <1>1, <1>2

(* set_state() compares.                                                   *)
LEMMA CompareKeeps ==
    ASSUME States!StatesAssumption, States!OneThreadEach, ~PlainEnum, StatesInvariant, NEW t \in StateThreads,
           States!Compare(t)
    PROVE  StatesInvariant'
<1> DEFINE c == ServedBy[t]  w == stack[t]  h == Head(stack[t])
<1>0. /\ States!StateOf(c) = After(trail[c]) /\ c \in ThingClasses /\ After(trail[c]) \in MachineStates
      /\ Fits(w, kept[c], trail[c], entered[c], left[c], news[c], c \in failed)
      /\ Typed(w, kept[c], trail[c], entered[c], left[c], news[c]) /\ StackFits(w)
      /\ kept = [kept EXCEPT ![c] = kept[c]]
      /\ trail = [trail EXCEPT ![c] = trail[c]] /\ entered = [entered EXCEPT ![c] = entered[c]]
      /\ left = [left EXCEPT ![c] = left[c]] /\ news = [news EXCEPT ![c] = news[c]]
      /\ moves \in 0 .. MaxMoves
  BY StateIsAfter, StaysAt
<1>1. /\ w # <<>> /\ h.at = "compare"
      /\ UNCHANGED <<created, listed, kept, news, trail, entered, left, wrote, moves>>
  BY DEF States!Compare, States!At
<1>2. Runs(h) /\ h \in States!Frames
  BY <1>0, <1>1 DEF StackFits, Runs
<1>3. \/ stack' = [stack EXCEPT ![t] = <<>>] /\ failed' = failed \cup {c}
      \/ /\ stack' = [stack EXCEPT ![t] = <<[h EXCEPT !.at = "return"]>> \o Tail(w)] /\ failed' = failed
         /\ h.to = After(trail[c])
      \/ /\ stack' = [stack EXCEPT ![t] = <<[h EXCEPT !.at = "assign"]>> \o Tail(w)] /\ failed' = failed
         /\ h.to # After(trail[c]) /\ h.to \in MachineStates
  BY <1>0 DEF States!Compare, States!Raise, States!Goto, States!Nameless
<1>4. CASE stack' = [stack EXCEPT ![t] = <<>>] /\ failed' = failed \cup {c}
  <2>1. Fits(<<>>, kept[c], trail[c], entered[c], left[c], news[c], TRUE)
    BY <1>0, RaiseFits DEF Typed
  <2>2. Fits(<<>>, kept[c], trail[c], entered[c], left[c], news[c], c \in failed')
    BY <1>4, <2>1 DEF Fits
  <2>3. Leaves(t, <<>>, kept[c], trail[c], entered[c], left[c], news[c])
    BY <1>0, <1>1, <1>4, <2>2 DEF Leaves
  <2> QED
    BY <2>3, StatesMove
<1>5. ASSUME NEW l \in {"return", "assign"},
             stack' = [stack EXCEPT ![t] = <<[h EXCEPT !.at = l]>> \o Tail(w)], failed' = failed,
             h.to \in MachineStates, l = "assign" => h.to # After(trail[c])
      PROVE  StatesInvariant'
  <2> DEFINE f == [h EXCEPT !.at = l]  w2 == <<f>> \o Tail(w)
  <2>1. f \in States!Frames /\ f.at = l /\ f.to = h.to
    BY <1>2 DEF States!Frames
  <2>2. Runs(f)
    BY <1>5, <2>1 DEF Runs
  <2> HIDE DEF f
  <2>3. Becomes(w2, w, h, f) /\ Head(w2) = f
    BY <1>0, <1>1, <2>2, GoesBecomes
  <2> HIDE DEF w2
  <2>4. Fits(w2, kept[c], trail[c], entered[c], left[c], news[c], c \in failed)
    BY <1>0, <1>1, <1>5, <2>1, <2>3, QuietFits
  <2>5. Leaves(t, w2, kept[c], trail[c], entered[c], left[c], news[c])
    BY <1>0, <1>1, <1>5, <2>4 DEF Leaves, w2, f
  <2> QED
    BY <2>5, StatesMove
<1> QED
  BY <1>0, <1>3, <1>4, <1>5

(* set_state() assigns, and pushes.                                        *)
LEMMA AssignOrPushKeeps ==
    ASSUME States!StatesAssumption, States!OneThreadEach, ~PlainEnum, StatesInvariant, NEW t \in StateThreads,
           States!Assign(t) \/ States!Push(t)
    PROVE  StatesInvariant'
<1> DEFINE c == ServedBy[t]  w == stack[t]  h == Head(stack[t])
<1>0. /\ States!StateOf(c) = After(trail[c]) /\ c \in ThingClasses /\ After(trail[c]) \in MachineStates
      /\ InitialState \in MachineStates /\ None \notin MachineStates
      /\ Fits(w, kept[c], trail[c], entered[c], left[c], news[c], c \in failed)
      /\ Typed(w, kept[c], trail[c], entered[c], left[c], news[c]) /\ StackFits(w)
      /\ kept = [kept EXCEPT ![c] = kept[c]]
      /\ trail = [trail EXCEPT ![c] = trail[c]] /\ entered = [entered EXCEPT ![c] = entered[c]]
      /\ left = [left EXCEPT ![c] = left[c]] /\ news = [news EXCEPT ![c] = news[c]]
      /\ trail \in [ThingClasses -> Seq(MachineStates)] /\ moves \in 0 .. MaxMoves
  BY StateIsAfter, StaysAt
<1>1. w # <<>> /\ h.at \in {"assign", "push"}
  BY DEF States!Assign, States!AssignFrom, States!Push, States!At
<1>2. Runs(h) /\ h \in States!Frames /\ h.to \in MachineStates
  BY <1>0, <1>1 DEF StackFits, Runs
<1>3. States!CurrentState(c) = After(trail[c])
  BY <1>0 DEF States!CurrentState, States!Nameless
<1>4. ASSUME States!Assign(t) PROVE StatesInvariant'
  <2> DEFINE f == [to |-> h.to, from |-> After(trail[c]), at |-> "push"]  w2 == <<f>> \o Tail(w)
             tr2 == Append(trail[c], h.to)
  <2>1. /\ h.at = "assign" /\ stack' = [stack EXCEPT ![t] = w2] /\ kept' = [kept EXCEPT ![c] = h.to]
        /\ trail' = [trail EXCEPT ![c] = tr2]
        /\ UNCHANGED <<created, listed, news, entered, left, wrote, failed, moves>>
    BY <1>3, <1>4 DEF States!Assign, States!AssignFrom, States!At
  <2>2. f \in States!Frames /\ Runs(f)
    BY <1>0, <1>2 DEF States!Frames, Runs
  <2>3. Becomes(w2, w, h, f) /\ Head(w2) = f
    BY <1>0, <1>1, <2>2, GoesBecomes
  <2> HIDE DEF w2
  <2>4. Fits(w2, h.to, tr2, entered[c], left[c], news[c], c \in failed)
    BY <1>0, <1>1, <2>1, <2>2, <2>3, AssignFits
  <2> HIDE DEF f, tr2
  <2>5. Leaves(t, w2, h.to, tr2, entered[c], left[c], news[c])
    BY <1>0, <2>1, <2>4 DEF Leaves
  <2> QED
    BY <2>5, StatesMove
<1>5. ASSUME States!Push(t) PROVE StatesInvariant'
  <2> DEFINE f == [h EXCEPT !.at = "exit"]  w2 == <<f>> \o Tail(w)
             ne2 == IF news[c] # <<>> /\ States!Last(news[c]) = States!CurrentState(c) THEN news[c]
                    ELSE Append(news[c], States!CurrentState(c))
  <2>1. /\ h.at = "push" /\ stack' = [stack EXCEPT ![t] = w2] /\ news' = [news EXCEPT ![c] = ne2]
        /\ UNCHANGED <<created, listed, kept, trail, entered, left, wrote, failed, moves>>
    BY <1>5 DEF States!Push, States!Observed, States!Goto, States!At, States!history
  <2>2. f \in States!Frames /\ Runs(f)
    BY <1>2, <2>1 DEF States!Frames, Runs
  <2>3. Becomes(w2, w, h, f) /\ Head(w2) = f
    BY <1>0, <1>1, <2>2, GoesBecomes
  <2>4. StateIsRead(news[c], ne2, After(trail[c]))
    BY <1>3 DEF StateIsRead, States!Last
  <2> HIDE DEF w2, ne2
  <2>5. Fits(w2, kept[c], trail[c], entered[c], left[c], ne2, c \in failed)
    BY <1>0, <1>1, <2>1, <2>2, <2>3, <2>4, PushFits
  <2> HIDE DEF f
  <2>6. Leaves(t, w2, kept[c], trail[c], entered[c], left[c], ne2)
    BY <1>0, <2>1, <2>5 DEF Leaves
  <2> QED
    BY <2>6, StatesMove
<1> QED
  BY <1>4, <1>5

(* A callback is called, or set_state() returns.                           *)
LEMMA CallbackKeeps ==
    ASSUME States!StatesAssumption, States!OneThreadEach, ~PlainEnum, StatesInvariant, NEW t \in StateThreads,
           States!Exit(t) \/ States!Enter(t) \/ States!Return(t)
    PROVE  StatesInvariant'
<1> DEFINE c == ServedBy[t]  w == stack[t]  h == Head(stack[t])
<1>0. /\ c \in ThingClasses /\ None \notin MachineStates
      /\ Fits(w, kept[c], trail[c], entered[c], left[c], news[c], c \in failed)
      /\ Typed(w, kept[c], trail[c], entered[c], left[c], news[c]) /\ StackFits(w)
      /\ kept = [kept EXCEPT ![c] = kept[c]]
      /\ trail = [trail EXCEPT ![c] = trail[c]] /\ entered = [entered EXCEPT ![c] = entered[c]]
      /\ left = [left EXCEPT ![c] = left[c]] /\ news = [news EXCEPT ![c] = news[c]]
      /\ moves \in 0 .. MaxMoves /\ MaxMoves \in Nat
  BY StateIsAfter, StaysAt
<1>1. w # <<>> /\ h.at \in {"exit", "enter", "return"}
  BY DEF States!Exit, States!Enter, States!Return, States!At
<1>2. /\ Runs(h) /\ h \in States!Frames /\ h.to \in MachineStates /\ (h.at = "exit" => h.from \in MachineStates)
      /\ entered[c] \in Seq(MachineStates) /\ left[c] \in Seq(MachineStates)
  BY <1>0, <1>1 DEF StackFits, Runs, Typed
<1>3. ASSUME NEW does, NEW l \in {"enter", "return"}, States!Call(t, does, l)
      PROVE  \/ stack' = [stack EXCEPT ![t] = <<>>] /\ failed' = failed \cup {c} /\ moves' = moves
             \/ \E w2 : /\ stack' = [stack EXCEPT ![t] = w2] /\ failed' = failed /\ moves' \in 0 .. MaxMoves
                        /\ Becomes(w2, w, h, [h EXCEPT !.at = l]) /\ Head(w2).at \notin {"push", "assign"}
  <2> DEFINE f == [h EXCEPT !.at = l]  a == <<f>> \o Tail(w)  b == <<Begins(does), f>> \o Tail(w)
  <2>1. \/ stack' = [stack EXCEPT ![t] = <<>>] /\ failed' = failed \cup {c} /\ moves' = moves
        \/ stack' = [stack EXCEPT ![t] = a] /\ failed' = failed /\ moves' = moves
        \/ /\ stack' = [stack EXCEPT ![t] = b] /\ failed' = failed /\ does \in MachineStates
           /\ moves < MaxMoves /\ moves' = moves + 1
    BY <1>3 DEF States!Call, States!Goto, States!Raise, Begins
  <2>2. f \in States!Frames /\ f.at = l /\ Waits(f) /\ Runs(f)
    BY <1>2 DEF States!Frames, Waits, Runs
  <2> HIDE DEF f
  <2>3. Becomes(a, w, h, f) /\ Head(a).at \notin {"push", "assign"}
    BY <1>0, <1>1, <2>2, GoesBecomes
  <2>4. does \in MachineStates => Becomes(b, w, h, f) /\ Head(b).at \notin {"push", "assign"}
    BY <1>0, <1>1, <2>2, CallsBecomes
  <2>5. moves < MaxMoves => moves + 1 \in 0 .. MaxMoves
    BY <1>0
  <2> HIDE DEF a, b
  <2> QED
    BY <1>0, <2>1, <2>3, <2>4, <2>5 DEF f
<1>4. ASSUME NEW en, NEW le, en \in Seq(MachineStates), le \in Seq(MachineStates),
             stack' = [stack EXCEPT ![t] = <<>>], failed' = failed \cup {c}, moves' = moves,
             entered' = [entered EXCEPT ![c] = en], left' = [left EXCEPT ![c] = le],
             UNCHANGED <<created, listed, kept, news, trail, wrote>>
      PROVE  StatesInvariant'
  <2>1. Fits(<<>>, kept[c], trail[c], en, le, news[c], TRUE)
    BY <1>0, <1>4, RaiseFits
  <2>2. Fits(<<>>, kept[c], trail[c], en, le, news[c], c \in failed')
    BY <1>4, <2>1 DEF Fits
  <2>3. Leaves(t, <<>>, kept[c], trail[c], en, le, news[c])
    BY <1>0, <1>4, <2>2 DEF Leaves
  <2> QED
    BY <2>3, StatesMove
<1>5. ASSUME States!Exit(t) PROVE StatesInvariant'
  <2> DEFINE le2 == Append(left[c], h.from)
  <2>1. /\ h.at = "exit" /\ h.from \in MachineStates /\ h.from # None
        /\ States!Call(t, OnExit[h.from], "enter") /\ left' = [left EXCEPT ![c] = le2]
        /\ UNCHANGED <<created, listed, kept, news, trail, entered, wrote>>
    BY <1>0, <1>2, <1>5 DEF States!Exit, States!At
  <2>2. le2 \in Seq(MachineStates)
    BY <1>2, <2>1, AppendProperties
  <2>3. CASE stack' = [stack EXCEPT ![t] = <<>>] /\ failed' = failed \cup {c} /\ moves' = moves
    BY <1>0, <1>2, <1>4, <2>1, <2>2, <2>3
  <2>4. ASSUME NEW w2, stack' = [stack EXCEPT ![t] = w2], failed' = failed, moves' \in 0 .. MaxMoves,
               Becomes(w2, w, h, [h EXCEPT !.at = "enter"]), Head(w2).at \notin {"push", "assign"}
        PROVE  StatesInvariant'
    <3>1. Fits(w2, kept[c], trail[c], entered[c], le2, news[c], c \in failed)
      BY <1>0, <1>1, <2>1, <2>4, ExitFits
    <3> HIDE DEF le2
    <3>2. Leaves(t, w2, kept[c], trail[c], entered[c], le2, news[c])
      BY <1>0, <2>1, <2>4, <3>1 DEF Leaves
    <3> QED
      BY <3>2, StatesMove
  <2> QED
    BY <1>3, <2>1, <2>3, <2>4
<1>6. ASSUME States!Enter(t) PROVE StatesInvariant'
  <2> DEFINE en2 == Append(entered[c], h.to)
  <2>1. /\ h.at = "enter"
        /\ States!Call(t, OnEnter[h.to], "return") /\ entered' = [entered EXCEPT ![c] = en2]
        /\ UNCHANGED <<created, listed, kept, news, trail, left, wrote>>
    BY <1>6 DEF States!Enter, States!At
  <2>2. en2 \in Seq(MachineStates)
    BY <1>2, AppendProperties
  <2>3. CASE stack' = [stack EXCEPT ![t] = <<>>] /\ failed' = failed \cup {c} /\ moves' = moves
    BY <1>0, <1>2, <1>4, <2>1, <2>2, <2>3
  <2>4. ASSUME NEW w2, stack' = [stack EXCEPT ![t] = w2], failed' = failed, moves' \in 0 .. MaxMoves,
               Becomes(w2, w, h, [h EXCEPT !.at = "return"]), Head(w2).at \notin {"push", "assign"}
        PROVE  StatesInvariant'
    <3>1. Fits(w2, kept[c], trail[c], en2, left[c], news[c], c \in failed)
      BY <1>0, <1>1, <2>1, <2>4, EnterFits
    <3> HIDE DEF en2
    <3>2. Leaves(t, w2, kept[c], trail[c], en2, left[c], news[c])
      BY <1>0, <2>1, <2>4, <3>1 DEF Leaves
    <3> QED
      BY <3>2, StatesMove
  <2> QED
    BY <1>3, <2>1, <2>3, <2>4
<1>7. ASSUME States!Return(t) PROVE StatesInvariant'
  <2>1. /\ h.at = "return" /\ stack' = [stack EXCEPT ![t] = Tail(w)]
        /\ UNCHANGED <<created, listed, kept, news, trail, entered, left, failed, wrote, moves>>
    BY <1>7 DEF States!Return, States!At, States!history
  <2>2. Fits(Tail(w), kept[c], trail[c], entered[c], left[c], news[c], c \in failed)
    BY <1>0, <1>1, <2>1, ReturnFits
  <2>3. Leaves(t, Tail(w), kept[c], trail[c], entered[c], left[c], news[c])
    BY <1>0, <2>1, <2>2 DEF Leaves
  <2> QED
    BY <2>3, StatesMove
<1> QED
  BY <1>5, <1>6, <1>7

(* Each step keeps the invariant.                                          *)
LEMMA StatesNext ==
    ASSUME States!StatesAssumption, States!OneThreadEach, ~PlainEnum, StatesInvariant, [States!Next]_States!vars
    PROVE  StatesInvariant'
<1>1. CASE UNCHANGED States!vars
  <2>1. UNCHANGED <<created, listed, kept, stack, news, trail, entered, left, wrote, failed, moves>>
    BY <1>1 DEF States!vars
  <2>2. /\ created \subseteq ThingClasses /\ listed \in [Guarded -> (SUBSET MachineStates) \cup {None}]
        /\ wrote \subseteq [thing : ThingClasses, object : Guarded, state : MachineStates]
    BY DEF StatesInvariant, States!TypeOK
  <2> QED
    BY <2>1, <2>2, StatesQuiet
<1>2. CASE \/ \E c \in ThingClasses : States!Create(c)
           \/ \E t \in StateThreads, o \in Guarded : States!WriteProperty(t, o) \/ States!WriteMultiple(t, o)
  BY <1>2, CreateOrWriteKeeps
<1>3. ASSUME NEW t \in StateThreads,
             \/ \E o \in Guarded, s \in MachineStates \cup {"unknown"} : States!InvokeAction(t, o, s)
             \/ States!ReadState(t)
      PROVE  StatesInvariant'
  BY <1>3, BeginOrReadKeeps
<1>4. ASSUME NEW t \in StateThreads, States!Compare(t) PROVE StatesInvariant'
  BY <1>4, CompareKeeps
<1>5. ASSUME NEW t \in StateThreads, States!Assign(t) \/ States!Push(t) PROVE StatesInvariant'
  BY <1>5, AssignOrPushKeeps
<1>6. ASSUME NEW t \in StateThreads, States!Exit(t) \/ States!Enter(t) \/ States!Return(t) PROVE StatesInvariant'
  BY <1>6, CallbackKeeps
<1> QED
  BY <1>1, <1>2, <1>3, <1>4, <1>5, <1>6 DEF States!Next

(* No Thing was created at first.                                          *)
LEMMA StatesInit == ASSUME States!StatesAssumption, States!Init PROVE StatesInvariant
<1>1. /\ \A t \in StateThreads : stack[t] = <<>> /\ ServedBy[t] \in ThingClasses
      /\ \A c \in ThingClasses : kept[c] = None /\ trail[c] = <<>> /\ entered[c] = <<>> /\ left[c] = <<>> /\ news[c] = <<>>
      /\ failed = {}
  BY DEF States!Init, States!StatesAssumption
<1>2. States!TypeOK
  BY DEF States!Init, States!TypeOK, States!StatesAssumption
<1>3. \A b : Fits(<<>>, None, <<>>, <<>>, <<>>, <<>>, b)
  BY FitsAtFirst
<1>4. ASSUME NEW c \in ThingClasses, NEW w, w = <<>>
      PROVE  Fits(w, kept[c], trail[c], entered[c], left[c], news[c], c \in failed)
  BY <1>1, <1>3, <1>4
<1> QED
  BY <1>1, <1>2, <1>4 DEF StatesInvariant

(* The invariant says what the properties do.                              *)
LEMMA StatesHold ==
    ASSUME States!StatesAssumption, StatesInvariant
    PROVE  States!TypeOK /\ States!CallbacksMatch /\ States!NewsIsTrail
<1>1. ASSUME NEW c \in ThingClasses, States!Quiet(c)
      PROVE  /\ Typed(<<>>, kept[c], trail[c], entered[c], left[c], news[c])
             /\ Counted(<<>>, After(trail[c]), trail[c], entered[c], left[c]) /\ Told(<<>>, trail[c], news[c])
             /\ States!StateOf(c) = After(trail[c])
  <2>1. c \notin failed /\ \A t \in StateThreads : ServedBy[t] = c => stack[t] = <<>>
    BY <1>1 DEF States!Quiet
  <2>2. Fits(<<>>, kept[c], trail[c], entered[c], left[c], news[c], c \in failed)
    <3>1. CASE Calls(c) = {}
      BY <3>1 DEF StatesInvariant
    <3>2. ASSUME NEW t \in Calls(c) PROVE Fits(<<>>, kept[c], trail[c], entered[c], left[c], news[c], c \in failed)
      <4>1. t \in StateThreads /\ ServedBy[t] = c /\ stack[t] = <<>>
        BY <2>1, <3>2 DEF Calls
      <4>2. Fits(stack[t], kept[c], trail[c], entered[c], left[c], news[c], c \in failed)
        BY <4>1 DEF StatesInvariant
      <4> QED
        BY <4>1, <4>2
    <3> QED
      BY <3>1, <3>2
  <2>3. Typed(<<>>, kept[c], trail[c], entered[c], left[c], news[c])
    BY <2>2 DEF Fits
  <2>4. After(trail[c]) # None
    <3>1. trail[c] \in Seq(MachineStates) /\ InitialState \in MachineStates /\ None \notin MachineStates
      BY <2>3 DEF Typed, States!StatesAssumption
    <3>2. CASE trail[c] = <<>>
      BY <3>1, <3>2 DEF After
    <3>3. CASE trail[c] # <<>>
      BY <3>1, <3>3, LenProperties, EmptySeq, ElementOfSeq DEF After
    <3> QED
      BY <3>2, <3>3
  <2>5. States!StateOf(c) = After(trail[c])
    BY <2>3, <2>4 DEF Typed, States!StateOf, After
  <2> QED
    BY <2>1, <2>2, <2>3, <2>5 DEF Fits
<1>2. ASSUME NEW s, NEW q PROVE States!Times(s, q) = Count({s}, q)
  <2>1. {i \in DOMAIN q : q[i] = s} = {i \in DOMAIN q : q[i] \in {s}}
    OBVIOUS
  <2> QED
    BY <2>1 DEF States!Times, Count, States!Cardinality, Cardinality
<1>3. ASSUME NEW c \in ThingClasses, States!Quiet(c), NEW s \in MachineStates
      PROVE  /\ States!Times(s, entered[c]) = States!Times(s, trail[c])
             /\ States!Times(s, left[c]) =
                  States!Times(s, <<InitialState>> \o trail[c]) - (IF s = States!StateOf(c) THEN 1 ELSE 0)
  <2> DEFINE tr == trail[c]  now == After(trail[c])
  <2>1. /\ tr \in Seq(MachineStates) /\ entered[c] \in Seq(MachineStates) /\ left[c] \in Seq(MachineStates)
        /\ <<>> \in Seq(States!Frames)
    BY <1>1, <1>3 DEF Typed
  <2>2. /\ Count({s}, entered[c]) + Count(OwesEnter(s), <<>>) = Count({s}, tr)
        /\ Count({s}, left[c]) + Count(OwesExit(s), <<>>) + One(s = now) = Count({s}, tr) + One(s = InitialState)
    BY <1>1, <1>3 DEF Counted
  <2>3. /\ Count(OwesEnter(s), <<>>) = 0 /\ Count(OwesExit(s), <<>>) = 0
        /\ Count({s}, entered[c]) \in Nat /\ Count({s}, left[c]) \in Nat /\ Count({s}, tr) \in Nat
    BY <2>1, CountType
  <2>4. Count({s}, <<InitialState>> \o tr) = Count({s}, tr) + One(s = InitialState)
    <3>1. Count({s}, <<InitialState>> \o tr) = Count({s}, tr) + One(InitialState \in {s})
      BY <2>1, CountPush DEF States!StatesAssumption
    <3> QED
      BY <3>1 DEF One
  <2>5. States!StateOf(c) = now
    BY <1>1, <1>3
  <2>6. One(s = now) = IF s = States!StateOf(c) THEN 1 ELSE 0
    BY <2>5 DEF One
  <2>7. One(s = InitialState) \in Nat /\ One(s = now) \in Nat
    BY DEF One
  <2> HIDE DEF tr, now
  <2>8. /\ Count({s}, entered[c]) = Count({s}, tr)
        /\ Count({s}, left[c]) = Count({s}, <<InitialState>> \o tr) - One(s = now)
    BY <2>2, <2>3, <2>4, <2>7
  <2> QED
    BY <1>2, <2>6, <2>8 DEF tr
<1>4. States!CallbacksMatch
  BY <1>3 DEF States!CallbacksMatch
<1>5. States!NewsIsTrail
  BY <1>1 DEF States!NewsIsTrail, Told, Tells
<1> QED
  BY <1>4, <1>5 DEF StatesInvariant

(* However callbacks set the state in turn, one thread for each Thing:     *)
(* each state is left and entered by its callbacks as often as by the      *)
(* Thing, and the events tell the states in their order, unless a callback *)
(* raised or the states are a plain Enum (state_machine.py:330).           *)
THEOREM AllTransitionsAreTold ==
    ASSUME States!OneThreadEach, ~PlainEnum PROVE ThingsSpec => []TransitionsAreTold
<1>1. ThingsInit => StatesInvariant
  BY ThingsAssumption, StatesInit DEF ThingsInit
<1>2. StatesInvariant /\ [ThingsNext]_allVars => StatesInvariant'
  <2>1. [ThingsNext]_allVars => [States!Next]_States!vars
    BY DEF ThingsNext, allVars, statesVars, States!vars
  <2> QED
    BY <2>1, ThingsAssumption, StatesNext
<1>3. StatesInvariant => TransitionsAreTold
  BY ThingsAssumption, StatesHold DEF TransitionsAreTold
<1> QED
  BY <1>1, <1>2, <1>3, PTL DEF ThingsSpec


(***************************************************************************)
(* What is refused.                                                        *)
(***************************************************************************)

\* A property holds a value, or None, but no failure.
HoldsNoFailure == held # Raised

\* None is held first, and a failure is never stored.
LEMMA HoldsValue ==
    /\ ThingsInit => HoldsNoFailure
    /\ HoldsNoFailure /\ [ThingsNext]_allVars => HoldsNoFailure'
<1>1. ThingsInit => held # Raised
  BY DEF ThingsInit, Init, Raised, NoneValue
<1>2. ASSUME held # Raised, [ThingsNext]_allVars PROVE held' # Raised
  <2>1. CASE UNCHANGED vars
    BY <1>2, <2>1 DEF vars
  <2>2. ASSUME NEW v, Set(v) PROVE held' # Raised
    BY <2>2 DEF Set
  <2>3. ASSUME NEW v, RestartWith(v) PROVE held' # Raised
    BY <2>3 DEF RestartWith, Raised, NoneValue
  <2>4. Next \/ UNCHANGED vars
    BY <1>2 DEF ThingsNext, allVars, vars
  <2> QED
    BY <2>1, <2>2, <2>3, <2>4 DEF Next, Write, WriteInBounds, Restart
<1> QED
  BY <1>1, <1>2 DEF HoldsNoFailure

\* A constant is not written, and a restart that sets another value lost it.
LEMMA ConstantStep ==
    ASSUME HoldsNoFailure, [ThingsNext]_allVars
    PROVE  [constant /\ isSet /\ held # NoneValue /\ saved = held => (held' = held \/ lost')]_vars
<1>1. CASE UNCHANGED vars
  BY <1>1
<1>2. ASSUME NEW v, Set(v) PROVE ~(constant /\ isSet)
  BY <1>2 DEF Set, MaySet
<1>3. ASSUME NEW v, RestartWith(v), saved = held PROVE held' = held \/ lost'
  <2>1. held # Raised
    BY DEF HoldsNoFailure
  <2>2. CASE v = saved
    BY <1>3, <2>1, <2>2 DEF RestartWith
  <2>3. CASE v # saved
    BY <1>3, <2>1, <2>3 DEF RestartWith
  <2> QED
    BY <2>2, <2>3
<1>4. Next \/ UNCHANGED vars
  BY DEF ThingsNext, allVars, vars
<1> QED
  BY <1>1, <1>2, <1>3, <1>4 DEF Next, Write, WriteInBounds, Restart

(* An operation on a container that raises is refused before it begins, or *)
(* is one of the two that the property refuses after they are done.        *)
LEMMA FailureStep ==
    ASSUME [ThingsNext]_allVars
    PROVE  [last'.raised /\ last'.op \notin {"iadd", "imul"} => UNCHANGED <<inner, prop>>]_(Containers!vars)
<1> DEFINE kept_ == last'.raised /\ last'.op \notin {"iadd", "imul"} => UNCHANGED <<inner, prop>>
<1>1. Containers!Next \/ UNCHANGED Containers!vars
  BY DEF ThingsNext, allVars, containersVars, Containers!vars
<1>2. ASSUME NEW op, Containers!Done(op) \/ Containers!Raises(op) PROVE kept_
  BY <1>2 DEF Containers!Done, Containers!Raises
<1>3. ASSUME last' = [op |-> "iadd", raised |-> TRUE] PROVE kept_
  BY <1>3
<1>4. ASSUME NEW b, last' = [op |-> "imul", raised |-> b] PROVE kept_
  BY <1>4
<1> HIDE DEF kept_
<1>5. ASSUME NEW p, NEW c, \/ Containers!Assign(p, c) \/ Containers!Extend(p, c) \/ Containers!AddAndAssign(p, c)
                           \/ Containers!Update(p, c) \/ Containers!RemoveKeys(p, c)
      PROVE  kept_
  BY <1>2, <1>3, <1>5 DEF Containers!Assign, Containers!Extend, Containers!AddAndAssign, Containers!Update,
                          Containers!RemoveKeys
<1>6. ASSUME NEW p, NEW i, NEW x,
             \/ Containers!Raw(p, x) \/ Containers!SetItem(p, i, x) \/ Containers!SetKey(p, i, x)
      PROVE  kept_
  BY <1>2, <1>6 DEF Containers!Raw, Containers!SetItem, Containers!SetKey
<1>7. ASSUME NEW p, NEW i, Containers!RemoveItem(p, i) \/ Containers!SetDefault(p, i)
      PROVE  kept_
  BY <1>2, <1>7 DEF Containers!RemoveItem, Containers!SetDefault
<1>8. ASSUME NEW p, Containers!Restore(p) \/ Containers!Clear(p)
      PROVE  kept_
  BY <1>2, <1>8 DEF Containers!Restore, Containers!Clear
<1>9. ASSUME NEW t, NEW p, NEW x, Containers!CheckInsertion(t, p, x)
      PROVE  kept_
  BY <1>2, <1>9 DEF Containers!CheckInsertion
<1>10. ASSUME NEW t, Containers!Insert(t)
       PROVE  kept_
  BY <1>2, <1>10 DEF Containers!Insert
<1>11. ASSUME NEW p, Containers!Double(p) PROVE kept_
  BY <1>4, <1>11 DEF Containers!Double
<1>12. ASSUME Containers!Next PROVE kept_
  BY <1>5, <1>6, <1>7, <1>8, <1>9, <1>10, <1>11, <1>12 DEF Containers!Next
<1> QED
  BY <1>1, <1>12 DEF kept_

(* A constant that was set keeps its value through writes and restarts,    *)
(* whatever its type, and an operation on a container that raises has      *)
(* changed nothing, but for += and *= (parameterized.py:459,               *)
(* parameters.py:2424).                                                    *)
THEOREM AllRefusalsChangeNothing == ThingsSpec => RefusedChangesNothing
<1>1. ThingsSpec => []HoldsNoFailure
  BY HoldsValue, PTL DEF ThingsSpec
<1>2. ThingsSpec => ConstantStays
  BY <1>1, ConstantStep, PTL DEF ThingsSpec, ConstantStays
<1>3. ThingsSpec => Containers!FailuresChangeNothing
  BY FailureStep, PTL DEF ThingsSpec, Containers!FailuresChangeNothing
<1> QED
  BY <1>2, <1>3 DEF RefusedChangesNothing

(***************************************************************************)
(* The file, with one thread and with several.                             *)
(***************************************************************************)
\* What is proved of the store, for the two ways the composition runs it.
AloneFacts == INSTANCE PropertyStoreProofs WITH
    Threads <- OneThread, Commit <- StoreCommit, Values <- WithBad, Default <- StoreDefault,
    MaxCrashes <- 0,
    value <- memory, prop <- target, old <- before, last <- pushed, stored <- ledger

SharedFacts == INSTANCE PropertyStoreProofs WITH
    Threads <- TwoThreads, Commit <- StoreCommit, Initial <- {}, Values <- Sound,
    Default <- StoreDefault, Bad <- {},
    value <- memory, prop <- target, old <- before, last <- pushed, stored <- ledger

(* What the composition runs is the store alone, or the shared one.        *)
LEMMA StoreRuns ==
    ASSUME ThingsAssumption
    PROVE  ThingsSpec => \/ [](~(part = "shared")) /\ AloneFacts!Spec
                         \/ [](part = "shared") /\ SharedFacts!Spec
<1>1. ThingsInit => (~(part = "shared") => AloneFacts!Init) /\ (part = "shared" => SharedFacts!Init)
  BY DEF ThingsInit, Alone!Init, AloneFacts!Init, Shared!Init, SharedFacts!Init,
         Alone!Nothing, AloneFacts!Nothing, Shared!Nothing, SharedFacts!Nothing,
         Alone!Props, AloneFacts!Props, Shared!Props, SharedFacts!Props,
         Alone!Procs, AloneFacts!Procs, Shared!Procs, SharedFacts!Procs
<1>2. /\ part = "shared" /\ [ThingsNext]_allVars => (part = "shared")'
      /\ ~(part = "shared") /\ [ThingsNext]_allVars => ~(part = "shared")'
  BY DEF ThingsNext, allVars
<1>3. ~(part = "shared") /\ [ThingsNext]_allVars => [AloneFacts!Next]_AloneFacts!vars
  <2>1. ~(part = "shared") /\ [ThingsNext]_allVars => Alone!Next \/ UNCHANGED storeVars
    BY DEF ThingsNext, allVars
  <2>2. UNCHANGED storeVars => UNCHANGED AloneFacts!vars
    BY DEF storeVars, AloneFacts!vars
  <2>3. Alone!Next => AloneFacts!Next
    BY Zenon
    DEF Alone!Next, Alone!Get, Alone!Set, Alone!Store, Alone!DumpRaises, Alone!Open,
        Alone!Write, Alone!ReadOld, Alone!ReplaceOld, Alone!PushEvent, Alone!Crash,
        Alone!LoadRaises, Alone!Load, Alone!LoadDone, Alone!LoadSet, Alone!Props, Alone!Loaded,
        Alone!Procs, Alone!Goto, Alone!Leave, Alone!Nothing, Alone!memory, Alone!storage,
        Alone!call, Alone!history,
        AloneFacts!Next, AloneFacts!Get, AloneFacts!Set, AloneFacts!Store,
        AloneFacts!DumpRaises, AloneFacts!Open, AloneFacts!Write, AloneFacts!ReadOld,
        AloneFacts!ReplaceOld, AloneFacts!PushEvent, AloneFacts!Crash, AloneFacts!LoadRaises,
        AloneFacts!Load, AloneFacts!LoadDone, AloneFacts!LoadSet, AloneFacts!Props,
        AloneFacts!Loaded, AloneFacts!Procs, AloneFacts!Goto, AloneFacts!Leave,
        AloneFacts!Nothing, AloneFacts!memory, AloneFacts!storage, AloneFacts!call,
        AloneFacts!history
  <2> QED
    BY <2>1, <2>2, <2>3
<1>4. part = "shared" /\ [ThingsNext]_allVars => [SharedFacts!Next]_SharedFacts!vars
  <2>1. part = "shared" /\ [ThingsNext]_allVars => Shared!Next \/ UNCHANGED storeVars
    BY DEF ThingsNext, allVars
  <2>2. UNCHANGED storeVars => UNCHANGED SharedFacts!vars
    BY DEF storeVars, SharedFacts!vars
  <2>3. Shared!Next => SharedFacts!Next
    BY Zenon
    DEF Shared!Next, Shared!Get, Shared!Set, Shared!Store, Shared!DumpRaises, Shared!Open,
        Shared!Write, Shared!ReadOld, Shared!ReplaceOld, Shared!PushEvent, Shared!Crash,
        Shared!LoadRaises, Shared!Load, Shared!LoadDone, Shared!LoadSet, Shared!Props,
        Shared!Loaded, Shared!Procs, Shared!Goto, Shared!Leave, Shared!Nothing, Shared!memory,
        Shared!storage, Shared!call, Shared!history,
        SharedFacts!Next, SharedFacts!Get, SharedFacts!Set, SharedFacts!Store,
        SharedFacts!DumpRaises, SharedFacts!Open, SharedFacts!Write, SharedFacts!ReadOld,
        SharedFacts!ReplaceOld, SharedFacts!PushEvent, SharedFacts!Crash,
        SharedFacts!LoadRaises, SharedFacts!Load, SharedFacts!LoadDone, SharedFacts!LoadSet,
        SharedFacts!Props, SharedFacts!Loaded, SharedFacts!Procs, SharedFacts!Goto,
        SharedFacts!Leave, SharedFacts!Nothing, SharedFacts!memory, SharedFacts!storage,
        SharedFacts!call, SharedFacts!history
  <2> QED
    BY <2>1, <2>2, <2>3
<1> QED
  BY <1>1, <1>2, <1>3, <1>4, PTL DEF ThingsSpec, AloneFacts!Spec, SharedFacts!Spec

(* One thread: every write is stored and the last operation was pushed;    *)
(* threads and crashes of any number: the file holds the last save,        *)
(* follows the storage and restores it (property.py:108, jsonfile.py:92).  *)
THEOREM AllFilesFollow ==
    ASSUME ThingsAssumption PROVE ThingsSpec => []FileFollows
<1> DEFINE AloneHolds == /\ AloneFacts!TypeOK /\ AloneFacts!EveryWriteIsStored
                         /\ AloneFacts!LastOperationWasPushed /\ AloneFacts!FileHoldsLastSave
           SharedHolds == /\ SharedFacts!TypeOK /\ SharedFacts!FileHoldsLastSave
                          /\ SharedFacts!FileFollowsStorage /\ SharedFacts!RestoresLastSave
<1>1. AloneFacts!Spec => []AloneHolds
  <2>1. AloneFacts!StoreAssumption /\ AloneFacts!OneThread
    BY DEF ThingsAssumption, Alone!StoreAssumption, AloneFacts!StoreAssumption, Alone!Props,
           AloneFacts!Props, AloneFacts!OneThread
  <2> QED
    BY <2>1, AloneFacts!TypeCorrect, AloneFacts!FileKept, AloneFacts!WritesStored,
       AloneFacts!LastWasPushed, PTL
<1>2. SharedFacts!Spec => []SharedHolds
  <2>1. SharedFacts!StoreAssumption
    BY DEF ThingsAssumption, Shared!StoreAssumption, SharedFacts!StoreAssumption, Shared!Props,
           SharedFacts!Props
  <2> QED
    BY <2>1, SharedFacts!TypeCorrect, SharedFacts!FileKept, SharedFacts!LastSaveRestored, PTL
<1>3. AloneHolds /\ ~(part = "shared") => FileFollows
  <2> SUFFICES ASSUME AloneHolds, ~(part = "shared") PROVE FileFollows
    OBVIOUS
  <2>1. Alone!TypeOK
    BY DEF AloneFacts!TypeOK, Alone!TypeOK, Alone!Props, AloneFacts!Props, Alone!Procs, AloneFacts!Procs,
           Alone!Loaded, AloneFacts!Loaded
  <2>2. Alone!EveryWriteIsStored /\ Alone!LastOperationWasPushed
    BY DEF AloneFacts!EveryWriteIsStored, Alone!EveryWriteIsStored, AloneFacts!LastOperationWasPushed,
           Alone!LastOperationWasPushed, Alone!Quiet, AloneFacts!Quiet, Alone!Props, AloneFacts!Props,
           Alone!Procs, AloneFacts!Procs
  <2>3. Alone!FileHoldsLastSave
    BY DEF AloneFacts!FileHoldsLastSave, Alone!FileHoldsLastSave, Alone!Procs, AloneFacts!Procs
  <2> QED
    BY <2>1, <2>2, <2>3 DEF FileFollows
<1>4. SharedHolds /\ part = "shared" => FileFollows
  <2> SUFFICES ASSUME SharedHolds, part = "shared" PROVE FileFollows
    OBVIOUS
  <2>1. Shared!TypeOK
    BY DEF SharedFacts!TypeOK, Shared!TypeOK, Shared!Props, SharedFacts!Props, Shared!Procs,
           SharedFacts!Procs, Shared!Loaded, SharedFacts!Loaded
  <2>2. Shared!FileHoldsLastSave /\ Shared!FileFollowsStorage
    BY DEF SharedFacts!FileHoldsLastSave, Shared!FileHoldsLastSave, Shared!Procs, SharedFacts!Procs,
           SharedFacts!FileFollowsStorage, Shared!FileFollowsStorage, Shared!Props, SharedFacts!Props
  <2>3. Shared!RestoresLastSave
    BY DEF SharedFacts!RestoresLastSave, Shared!RestoresLastSave, Shared!Loaded, SharedFacts!Loaded,
           Shared!Restored, SharedFacts!Restored
  <2> QED
    BY <2>1, <2>2, <2>3 DEF FileFollows
<1> QED
  BY <1>1, <1>2, <1>3, <1>4, StoreRuns, PTL
=============================================================================
