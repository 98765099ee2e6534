-------------------------- MODULE TypedContainers --------------------------
(***************************************************************************)
(* Properties whose value is a constrained list or dictionary:             *)
(* TypedList, TypedDict and TypedKeyMappingsDict of core/properties.py     *)
(* over the containers of param/parameters.py.                             *)
(*                                                                         *)
(* A container wraps the Python list or dict it was given, `inner`, which  *)
(* others may hold too; it checks what is put in.  A list is a sequence of *)
(* item types, a dict a function from keys to item types.  Checking and    *)
(* putting in are two steps, for two threads may use one container.        *)
(***************************************************************************)
EXTENDS Naturals, Sequences, SequencesExt, FiniteSets

CONSTANTS
    Properties,
    Kind,           \* [Properties -> {"list", "dict", "mapping"}]
    Constant,       \* properties that are constant
    Low, High,      \* bounds of the length
    Items,          \* types of items; "int" is the allowed one
    Keys, BadKeys,  \* keys of the type or the mapping, and others
    Unspecified,    \* mappings allow keys that are not specified
    Refs,           \* places for lists and dicts
    Threads,
    Operations,     \* names of the operations that are used
    None

ContainersAssumption ==
    /\ Kind \in [Properties -> {"list", "dict", "mapping"}] /\ {Low, High} \subseteq Nat
    /\ IsFiniteSet(Threads) /\ Threads # {}
    /\ None \notin Seq(Items)
    /\ \A ks \in SUBSET (Keys \cup BadKeys) : None \notin [ks -> Items \cup {"none"}]

VARIABLES
    inner,      \* contents of each list or dict
    prop,       \* [ref, constant]: the container a property holds, or None
    checked,    \* what each thread has checked and is about to put in
    bypassed,   \* history: lists changed by a *= or by one that holds them too
    last        \* the last operation, and whether it raised

vars == <<inner, prop, checked, bypassed, last>>

Dicts == UNION {[ks -> Items] : ks \in SUBSET (Keys \cup BadKeys)}
ListsUpTo(n) == UNION {[1..k -> Items] : k \in 0..n}
Length(c) == Cardinality(DOMAIN c)

TypeOK ==
    /\ \A p \in Properties : prop[p] = None \/
         (prop[p].ref \in Refs /\ prop[p].constant \in BOOLEAN)
    /\ \A t \in Threads : checked[t] = None \/ checked[t].ref \in Refs

Init ==
    /\ inner = [r \in Refs |-> None]
    /\ prop = [p \in Properties |-> None]
    /\ checked = [t \in Threads |-> None]
    /\ bypassed = {} /\ last = [op |-> "none", raised |-> FALSE]

Uses(op) == op \in Operations
Done(op) == last' = [op |-> op, raised |-> FALSE]
Raises(op) == last' = [op |-> op, raised |-> TRUE] /\ UNCHANGED <<inner, prop, checked, bypassed>>
Content(p) == inner[prop[p].ref]
Fresh == {r \in Refs : inner[r] = None}

\* --- what the containers check -----------------------------------------------
ListItems(c) == \A i \in DOMAIN c : c[i] = "int"
DictItems(c) == \A k \in DOMAIN c : k \in Keys /\ c[k] = "int"
\* A key that is not specified may hold anything, or is not allowed at all.
MappingItems(c) == \A k \in DOMAIN c : IF k \in Keys THEN c[k] = "int" ELSE Unspecified
Typed(p, c) ==
    /\ Kind[p] = "list" => ListItems(c)
    /\ Kind[p] = "dict" => DictItems(c)
    /\ Kind[p] = "mapping" => MappingItems(c)

ForSet(p, c) == Length(c) \in Low..High /\ Typed(p, c)
\* For whatever is put in, the new length must be within both bounds.
Room(p, n) == Length(Content(p)) + n \in Low..High

(***************************************************************************)
(* Setting the property: a new container around the list that was given.   *)
(***************************************************************************)
Assign(p, c) ==
    /\ Uses("assign") /\ Fresh # {} /\ ~(p \in Constant /\ prop[p] # None)
    /\ IF ForSet(p, c)
       THEN LET r == CHOOSE r \in Fresh : TRUE IN
            /\ inner' = [inner EXCEPT ![r] = c]
            /\ prop' = [prop EXCEPT ![p] = [ref |-> r, constant |-> p \in Constant]]
            /\ Done("assign") /\ UNCHANGED <<checked, bypassed>>
       ELSE Raises("assign")

\* Restored at a restart, while edit_constant() has `constant` switched off.
Restore(p) ==
    /\ Uses("restore") /\ prop[p] # None
    /\ IF ForSet(p, Content(p))
       THEN prop' = [prop EXCEPT ![p].constant = FALSE]
       ELSE prop' = [prop EXCEPT ![p] = None]
    /\ checked' = [t \in Threads |-> None] /\ Done("restore") /\ UNCHANGED <<inner, bypassed>>

\* The program goes on to use the list it gave, or one it got by serialize().
Raw(p, x) ==
    /\ Uses("raw") /\ prop[p] # None /\ Kind[p] = "list" /\ Length(Content(p)) <= High
    /\ inner' = [inner EXCEPT ![prop[p].ref] = Append(@, x)]
    /\ bypassed' = bypassed \cup {prop[p].ref}
    /\ Done("raw") /\ UNCHANGED <<prop, checked>>

(***************************************************************************)
(* Lists.                                                                  *)
(***************************************************************************)
Holds(p, kinds) == prop[p] # None /\ Kind[p] \in kinds

\* append() and insert(): checked, then put in.
CheckInsertion(t, p, x) ==
    /\ Uses("append") /\ Holds(p, {"list"}) /\ checked[t] = None
    /\ IF ~prop[p].constant /\ Room(p, 1) /\ x = "int"
       THEN /\ checked' = [checked EXCEPT ![t] = [ref |-> prop[p].ref, item |-> x]]
            /\ Done("append") /\ UNCHANGED <<inner, prop, bypassed>>
       ELSE Raises("append")

Insert(t) ==
    /\ checked[t] # None
    /\ inner' = [inner EXCEPT ![checked[t].ref] = Append(@, checked[t].item)]
    /\ checked' = [checked EXCEPT ![t] = None]
    /\ Done("append") /\ UNCHANGED <<prop, bypassed>>

\* Mutant: the items are not checked.
ExtendUnchecked(p, xs) ==
    /\ Uses("extend") /\ Holds(p, {"list"})
    /\ IF ~prop[p].constant /\ Room(p, Len(xs))
       THEN /\ inner' = [inner EXCEPT ![prop[p].ref] = @ \o xs]
            /\ Done("extend") /\ UNCHANGED <<prop, checked, bypassed>>
       ELSE Raises("extend")

Extend(p, xs) ==
    /\ Uses("extend") /\ Holds(p, {"list"})
    /\ IF ~prop[p].constant /\ Room(p, Len(xs)) /\ ListItems(xs)
       THEN /\ inner' = [inner EXCEPT ![prop[p].ref] = @ \o xs]
            /\ Done("extend") /\ UNCHANGED <<prop, checked, bypassed>>
       ELSE Raises("extend")

SetItem(p, i, x) ==
    /\ Uses("setitem") /\ Holds(p, {"list"}) /\ i \in DOMAIN Content(p)
    /\ IF ~prop[p].constant /\ x = "int"
       THEN /\ inner' = [inner EXCEPT ![prop[p].ref][i] = x]
            /\ Done("setitem") /\ UNCHANGED <<prop, checked, bypassed>>
       ELSE Raises("setitem")

\* Neither `constant` nor the bounds are looked at by del, pop(), remove().
RemoveItem(p, i) ==
    /\ Uses("remove") /\ Holds(p, {"list"}) /\ i \in DOMAIN Content(p)
    /\ inner' = [inner EXCEPT ![prop[p].ref] = RemoveAt(@, i)]
    /\ Done("remove") /\ UNCHANGED <<prop, checked, bypassed>>

Clear(p) ==
    /\ Uses("clear") /\ Holds(p, {"list"}) /\ Content(p) # <<>>
    /\ inner' = [inner EXCEPT ![prop[p].ref] = <<>>]
    /\ Done("clear") /\ UNCHANGED <<prop, checked, bypassed>>

\* thing.p += xs: the list is extended in place, and then the container that
\* __iadd__() returns is set, which is no list.
AddAndAssign(p, xs) ==
    /\ Uses("iadd") /\ Holds(p, {"list"})
    /\ IF ~prop[p].constant /\ Room(p, Len(xs)) /\ ListItems(xs)
       THEN inner' = [inner EXCEPT ![prop[p].ref] = @ \o xs]
       ELSE UNCHANGED inner
    /\ last' = [op |-> "iadd", raised |-> TRUE] /\ UNCHANGED <<prop, checked, bypassed>>

\* thing.p *= 2: the list is lengthened in place, unchecked, and set anew.
Double(p) ==
    /\ Uses("imul") /\ Holds(p, {"list"}) /\ Length(Content(p)) <= High
    /\ LET c == Content(p) \o Content(p) IN
       /\ inner' = [inner EXCEPT ![prop[p].ref] = c]
       /\ last' = [op |-> "imul", raised |-> ~ForSet(p, c) \/ p \in Constant]
    /\ bypassed' = bypassed \cup {prop[p].ref} /\ UNCHANGED <<prop, checked>>

(***************************************************************************)
(* Dictionaries.                                                           *)
(***************************************************************************)
WithKey(c, k, x) == [j \in DOMAIN c \cup {k} |-> IF j = k THEN x ELSE c[j]]

SetKey(p, k, x) ==
    /\ Uses("setkey") /\ Holds(p, {"dict", "mapping"})
    /\ IF ~prop[p].constant /\ (k \in DOMAIN Content(p) \/ Room(p, 1)) /\ Typed(p, WithKey(<<>>, k, x))
       THEN /\ inner' = [inner EXCEPT ![prop[p].ref] = WithKey(@, k, x)]
            /\ Done("setkey") /\ UNCHANGED <<prop, checked, bypassed>>
       ELSE Raises("setkey")

\* Mutant: what is allowed is put in before the rest is refused.
UpdateInTurn(p, c) ==
    /\ Uses("update") /\ Holds(p, {"dict", "mapping"})
    /\ LET good == {k \in DOMAIN c : Typed(p, WithKey(<<>>, k, c[k]))} IN
       /\ ~prop[p].constant /\ Room(p, Length(c))
       /\ inner' = [inner EXCEPT ![prop[p].ref] =
                       [k \in DOMAIN @ \cup good |-> IF k \in good THEN c[k] ELSE @[k]]]
       /\ last' = [op |-> "update", raised |-> good # DOMAIN c]
    /\ UNCHANGED <<prop, checked, bypassed>>

\* update() counts each key as a new one.
Update(p, c) ==
    /\ Uses("update") /\ Holds(p, {"dict", "mapping"})
    /\ IF ~prop[p].constant /\ Room(p, Length(c)) /\ Typed(p, c)
       THEN /\ inner' = [inner EXCEPT ![prop[p].ref] =
                           [k \in DOMAIN @ \cup DOMAIN c |-> IF k \in DOMAIN c THEN c[k] ELSE @[k]]]
            /\ Done("update") /\ UNCHANGED <<prop, checked, bypassed>>
       ELSE Raises("update")

\* pop(), popitem(), del and clear() go to the inner dict.
RemoveKeys(p, ks) ==
    /\ Uses("removekeys") /\ Holds(p, {"dict", "mapping"}) /\ ks \subseteq DOMAIN Content(p) /\ ks # {}
    /\ inner' = [inner EXCEPT ![prop[p].ref] = [k \in DOMAIN @ \ ks |-> @[k]]]
    /\ Done("removekeys") /\ UNCHANGED <<prop, checked, bypassed>>

\* setdefault() takes no default: the inner dict puts None.
SetDefault(p, k) ==
    /\ Uses("setdefault") /\ Holds(p, {"dict", "mapping"}) /\ k \notin DOMAIN Content(p)
    /\ Length(Content(p)) <= High
    /\ inner' = [inner EXCEPT ![prop[p].ref] = WithKey(@, k, "none")]
    /\ Done("setdefault") /\ UNCHANGED <<prop, checked, bypassed>>

\* A thread that has checked an item goes on to put it in; another does the rest.
Idle == \E t \in Threads : checked[t] = None

Next ==
    \/ \E p \in Properties : Idle /\
       (\/ \E c \in ListsUpTo(High + 1) :
             Kind[p] = "list" /\ (Assign(p, c) \/ Extend(p, c) \/ AddAndAssign(p, c))
        \/ \E c \in Dicts : Kind[p] # "list" /\ (Assign(p, c) \/ Update(p, c))
        \/ \E x \in Items :
             \/ Raw(p, x)
             \/ \E t \in Threads : CheckInsertion(t, p, x)
             \/ \E i \in 1..High : SetItem(p, i, x)
             \/ \E k \in Keys \cup BadKeys : SetKey(p, k, x)
        \/ \E i \in 1..High : RemoveItem(p, i)
        \/ \E ks \in SUBSET (Keys \cup BadKeys) : RemoveKeys(p, ks)
        \/ \E k \in Keys \cup BadKeys : SetDefault(p, k)
        \/ Restore(p) \/ Clear(p) \/ Double(p))
    \/ \E t \in Threads : Insert(t)

Spec == Init /\ [][Next]_vars

(***************************************************************************)
(* Properties.                                                             *)
(***************************************************************************)

\* Whatever puts items into a container, and in whatever order: each has its
\* type, but for the None of setdefault() and what is appended to the inner
\* list itself (the _validate methods of parameters.py).
ItemsTyped ==
    \A p \in Properties : prop[p] # None /\ prop[p].ref \notin bypassed =>
        LET bad == {i \in DOMAIN Content(p) :
                      ~Typed(p, WithKey(<<>>, IF Kind[p] = "list" THEN 1 ELSE i, Content(p)[i]))} IN
        bad = {} \/ (Kind[p] # "list" /\ \A i \in bad : Content(p)[i] = "none")

\* However threads interleave, they overshoot the upper bound by no more than
\* one item for each further thread, unless the list is changed past them
\* (parameters.py:2337).
NearlyBounded ==
    \A p \in Properties : Holds(p, {"list"}) /\ prop[p].ref \notin bypassed =>
        Length(Content(p)) <= High + Cardinality(Threads) - 1

\* An operation that raises has changed nothing, but for += and *=, which the
\* property refuses after they are done (properties.py:2402).
FailuresChangeNothing ==
    [][last'.raised /\ last'.op \notin {"iadd", "imul"} => UNCHANGED <<inner, prop>>]_vars

\* ... without the exception.
FailureIsAtomic == [][last'.raised => UNCHANGED <<inner, prop>>]_vars

\* "is a constant, cannot be modified" (parameters.py:2309).
ConstantUnmodified ==
    [][\A p \in Constant : prop[p] # None /\ prop'[p] # None /\ prop[p].ref = prop'[p].ref =>
           Content(p)' = Content(p)]_vars
=============================================================================
