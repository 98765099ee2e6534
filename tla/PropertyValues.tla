--------------------------- MODULE PropertyValues ---------------------------
(***************************************************************************)
(* One property of a Thing through its life: its class is declared, it is  *)
(* read, written, written cropped to its bounds, stored, and restored when *)
(* the Thing is created again.                                             *)
(***************************************************************************)
EXTENDS ParameterTypes

CONSTANTS
    Descriptors,    \* descriptors of one class or another
    Defaults,       \* default values
    Given(_),       \* values of writes, for each descriptor
    Pieces          \* the texts between the colons of an address

\* A list or a tuple has a sequence of items, a path is absolute or not.
IsPath(p) == p = Path(p.absolute, p.parts)
IsValue(v) ==
    /\ v.t \in {"list", "tuple"} => v.items \in Seq(ToSet(v.items))
    /\ v.t = "path" => IsPath(v)

\* Every type has its options, and any property may be a constant, which
\* allows None.  None is of no class to select from.  A part of an address is
\* empty or a group of hexadecimal digits; there is one at least.
ASSUME ValuesAssumption ==
    /\ Sizes \subseteq Nat /\ \A c \in OfferedClasses : "none" \notin c
    /\ \A e \in Descriptors : /\ e \in Options
                              /\ \A c \in BOOLEAN : [e EXCEPT !.none = c] \in Descriptors
                              /\ \A v \in Given(e) : IsValue(v)
    /\ \A v \in Defaults : IsValue(v)
    /\ \A s \in SearchPaths : s \in Seq(ToSet(s)) /\ \A p \in ToSet(s) : IsPath(p)
    /\ \A ps \in Pieces : /\ ps \in Seq(ToSet(ps)) /\ ps # <<>>
                         /\ \A p \in ToSet(ps) : p = NoDigits \/ Group(p)

VARIABLES
    d,          \* the descriptor
    constant,   \* it is constant, which allows None
    default,    \* its default, adapted when the class is declared
    held,       \* the value in the Thing's dictionary
    isSet,      \* there is one
    saved,      \* the stored value, or Raised for none
    lost        \* history: the last operation was a restart that did not restore a stored value

vars == <<d, constant, default, held, isSet, saved, lost>>

TypeOK ==
    /\ d \in Descriptors /\ {constant, isSet, lost} \subseteq BOOLEAN
    /\ held # Raised /\ default # Raised

\* The default is adapted when the descriptor gets its owner: _post_slot_set().
Init ==
    /\ constant \in BOOLEAN
    /\ \E e \in Descriptors : d = [e EXCEPT !.none = @ \/ constant]
    /\ default \in {Adapt(d, v) : v \in Defaults} \ {Raised}
    /\ held = NoneValue /\ isSet = FALSE /\ saved = Raised /\ lost = FALSE

\* __get__()
Value == IF isSet THEN held ELSE default

\* A constant is set once, if its default is None.
MaySet == ~constant \/ (~isSet /\ default = NoneValue)

\* __set__() with the value a method of the type made of the given one; the
\* value is stored if it can be.
Set(v) ==
    /\ v # Raised /\ MaySet
    /\ held' = v /\ isSet' = TRUE
    /\ saved' = IF Restored(v) = Raised THEN saved ELSE v
    /\ lost' = FALSE
    /\ UNCHANGED <<d, constant, default>>

Write(v) == Set(Adapt(d, v))

WriteInBounds(v) == d.kind \in {"Number", "Integer"} /\ Set(SetInBounds(d, v))

\* The Thing is created again and load_from_DB() sets what was stored, with
\* `constant` switched off; what is refused is logged and left.
RestartWith(v) ==
    /\ held' = IF v = Raised THEN NoneValue ELSE v
    /\ isSet' = (v # Raised)
    /\ saved' = IF v = Raised THEN saved ELSE v
    /\ lost' = (saved # Raised /\ v # saved)
    /\ UNCHANGED <<d, constant, default>>

\* Mutant: a constant is not set again.
RestartConstant ==
    RestartWith(IF constant \/ saved = Raised \/ Restored(saved) = Raised THEN Raised
                ELSE Adapt(d, Restored(saved)))

Restart ==
    RestartWith(IF saved = Raised \/ Restored(saved) = Raised THEN Raised
                ELSE Adapt(d, Restored(saved)))

Next ==
    \/ \E v \in Given(d) : \/ Write(v)
                         \/ WriteInBounds(v)
    \/ Restart

Spec == Init /\ [][Next]_vars

(***************************************************************************)
(* Properties.                                                             *)
(***************************************************************************)

\* The legal values of a type as its documentation has them.
Legal(e, v) ==
    \/ v = NoneValue /\ e.none
    \/ e.kind \in {"Selector", "TupleSelector"} /\ IsIn(v, e.objects)
    \/ /\ v # NoneValue
       /\ e.kind \in {"Number", "Integer"} =>
              e.bounds = NoneValue \/ (Below(v, e.bounds) /\ Above(v, e.bounds))
       /\ e.kind = "Number" => Is(v, {"int", "float"})
       /\ e.kind = "Integer" => Is(v, {"int"})
       /\ e.kind \in {"Date", "CalendarDate"} => v.t \in {"date", "datetime"}
       /\ e.kind \in {"String", "IPAddress", "CSS3Color"} => v.t = "str"
       /\ e.kind \in {"Path", "Filename", "Foldername"} => v.t = "path"
       /\ e.kind = "Bytes" => v.t = "bytes"
       /\ e.kind = "Boolean" => v.t = "bool"
       /\ e.kind = "Callable" => v.t \in {"function", "class"}
       /\ e.kind = "ClassSelector" => IF e.isinstance THEN Is(v, e.class) ELSE v.t = "class"
       /\ e.kind \in {"Tuple", "List", "Iterable"} =>
              /\ v.t \in e.types
              /\ e.items # {} => \A i \in DOMAIN v.items : Is(v.items[i], e.items)
              /\ IF e.lengths.low # NoLimit THEN Len(v.items) \in e.lengths.low .. e.lengths.high
                 ELSE e.lengths.length \in {NoLimit, Len(v.items)}
       /\ e.kind = "TupleSelector" =>
              v.t = "tuple" /\ \A i \in DOMAIN v.items : IsIn(v.items[i], e.objects)
       /\ e.kind # "Selector"

\* Words that mean something else and are held as None, even by a property
\* that does not allow it (properties.py:216 and :2135).
HeldAsNone(e, v) == e.kind \in {"IPAddress", "CSS3Color"} /\ v = NoneValue

\* Whatever is written, cropped or restored, in whatever order, the value a
\* reader gets is one its type allows, those two cases aside (the
\* validate_and_adapt() of each type in properties.py).
ReadsAreLegal == Legal(d, Value) \/ HeldAsNone(d, Value)

\* A value that was accepted is accepted again, unchanged: of what a property
\* holds and JSON can represent, a restart loses only a Tuple that accepts no
\* list, bytes, dates, the None of the two cases above, and what is selected
\* among things of these types (meta.py:665).
Unrepresentable == {"tuple", "bytes", "date", "datetime"}
MayBeLost(e, v) ==
    \/ e.kind \in {"Tuple", "Iterable", "TupleSelector"} /\ v.t \in {"tuple", "list"}
    \/ e.kind \in {"Bytes", "Date", "CalendarDate"}
    \/ HeldAsNone(e, v)
    \/ /\ e.kind \in {"Selector", "TupleSelector"}
       /\ \E i \in DOMAIN e.objects : e.objects[i].t \in Unrepresentable
    \/ e.kind = "ClassSelector" /\ e.class \cap Unrepresentable # {}
LosesOnlyUnrepresentable == lost => MayBeLost(d, saved)

\* A constant that was set keeps its value, through restarts as well, unless
\* the restart loses it (parameterized.py:459 and edit_constant()).
ConstantStays ==
    [][constant /\ isSet /\ held # NoneValue /\ saved = held => (held' = held \/ lost')]_vars

\* "If True, ... the property value persists Thing instance destruction and
\* recreation" (property.py:117).
SurvivesRestart == ~lost

\* The property types take a value as the parameter types of the same name do,
\* but for a value to be cropped, `localhost`, and None of a Boolean.
TwinKinds == {"String", "Bytes", "IPAddress", "Number", "Integer", "Boolean", "Iterable", "Tuple", "List"}
TwinsAgree ==
    d.kind \in TwinKinds => \A v \in Given(d) :
        \/ Adapt(d, v) = ParameterAdapt(d, v)
        \/ d.kind \in {"Number", "Integer"} /\ d.crop /\ d.bounds # NoneValue
        \/ d.kind = "IPAddress" /\ v = Word("localhost")
        \/ d.kind = "Boolean" /\ v = NoneValue

\* A colon too many at one end, and `::` elsewhere: `:1::2`.
StrayColon(ps) ==
    \E i \in {1, Len(ps)}, k \in 2..(Len(ps) - 1) :
        /\ {j \in DOMAIN ps : ps[j] = NoDigits} = {i, k}
        /\ Len(ps) < 10

\* An IPv6 address as it is defined: eight groups, or two runs of groups that
\* leave room for one at least, with `::` between them.
Side(k) == IF k = 0 THEN 1 ELSE k
Gap(m, n, len) == {Side(m) + 1} \cup (IF m = 0 THEN {1} ELSE {}) \cup (IF n = 0 THEN {len} ELSE {})
ValidIPv6(ps) ==
    \/ Len(ps) = 8 /\ NoDigits \notin ToSet(ps)
    \/ \E m \in 0..Len(ps), n \in 0..Len(ps) :
        /\ m + n < 8
        /\ Len(ps) = Side(m) + 1 + Side(n)
        /\ {i \in DOMAIN ps : ps[i] = NoDigits} = Gap(m, n, Len(ps))

\* The counting of empty groups accepts exactly the IPv6 addresses and those
\* with one stray colon (properties.py:346).
CountsGroups ==
    d.kind = "IPAddress" /\ ~isSet => \A ps \in Pieces :
        IsIPv6(Text(ps, 0)) = "yes" <=> ValidIPv6(ps) \/ StrayColon(ps)

\* An address with the length of its prefix is an address ("Return whether a
\* given value is a valid CIDR-notated IP version 4 address range",
\* properties.py:271).
PrefixIsAccepted ==
    d.kind = "IPAddress" /\ d.v4 => Adapt(d, Text(<<Quad>>, 1)) # Raised

\* The folders a path is searched in are given from the root.
SearchesFromRoot == \A s \in SearchPaths : \A i \in DOMAIN s : s[i].absolute

\* What was written can be read: a path is resolved on each (properties.py:1536).
PathReadsBack ==
    d.kind \in {"Path", "Filename", "Foldername"} => PathGet(d, Value) = Value
=============================================================================
