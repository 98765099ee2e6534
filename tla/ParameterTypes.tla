--------------------------- MODULE ParameterTypes ---------------------------
(***************************************************************************)
(* The parameter types of the vendored library (param/parameters.py) that  *)
(* have a twin of the same name among the property types.  They validate   *)
(* with a class method _assert(), which raises or does not; here it is     *)
(* the operator Passes of each type.                                       *)
(***************************************************************************)
EXTENDS PropertyTypes

StringPasses(v, regex, none) ==
    \/ v = NoneValue /\ none
    \/ Is(v, {"str"}) /\ (regex = NoLimit \/ v \in regex)

BytesPasses(v, regex, none) ==
    \/ v = NoneValue /\ none
    \/ Is(v, {"bytes"}) /\ (regex = NoLimit \/ v \in regex)

\* An address passes, fails, or runs into an error; the two last raise alike.
IPAddressPasses(v, v4, v6, localhost, none) ==
    \/ v = NoneValue /\ none
    \/ /\ Is(v, {"str"})
       /\ \/ localhost /\ v = Word("localhost")
          \/ FirstOf((IF v4 THEN <<IsIPv4(v), IsIPv4Cidr(v)>> ELSE <<>>) \o
                     (IF v6 THEN <<IsIPv6(v), IsIPv6Cidr(v)>> ELSE <<>>)) = "yes"

NumberPasses(v, types, bounds, none) ==
    \/ v = NoneValue /\ none
    \/ Is(v, types) /\ (bounds = NoneValue \/ (Below(v, bounds) /\ Above(v, bounds)))

IterablePasses(v, lengths, types, items, none) ==
    \/ v = NoneValue /\ none
    \/ /\ Is(v, types)
       /\ IF lengths.low # NoLimit THEN Len(v.items) \in lengths.low .. lengths.high
          ELSE lengths.length \in {NoLimit, Len(v.items)}
       /\ items = {} \/ \A i \in DOMAIN v.items : Is(v.items[i], items)

\* The bounds are not asserted of what is going to be cropped.
NumberParameter(d, v) ==
    IF ~NumberPasses(v, d.types, IF d.crop THEN NoneValue ELSE d.bounds, d.none) THEN Raised
    ELSE IF d.crop /\ d.bounds # NoneValue /\ v # NoneValue THEN Cropped(d, v)
    ELSE v

BooleanParameter(d, v) ==
    IF (d.none /\ v = NoneValue) \/ Is(v, {"bool"}) THEN v ELSE Raised

TupleParameter(d, v) ==
    LET w == IF d.lists /\ Is(v, {"list"}) THEN Listed("tuple", v.items) ELSE v IN
    IF IterablePasses(w, d.lengths, d.types, d.items, d.none) THEN w ELSE Raised

ListParameter(d, v) ==
    LET w == IF d.tuples /\ Is(v, {"tuple"}) THEN Listed("list", v.items) ELSE v IN
    IF IterablePasses(w, d.lengths, d.types, d.items, d.none) THEN w ELSE Raised

ParameterAdapt(d, v) ==
    LET checked(passes) == IF passes THEN v ELSE Raised IN
    CASE d.kind = "String" -> checked(StringPasses(v, d.regex, d.none))
      [] d.kind = "Bytes" -> checked(BytesPasses(v, d.regex, d.none))
      [] d.kind = "IPAddress" -> checked(IPAddressPasses(v, d.v4, d.v6, d.localhost, d.none))
      [] d.kind \in {"Number", "Integer"} -> NumberParameter(d, v)
      [] d.kind = "Boolean" -> BooleanParameter(d, v)
      [] d.kind = "Iterable" -> checked(IterablePasses(v, d.lengths, d.types, d.items, d.none))
      [] d.kind = "Tuple" -> TupleParameter(d, v)
      [] d.kind = "List" -> ListParameter(d, v)
=============================================================================
