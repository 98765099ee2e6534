--------------------------- MODULE PropertyTypes ---------------------------
(***************************************************************************)
(* The types of properties (core/properties.py): what each constructor     *)
(* keeps, and which values validate_and_adapt() returns, changes or        *)
(* refuses.  A set of descriptors per class, an operator per method.       *)
(***************************************************************************)
EXTENDS PythonValues, FiniteSetsExt, FiniteSets, SequencesExt

CONSTANTS
    Patterns,       \* sets of strings a regex may match as a whole
    Limits,         \* bounds: numbers and NoLimit
    NoLimit,
    Steps,          \* of numbers
    Sizes,          \* of lists and tuples
    ItemTypes,      \* sets of types of items, {} for any
    Offers,         \* sequences of values to select from
    OfferedClasses,       \* sets of classes to select from
    SearchPaths,    \* sequences of prefixes of relative paths
    FileSystem,     \* paths from the root -> "file" or "folder"
    WorkingDirectory

Absent == {NoLimit}

\* --- constructors: the options of each class, `none` for allow_None -------
Strings == [kind : {"String"}, none : BOOLEAN, regex : Patterns \cup Absent]
ByteStrings == [kind : {"Bytes"}, none : BOOLEAN, regex : Patterns \cup Absent]
IPAddresses == [kind : {"IPAddress"}, none : BOOLEAN, localhost : BOOLEAN, v4 : BOOLEAN, v6 : BOOLEAN]
Bounds == [low : Limits, high : Limits, incLow : BOOLEAN, incHigh : BOOLEAN]
Numbers == [kind : {"Number"}, none : BOOLEAN, bounds : Bounds \cup {NoneValue},
            crop : BOOLEAN, step : Steps \cup Absent, types : {{"float", "int"}}]
Integers_ == [kind : {"Integer"}, none : BOOLEAN, bounds : Bounds \cup {NoneValue},
              crop : BOOLEAN, step : Steps \cup Absent, types : {{"int"}}]
Dates == [kind : {"Date"}, none : BOOLEAN, bounds : {NoneValue}, crop : {FALSE},
          step : Absent, types : {{"datetime", "date"}}]
CalendarDates == [kind : {"CalendarDate"}, none : BOOLEAN, bounds : {NoneValue}, crop : {FALSE},
                  step : Absent, types : {{"date"}}]
Booleans == [kind : {"Boolean"}, none : BOOLEAN]
Lengths == [length : Sizes \cup Absent, low : Absent, high : Absent]
              \cup [length : Absent, low : Sizes, high : Sizes]
Iterables == [kind : {"Iterable"}, none : BOOLEAN, lengths : Lengths,
              items : ItemTypes, types : {{"list", "tuple"}}]
Tuples == [kind : {"Tuple"}, none : BOOLEAN, lengths : Lengths, lists : BOOLEAN,
           items : ItemTypes, types : {{"tuple"}}]
Lists == [kind : {"List"}, none : BOOLEAN, lengths : Lengths, tuples : BOOLEAN,
          items : ItemTypes, types : {{"list"}}]
Callables == [kind : {"Callable"}, none : BOOLEAN]
Selectors == [kind : {"Selector"}, none : BOOLEAN, objects : Offers]
TupleSelectors == [kind : {"TupleSelector"}, none : BOOLEAN, objects : Offers, lists : BOOLEAN]
ClassSelectors == [kind : {"ClassSelector"}, none : BOOLEAN, class : OfferedClasses,
                   isinstance : BOOLEAN]
Paths == [kind : {"Path", "Filename", "Foldername"}, none : BOOLEAN, search : SearchPaths]
Colours == [kind : {"CSS3Color"}, none : BOOLEAN, named : BOOLEAN]
Options == Strings \cup ByteStrings \cup Numbers \cup Integers_ \cup Dates \cup CalendarDates
             \cup Booleans \cup Iterables \cup Tuples \cup Lists \cup Callables \cup Selectors
             \cup TupleSelectors \cup ClassSelectors \cup Paths \cup Colours \cup IPAddresses

\* --- strings ---------------------------------------------------------------
\* re.match() of the whole value, for a str or for bytes.
StringAdapt(d, v) ==
    IF v = NoneValue THEN IF d.none THEN v ELSE Raised
    ELSE IF Is(v, {"str"}) /\ (d.regex = NoLimit \/ v \in d.regex) THEN v ELSE Raised

BytesAdapt(d, v) ==
    IF v = NoneValue THEN IF d.none THEN v ELSE Raised
    ELSE IF Is(v, {"bytes"}) /\ (d.regex = NoLimit \/ v \in d.regex) THEN v ELSE Raised

\* --- addresses: yes, no, or an AttributeError --------------------------------
NoDigits == ""
Quad == "1.2.3.4"
Dotted == {Quad, "1.2.3.400", "1.2.3"}

IsIPv4(v) == IF v.pieces = <<Quad>> /\ v.slashes = 0 THEN "yes" ELSE "no"

\* A prefix and a suffix are handed to is_ipv4(), which no class has.
IsIPv4Cidr(v) == IF v.slashes = 1 THEN "error" ELSE "no"

Group(p) == p # NoDigits /\ p # "word" /\ p \notin Dotted

IsIPv6(v) ==
    LET ps == v.pieces
        blank == Cardinality({i \in DOMAIN ps : ps[i] = NoDigits})
        parts == Len(ps) - blank
        first == Head(ps) # NoDigits
        last == Last(ps) # NoDigits IN
    IF Len(ps) = 1 THEN "no"
    ELSE IF Last(ps) \in Dotted THEN "error"
    ELSE IF v.slashes = 0 /\ (\A i \in DOMAIN ps : ps[i] = NoDigits \/ Group(ps[i])) /\
            \/ blank = 0 /\ parts = 8
            \/ blank = 1 /\ first /\ last /\ parts < 8
            \/ blank = 2 /\ first # last /\ parts < 8
            \/ blank = 3 /\ parts = 0
         THEN "yes" ELSE "no"

IsIPv6Cidr(v) == IF v.slashes = 1 THEN "error" ELSE "no"

\* `or` and `and` of the four, from left to right.
FirstOf(answers) ==
    LET yes == {i \in DOMAIN answers : answers[i] # "no"} IN
    IF yes = {} THEN "no" ELSE answers[Min(yes)]

IPAddressAdapt(d, v) ==
    IF v = NoneValue /\ d.none THEN v
    ELSE IF ~Is(v, {"str"}) THEN Raised
    ELSE IF d.localhost /\ v = Word("localhost") THEN NoneValue
    ELSE IF FirstOf((IF d.v4 THEN <<IsIPv4(v), IsIPv4Cidr(v)>> ELSE <<>>) \o
                    (IF d.v6 THEN <<IsIPv6(v), IsIPv6Cidr(v)>> ELSE <<>>)) = "yes" THEN v
    ELSE Raised

\* --- numbers -----------------------------------------------------------------
Below(v, b) == b.high = NoLimit \/ IF b.incHigh THEN v.n <= b.high ELSE v.n < b.high
Above(v, b) == b.low = NoLimit \/ IF b.incLow THEN v.n >= b.low ELSE v.n > b.low

\* With bounds the value is returned before it would be cropped.
NumberAdapt(d, v) ==
    IF d.none /\ v = NoneValue THEN v
    ELSE IF ~Is(v, d.types) THEN Raised
    ELSE IF d.bounds # NoneValue /\ ~(Below(v, d.bounds) /\ Above(v, d.bounds)) THEN Raised
    ELSE v

\* An exclusive bound is passed by one step; there may be none.
Cropped(d, v) ==
    LET b == d.bounds
        step(n) == IF d.step = NoLimit THEN Raised ELSE Scalar(v.t, n) IN
    IF b = NoneValue \/ v = NoneValue THEN Raised
    ELSE IF b.low # NoLimit /\ v.n < b.low
         THEN IF b.incLow THEN Scalar("int", b.low) ELSE step(b.low + d.step)
    ELSE IF b.high # NoLimit /\ v.n > b.high
         THEN IF b.incHigh THEN Scalar("int", b.high) ELSE step(b.high - d.step)
    ELSE v

\* set_in_bounds(): validated, cropped, and validated again when it is set.
SetInBounds(d, v) ==
    LET valid == NumberAdapt(d, v)
        cropped == IF valid = Raised THEN Raised ELSE Cropped(d, valid) IN
    IF cropped = Raised THEN Raised ELSE NumberAdapt(d, cropped)

BooleanAdapt(d, v) == IF Is(v, {"bool"}) THEN v ELSE Raised

\* --- lists and tuples ----------------------------------------------------------
IterableAdapt(d, v) ==
    LET n == Len(v.items)  l == d.lengths IN
    IF v = NoneValue /\ d.none THEN v
    ELSE IF ~Is(v, d.types) THEN Raised
    ELSE IF l.low # NoLimit /\ ~(n >= l.low /\ n <= l.high) THEN Raised
    ELSE IF l.low = NoLimit /\ l.length # NoLimit /\ n # l.length THEN Raised
    ELSE IF d.items # {} /\ \E i \in 1..n : ~Is(v.items[i], d.items) THEN Raised
    ELSE v

TupleAdapt(d, v) ==
    IterableAdapt(d, IF d.lists /\ Is(v, {"list"}) THEN Listed("tuple", v.items) ELSE v)

ListAdapt(d, v) ==
    IterableAdapt(d, IF d.tuples /\ Is(v, {"tuple"}) THEN Listed("list", v.items) ELSE v)

CallableAdapt(d, v) ==
    IF (d.none /\ v = NoneValue) \/ Is(v, {"function", "class"}) THEN v ELSE Raised

\* --- selectors -------------------------------------------------------------------
SelectorAdapt(d, v) ==
    IF IsIn(v, d.objects) \/ (d.none /\ v = NoneValue) THEN v ELSE Raised

TupleSelectorAdapt(d, v) ==
    LET w == IF Is(v, {"list"}) /\ d.lists THEN Listed("tuple", v.items) ELSE v IN
    IF v = NoneValue /\ d.none THEN v
    ELSE IF IsIn(v, d.objects) THEN v
    ELSE IF ~Is(w, {"tuple"}) \/ \E i \in DOMAIN w.items : ~IsIn(w.items[i], d.objects) THEN Raised
    ELSE w

\* issubclass() of what is no class raises a TypeError, turned into a ValueError.
ClassSelectorAdapt(d, v) ==
    IF v = NoneValue /\ d.none THEN v
    ELSE IF d.isinstance THEN IF Is(v, d.class) THEN v ELSE Raised
    ELSE IF Is(v, {"class"}) /\ Is(Scalar(v.of, 0), d.class) THEN v ELSE Raised

\* --- paths: [absolute, parts] ---------------------------------------------------
Exists(kind, p) ==
    LET at == IF p.absolute THEN p.parts ELSE WorkingDirectory \o p.parts IN
    /\ at \in DOMAIN FileSystem
    /\ kind = "Filename" => FileSystem[at] = "file"
    /\ kind = "Foldername" => FileSystem[at] = "folder"

Under(prefix, p) == Path(prefix.absolute, prefix.parts \o p.parts)

\* resolve_path(): the first prefix under which there is such a file.
Resolved(kind, search, p) ==
    LET prefixes == IF search = <<>> THEN <<Path(TRUE, WorkingDirectory)>>
                    ELSE search
        found == {i \in DOMAIN prefixes : Exists(kind, Under(prefixes[i], p))} IN
    IF p.absolute THEN IF Exists(kind, p) THEN p ELSE Raised
    ELSE IF found = {} THEN Raised ELSE Under(prefixes[Min(found)], p)

PathAdapt(d, v) ==
    IF v = NoneValue /\ d.none THEN v
    ELSE IF ~Is(v, {"path"}) THEN Raised
    ELSE Resolved(d.kind, d.search, v)

\* Reading a path resolves what is held once more.
PathGet(d, held) == IF held = NoneValue THEN held ELSE Resolved(d.kind, d.search, held)

\* --- colours -----------------------------------------------------------------------
CSS3ColorAdapt(d, v) ==
    IF d.none /\ v = NoneValue THEN v
    ELSE IF ~Is(v, {"str"}) THEN Raised
    ELSE IF d.named /\ v = Word("red") THEN NoneValue
    ELSE IF v = Word("ff0000") THEN v
    ELSE Raised
\* --- the method of each class -----------------------------------------------------
Adapt(d, v) ==
    CASE d.kind = "String" -> StringAdapt(d, v)
      [] d.kind = "Bytes" -> BytesAdapt(d, v)
      [] d.kind = "IPAddress" -> IPAddressAdapt(d, v)
      [] d.kind \in {"Number", "Integer", "Date", "CalendarDate"} -> NumberAdapt(d, v)
      [] d.kind = "Boolean" -> BooleanAdapt(d, v)
      [] d.kind = "Iterable" -> IterableAdapt(d, v)
      [] d.kind = "Tuple" -> TupleAdapt(d, v)
      [] d.kind = "List" -> ListAdapt(d, v)
      [] d.kind = "Callable" -> CallableAdapt(d, v)
      [] d.kind = "Selector" -> SelectorAdapt(d, v)
      [] d.kind = "TupleSelector" -> TupleSelectorAdapt(d, v)
      [] d.kind = "ClassSelector" -> ClassSelectorAdapt(d, v)
      [] d.kind \in {"Path", "Filename", "Foldername"} -> PathAdapt(d, v)
      [] d.kind = "CSS3Color" -> CSS3ColorAdapt(d, v)
=============================================================================
