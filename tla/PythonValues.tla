---------------------------- MODULE PythonValues ----------------------------
(***************************************************************************)
(* Python values as far as the property types of this program tell them    *)
(* apart: a tag and a number, the text of a string as the pieces between   *)
(* its colons, the items of a list or tuple.                               *)
(***************************************************************************)
EXTENDS Integers, Sequences

NoneValue == [t |-> "none", n |-> 0]
Raised == [t |-> "raised", n |-> 0]   \* in place of a result
Scalar(t, n) == [t |-> t, n |-> n]
Text(pieces, slashes) == [t |-> "str", pieces |-> pieces, slashes |-> slashes]
Word(w) == Text(<<w>>, 0)
Listed(t, items) == [t |-> t, items |-> items]
Path(absolute, parts) == [t |-> "path", absolute |-> absolute, parts |-> parts]

\* isinstance(v, types): a bool is an int, a datetime is a date.
Is(v, types) ==
    \/ v.t \in types
    \/ v.t = "bool" /\ "int" \in types
    \/ v.t = "datetime" /\ "date" \in types

Numeric == {"bool", "int", "float"}

\* a == b and b in s
Equal(a, b) == a = b \/ ({a.t, b.t} \subseteq Numeric /\ a.n = b.n)
IsIn(v, s) == \E i \in DOMAIN s : Equal(v, s[i])

\* a < b is a TypeError between a date and a datetime, and for what is no number.
Comparable(a, b) == {a.t, b.t} \subseteq Numeric \/ (a.t = b.t /\ a.t \in {"date", "datetime"})

\* What comes back of a value that was stored as JSON; Raised if it is not
\* representable.
Restored(v) ==
    CASE v.t = "tuple" -> Listed("list", v.items)
      [] v.t \in {"bytes", "date", "datetime"} -> Word("encoded")
      [] v.t \in {"function", "class"} -> Raised
      [] OTHER -> v
=============================================================================
