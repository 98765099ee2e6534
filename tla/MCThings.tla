------------------------------ MODULE MCThings ------------------------------
(***************************************************************************)
(* The components of a Thing on small instances.                           *)
(***************************************************************************)
EXTENDS Things, TLC

\* What the theorems of ThingsProofs suppose, these instances meet.
ASSUME Adapters!OneFormatEach /\ ~Nested /\ States!OneThreadEach /\ ~PlainEnum
       /\ SearchesFromRoot

(***************************************************************************)
(* Every option of every type of property, over a few values.              *)
(***************************************************************************)
Some == {NoneValue, Scalar("int", 1), Scalar("bool", 1), Scalar("int", 5), Scalar("int", -1),
         Scalar("int", 0), Scalar("int", 2), Scalar("float", 2),
         Word("word"), Word("localhost"), Word("red"), Word("ff0000"), Scalar("bytes", 1),
         Scalar("date", 1), Scalar("datetime", 1), Scalar("function", 1), [t |-> "class", of |-> "int"]}
ListContents == {<<>>, <<Scalar("int", 1)>>, <<Word("word")>>, <<Scalar("int", 1), Scalar("bool", 1)>>}
Colons == UNION {[1..n -> {NoDigits, "ffff"}] : n \in 1..9}
Addresses == {Text(ps, 0) : ps \in Colons} \cup
             {Text(<<Quad>>, 0), Text(<<Quad>>, 1), Text(<<NoDigits, NoDigits, "ffff">>, 1),
              Text(<<NoDigits, NoDigits, Quad>>, 0), Text(<<"1.2.3.400">>, 0)}
Files == (<<"cwd">> :> "folder" @@ <<"cwd", "f">> :> "file" @@ <<"srv">> :> "folder"
            @@ <<"srv", "f">> :> "file" @@ <<"srv", "g">> :> "file")
Relative == {Path(a, p) : a \in BOOLEAN, p \in {<<"f">>, <<"srv", "f">>, <<"g">>, <<"srv">>}}
GivenTo(e) ==
    Some \cup CASE e.kind = "IPAddress" -> {v \in Addresses : Len(v.pieces) < 4}
                [] e.kind \in {"Path", "Filename", "Foldername"} -> Relative
                [] OTHER -> {Listed(t, i) : t \in {"list", "tuple"}, i \in ListContents}
Root == {<<>>, <<Path(TRUE, <<"srv">>), Path(TRUE, <<"cwd">>)>>}
Sets == {{Word("word")}}
IntsOrAny == {{"int"}, {}}
IntOrText == {{"int"}, {"int", "str"}}
Objects == {<<Scalar("int", 1), Word("word")>>}
Zero == {0, 2, NoLimit}
Cwd == <<"cwd">>

(***************************************************************************)
(* A laser that warms up on its own: entering `warm` switches it on, and   *)
(* leaving `warm` calls a callback that sets the state as well.            *)
(***************************************************************************)
ServesLaser == "t1" :> "laser"
FireWhenOn == "laser" :> ("power" :> {"off", "warm"} @@ "fire" :> {"on"})
WarmsUp == "off" :> "nothing" @@ "warm" :> "on" @@ "on" :> "nothing"
Leaving == "off" :> "nothing" @@ "warm" :> "off" @@ "on" :> "fragile"

(***************************************************************************)
(* A list of one or two ints, and a mapping that is constant; three        *)
(* properties and two events, some of them added at runtime; two Things of *)
(* one ID and two classes in one database; two formats that are built in,  *)
(* two serializers and three flags that can be added.                      *)
(***************************************************************************)
ListAndMapping == "numbers" :> "list" @@ "form" :> "mapping"
AllOperations ==
    {"assign", "restore", "append", "extend", "setitem", "remove", "clear", "iadd", "imul", "raw",
     "setkey", "update", "removekeys", "setdefault"}

ChangesOf == "power" :> "power_change_event" @@ "gain" :> "gain_change_event"

OfThing == "t1" :> {"gain", "mode"} @@ "t2" :> {"offset", "mode"}
OneID == [t \in {"t1", "t2"} |-> "spectrometer"]
OneFormat == {[p \in {"gain", "mode", "offset"} |-> f] : f \in {"json", "msgpack"}}
JSONOrBoth == {{"json", "msgpack"}, {"json"}}

BuiltIn == "default" :> "json" @@ "json" :> "json" @@ "msgpack" :> "msgpack"
BuiltInTypes == {<<"json", "json">>, <<"msgpack", "msgpack">>}
Custom == {<<"json", "fastjson">>, <<"cbor", "cbor">>}
ClassOfThing == "spectrometer" :> "Spectrometer"
BackendFlags == {<<"use_toml", "toml">>, <<"use_db", "sqlite">>, <<"use_db", "postgres">>}

(***************************************************************************)
(* What does not run keeps one initial state.                              *)
(***************************************************************************)
MCInit ==
    /\ part \in Parts
    /\ part # "values" =>
         d = [kind |-> "Callable", none |-> TRUE] /\ constant = TRUE /\ default = NoneValue
    /\ part # "tables" => known = {"json"} /\ serializer = [p \in Columns |-> "json"]
    /\ ThingsInit

MCSpec == MCInit /\ [][ThingsNext]_allVars
=============================================================================
