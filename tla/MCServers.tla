----------------------------- MODULE MCServers -----------------------------
(***************************************************************************)
(* The servers on small instances: a camera and a zoom camera, whose class *)
(* is a subclass; three requests of a secured server that listens to some  *)
(* clients only; three ZMQ servers of one ID, one of them in a process of  *)
(* its own, and one of another ID, while other programs use two of the     *)
(* four ports; two runs with IDs and Things of their own; two Things with  *)
(* a topic each, published twice; a ZMQ server that is started twice, with *)
(* a Thing that may come late.                                             *)
(***************************************************************************)
EXTENDS Servers, TLC

ClassOfCamera == "cam" :> "Camera" @@ "zoom" :> "Zoom"
OfCamera == <<"exposure", "serial", "capture", "taken", "get_thing_model">>
MembersOfClass == "Camera" :> OfCamera @@ "Zoom" :> OfCamera \o <<"focus">>
KindOfObject == "exposure" :> "property" @@ "serial" :> "property" @@ "capture" :> "action" @@
                "taken" :> "event" @@ "get_thing_model" :> "action" @@ "focus" :> "property"
InBodyOf == [o \in DOMAIN KindOfObject |->
               CASE o = "focus" -> "Zoom" [] o = "get_thing_model" -> "Thing" [] OTHER -> "Camera"]
Routed(o, how, methods) == [object |-> o, at |-> o, how |-> how, methods |-> methods]
RoutedByHand ==
    {Routed("exposure", "property", {"GET", "POST"}), Routed("serial", "property", {"GET", "PUT"}),
     Routed("serial", "property", {"GET"}), Routed("serial", "property", {"PUT"}),
     Routed("focus", "property", {"GET", "PUT", "DELETE"}),
     Routed("capture", "action", {"GET", "POST"}), Routed("taken", "event", {"GET"})}

In(h, m, s, a, q) ==
    [handler |-> h, method |-> m, origin |-> "none", sends |-> s, asks |-> a, quotes |-> q,
     body |-> "known"]
SomeInputs ==
    {In("action", "POST", "token", a, None) : a \in {"oneway", "noblock"}}
    \cup {In("action", "GET", "token", "reply", "q1"),
          [In("action", "POST", "token", "noblock", None) EXCEPT !.body = "unknown"],
          In("property", "GET", "password", "reply", None),
          In("property", "PUT", "roleless", "noblock", None),
          In("properties", "POST", "token", "reply", None), In("event", "GET", "token", "reply", None),
          In("readiness", "GET", "nothing", "reply", None), In("stop", "POST", "token", "reply", None),
          [In("description", "GET", "token", "reply", None) EXCEPT !.origin = "other"]}
MethodsOfHandler ==
    [h \in {"property", "action", "properties", "event", "stop", "readiness", "description"} |->
        IF h = "action" THEN {"POST"} ELSE {"GET", "PUT", "POST"}]

IdOfServer == [s \in ZMQServers |-> IF s = "s3" THEN "b" ELSE "a"]
ProcessOfServer == [s \in ZMQServers |-> IF s = "s2" THEN "q" ELSE "p"]
TransportsOfServer == "s1" :> {"INPROC", "TCP", "IPC"} @@ "s2" :> {"IPC"} @@ "s3" :> {"TCP", "IPC"} @@
                      "s4" :> {"INPROC"}
PortOfServer == [s \in ZMQServers |-> IF s = "s1" THEN 4 ELSE None]

IdOfRun == "r1" :> "a" @@ "r2" :> "b"
LoopsOfRun == "r1" :> {"e1"} @@ "r2" :> {"e2"}
ASSUME Running!OwnIds /\ Running!OwnLoops /\ Routes!HandRoutesFit

TwoThings == <<"cam", "stage">>
OneTopic == "cam" :> <<"taken">> @@ "stage" :> <<"moved">>

Sent == {[kind |-> k, at |-> "ipc", oneway |-> FALSE] : k \in {"operation", "exit"}}
=============================================================================
