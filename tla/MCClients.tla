----------------------------- MODULE MCClients -----------------------------
(***************************************************************************)
(* Clients on small instances: two transports and two requests of a server *)
(* whose Thing is there or is added later; a listener over ZMQ and one     *)
(* over HTTP; three waiters on two loops and two threads that set the      *)
(* event; two callers of one proxy, where the event of one Thing has a     *)
(* name the proxy uses for its log and that of another one it cannot set;  *)
(* a pool that is made empty, with one request received with a timeout.    *)
(***************************************************************************)
EXTENDS Clients, TLC

NoClients == <<>>

Sent(kind, oneway) == [kind |-> kind, at |-> "ipc", oneway |-> oneway]
SomeMessages == {Sent("operation", TRUE), Sent("operation", FALSE), Sent("exit", FALSE), Sent("description", TRUE),
                 Sent("undecodable", FALSE)}

TwoLoops == "w1" :> "zmq" @@ "w2" :> "thing" @@ "w3" :> "thing"

OneProperty == <<"state">>
OneAction == <<"connect">>
EventsOfThings == {<<"logger">>, <<"events">>}
ChangeOfState == "state" :> "state_change_event"
=============================================================================
