---------------------------- MODULE ObjectProxies ----------------------------
(***************************************************************************)
(* A client of one Thing (client/proxy.py) as the factory builds it from a *)
(* Thing Description (client/factory.py), and the operations its callers   *)
(* make over ZMQ or HTTP (client/zmq and client/http, consumed_            *)
(* interactions.py), the ones whose reply is read later among them.        *)
(***************************************************************************)
EXTENDS Naturals, Sequences, SequencesExt, FiniteSets

CONSTANTS
    Protocols,      \* {"zmq", "http", "mqtt"}, or some of them
    Properties, Actions, \* sequences of names, in the order of the TD
    EventLists,     \* such sequences, for the events of different Things
    Observable,     \* observable properties
    ChangeEvent,    \* [Observable -> names] "{name}_change_event"
    OwnAttributes,  \* _own_attrs
    ClassProperties, \* names of property objects of the class ObjectProxy
    Callers,
    Ids,            \* message IDs
    None

Names == Range(Properties) \cup Range(Actions) \cup (UNION {Range(e) : e \in EventLists})
         \cup {ChangeEvent[p] : p \in Observable} \cup {"_get_properties", "_set_properties"}
Kinds == {"property", "action", "event"}
Operations == {"readproperty", "writeproperty", "invokeaction"}
Request == [name : Names, op : Operations, mode : {"reply", "async", "oneway", "noblock"}]

ProxiesAssumption ==
    /\ Protocols \subseteq {"zmq", "http", "mqtt"} /\ IsFiniteSet(Ids) /\ None \notin Ids
    /\ Observable \subseteq Range(Properties) /\ DOMAIN ChangeEvent = Observable
    /\ \A names \in {Properties, Actions} \cup EventLists : names \in Seq(Range(names))
    /\ None \notin Request

VARIABLES
    protocol,
    built,      \* where the factory is
    todo,       \* attributes it has yet to set
    attribute,  \* __dict__ of the proxy
    replaced,   \* own attributes of the proxy that were replaced
    caller,     \* what each caller is doing
    issued,     \* history: the request of each message ID
    answer,     \* the reply of each message ID
    noblock,    \* _noblock_messages
    replyOp,    \* _read_reply_op_map of the properties, over HTTP
    last        \* _last_zmq_response: ID of the response an attribute keeps

building == <<protocol, built, todo, attribute, replaced>>
calling == <<caller, issued, answer, noblock, replyOp, last>>
vars == <<building, calling>>

Idle == [at |-> "idle", id |-> None, mode |-> None]

TypeOK ==
    /\ protocol \in Protocols /\ built \in {"building", "built", "failed"}
    /\ todo \in Seq(Names \X Kinds) /\ replaced \subseteq OwnAttributes
    /\ attribute \in [Names -> Kinds \cup {None}]
    /\ \A c \in Callers : caller[c].at \in {"idle", "waiting", "registering", "reading"}
    /\ \A i \in Ids : issued[i] = None \/ issued[i] \in Request
    /\ answer \in [Ids -> {"none", "arrived", "taken", "lost"}]
    /\ noblock \in [Ids -> Names \cup {None}] /\ replyOp \in [Ids -> Operations \cup {None}]
    /\ last \in [Names -> Ids \cup {None}]

\* What an affordance of the TD becomes; over MQTT there are events only.
OfProperty(p) ==
    LET change == IF p \in Observable THEN <<<<ChangeEvent[p], "event">>>> ELSE <<>>
    IN  IF protocol # "mqtt" THEN <<<<p, "property">>>> \o change
        ELSE IF p \in Observable THEN change ELSE <<<<p, "event">>>>

All(names, kind) == [i \in DOMAIN names |-> <<names[i], kind>>]

Described(events) ==
    FlattenSeq([i \in DOMAIN Properties |-> OfProperty(Properties[i])])
    \o (IF protocol = "mqtt" THEN <<>> ELSE All(Actions, "action"))
    \o All(events, "event")
    \o (IF protocol = "zmq" THEN All(<<"_get_properties", "_set_properties">>, "action") ELSE <<>>)

Init ==
    /\ protocol \in Protocols /\ built = "building"
    /\ \E events \in EventLists : todo = Described(events)
    /\ attribute = [n \in Names |-> None] /\ replaced = {}
    /\ caller = [c \in Callers |-> Idle]
    /\ issued = [i \in Ids |-> None] /\ answer = [i \in Ids |-> "none"]
    /\ noblock = issued /\ replyOp = issued /\ last = attribute

(***************************************************************************)
(* The factory sets one attribute after the other (__setattr__).  A name   *)
(* that is there already is an error, or for a property a write of it,     *)
(* which cannot be encoded.  A property object of the class has no setter. *)
(***************************************************************************)
SetAttribute ==
    LET n == Head(todo)[1]  k == Head(todo)[2] IN
    /\ built = "building" /\ todo # <<>>
    /\ \/ /\ n \notin ClassProperties /\ (n \in OwnAttributes \/ attribute[n] = None)
          /\ attribute' = [attribute EXCEPT ![n] = k]
          /\ replaced' = replaced \cup ({n} \cap OwnAttributes)
          /\ todo' = Tail(todo) /\ UNCHANGED built
       \/ /\ n \in ClassProperties \/ (n \notin OwnAttributes /\ attribute[n] # None)
          /\ built' = "failed" /\ UNCHANGED <<todo, attribute, replaced>>
    /\ UNCHANGED <<protocol, calling>>

Finish ==
    /\ built = "building" /\ todo = <<>> /\ built' = "built"
    /\ UNCHANGED <<protocol, todo, attribute, replaced, calling>>

(***************************************************************************)
(* Operations.                                                             *)
(***************************************************************************)
Sends(c, i, request) ==
    /\ built = "built" /\ protocol # "mqtt" /\ caller[c].at = "idle"
    /\ issued[i] = None /\ issued' = [issued EXCEPT ![i] = request]
    /\ UNCHANGED <<building, answer, noblock, replyOp, last>>

Become(c, at, i, mode) == caller' = [caller EXCEPT ![c] = [at |-> at, id |-> i, mode |-> mode]]

\* get(), set(), __call__() and their async_ forms wait for the reply.
Execute(c, n, op, i, mode) ==
    /\ mode \in {"reply", "async"}
    /\ Sends(c, i, [name |-> n, op |-> op, mode |-> mode]) /\ Become(c, "waiting", i, mode)

\* oneway_set(), oneway(): no reply over ZMQ; over HTTP the status only.
OneWay(c, n, op, i) ==
    /\ op # "readproperty" /\ Sends(c, i, [name |-> n, op |-> op, mode |-> "oneway"])
    /\ UNCHANGED caller

\* noblock_get(), noblock_set(), noblock().
NoBlock(c, n, op, i) ==
    Sends(c, i, [name |-> n, op |-> op, mode |-> "noblock"]) /\ Become(c, "registering", i, "noblock")

\* Mutant: of an operation on a property only the read is registered.
RegisterRead(c) ==
    LET i == caller[c].id IN
    /\ caller[c].at = "registering" /\ caller' = [caller EXCEPT ![c] = Idle]
    /\ noblock' = [noblock EXCEPT ![i] = IF issued[i].op = "writeproperty" THEN None
                                         ELSE issued[i].name]
    /\ replyOp' = [replyOp EXCEPT ![i] = issued[i].op]
    /\ UNCHANGED <<building, issued, answer, last>>

\* The attribute is entered in the proxy before the ID is returned.
Register(c) ==
    LET i == caller[c].id IN
    /\ caller[c].at = "registering" /\ caller' = [caller EXCEPT ![c] = Idle]
    /\ noblock' = [noblock EXCEPT ![i] = issued[i].name]
    /\ replyOp' = IF protocol = "http" /\ issued[i].op # "invokeaction"
                  THEN [replyOp EXCEPT ![i] = issued[i].op] ELSE replyOp
    /\ UNCHANGED <<building, issued, answer, last>>

\* An action of a property's name is the property's value: it is read, and
\* the value cannot be called.
InvokeProperty(c, n, i) ==
    /\ attribute[n] = "property"
    /\ Sends(c, i, [name |-> n, op |-> "readproperty", mode |-> "reply"])
    /\ Become(c, "waiting", i, "reply")

(***************************************************************************)
(* Replies.                                                                *)
(***************************************************************************)
Answer(i) ==
    /\ issued[i] # None /\ issued[i].mode # "oneway" /\ answer[i] = "none"
    /\ \E a \in {"arrived", "lost"} : answer' = [answer EXCEPT ![i] = a]
    /\ UNCHANGED <<building, caller, issued, noblock, replyOp, last>>

\* The attribute a reply is for: read_reply() asks the one that is registered.
For(c) == LET i == caller[c].id IN IF caller[c].at = "reading" THEN noblock[i] ELSE issued[i].name

Receive(c) ==
    LET i == caller[c].id IN
    /\ caller[c].at \in {"waiting", "reading"} /\ answer[i] = "arrived"
    /\ answer' = [answer EXCEPT ![i] = "taken"] /\ caller' = [caller EXCEPT ![c] = Idle]
    /\ last' = IF protocol = "zmq" THEN [last EXCEPT ![For(c)] = i] ELSE last
    /\ UNCHANGED <<building, issued, noblock, replyOp>>

\* An ID without an entry raises; the entry stays when the reply is read.
ReadReply(c, i) ==
    /\ built = "built" /\ caller[c].at = "idle" /\ noblock[i] # None /\ Become(c, "reading", i, None)
    /\ UNCHANGED <<building, issued, answer, noblock, replyOp, last>>

\* An HTTP request ends after request_timeout, or with a status that there
\* is no such reply.  The wait on the ZMQ socket has no end.
TimeOut(c) ==
    /\ protocol = "http" /\ caller[c].at \in {"waiting", "reading"}
    /\ answer[caller[c].id] # "arrived"
    /\ caller' = [caller EXCEPT ![c] = Idle]
    /\ UNCHANGED <<building, issued, answer, noblock, replyOp, last>>

Fits(n, op) ==
    op \in CASE attribute[n] = "property" -> {"readproperty", "writeproperty"}
             [] attribute[n] = "action" -> {"invokeaction"} [] OTHER -> {}

Next ==
    \/ SetAttribute \/ Finish
    \/ \E c \in Callers :
         \/ \E n \in Names, op \in Operations, i \in Ids :
              /\ Fits(n, op)
              /\ \/ \E mode \in {"reply", "async"} : Execute(c, n, op, i, mode)
                 \/ OneWay(c, n, op, i) \/ NoBlock(c, n, op, i)
         \/ \E n \in Names, i \in Ids : InvokeProperty(c, n, i)
         \/ \E i \in Ids : ReadReply(c, i)
         \/ Register(c) \/ Receive(c) \/ TimeOut(c)
    \/ \E i \in Ids : Answer(i)

\* Sockets and their timers are served.
Fairness == \A c \in Callers : WF_vars(Receive(c) \/ TimeOut(c))

Spec == Init /\ [][Next]_vars
FairSpec == Spec /\ Fairness

(***************************************************************************)
(* Properties.                                                             *)
(***************************************************************************)
\* An ID a caller was given can be read with read_reply() ("given message id
\* not a one way call or invalid", proxy.py:619), and is read where it was
\* issued, whatever the callers do at the same time.
IssuedCanBeRead ==
    \A i \in Ids :
        /\ issued[i] # None /\ issued[i].mode = "noblock"
        /\ \A c \in Callers : caller[c].at = "registering" => caller[c].id # i
        => noblock[i] = issued[i].name /\ replyOp[i] \in {None, issued[i].op}

\* The response an attribute keeps is one of its own requests that has a reply
\* ("cached return value of the last call", consumed_interactions.py:210).
KeepsItsOwn ==
    \A n \in Names : last[n] # None =>
        issued[last[n]].name = n /\ issued[last[n]].mode # "oneway"

\* A caller that waits for a reply goes on: over HTTP always, over ZMQ unless
\* the reply is lost or was read by another read_reply() of the same ID.
WaitsEnd ==
    \A c \in Callers :
        []<>(caller[c].at \in {"waiting", "reading"} =>
               protocol = "zmq" /\ answer[caller[c].id] # "arrived")

\* "timeout: time to wait for the reply" of read_reply() (proxy.py:596) bounds
\* every wait; over ZMQ it is not passed on (consumed_interactions.py:163).
EveryWaitEnds ==
    \A c \in Callers : caller[c].at = "reading" ~> caller[c].at # "reading"

\* Attributes of the proxy itself are not replaced by what the Thing serves;
\* they are if a name of the TD is among them (proxy.py:101).
OwnAttributesStay == replaced = {}
=============================================================================
