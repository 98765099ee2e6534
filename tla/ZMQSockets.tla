----------------------------- MODULE ZMQSockets -----------------------------
(***************************************************************************)
(* The sockets a ZMQ server binds when it is constructed (server/zmq/      *)
(* server.py, get_socket() of server/zmq/brokers.py): for every transport  *)
(* one for requests and one for events.  Servers of several processes of   *)
(* one host compete for TCP ports and for the files of IPC sockets.        *)
(***************************************************************************)
EXTENDS Integers, Sequences, FiniteSets

CONSTANTS
    Servers,
    IdOf,         \* [Servers -> IDs] the ID, as the name of a file
    Process,        \* [Servers -> processes]
    Transports,     \* [Servers -> SUBSET {"INPROC", "TCP", "IPC"}]
    Requested,      \* [Servers -> Ports \cup {None}] port of the access point
    MaxPort,        \* the largest port of the host
    Foreign,        \* ports that other programs may use
    SearchStart, SearchEnd, \* TCP_SOCKET_SEARCH_START_PORT, _END_PORT
    None

Ports == 1..MaxPort
Roles == {"requests", "events"}
Sockets == [server : Servers, transport : {"INPROC", "TCP", "IPC"}, role : Roles]
Addresses ==
    (({"TCP"} \X Ports) \cup ({"IPC"} \X {IdOf[s] : s \in Servers} \X Roles))
    \cup ({"INPROC"} \X {Process[s] : s \in Servers} \X {IdOf[s] : s \in Servers} \X Roles)

SocketsAssumption ==
    /\ MaxPort \in Nat /\ Foreign \subseteq Ports
    /\ {SearchStart, SearchEnd} \subseteq Ports /\ SearchStart < SearchEnd
    /\ Requested \in [Servers -> Ports \cup {None}]
    /\ Transports \in [Servers -> SUBSET {"INPROC", "TCP", "IPC"}]
    /\ DOMAIN IdOf = Servers /\ DOMAIN Process = Servers
    /\ None \notin Ports /\ None \notin Servers /\ None \notin Sockets /\ None \notin Addresses

VARIABLES
    stage,      \* of the constructor of each server
    todo,       \* sockets it has yet to make
    try,        \* port it tries to bind next, and whether in the search
    address,    \* socket_address of each socket that was made
    holder,     \* socket that is reached at each address
    foreign     \* ports that other programs hold

vars == <<stage, todo, try, address, holder, foreign>>

TypeOK ==
    /\ stage \in [Servers -> {"new", "making", "made", "raised", "exited"}]
    /\ todo \in [Servers -> Seq(Sockets)]
    /\ try \in [Servers -> [port : 1..MaxPort + 1, searching : BOOLEAN]]
    /\ address \in [Sockets -> Addresses \cup {None}]
    /\ holder \in [Addresses -> Sockets \cup {None}]
    /\ foreign \subseteq Foreign

Init ==
    /\ stage = [s \in Servers |-> "new"] /\ todo = [s \in Servers |-> <<>>]
    /\ try = [s \in Servers |-> [port |-> SearchStart, searching |-> TRUE]] /\ foreign = {}
    /\ address = [k \in Sockets |-> None] /\ holder = [a \in Addresses |-> None]

\* The constructor makes the sockets of INPROC, TCP and IPC in this order.
Pair(s, t) ==
    IF t \notin Transports[s] THEN <<>>
    ELSE <<[server |-> s, transport |-> t, role |-> "requests"],
           [server |-> s, transport |-> t, role |-> "events"]>>

\* The port to begin with: that of the access point, or the first to search.
FirstTry(s) == IF Requested[s] = None THEN [port |-> SearchStart, searching |-> TRUE]
               ELSE [port |-> Requested[s], searching |-> FALSE]

Construct(s) ==
    /\ stage[s] = "new" /\ stage' = [stage EXCEPT ![s] = "making"]
    /\ todo' = [todo EXCEPT ![s] = Pair(s, "INPROC") \o Pair(s, "TCP") \o Pair(s, "IPC")]
    /\ try' = [try EXCEPT ![s] = FirstTry(s)]
    /\ UNCHANGED <<address, holder, foreign>>

Makes(s, t) == stage[s] = "making" /\ todo[s] # <<>> /\ Head(todo[s]).transport = t

Bound(s, a) ==
    /\ address' = [address EXCEPT ![Head(todo[s])] = a]
    /\ holder' = [holder EXCEPT ![a] = Head(todo[s])]
    /\ todo' = [todo EXCEPT ![s] = Tail(@)]

Raise(s) ==
    /\ stage' = [stage EXCEPT ![s] = "raised"] /\ UNCHANGED <<todo, try, address, holder>>

\* A name is bound once in a process.
MakeInproc(s) ==
    LET a == <<"INPROC", Process[s], IdOf[s], Head(todo[s]).role>> IN
    /\ Makes(s, "INPROC")
    /\ IF holder[a] = None THEN Bound(s, a) /\ UNCHANGED <<stage, try>> ELSE Raise(s)
    /\ UNCHANGED foreign

\* Binding replaces the file of a socket that has the same name.
MakeIPC(s) ==
    /\ Makes(s, "IPC") /\ Bound(s, <<"IPC", IdOf[s], Head(todo[s]).role>>)
    /\ UNCHANGED <<stage, try, foreign>>

(***************************************************************************)
(* TCP: the port asked for, else the first free one of a range.            *)
(***************************************************************************)
Taken(p) == p \in foreign \/ holder[<<"TCP", p>>] # None

\* The publisher of events begins with the port after the server's.
NextTry(p) == [port |-> p + 1, searching |-> FALSE]

BindPort(s) ==
    LET p == try[s].port IN
    /\ Makes(s, "TCP") /\ p \in Ports /\ ~Taken(p) /\ Bound(s, <<"TCP", p>>)
    /\ try' = [try EXCEPT ![s] = NextTry(p)]
    /\ UNCHANGED <<stage, foreign>>

\* Only "Address in use" makes it go on: there is no port after the last.
PortInvalid(s) == Makes(s, "TCP") /\ try[s].port \notin Ports /\ Raise(s) /\ UNCHANGED foreign

PortInUse(s) ==
    LET p == try[s].port  next == IF try[s].searching THEN p + 1 ELSE SearchStart IN
    /\ Makes(s, "TCP") /\ p \in Ports /\ Taken(p)
    /\ IF next < SearchEnd
       THEN try' = [try EXCEPT ![s] = [port |-> next, searching |-> TRUE]]
            /\ UNCHANGED <<todo, address>>
       ELSE \* the socket is returned all the same, with the last address
            /\ address' = [address EXCEPT ![Head(todo[s])] = <<"TCP", p>>]
            /\ todo' = [todo EXCEPT ![s] = Tail(@)]
            /\ try' = [try EXCEPT ![s] = NextTry(p)]
    /\ UNCHANGED <<stage, holder, foreign>>

\* Another program takes a port, or gives it back.
OtherProgram(p) ==
    /\ foreign' = IF p \in foreign THEN foreign \ {p} ELSE foreign \cup {p}
    /\ p \in foreign \/ ~Taken(p)
    /\ UNCHANGED <<stage, todo, try, address, holder>>

(***************************************************************************)
(* The end of construction and of the server.                              *)
(***************************************************************************)
Made(s) ==
    /\ stage[s] = "making" /\ todo[s] = <<>> /\ stage' = [stage EXCEPT ![s] = "made"]
    /\ UNCHANGED <<todo, try, address, holder, foreign>>

\* Mutant: the event publishers are left.
ExitServersOnly(s) ==
    /\ stage[s] = "made" /\ stage' = [stage EXCEPT ![s] = "exited"]
    /\ holder' = [a \in Addresses |->
          IF holder[a] # None /\ holder[a].server = s /\ holder[a].role = "requests"
          THEN None ELSE holder[a]]
    /\ UNCHANGED <<todo, try, address, foreign>>

\* Closing gives ports and names up, and removes the file of an IPC address
\* whoever bound it last.
Close(s) ==
    holder' = [a \in Addresses |->
        IF \/ holder[a] # None /\ holder[a].server = s
           \/ a[1] = "IPC" /\ \E k \in Sockets : k.server = s /\ address[k] = a
        THEN None ELSE holder[a]]

\* exit() of the server; a server that could not be made is collected.
Exit(s) ==
    /\ stage[s] \in {"made", "raised"} /\ stage' = [stage EXCEPT ![s] = "exited"] /\ Close(s)
    /\ UNCHANGED <<todo, try, address, foreign>>

Next ==
    \/ \E s \in Servers : \/ Construct(s) \/ MakeInproc(s) \/ MakeIPC(s)
                          \/ BindPort(s) \/ PortInvalid(s) \/ PortInUse(s)
                          \/ Made(s) \/ Exit(s)
    \/ \E p \in Foreign : OtherProgram(p)

Spec == Init /\ [][Next]_vars

(***************************************************************************)
(* Properties.                                                             *)
(***************************************************************************)
Alive(k) == stage[k.server] \in {"making", "made"} /\ address[k] # None
Last == <<"TCP", SearchEnd - 1>>

\* The address a socket of a living server names is its own, whoever else
\* takes ports, searches at the same time or has its ID in another process.
\* Two exceptions: the end of the port range, and the file of an IPC socket
\* whose name another server uses (get_socket(), brokers.py:212 and :239).
AddressIsHeld ==
    \A k \in Sockets :
        /\ Alive(k) /\ address[k] # Last
        /\ k.transport = "IPC" => \A s \in Servers \ {k.server} : IdOf[s] # IdOf[k.server]
        => holder[address[k]] = k

\* A server that is gone, also one that was not completed, holds no address
\* (exit(), zmq/server.py:326).
GoneHoldsNothing ==
    \A a \in Addresses : holder[a] # None => stage[holder[a].server] # "exited"

\* "TCP server was created without a socket address" is the one failure the
\* constructor expects (zmq/server.py:149); a range without a free port
\* leaves an address nothing is bound to.
MadeIsBound ==
    \A k \in Sockets : stage[k.server] = "made" /\ address[k] # None /\ k.transport = "TCP"
                      => holder[address[k]] = k

\* A server with an ID of its own process can be reached over IPC; not so
\* when another process uses the ID and ends (brokers.py:225).
ReachedOverIPC ==
    \A k \in Sockets : stage[k.server] = "made" /\ address[k] # None /\ k.transport = "IPC"
                      => holder[address[k]] # None
=============================================================================
