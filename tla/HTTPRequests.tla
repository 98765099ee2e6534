---------------------------- MODULE HTTPRequests ----------------------------
(***************************************************************************)
(* HTTP requests from their arrival to their status                        *)
(* (server/http/handlers.py).  A request is one coroutine: it asks for     *)
(* access, hands an operation to the Thing's event loop, collects the      *)
(* reply of an earlier one by its message ID, streams an event, stops the  *)
(* server or probes it; between its awaits other requests, the Thing and   *)
(* stop() run.                                                             *)
(***************************************************************************)
EXTENDS Naturals, FiniteSets

CONSTANTS
    Requests,
    Inputs,             \* what a request may look like, records of InputType
    AllowedMethods,     \* [handlers -> sets of methods] HandlerMetadata
    OnlyListedClients,  \* allowed_clients is given
    Secured,            \* security_schemes are given
    AllowUnknown,       \* ALLOW_UNKNOWN_SERIALIZATION
    None

Handlers == {"property", "action", "properties", "event", "stop", "readiness", "description"}
InputType ==
    [handler : Handlers, method : {"GET", "POST", "PUT", "PATCH", "DELETE"},
     origin : {"none", "listed", "other"},
     sends : {"nothing", "password", "token", "roleless"},
     asks : {"reply", "oneway", "noblock"},
     quotes : Requests \cup {None},     \* the request that got the message ID
     body : {"known", "unknown"}]

RequestsAssumption ==
    /\ Inputs \subseteq InputType /\ None \notin Requests
    /\ {OnlyListedClients, Secured, AllowUnknown} \subseteq BOOLEAN

VARIABLES
    input,      \* the request, None before it arrives
    stage,      \* where its coroutine is
    status,     \* its status, 0 before it is finished
    operation,  \* the state of the operation it had queued
    stored,     \* message IDs whose replies wait in pending_operations
    running,    \* the event loop of the Thing runs
    listening   \* Tornado accepts connections

vars == <<input, stage, status, operation, stored, running, listening>>

Stages == {"new", "access", "handle", "execute", "collect", "stream", "done"}
Codes == {200, 204, 400, 401, 403, 404, 405, 408, 500}
Operations == {"none", "queued", "answered", "expired"}

TypeOK ==
    /\ input \in [Requests -> Inputs \cup {None}]
    /\ stage \in [Requests -> Stages]
    /\ status \in [Requests -> Codes \cup {0}]
    /\ operation \in [Requests -> Operations]
    /\ stored \subseteq Requests /\ {running, listening} \subseteq BOOLEAN
    /\ \A r \in Requests : status[r] # 0 <=> stage[r] = "done"

Init ==
    /\ input = [r \in Requests |-> None] /\ stage = [r \in Requests |-> "new"]
    /\ status = [r \in Requests |-> 0] /\ operation = [r \in Requests |-> "none"]
    /\ stored = {} /\ running = TRUE /\ listening = TRUE

Goto(r, s) == stage' = [stage EXCEPT ![r] = s] /\ UNCHANGED status
Finish(r, s) ==
    /\ status' = [status EXCEPT ![r] = s] /\ stage' = [stage EXCEPT ![r] = "done"]

Arrive(r) ==
    /\ listening /\ stage[r] = "new"
    /\ \E i \in Inputs : input' = [input EXCEPT ![r] = i]
    /\ Goto(r, "access") /\ UNCHANGED <<operation, stored, running, listening>>

(***************************************************************************)
(* has_access_control() and is_method_allowed(): the status of a refusal,  *)
(* 0 if there is none.                                                     *)
(***************************************************************************)
\* is_authenticated(): a scheme that takes what the request sends;
\* is_authorized(): only a token carries userinfo to look for a role in.
Refusal(i) ==
    IF OnlyListedClients /\ i.origin = "other" THEN 401
    ELSE IF ~Secured THEN 0
    ELSE IF i.sends = "nothing" THEN 401
    ELSE IF i.sends = "roleless" THEN 403 ELSE 0

Collects(i) == i.quotes # None /\ i.method = "GET"
Restricted(i) == i.handler \in {"property", "action", "properties"}

\* The probe has no access control.
CheckAccess(r) ==
    LET i == input[r] IN
    /\ stage[r] = "access"
    /\ IF i.handler # "readiness" /\ Refusal(i) # 0 THEN Finish(r, Refusal(i))
       ELSE IF Restricted(i) /\ ~Collects(i) /\ i.method \notin AllowedMethods[i.handler]
            THEN Finish(r, 405) ELSE Goto(r, "handle")
    /\ UNCHANGED <<input, operation, stored, running, listening>>

At(r, handlers) == stage[r] = "handle" /\ input[r].handler \in handlers
Queue(r) == operation' = [operation EXCEPT ![r] = "queued"]

(***************************************************************************)
(* handle_through_thing()                                                  *)
(***************************************************************************)
Throughs(r) == At(r, {"property", "action", "properties"}) /\ ~Collects(input[r])
Decodes(i) == i.body = "known" \/ AllowUnknown

\* RWMultiplePropertiesHandler answers a POST itself.
PutInstead(r) == input[r].handler = "properties" /\ input[r].method = "POST"

CannotDecode(r) ==
    /\ Throughs(r)
    /\ IF PutInstead(r) THEN Finish(r, 405) ELSE ~Decodes(input[r]) /\ Finish(r, 400)
    /\ UNCHANGED <<input, operation, stored, running, listening>>

\* submit() and execute() raise when the event loop does not run.
NotRunning(r) ==
    /\ Throughs(r) /\ ~PutInstead(r) /\ Decodes(input[r]) /\ ~running
    /\ Finish(r, 500) /\ UNCHANGED <<input, operation, stored, running, listening>>

Submit(r) ==
    /\ Throughs(r) /\ ~PutInstead(r) /\ Decodes(input[r]) /\ running
    /\ input[r].asks \in {"oneway", "noblock"} /\ Queue(r)
    /\ stored' = IF input[r].asks = "noblock" THEN stored \cup {r} ELSE stored
    /\ Finish(r, 204) /\ UNCHANGED <<input, running, listening>>

Execute(r) ==
    /\ Throughs(r) /\ ~PutInstead(r) /\ Decodes(input[r]) /\ running
    /\ input[r].asks = "reply" /\ Queue(r) /\ Goto(r, "execute")
    /\ UNCHANGED <<input, stored, running, listening>>

\* Mutant: what timed out is told like what was answered.
ReplyAnyway(r) ==
    /\ stage[r] = "execute" /\ operation[r] \in {"answered", "expired"}
    /\ Finish(r, 200) /\ UNCHANGED <<input, operation, stored, running, listening>>

Reply(r) ==
    /\ stage[r] = "execute" /\ operation[r] \in {"answered", "expired"}
    /\ Finish(r, IF operation[r] = "answered" THEN 200
                 ELSE IF input[r].handler = "readiness" THEN 500 ELSE 408)
    /\ UNCHANGED <<input, operation, stored, running, listening>>

(***************************************************************************)
(* handle_no_block_response()                                              *)
(***************************************************************************)
Collecting(r) == At(r, {"property", "action", "properties"}) /\ Collects(input[r])

Claim(r) ==
    LET m == input[r].quotes IN
    /\ Collecting(r)
    /\ IF m \in stored THEN Goto(r, "collect") ELSE Finish(r, 404)
    /\ stored' = stored \ {m} /\ UNCHANGED <<input, operation, running, listening>>

\* The wait ends: the reply goes back.
GiveUp(r) ==
    /\ stage[r] = "collect" /\ operation[input[r].quotes] = "queued"
    /\ stored' = stored \cup {input[r].quotes}
    /\ Finish(r, 408) /\ UNCHANGED <<input, operation, running, listening>>

Collect(r) ==
    LET m == input[r].quotes IN
    /\ stage[r] = "collect" /\ operation[m] \in {"answered", "expired"}
    /\ Finish(r, IF operation[m] = "answered" THEN 200 ELSE 408)
    /\ UNCHANGED <<input, operation, stored, running, listening>>

(***************************************************************************)
(* The other handlers.                                                     *)
(***************************************************************************)
\* EventHandler.handle_datastream(): subscribed from here to StreamEnds.
Stream(r) ==
    /\ At(r, {"event"}) /\ Goto(r, "stream")
    /\ UNCHANGED <<input, operation, stored, running, listening>>

StreamEnds(r) ==
    /\ stage[r] = "stream" /\ Finish(r, 200)
    /\ UNCHANGED <<input, operation, stored, running, listening>>

\* ThingDescriptionHandler: generated in place, or the generation raises.
Describe(r) ==
    /\ At(r, {"description"}) /\ \E s \in {200, 500} : Finish(r, s)
    /\ UNCHANGED <<input, operation, stored, running, listening>>

\* ReadinessProbeHandler pings the Thing, if its event loop runs.
Ping(r) ==
    /\ At(r, {"readiness"})
    /\ IF running THEN Queue(r) /\ Goto(r, "execute") ELSE Finish(r, 500) /\ UNCHANGED operation
    /\ UNCHANGED <<input, stored, running, listening>>

\* StopHandler: the task of async_stop() closes what Tornado serves.
Stop(r) ==
    /\ At(r, {"stop"}) /\ Finish(r, 204) /\ listening' = FALSE
    /\ UNCHANGED <<input, operation, stored, running>>

(***************************************************************************)
(* The Thing and its event loop.                                           *)
(***************************************************************************)
Answer(r) ==
    /\ operation[r] = "queued"
    /\ \E o \in {"answered", "expired"} : operation' = [operation EXCEPT ![r] = o]
    /\ UNCHANGED <<input, stage, status, stored, running, listening>>

\* EventLoop.stop() clears what waits to be collected; what is queued is
\* answered with a timeout or an error by the schedulers.
StopLoop ==
    /\ running /\ running' = FALSE /\ stored' = {}
    /\ UNCHANGED <<input, stage, status, operation, listening>>

Next ==
    \/ \E r \in Requests :
         \/ Arrive(r) \/ CheckAccess(r) \/ CannotDecode(r) \/ NotRunning(r) \/ Submit(r)
         \/ Execute(r) \/ Reply(r) \/ Claim(r) \/ GiveUp(r) \/ Collect(r) \/ Stream(r)
         \/ StreamEnds(r) \/ Describe(r) \/ Ping(r) \/ Stop(r) \/ Answer(r)
    \/ StopLoop

Spec == Init /\ [][Next]_vars

(***************************************************************************)
(* Properties.                                                             *)
(***************************************************************************)
Done(r, codes) == stage[r] = "done" /\ status[r] \in codes
Names(r) == IF Collects(input[r]) THEN input[r].quotes ELSE r

\* What was refused has left nothing behind: no operation is queued and no
\* reply is kept for a request without access, with a method the handler does
\* not have, or with a body it cannot read (handlers.py:421).
RefusedRunsNothing ==
    \A r \in Requests :
        /\ Done(r, {400, 401, 403, 404, 405}) => operation[r] = "none" /\ r \notin stored
        /\ operation[r] # "none" /\ input[r].handler # "readiness" => Refusal(input[r]) = 0

\* A status says what became of the operation: 200 that the one the request
\* ran, or the one whose message ID it quotes, was answered in time, 204 that
\* it will run, 408 that it was not answered, and the reply is still to be had
\* if the loop has not dropped it (handlers.py:550).
StatusIsFate ==
    \A r \in Requests : stage[r] = "done" /\ Restricted(input[r]) =>
        /\ status[r] = 200 => operation[Names(r)] = "answered"
        /\ status[r] = 204 => operation[r] # "none"
        /\ status[r] = 500 => operation[r] = "none" /\ ~running

\* A reply that is waited for is not lost: it is kept, or a request owns it,
\* or it was collected, as long as the event loop runs; and nobody keeps a
\* reply that was not asked for (handlers.py:573).
RepliesKept ==
    \A m \in Requests : running /\ Done(m, {204}) /\ Restricted(input[m]) =>
        LET claimed == \E r \in Requests : stage[r] = "collect" /\ input[r].quotes = m
            collected == \E r \in Requests : Done(r, {200, 408}) /\ input[r].quotes = m /\ Collects(input[r])
        IN IF input[m].asks = "noblock"
           THEN m \in stored \/ claimed \/ (collected /\ operation[m] # "queued")
           ELSE m \notin stored
=============================================================================
