----------------------------- MODULE JobPromise -----------------------------
(***************************************************************************)
(* What EventLoop.submit() promises about an operation and the future it   *)
(* returns, whatever runs the operation and whoever stops the event loop.  *)
(***************************************************************************)
EXTENDS Naturals

CONSTANT Jobs

VARIABLES
  executed,  \* how often the operation was executed on its Thing
  outcome    \* "open", or the one outcome the future ever has

vars == <<executed, outcome>>

(* outcomes that say the operation was executed                            *)
Returned == {"OK", "EXIT"}
Kinds == Returned \cup {"ERROR", "INVOKATION_TIMEOUT", "EXECUTION_TIMEOUT", "NO_REPLY", "CANCELLED"}

Init ==
  /\ executed = [j \in Jobs |-> 0]
  /\ outcome = [j \in Jobs |-> "open"]

(* An operation is executed once, and not after its caller was told that   *)
(* it never started. It may be after any other answer.                     *)
Execute(j) ==
  /\ executed[j] = 0 /\ outcome[j] # "INVOKATION_TIMEOUT"
  /\ executed' = [executed EXCEPT ![j] = 1]
  /\ UNCHANGED outcome

Resolve(j, kind) ==
  /\ outcome[j] = "open"
  /\ kind \in Returned => executed[j] = 1
  /\ kind = "INVOKATION_TIMEOUT" => executed[j] = 0
  /\ outcome' = [outcome EXCEPT ![j] = kind]
  /\ UNCHANGED executed

(* stop() cancels what was not collected                                   *)
Cancel(js) ==
  /\ \A j \in js : outcome[j] = "open"
  /\ outcome' = [j \in Jobs |-> IF j \in js THEN "CANCELLED" ELSE outcome[j]]
  /\ UNCHANGED executed

Next ==
  \/ \E j \in Jobs : Execute(j)
  \/ \E j \in Jobs, kind \in Kinds \ {"CANCELLED"} : Resolve(j, kind)
  \/ \E js \in SUBSET Jobs : Cancel(js)

Spec == Init /\ [][Next]_vars
=============================================================================
