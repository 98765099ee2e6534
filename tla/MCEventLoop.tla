---------------------------- MODULE MCEventLoop ----------------------------
(* EventLoop on small instances: every job belongs to the same Thing.      *)
EXTENDS EventLoop, TLC

OneThing == [j \in Jobs |-> CHOOSE t \in Things : TRUE]

(* The client submits either jobs of the Thing's queue, and may stop the   *)
(* event loop at any time, or jobs with a scheduler of their own.          *)
OneKindOfJob ==
    \/ \A j \in OneShot : caller[j] = "new"
    \/ /\ \A j \in Synchronous : caller[j] = "new"
       /\ \A c \in Callers : stopper[c] = "idle"
=============================================================================
