----------------------------- MODULE MCEventBus -----------------------------
(* EventBus on small instances: every listener listens to the same event.  *)
EXTENDS EventBus

OneEvent == [s \in Listeners |-> CHOOSE e \in Events : TRUE]

\* A listener that goes on gets what was pushed or something newer, and an MQTT
\* publisher that was told to stop does (mqtt/handlers.py:65).
ListenersGoOn == NewsArrives /\ PublisherStops
=============================================================================
