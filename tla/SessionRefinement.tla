-------------------------- MODULE SessionRefinement --------------------------
(***************************************************************************)
(* The session implements DeviceLifecycle: the owner is the stream that    *)
(* exists, from rx_stream until its close or cleanup has ended, and the    *)
(* receiver is on when the radio's endpoint buffer runs.                   *)
(***************************************************************************)
EXTENDS Session

CONSTANTS Nobody, Reserved

ASSUME OwnersAssumption == Nobody \notin Streams /\ Reserved \notin Streams /\ Nobody # Reserved

\* The claim as an owner.
Owner == IF claim = "Available" THEN Nobody
         ELSE IF claim = "CleanupRequired" THEN Reserved
         ELSE CHOOSE s \in Streams : phase[s] # "absent"

Lifecycle == INSTANCE DeviceLifecycle
               WITH Owners <- Streams, stage <- device, owner <- Owner, on <- streaming

\* Every step of the session is a step of the lifecycle or changes nothing in
\* it: in particular streaming rises only while the claim is not available,
\* and a claim becomes available only with the streaming stopped.
ImplementsLifecycle == Lifecycle!Spec
=============================================================================
