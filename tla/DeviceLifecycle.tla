--------------------------- MODULE DeviceLifecycle ---------------------------
(***************************************************************************)
(* What the session promises to the users of one RTL-SDR device, without   *)
(* leases, transfers or futures: one owner of the receiver at a time; the  *)
(* receiver is switched on only for an owner and handed back switched off, *)
(* or else it is reserved for good; a shutdown begins only without an      *)
(* owner, cannot be undone, and is complete only with the receiver off.    *)
(***************************************************************************)
CONSTANTS
  Owners,    \* those who may own the receiver
  Nobody,    \* it is free to be claimed
  Reserved   \* it was not handed back properly: nobody may claim it again

VARIABLES
  stage,  \* Open, Closing or Closed
  owner,  \* who may use the receiver
  on      \* the receiver streams

vars == <<stage, owner, on>>

\* A radio is found in whatever state it was left in.
Init == stage = "Open" /\ owner = Nobody /\ on \in BOOLEAN

Claim(o) == /\ stage = "Open"
            /\ owner = Nobody
            /\ owner' = o
            /\ UNCHANGED <<stage, on>>

HandBack(o) == /\ owner = o
               /\ ~on
               /\ owner' = Nobody
               /\ UNCHANGED <<stage, on>>

Abandon(o) == /\ owner = o
              /\ owner' = Reserved
              /\ UNCHANGED <<stage, on>>

\* Also a reserved receiver may be switched on again, by a configuration that
\* restores it: the reservation stands for that.
SwitchOn == /\ stage = "Open"
            /\ owner # Nobody
            /\ on' = TRUE
            /\ UNCHANGED <<stage, owner>>

SwitchOff == on' = FALSE /\ UNCHANGED <<stage, owner>>

BeginShutdown == /\ stage = "Open"
                 /\ owner \notin Owners
                 /\ stage' = "Closing"
                 /\ UNCHANGED <<owner, on>>

EndShutdown == /\ stage = "Closing"
               /\ ~on
               /\ stage' = "Closed"
               /\ owner' = Nobody
               /\ UNCHANGED on

Next == \/ \E o \in Owners : Claim(o) \/ HandBack(o) \/ Abandon(o)
        \/ SwitchOn \/ SwitchOff
        \/ BeginShutdown \/ EndShutdown

Spec == Init /\ [][Next]_vars
=============================================================================
