--------------------------- MODULE DevicePresence ---------------------------
(***************************************************************************)
(* What the registry promises about the presence of a device, without      *)
(* locks, connections or a checker: presence is a lease.  A device joins,  *)
(* renews the lease with heartbeats and registrations, lets it lapse, and  *)
(* is taken down only after a lapse was observed, or because the registry  *)
(* is being closed.                                                        *)
(*                                                                         *)
(* The one weakness of the code is part of the promise: between observing  *)
(* the lapse and taking the device down (phase "condemned") a renewal is   *)
(* accepted and has no effect.                                             *)
(***************************************************************************)
CONSTANT Device

VARIABLES
    phase,      \* phase[d]: where d is in the life of its lease
    shutdown    \* TRUE once the registry has been told to close

vars == <<phase, shutdown>>

Phase == {"absent", "live", "lapsed", "condemned", "down"}

Init ==
    /\ phase = [d \in Device |-> "absent"]
    /\ shutdown = FALSE

(* A first registration creates the device; a later registration or a      *)
(* heartbeat renews its lease, and revives it if it was down.              *)
Renew(d) ==
    /\ phase[d] # "condemned"
    /\ phase' = [phase EXCEPT ![d] = "live"]
    /\ UNCHANGED shutdown

(* Time passes: any set of leases runs out at once. *)
Lapse(D) ==
    /\ \A d \in D : phase[d] = "live"
    /\ phase' = [d \in Device |-> IF d \in D THEN "lapsed" ELSE phase[d]]
    /\ UNCHANGED shutdown

(* The checker observes that the lease of d has run out. *)
Condemn(d) ==
    /\ phase[d] = "lapsed"
    /\ phase' = [phase EXCEPT ![d] = "condemned"]
    /\ UNCHANGED shutdown

Expire(d) ==
    /\ phase[d] = "condemned"
    /\ phase' = [phase EXCEPT ![d] = "down"]
    /\ UNCHANGED shutdown

BeginShutdown ==
    /\ shutdown' = TRUE
    /\ UNCHANGED phase

(* Closing the registry takes down every device it holds. *)
TakeDown(d) ==
    /\ shutdown
    /\ phase[d] # "absent"
    /\ phase' = [phase EXCEPT ![d] = "down"]
    /\ UNCHANGED shutdown

Next ==
    \/ \E D \in SUBSET Device : Lapse(D)
    \/ \E d \in Device : Renew(d) \/ Condemn(d) \/ Expire(d) \/ TakeDown(d)
    \/ BeginShutdown

Spec == Init /\ [][Next]_vars

=============================================================================
