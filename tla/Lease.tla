-------------------------------- MODULE Lease --------------------------------
(***************************************************************************)
(* What the media service promises the callers of its audio sessions: there *)
(* is one lease; it is granted only when it is free and every grant has a   *)
(* token of its own; a started lease that is cancelled is held, draining,   *)
(* until the radio is known to be silent.                                   *)
(***************************************************************************)
EXTENDS Naturals

VARIABLES phase, issued

leaseVars == <<phase, issued>>

Init == phase = "free" /\ issued = 0

Grant == phase = "free" /\ phase' = "reserved" /\ issued' = issued + 1
Begin == phase = "reserved" /\ phase' = "active" /\ UNCHANGED issued
Stop == phase = "active" /\ phase' = "draining" /\ UNCHANGED issued
Free == phase # "free" /\ phase' = "free" /\ UNCHANGED issued

Next == Grant \/ Begin \/ Stop \/ Free

Spec == Init /\ [][Next]_leaseVars
=============================================================================
