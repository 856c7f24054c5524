------------------------------ MODULE MC_Tunnel -----------------------------
(* Instances of Tunnel: two tunnels to different hosts.  The first client    *)
(* asks for the host of the second by name, the second asks for no name.     *)
(* A certificate is valid for two ticks and is made anew in its last.        *)
EXTENDS Tunnel, TLC

CONSTANTS t1, t2, a, b

MCHostOf == t1 :> a @@ t2 :> b
MCSnisOf == t1 :> {b} @@ t2 :> {None}
=============================================================================
