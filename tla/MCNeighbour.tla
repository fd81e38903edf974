----------------------------- MODULE MCNeighbour -----------------------------
(* Instances of Neighbour. *)
EXTENDS Neighbour, TLC

CONSTANTS e1, e2, net0, net1, gw, peer

\* one destination behind each device
MCDevOf == (gw :> net0) @@ (peer :> net1)
=============================================================================
