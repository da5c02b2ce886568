--------------------------- MODULE MCNetworkBoot ---------------------------
(* Small instances of NetworkBoot for TLC. *)
EXTENDS NetworkBoot, MCBootConfig

CONSTANT pr

MCBootConfigRef == [v \in Provisions |-> c1]
=============================================================================
