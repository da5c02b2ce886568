---------------------------- MODULE MCProvision ----------------------------
(* Small instances of Provision for TLC. *)
EXTENDS Provision, TLC

CONSTANTS p1, p2, m1, m2, mac1, mac2, r1, r2

\* Nothing tells two Provisions, Machines, MACs or requests apart. No liveness
\* property is checked with it.
MCSymmetry ==
    Permutations(Provisions) \cup Permutations(Machines)
    \cup Permutations(MACs) \cup Permutations(Requests)
=============================================================================
