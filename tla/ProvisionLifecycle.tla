------------------------- MODULE ProvisionLifecycle -------------------------
(***************************************************************************)
(* What the manager and httpd together promise about the phase of a        *)
(* Provision: it is set to Pending once, moves to InProgress and then to   *)
(* Complete, one step at a time, and only deletion takes it out of that    *)
(* order. No component needs to know the other's state for that.           *)
(***************************************************************************)
CONSTANT Provisions

VARIABLE phase    \* "none" for a Provision that does not exist

ProvisionPhases == {"none", "", "Pending", "InProgress", "Complete"}

Init == phase = [p \in Provisions |-> "none"]

Move(p, from, to) ==
    /\ phase[p] = from
    /\ phase' = [phase EXCEPT ![p] = to]

Create(p) == Move(p, "none", "")
Initialise(p) == Move(p, "", "Pending")
Start(p) == Move(p, "Pending", "InProgress")
Finish(p) == Move(p, "InProgress", "Complete")
Delete(p) == phase[p] # "none" /\ phase' = [phase EXCEPT ![p] = "none"]

Next == \E p \in Provisions :
            Create(p) \/ Initialise(p) \/ Start(p) \/ Finish(p) \/ Delete(p)

Spec == Init /\ [][Next]_phase

\* A new Provision does not wait for ever to become Pending.
FairSpec == Spec /\ \A p \in Provisions : WF_phase(Initialise(p))
=============================================================================
