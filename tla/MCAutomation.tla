---------------------------- MODULE MCAutomation ----------------------------
(* A small instance of Automation for TLC. *)
EXTENDS Automation, TLC

CONSTANTS p1, bad, a1, o1, o2, f1, k1, v1, v2

Named(configMaps, secrets) ==
    [automation |-> a1, names |-> [kind \in Kinds |->
        IF kind = "ConfigMaps" THEN configMaps ELSE secrets]]

\* Two ConfigMaps in either order, with a Secret of the same name.
MCSpecs == {Named(<<o1, o2>>, <<o1>>), Named(<<o2, o1>>, <<>>)}

Use(kind, strict) == [kind |-> kind, key |-> k1, strict |-> strict]

\* The file is missing, malformed, or refers to the key in both ways.
Template1 == [parses |-> TRUE, refs |-> {Use("ConfigMaps", TRUE), Use("Secrets", FALSE)}]
MCFileMaps == {<<>>, [f \in {f1} |-> Template1], [f \in {f1} |-> [Template1 EXCEPT !.parses = FALSE]]}
MCSymmetry == Permutations({v1, v2})
=============================================================================
