--------------------------- MODULE MCBootArtifact ---------------------------
(* Small instances of BootArtifact for TLC. *)
EXTENDS BootArtifact

CONSTANTS a1, a2, n1, n2, u1, u2, f1, f2, c1, c2

MCContents == {c1, c2}

\* Two revisions of an artifact: another URL, another content, the other
\* digest algorithm.
SpecOne == [url |-> u1, sha256 |-> <<"sha256", c1>>, sha512 |-> None]
SpecTwo == [url |-> u2, sha256 |-> None, sha512 |-> <<"sha512", c2>>]
BothSpecs == {SpecOne, SpecTwo}
OneSpec == {SpecOne}

\* Both URLs end in the same file name, or in two.
SameFilename == [u \in URLs |-> f1]
OwnFilename == [u \in URLs |-> IF u = u1 THEN f1 ELSE f2]

\* Each artifact has a name of its own, or both have the same name in two
\* namespaces.
OwnName == [a \in Artifacts |-> IF a = a1 THEN n1 ELSE n2]
SharedName == [a \in Artifacts |-> n1]

NoPath == {}
=============================================================================
