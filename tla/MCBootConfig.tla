---------------------------- MODULE MCBootConfig ----------------------------
(* Small instances of BootConfig for TLC. *)
EXTENDS BootConfig

CONSTANTS c1, k, i, j, fw, gw, img, jmg, v1, v2, fk, fi, fj, ff, fs, ft, p, q, bad

\* Two initrds, j with a file name of its own, and two firmware archives.
Netboot(a, f) == [mode |-> "netboot", kernel |-> k, initrd |-> a, firmware |-> f]
ISO(a, path) == [mode |-> "iso", iso |-> a, kernelPath |-> path, initrdPath |-> q]

MCFilename == [a \in Artifacts |-> [r \in Revisions |->
    CASE a = k -> fk [] a = i -> fi [] a = j -> fj
      [] a \in {fw, gw} -> ff [] a = img -> fs [] a = jmg -> ft]]

\* The same, except that a new revision of k, j or img has another file name.
OwnFilename == [a \in Artifacts |-> [r \in Revisions |->
    IF r = v2 /\ a \in {k, j, img} THEN ft ELSE MCFilename[a][r]]]

NetbootSpecs == {Netboot(i, fw), Netboot(j, None)}
FirmwareSpecs == {Netboot(i, fw), Netboot(i, gw)}
FirmwareSpec == {Netboot(i, fw)}
ISOSpecs == {ISO(img, p), ISO(img, bad)}
ImageSpec == {ISO(img, p)}
ImageSpecs == {ISO(img, p), ISO(jmg, p)}
PathSpecs == {ISO(img, p), ISO(img, q)}
ModeSpecs == {ISO(img, p), Netboot(i, None)}
=============================================================================
