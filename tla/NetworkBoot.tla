---------------------------- MODULE NetworkBoot ----------------------------
(***************************************************************************)
(* A machine boots from the network: httpd computes its script from the    *)
(* BootConfig and the BootArtifacts as the API server has them             *)
(* (BootDirectiveForMAC in internal/httpd/boot.go) and nginx serves the    *)
(* files of boot/<name>, while the BootConfig controller assembles that    *)
(* directory from caches of its own and the BootArtifact controller        *)
(* replaces files. Neither httpd nor nginx looks at the status of the      *)
(* BootConfig. This module composes BootConfig with that reader; of the    *)
(* Provision it uses what ProvisionLifecycle promises.                     *)
(***************************************************************************)
EXTENDS BootConfig

CONSTANTS
    Provisions,   \* Provisions, each of a machine of its own
    BootConfigRef \* Provisions -> Configs, spec.bootConfigRef

VARIABLES
    phase,        \* phase of each Provision
    m             \* its machine: the script it was sent and what it loaded

allVars == <<vars, phase, m>>

ASSUME BootConfigRefAssumption == BootConfigRef \in [Provisions -> Configs]

Lifecycle == INSTANCE ProvisionLifecycle

\* spec: the BootConfig as httpd read it; names: the file names of the
\* artifacts read so far; loaded: the files the machine has, in the order
\* it asks for them; settled is a history field.
Off == [pc |-> "off", spec |-> None, names |-> <<>>, loaded |-> <<>>, settled |-> FALSE]

BootInit ==
    /\ Init
    /\ phase = [p \in Provisions |-> "Pending"]
    /\ m = [p \in Provisions |-> Off]

-----------------------------------------------------------------------------
(* The request *)

Set(p, machine) == m' = [m EXCEPT ![p] = machine] /\ UNCHANGED <<vars, phase>>

\* The artifacts whose names are in the script, in the order they are read.
ReadFor(s) == IF s.mode = "iso" THEN <<s.iso>> ELSE <<s.kernel, s.initrd>>

\* The directory is Ready, up to date and nothing is on its way for it.
Settled(c) == ReadyNow(c) /\ Quiet(c) /\ Serves(c, WantedRevision)

\* BootDirectiveForMAC reads the BootConfig, uncached. A missing one is a 500
\* and the machine asks again.
GetBootConfig(p) ==
    LET c == BootConfigRef[p]
    IN  /\ m[p].pc = "off"
        /\ phase[p] = "Pending"
        /\ api[c].obj # Absent
        /\ Set(p, [Off EXCEPT !.pc = "directive", !.spec = api[c].obj.spec,
                              !.settled = Settled(c)])

\* Variant: the error of a Get is dropped and the empty URL goes on.
GetArtifactUnchecked(p) ==
    /\ m[p].pc = "directive"
    /\ LET a == ReadFor(m[p].spec)[Len(m[p].names) + 1]
           names == Append(m[p].names, IF arts[a].phase = "none" THEN None ELSE Path(a))
       IN  Set(p, [m[p] EXCEPT !.names = names,
                !.pc = IF Len(names) = Len(ReadFor(m[p].spec)) THEN "load" ELSE @])

\* Then its artifacts, one at a time; a missing one is a 500. With the last
\* one the script is complete.
GetArtifact(p) ==
    /\ m[p].pc = "directive"
    /\ LET a == ReadFor(m[p].spec)[Len(m[p].names) + 1]
           names == Append(m[p].names, Path(a))
       IN  \/ arts[a].phase = "none" /\ Set(p, [m[p] EXCEPT !.pc = "failed"])
           \/ /\ arts[a].phase # "none"
              /\ Set(p, [m[p] EXCEPT !.names = names,
                    !.pc = IF Len(names) = Len(ReadFor(m[p].spec)) THEN "load" ELSE @])

-----------------------------------------------------------------------------
(* The files *)

\* The entry of a directory of boot/<name> with this file name.
EntryOf(d, f) == {x.entry[f] : x \in {d} \cap Directory} \ {NoFile}

\* The entries that the paths of the script name, in the order they are
\* loaded: kernel, initrd, and for an installer its image.
Requested(d, s, names) ==
    IF s.mode = "iso"
    THEN <<{d.vmlinuz}, {d.initrd} \ Directory, {l \in d.iso : Named(l) = names[1]}>>
    ELSE <<EntryOf(d.kernel, names[1]), EntryOf(d.initrd, names[2])>>

\* nginx follows the entry to a file; without one the answer is 404 and the
\* machine gives up.
Load(p) ==
    /\ m[p].pc = "load"
    /\ LET paths == Requested(boot[BootConfigRef[p]], m[p].spec, m[p].names)
           found == UNION {Resolve(e) : e \in paths[Len(m[p].loaded) + 1]}
       IN  \/ found = {} /\ Set(p, [m[p] EXCEPT !.pc = "failed"])
           \/ \E f \in found :
                LET loaded == Append(m[p].loaded, f.data)
                IN  Set(p, [m[p] EXCEPT !.loaded = loaded,
                        !.pc = IF Len(loaded) = Len(paths) THEN "booted" ELSE @])

\* A machine that could not boot starts over.
Retry(p) == m[p].pc = "failed" /\ Set(p, Off)

\* The installer runs and reports InProgress.
Report(p) ==
    /\ m[p].pc = "booted"
    /\ Lifecycle!Start(p)
    /\ m' = [m EXCEPT ![p] = Off]
    /\ UNCHANGED vars

MachineStep(p) == GetBootConfig(p) \/ GetArtifact(p) \/ Load(p) \/ Retry(p) \/ Report(p)

\* What others do meanwhile. settled ends with a change by a user, a failing
\* call or damage to files by a power loss.
Meanwhile ==
    /\ UNCHANGED phase
    /\ LET quiet == /\ edits' = edits /\ faults' = faults
                    /\ crashes' # crashes => UNCHANGED <<boot, file>>
       IN  m' = [p \in Provisions |-> [m[p] EXCEPT !.settled = @ /\ quiet]]

BootNext ==
    \/ Next /\ Meanwhile
    \/ \E p \in Provisions : MachineStep(p)

BootSpec == BootInit /\ [][BootNext]_allVars

\* A machine whose boot failed keeps asking.
BootFairness == Fairness /\ \A p \in Provisions : WF_allVars(MachineStep(p))

FairBootSpec == BootSpec /\ BootFairness

-----------------------------------------------------------------------------
(* Properties *)

MachineTypeOK ==
    /\ phase \in [Provisions -> Lifecycle!ProvisionPhases]
    /\ \A p \in Provisions :
        /\ m[p].pc \in {"off", "directive", "load", "booted", "failed"}
        /\ m[p].spec \in Specs \cup {None}
        /\ m[p].names \in Seq(Files)
        /\ m[p].loaded \in Seq(Data \cup (Data \X (Data \cup ISOPaths)) \cup {Torn})
        /\ m[p].settled \in BOOLEAN

\* The files a machine should get.
WantedData(s) ==
    LET content(a) == <<a, arts[a].rev>>
    IN  IF s.mode = "iso"
        THEN <<<<content(s.iso), s.kernelPath>>, <<content(s.iso), s.initrdPath>>, content(s.iso)>>
        ELSE <<content(s.kernel), IF s.firmware = None THEN content(s.initrd)
                                  ELSE <<content(s.initrd), content(s.firmware)>>>>

\* A machine that asks when its BootConfig is Ready and up to date boots
\* exactly the kernel and initrd of the spec, as long as no user changes
\* anything and no call fails: a reconcile that comes in between, after a
\* restart of the manager at whatever step, never takes a file away or makes
\* it another one (the shortcuts in ensureSymlink, concatenateFiles,
\* extractFromISO and ensureFileSymlink, and the paths of BootDirectiveForMAC).
BootsAsSpecified ==
    \A p \in Provisions :
        m[p].settled =>
            /\ m[p].pc # "failed"
            /\ \A i \in DOMAIN m[p].loaded :
                    m[p].loaded[i] \in {Torn, WantedData(m[p].spec)[i]}

\* Once users, faults and crashes stop, a machine whose BootConfig can be
\* satisfied gets to boot, although its script and the directory are made by
\* processes that do not wait for each other (BootDirectiveForMAC, Reconcile).
Boots ==
    <>[](\A p \in Provisions :
            LET obj == api[BootConfigRef[p]].obj
            IN  obj # Absent /\ Satisfiable(obj.spec) => phase[p] # "Pending")
=============================================================================
