------------------------- MODULE NetworkBootProofs -------------------------
(***************************************************************************)
(* Theorems about module NetworkBoot, for any sets of Provisions,          *)
(* BootConfigs, artifacts, revisions and files, both modes and any bounds: *)
(* type correctness, and that a machine that asks when its BootConfig is   *)
(* Ready boots exactly what the spec names.                                *)
(***************************************************************************)
EXTENDS NetworkBoot, BootConfigRestProofs

-----------------------------------------------------------------------------
(* The invariant *)

MachineData == Data \cup (Data \X (Data \cup ISOPaths)) \cup {Torn}
Machine == [pc : {"off", "directive", "load", "booted", "failed"}, spec : Specs \cup {None},
            names : Seq(Files), loaded : Seq(MachineData), settled : BOOLEAN]

\* How many files a machine asks for.
Requests(s) == IF s.mode = "iso" THEN 3 ELSE 2

\* How far a machine has come.
Asking(x) ==
    /\ x.pc \in {"directive", "load", "booted"} =>
            x.spec \in Specs /\ Len(x.names) <= Len(ReadFor(x.spec))
    /\ x.pc = "directive" => Len(x.names) < Len(ReadFor(x.spec)) /\ x.loaded = <<>>
    /\ x.pc = "load" => Len(x.names) = Len(ReadFor(x.spec)) /\ Len(x.loaded) < Requests(x.spec)

MachineInv ==
    /\ phase \in [Provisions -> Lifecycle!ProvisionPhases]
    /\ m \in [Provisions -> Machine]
    /\ \A p \in Provisions : Asking(m[p])

\* The content and the link of an artifact's present revision.
Content(a) == <<a, arts[a].rev>>
Here(a) == Link(a, Path(a))

\* The directory d serves the spec, and the next reconcile keeps it so.
IntactNetboot(d, s) ==
    /\ d.kernel \in Directory /\ d.kernel.entry[Path(s.kernel)] = Here(s.kernel)
    /\ d.initrd \in Directory
    /\ LET e == d.initrd.entry[Path(s.initrd)]
       IN  IF s.firmware = None THEN e = Here(s.initrd)
           ELSE /\ e \in Combined
                /\ e.data \in {Torn, <<Content(s.initrd), Content(s.firmware)>>}
                /\ \A a \in {s.initrd, s.firmware} : Present(a).mtime < e.mtime

IntactISO(d, s) ==
    /\ Here(s.iso) \in d.iso
    /\ d.vmlinuz \in Extracted /\ d.vmlinuz.data \in {Torn, <<Content(s.iso), s.kernelPath>>}
    /\ d.initrd \in Extracted /\ d.initrd.data \in {Torn, <<Content(s.iso), s.initrdPath>>}

Intact(d, s) == IF s.mode = "iso" THEN IntactISO(d, s) ELSE IntactNetboot(d, s)

\* A reconcile that finds everything as it should be.
Harmless(x, s) ==
    /\ x.pc \notin {"linkKernel", "linkInitrd", "copyInitrd", "copyFirmware", "write", "install",
                 "symlinkISO"}
    /\ x.pc \in DOMAIN Doing => \A a \in Refs(s) : x.name[a] = Path(a)
    /\ x.pc = "initrd" => s.firmware = None
    /\ x.pc \in {"extractKernel", "extractInitrd"} => x.copied[1] = Content(s.iso)

\* An artifact that is Ready with its file, and nothing is under way for it.
Still(a) ==
    /\ arts[a].phase = "Ready" /\ Matching(a) /\ artEvents[a] = {}
    /\ job.pc = "idle" \/ job.key # a

Undisturbed(c, s) ==
    /\ \A u \in Known(c) : u.obj # Absent /\ u.obj.spec = s
    /\ \A a \in Refs(s) : Still(a)
    /\ Intact(boot[c], s)
    /\ w.key = c => Harmless(w, s)

\* What the machine has so far is what it should get.
OnTrack(x) ==
    /\ x.pc \in {"directive", "load", "booted"}
    /\ \A n \in DOMAIN x.names : x.names[n] = Path(ReadFor(x.spec)[n])
    /\ \A n \in DOMAIN x.loaded : x.loaded[n] \in {Torn, WantedData(x.spec)[n]}

Promised(c, x) == x.settled => Undisturbed(c, x.spec) /\ OnTrack(x) /\ x.spec \in Specs
SettledInv == \A p \in Provisions : Promised(BootConfigRef[p], m[p])

-----------------------------------------------------------------------------
(* The machines and the rest of the system *)

LEMMA BootCases ==
    ASSUME [BootNext]_allVars
    PROVE  /\ [Next]_vars
           /\ \/ Next /\ Meanwhile
              \/ \E p \in Provisions : MachineStep(p) /\ UNCHANGED vars
              \/ UNCHANGED allVars
BY DEF BootNext, allVars, MachineStep, GetBootConfig, GetArtifact, Load, Retry, Report, Set

\* The rest of the system gives no machine anything.
LEMMA MeanwhileEffect ==
    ASSUME m \in [Provisions -> Machine], Meanwhile, NEW p \in Provisions
    PROVE  /\ UNCHANGED phase /\ m'[p] \in Machine
           /\ m'[p].pc = m[p].pc /\ m'[p].spec = m[p].spec
           /\ m'[p].names = m[p].names /\ m'[p].loaded = m[p].loaded
           /\ m'[p].settled => /\ m[p].settled /\ edits' = edits /\ faults' = faults
                               /\ crashes' # crashes => UNCHANGED <<boot, file>>
<1>1. PICK q : q = (m[p].settled /\ edits' = edits /\ faults' = faults
                         /\ (crashes' # crashes => UNCHANGED <<boot, file>>))
  OBVIOUS
<1>2. UNCHANGED phase /\ m'[p] = [m[p] EXCEPT !.settled = q]
  BY <1>1 DEF Meanwhile
<1>3. m[p] \in Machine /\ q \in BOOLEAN
  BY <1>1
<1>4. [m[p] EXCEPT !.settled = q] \in Machine /\ m'[p].settled = q
  BY <1>2, <1>3 DEF Machine
<1>5. m'[p].settled => /\ m[p].settled /\ edits' = edits /\ faults' = faults
                       /\ crashes' # crashes => UNCHANGED <<boot, file>>
  BY <1>1, <1>4
<1>6. /\ m'[p] \in Machine /\ m'[p].pc = m[p].pc /\ m'[p].spec = m[p].spec
      /\ m'[p].names = m[p].names /\ m'[p].loaded = m[p].loaded
  BY <1>2, <1>3, <1>4 DEF Machine
<1>7. UNCHANGED phase
  BY DEF Meanwhile
<1> QED BY <1>5, <1>6, <1>7

-----------------------------------------------------------------------------
(* Type correctness *)

LEMMA ReadForType ==
    ASSUME NEW s \in Specs
    PROVE  /\ Len(ReadFor(s)) \in {1, 2} /\ DOMAIN ReadFor(s) = 1..Len(ReadFor(s))
           /\ \A n \in 1..Len(ReadFor(s)) : ReadFor(s)[n] \in Refs(s) /\ ReadFor(s)[n] \in Artifacts
<1>1. CASE s.mode = "iso"
  <2>1. ReadFor(s) = <<s.iso>>
    BY <1>1 DEF ReadFor
  <2>2. s.iso \in Refs(s) /\ s.iso \in Artifacts
    BY <1>1, RefsType
  <2> QED BY <2>1, <2>2
<1>2. CASE s.mode = "netboot"
  <2>1. ReadFor(s) = <<s.kernel, s.initrd>>
    BY <1>2 DEF ReadFor
  <2>2. {s.kernel, s.initrd} \subseteq Refs(s) /\ {s.kernel, s.initrd} \subseteq Artifacts
    BY <1>2, RefsType
  <2> QED BY <2>1, <2>2
<1> QED BY <1>1, <1>2, RefsType

LEMMA ResolveData ==
    ASSUME TypeOK, NEW e \in Links \cup Combined \cup Extracted \cup {NoFile}, NEW f \in Resolve(e)
    PROVE  f.data \in MachineData
<1>1. CASE e \in Links
  <2>1. e.to[1] \in Artifacts /\ e.to[2] \in Files
    BY <1>1 DEF Links
  <2>2. f = file[e.to[1]][e.to[2]] /\ f # NoFile
    BY <1>1, ConstantsAssumption DEF Resolve
  <2>3. f \in File
    BY <2>1, <2>2 DEF TypeOK
  <2> QED BY <2>3 DEF File, MachineData
<1>2. CASE e \notin Links
  <2>1. e # NoFile /\ f = e
    BY <1>2 DEF Resolve
  <2>2. f \in Combined \cup Extracted
    BY <1>2, <2>1
  <2> QED BY <2>2 DEF Combined, Extracted, MachineData, Data
<1> QED BY <1>1, <1>2

LEMMA EntryOfType ==
    ASSUME NEW d \in Directory \cup Extracted \cup {NoFile}, NEW f \in Files
    PROVE  EntryOf(d, f) \subseteq Links \cup Combined
BY DEF EntryOf, Directory, Entries

LEMMA RequestedType ==
    ASSUME NEW d \in BootDir, NEW s \in Specs, NEW names \in Seq(Files),
           Len(names) = Len(ReadFor(s))
    PROVE  /\ Len(Requested(d, s, names)) = Requests(s)
           /\ \A n \in 1..Requests(s) :
                Requested(d, s, names)[n] \subseteq Links \cup Combined \cup Extracted \cup {NoFile}
<1>1. /\ d.kernel \in Directory \cup Extracted \cup {NoFile}
      /\ d.initrd \in Directory \cup Extracted \cup {NoFile}
      /\ d.vmlinuz \in Extracted \cup {NoFile} /\ d.iso \subseteq Links
  BY DEF BootDir
<1>2. CASE s.mode = "iso"
  BY <1>1, <1>2 DEF Requested, Requests
<1>3. CASE s.mode # "iso"
  <2>1. \A f \in Files : /\ EntryOf(d.kernel, f) \subseteq Links \cup Combined
                          /\ EntryOf(d.initrd, f) \subseteq Links \cup Combined
    BY <1>1, EntryOfType
  <2>2. names[1] \in Files /\ names[2] \in Files
    <3>1. Len(names) = 2
      BY <1>3 DEF ReadFor
    <3> QED BY <3>1
  <2> QED BY <1>3, <2>1, <2>2 DEF Requested, Requests
<1> QED BY <1>2, <1>3

LEMMA OffType == Off \in Machine /\ Off.pc = "off" /\ ~Off.settled
BY DEF Off, Machine

LEMMA MachineInit == BootInit => MachineInv
BY OffType DEF BootInit, MachineInv, Asking, Lifecycle!ProvisionPhases

\* A step of a machine replaces its record.
LEMMA MachineSet ==
    ASSUME MachineInv, NEW p \in Provisions, NEW x \in Machine, Asking(x), m' = [m EXCEPT ![p] = x],
           phase' \in [Provisions -> Lifecycle!ProvisionPhases]
    PROVE  MachineInv'
<1>1. m' \in [Provisions -> Machine] /\ \A q \in Provisions : m'[q] \in {x, m[q]}
  BY DEF MachineInv
<1>2. \A q \in Provisions : Asking(m'[q])
  BY <1>1 DEF MachineInv
<1>3. \A q \in Provisions : Asking(m[q])'
  BY <1>2 DEF Asking
<1> QED BY <1>1, <1>3 DEF MachineInv

LEMMA GetBootConfigType ==
    ASSUME TypeOK, MachineInv, NEW p \in Provisions, GetBootConfig(p)
    PROVE  MachineInv'
<1> DEFINE c == BootConfigRef[p]
           t == api[c].obj.spec
<1>1. c \in Configs /\ api[c].obj # Absent
  BY BootConfigRefAssumption DEF GetBootConfig
<1>2. t \in Specs
  BY <1>1 DEF TypeOK, Version, BootConfigObject
<1>3. PICK ready \in BOOLEAN : ready = Settled(c)
  <2>1. Settled(c) \in BOOLEAN
    BY DEF Settled, Serves, ServesISO, ServesNetboot, HasLink, HasCombined
  <2> QED BY <2>1
<1>4. PICK x : x = [Off EXCEPT !.pc = "directive", !.spec = t, !.settled = ready]
  OBVIOUS
<1>5. x \in Machine /\ x.pc = "directive" /\ x.spec = t /\ x.names = <<>> /\ x.loaded = <<>>
  <2>1. x = [pc |-> "directive", spec |-> t, names |-> <<>>, loaded |-> <<>>, settled |-> ready]
    BY <1>4 DEF Off
  <2>2. <<>> \in Seq(Files) /\ <<>> \in Seq(MachineData)
    OBVIOUS
  <2> QED BY <1>2, <1>3, <2>1, <2>2 DEF Machine
<1>6. m' = [m EXCEPT ![p] = x] /\ UNCHANGED phase
  BY <1>3, <1>4 DEF GetBootConfig, Set
<1>7. Asking(x)
  <2>1. PICK s \in Specs : x.spec = s
    BY <1>2, <1>5
  <2>2. Len(ReadFor(s)) \in {1, 2}
    BY ReadForType
  <2>3. Len(x.names) = 0 /\ x.pc = "directive" /\ x.loaded = <<>>
    BY <1>5
  <2>4. Len(x.names) < Len(ReadFor(s)) /\ Len(x.names) <= Len(ReadFor(s))
    BY <2>2, <2>3
  <2> QED BY <2>1, <2>3, <2>4 DEF Asking
<1> QED BY <1>5, <1>6, <1>7, MachineSet DEF MachineInv

\* What a machine reads next, and the two ways it goes on.
LEMMA GetArtifactEffect ==
    ASSUME TypeOK, MachineInv, NEW p \in Provisions, GetArtifact(p)
    PROVE  LET s == m[p].spec
               n == Len(m[p].names) + 1
               a == ReadFor(s)[n]
           IN  /\ s \in Specs /\ n \in 1..Len(ReadFor(s)) /\ a \in Refs(s) /\ Path(a) \in Files
               /\ m[p] \in Machine /\ m[p].pc = "directive" /\ m[p].loaded = <<>>
               /\ UNCHANGED phase
               /\ \/ arts[a].phase = "none" /\ m' = [m EXCEPT ![p] = [m[p] EXCEPT !.pc = "failed"]]
                  \/ m' = [m EXCEPT ![p] = [m[p] EXCEPT !.names = Append(m[p].names, Path(a)),
                                !.pc = IF n = Len(ReadFor(s)) THEN "load" ELSE "directive"]]
<1> DEFINE s == m[p].spec
           n == Len(m[p].names) + 1
           a == ReadFor(s)[n]
<1>1. m[p] \in Machine /\ m[p].pc = "directive" /\ Asking(m[p])
  BY DEF GetArtifact, MachineInv
<1>2. s \in Specs /\ n \in Nat /\ m[p].names \in Seq(Files) /\ m[p].loaded = <<>>
  BY <1>1 DEF Asking, Machine
<1>3. n \in 1..Len(ReadFor(s)) /\ a \in Refs(s) /\ a \in Artifacts
  BY <1>1, <1>2, ReadForType DEF Asking
<1>4. Path(a) \in Files
  BY <1>3, ArtifactState
<1>5. Len(Append(m[p].names, Path(a))) = n
  BY <1>2
<1>6. /\ UNCHANGED phase
      /\ \/ arts[a].phase = "none" /\ m' = [m EXCEPT ![p] = [m[p] EXCEPT !.pc = "failed"]]
         \/ m' = [m EXCEPT ![p] = [m[p] EXCEPT !.names = Append(m[p].names, Path(a)),
                       !.pc = IF n = Len(ReadFor(s)) THEN "load" ELSE "directive"]]
  <2>1. CASE arts[a].phase = "none" /\ Set(p, [m[p] EXCEPT !.pc = "failed"])
    BY <2>1 DEF Set
  <2>2. CASE Set(p, [m[p] EXCEPT !.names = Append(m[p].names, Path(a)),
                        !.pc = IF Len(Append(m[p].names, Path(a))) = Len(ReadFor(s))
                               THEN "load" ELSE m[p].pc])
    BY <1>1, <1>5, <2>2 DEF Set
  <2> QED BY <2>1, <2>2 DEF GetArtifact
<1> QED BY <1>1, <1>2, <1>3, <1>4, <1>6

LEMMA GetArtifactType ==
    ASSUME TypeOK, MachineInv, NEW p \in Provisions, GetArtifact(p)
    PROVE  MachineInv'
<1>1. PICK x \in Machine, t \in Specs : x = m[p] /\ t = x.spec
  BY GetArtifactEffect
<1>2. PICK n \in 1..Len(ReadFor(t)) : n = Len(x.names) + 1
  BY <1>1, GetArtifactEffect
<1>3. PICK f \in Files : f = Path(ReadFor(t)[n])
  BY <1>1, <1>2, GetArtifactEffect
<1>4. phase' \in [Provisions -> Lifecycle!ProvisionPhases] /\ Len(ReadFor(t)) \in {1, 2}
  BY GetArtifactEffect, ReadForType DEF MachineInv
<1>5. CASE m' = [m EXCEPT ![p] = [x EXCEPT !.pc = "failed"]]
  <2>1. PICK y : y = [x EXCEPT !.pc = "failed"]
    OBVIOUS
  <2>2. y \in Machine /\ Asking(y)
    BY <2>1 DEF Machine, Asking
  <2> QED BY <1>4, <1>5, <2>1, <2>2, MachineSet
<1>6. CASE m' = [m EXCEPT ![p] = [x EXCEPT !.names = Append(x.names, f),
                    !.pc = IF n = Len(ReadFor(t)) THEN "load" ELSE "directive"]]
  <2>1. PICK y : y = [x EXCEPT !.names = Append(x.names, f),
                          !.pc = IF n = Len(ReadFor(t)) THEN "load" ELSE "directive"]
    OBVIOUS
  <2>2. x.names \in Seq(Files) /\ x.loaded = <<>>
    BY <1>1, GetArtifactEffect DEF Machine
  <2>3. Append(x.names, f) \in Seq(Files) /\ Len(Append(x.names, f)) = n
    BY <1>2, <2>2
  <2>4. /\ y \in Machine /\ y.spec = t /\ y.loaded = <<>> /\ Len(y.names) = n
        /\ y.pc = IF n = Len(ReadFor(t)) THEN "load" ELSE "directive"
    BY <1>1, <2>1, <2>2, <2>3 DEF Machine
  <2>5. Asking(y)
    BY <1>2, <1>4, <2>4 DEF Asking, Requests
  <2> QED BY <1>4, <1>6, <2>1, <2>4, <2>5, MachineSet
<1> QED BY <1>1, <1>2, <1>3, <1>5, <1>6, GetArtifactEffect

\* What a machine loads next, and the two ways it goes on.
LEMMA LoadEffect ==
    ASSUME TypeOK, MachineInv, NEW p \in Provisions, Load(p)
    PROVE  LET s     == m[p].spec
               n     == Len(m[p].loaded) + 1
               paths == Requested(boot[BootConfigRef[p]], s, m[p].names)
               found == UNION {Resolve(e) : e \in paths[n]}
           IN  /\ s \in Specs /\ n \in 1..Requests(s) /\ found \subseteq {f \in found : f.data \in MachineData}
               /\ m[p] \in Machine /\ m[p].pc = "load" /\ boot[BootConfigRef[p]] \in BootDir
               /\ UNCHANGED phase
               /\ \/ found = {} /\ m' = [m EXCEPT ![p] = [m[p] EXCEPT !.pc = "failed"]]
                  \/ \E f \in found :
                        m' = [m EXCEPT ![p] = [m[p] EXCEPT !.loaded = Append(m[p].loaded, f.data),
                                    !.pc = IF n = Requests(s) THEN "booted" ELSE "load"]]
<1> DEFINE s     == m[p].spec
           n     == Len(m[p].loaded) + 1
           paths == Requested(boot[BootConfigRef[p]], s, m[p].names)
           found == UNION {Resolve(e) : e \in paths[n]}
<1>1. m[p] \in Machine /\ m[p].pc = "load" /\ Asking(m[p]) /\ m[p].loaded \in Seq(MachineData)
  BY DEF Load, MachineInv, Machine
<1>2. /\ s \in Specs /\ n \in 1..Requests(s)
      /\ m[p].names \in Seq(Files) /\ Len(m[p].names) = Len(ReadFor(s))
  BY <1>1 DEF Asking, Requests, Machine
<1>3. boot[BootConfigRef[p]] \in BootDir
  BY BootConfigRefAssumption DEF TypeOK
<1>4. Len(paths) = Requests(s) /\ paths[n] \subseteq Links \cup Combined \cup Extracted \cup {NoFile}
  BY <1>2, <1>3, RequestedType
<1>5. \A f \in found : f.data \in MachineData
  BY <1>4, ResolveData
<1>6. \A d : Len(Append(m[p].loaded, d)) = n
  <2>1. \A d : m[p].loaded \in Seq(MachineData \cup {d})
    BY <1>1
  <2> QED BY <2>1
<1>7. /\ UNCHANGED phase
      /\ \/ found = {} /\ m' = [m EXCEPT ![p] = [m[p] EXCEPT !.pc = "failed"]]
         \/ \E f \in found :
               m' = [m EXCEPT ![p] = [m[p] EXCEPT !.loaded = Append(m[p].loaded, f.data),
                           !.pc = IF n = Requests(s) THEN "booted" ELSE "load"]]
  <2>1. CASE found = {} /\ Set(p, [m[p] EXCEPT !.pc = "failed"])
    BY <2>1 DEF Set
  <2>2. CASE \E f \in found :
                Set(p, [m[p] EXCEPT !.loaded = Append(m[p].loaded, f.data),
                        !.pc = IF Len(Append(m[p].loaded, f.data)) = Len(paths)
                               THEN "booted" ELSE m[p].pc])
    BY <1>1, <1>4, <1>6, <2>2 DEF Set
  <2> QED BY <2>1, <2>2 DEF Load
<1> QED BY <1>1, <1>2, <1>3, <1>5, <1>7

LEMMA LoadType ==
    ASSUME TypeOK, MachineInv, NEW p \in Provisions, Load(p)
    PROVE  MachineInv'
<1>1. PICK x \in Machine, t \in Specs : x = m[p] /\ t = x.spec
  BY LoadEffect
<1>2. PICK n \in 1..Requests(t) : n = Len(x.loaded) + 1
  BY <1>1, LoadEffect
<1>3. phase' \in [Provisions -> Lifecycle!ProvisionPhases] /\ Requests(t) \in {2, 3} /\ x.pc = "load"
  BY <1>1, LoadEffect DEF MachineInv, Requests
<1>4. CASE m' = [m EXCEPT ![p] = [x EXCEPT !.pc = "failed"]]
  <2>1. PICK y : y = [x EXCEPT !.pc = "failed"]
    OBVIOUS
  <2>2. y \in Machine /\ Asking(y)
    BY <2>1 DEF Machine, Asking
  <2> QED BY <1>3, <1>4, <2>1, <2>2, MachineSet
<1>5. ASSUME NEW d \in MachineData,
             m' = [m EXCEPT ![p] = [x EXCEPT !.loaded = Append(x.loaded, d),
                        !.pc = IF n = Requests(t) THEN "booted" ELSE "load"]]
      PROVE  MachineInv'
  <2>1. PICK y : y = [x EXCEPT !.loaded = Append(x.loaded, d),
                          !.pc = IF n = Requests(t) THEN "booted" ELSE "load"]
    OBVIOUS
  <2>2. x.loaded \in Seq(MachineData) /\ Asking(x)
    BY <1>1 DEF Machine, MachineInv
  <2>3. Append(x.loaded, d) \in Seq(MachineData) /\ Len(Append(x.loaded, d)) = n
    BY <1>2, <2>2
  <2>4. /\ y \in Machine /\ y.spec = t /\ y.names = x.names /\ Len(y.loaded) = n
        /\ y.pc = IF n = Requests(t) THEN "booted" ELSE "load"
    BY <1>1, <2>1, <2>3 DEF Machine
  <2>5. Asking(y)
    BY <1>1, <1>2, <1>3, <2>2, <2>4 DEF Asking
  <2> QED BY <1>3, <1>5, <2>1, <2>4, <2>5, MachineSet
<1>6. \/ m' = [m EXCEPT ![p] = [x EXCEPT !.pc = "failed"]]
      \/ \E d \in MachineData :
            m' = [m EXCEPT ![p] = [x EXCEPT !.loaded = Append(x.loaded, d),
                       !.pc = IF n = Requests(t) THEN "booted" ELSE "load"]]
  BY <1>1, <1>2, LoadEffect
<1> QED BY <1>4, <1>5, <1>6

\* A machine that starts over, or has reported.
LEMMA OffSet ==
    ASSUME MachineInv, NEW p \in Provisions, Retry(p) \/ Report(p)
    PROVE  m' = [m EXCEPT ![p] = Off] /\ phase' \in [Provisions -> Lifecycle!ProvisionPhases]
BY DEF Retry, Report, Set, MachineInv, Lifecycle!Start, Lifecycle!Move, Lifecycle!ProvisionPhases

LEMMA MachineStepType == TypeOK /\ MachineInv /\ [BootNext]_allVars => MachineInv'
<1> SUFFICES ASSUME TypeOK, MachineInv, [BootNext]_allVars
             PROVE  MachineInv'
  OBVIOUS
<1>1. ASSUME Meanwhile
      PROVE  MachineInv'
  <2>1. m \in [Provisions -> Machine]
    BY DEF MachineInv
  <2>2. /\ UNCHANGED phase
        /\ \A p \in Provisions : /\ m'[p] \in Machine
                                 /\ m'[p].pc = m[p].pc /\ m'[p].spec = m[p].spec
                                 /\ m'[p].names = m[p].names /\ m'[p].loaded = m[p].loaded
    BY <1>1, <2>1, MeanwhileEffect DEF Meanwhile
  <2>3. m' \in [Provisions -> Machine]
    BY <1>1, <2>2 DEF Meanwhile
  <2>4. \A p \in Provisions : Asking(m[p])'
    BY <2>2 DEF MachineInv, Asking
  <2> QED BY <2>2, <2>3, <2>4 DEF MachineInv
<1>2. ASSUME NEW p \in Provisions, MachineStep(p)
      PROVE  MachineInv'
  <2>1. CASE Retry(p) \/ Report(p)
    <3>1. Asking(Off)
      BY OffType DEF Asking
    <3> QED BY <2>1, <3>1, OffSet, OffType, MachineSet
  <2> QED BY <1>2, <2>1, GetBootConfigType, GetArtifactType, LoadType DEF MachineStep
<1>3. CASE UNCHANGED allVars
  BY <1>3 DEF allVars, MachineInv, Asking
<1> QED BY <1>1, <1>2, <1>3, BootCases

LEMMA BootInitType == BootInit => TypeInv
BY TypeInit DEF BootInit

\* A machine's record stays well typed: whatever it reads of a BootConfig that
\* others change meanwhile (BootDirectiveForMAC), the names are file names and
\* the files it loads hold data of artifacts, at most damaged.
THEOREM MachineTypeCorrect == BootSpec => []MachineTypeOK
<1>1. BootInit => TypeInv /\ MachineInv
  BY BootInitType, MachineInit
<1>2. TypeInv /\ MachineInv /\ [BootNext]_allVars => (TypeInv /\ MachineInv)'
  BY TypeStep, MachineStepType, BootCases DEF TypeInv
<1>3. MachineInv => MachineTypeOK
  BY DEF MachineInv, MachineTypeOK, Machine, MachineData
<1> QED BY <1>1, <1>2, <1>3, PTL DEF BootSpec

-----------------------------------------------------------------------------
(* What a step leaves alone while users are quiet and no call fails *)

\* While users are quiet and no call fails.
LEMMA NothingFails ==
    ASSUME TypeOK, edits' = edits, faults' = faults
    PROVE  ~UserEdit /\ ~Fault
<1>1. edits \in Nat /\ faults \in Nat
  BY BoundsAssumption DEF TypeOK
<1> QED BY <1>1 DEF UserEdit, Fault

\* A write of another artifact's object.
LEMMA PublishedAway ==
    ASSUME TypeOK, NEW a \in Artifacts, NEW b \in Artifacts, b # a, NEW rev, NEW ph,
           PublishArtifact(b, rev, ph)
    PROVE  arts'[a] = arts[a] /\ artEvents'[a] = artEvents[a]
BY DEF PublishArtifact, TypeOK

\* The controller of the artifacts works on others, and begins with none that
\* is Ready with its file.
LEMMA ArtifactStill ==
    ASSUME TypeOK, NEW a \in Artifacts, Still(a), artCache[a] = arts[a], ArtifactStep,
           edits' = edits, faults' = faults
    PROVE  /\ arts'[a] = arts[a] /\ artEvents'[a] = artEvents[a]
           /\ file'[a][Path(a)] = file[a][Path(a)]
           /\ job'.pc = "idle" \/ job'.key # a
<1> DEFINE Goal == /\ arts'[a] = arts[a] /\ artEvents'[a] = artEvents[a]
                   /\ file'[a][Path(a)] = file[a][Path(a)]
                   /\ job'.pc = "idle" \/ job'.key # a
<1>1. ~Fault /\ arts[a].phase = "Ready" /\ Matching(a)
  BY NothingFails DEF Still
<1>2. ASSUME NEW b \in Artifacts, Verify(b)
      PROVE  Goal
  <2>1. b # a
    BY <1>1, <1>2 DEF Verify, Matching
  <2>2. job'.key = b
    BY <1>2 DEF Verify, Begin
  <2> QED BY <1>2, <2>1, <2>2 DEF Verify, artVars
<1>3. ASSUME NEW b \in Artifacts, VerifyMatch(b)
      PROVE  Goal
  <2>1. b # a /\ \E rev, ph : PublishArtifact(b, rev, ph)
    BY <1>1, <1>3 DEF VerifyMatch, SetPhase
  <2>2. arts'[a] = arts[a] /\ artEvents'[a] = artEvents[a]
    BY <2>1, PublishedAway
  <2> QED BY <1>3, <2>2 DEF VerifyMatch, fileVars, NoJob
<1>4. ASSUME NEW b \in Artifacts, StartDownload(b)
      PROVE  Goal
  <2>1. Present(b) = NoFile
    BY <1>1, <1>4 DEF StartDownload
  <2>2. b # a
    BY <1>1, <2>1 DEF Matching, Matches, Present, Path
  <2>3. UNCHANGED artVars \/ \E rev, ph : PublishArtifact(b, rev, ph)
    BY <1>4 DEF StartDownload, SetDownloading, SetPhase
  <2>4. arts'[a] = arts[a] /\ artEvents'[a] = artEvents[a]
    BY <2>2, <2>3, PublishedAway DEF artVars
  <2>5. job'.key = b
    BY <1>4 DEF StartDownload, Begin
  <2> QED BY <1>4, <2>2, <2>4, <2>5 DEF StartDownload
<1>5. ASSUME job.pc # "idle"
      PROVE  /\ job.key # a /\ job.key \in Artifacts /\ job.name \in Files /\ job \in Jobs
             /\ \A x : file' = [file EXCEPT ![job.key][job.name] = x] => file'[a] = file[a]
  <2>1. job.key # a /\ job.key \in Artifacts /\ job.name \in Files /\ job \in Jobs
    BY <1>5, JobType DEF Still
  <2> QED BY <2>1 DEF TypeOK
<1>6. CASE Discard
  BY <1>5, <1>6 DEF Discard, artVars, NoJob
<1>7. CASE Refetch
  <2>1. job.pc # "idle" /\ UNCHANGED <<artVars, file>>
    BY <1>7 DEF Refetch
  <2>2. job' = NoJob \/ \E v : job' = [job EXCEPT !.pc = "write", !.read = v]
    BY <1>7 DEF Refetch
  <2>3. ASSUME NEW v, job' = [job EXCEPT !.pc = "write", !.read = v]
        PROVE  job'.key # a
    BY <1>5, <2>1, <2>3 DEF Jobs
  <2>4. job' = NoJob \/ job'.key # a
    BY <2>2, <2>3
  <2>5. job'.pc = "idle" \/ job'.key # a
    BY <2>4 DEF NoJob
  <2> QED BY <2>1, <2>5 DEF artVars
<1>8. CASE WriteTmp
  <2>1. job.pc # "idle" /\ UNCHANGED <<artVars, file>>
    BY <1>8 DEF WriteTmp
  <2>2. \E x : job' = [job EXCEPT !.pc = "rename", !.file = x]
    BY <1>8 DEF WriteTmp
  <2>3. job'.key # a
    BY <1>5, <2>1, <2>2 DEF Jobs
  <2> QED BY <2>1, <2>3 DEF artVars
<1>9. CASE RenameTmp
  <2>1. job.pc # "idle" /\ UNCHANGED artVars /\ job' = [job EXCEPT !.pc = "finish"]
        /\ file' = [file EXCEPT ![job.key][job.name] = job.file]
    BY <1>9 DEF RenameTmp
  <2>2. job'.key # a /\ file'[a] = file[a]
    BY <1>5, <2>1 DEF Jobs
  <2> QED BY <2>1, <2>2 DEF artVars
<1>10. CASE EndDownload
  <2>1. /\ job.pc # "idle" /\ UNCHANGED file /\ job' = NoJob
        /\ UNCHANGED artVars \/ \E rev, ph : PublishArtifact(job.key, rev, ph)
    BY <1>10 DEF EndDownload, SetPhase
  <2>2. arts'[a] = arts[a] /\ artEvents'[a] = artEvents[a]
    BY <1>5, <2>1, PublishedAway DEF artVars
  <2> QED BY <2>1, <2>2 DEF NoJob
<1> QED BY <1>2, <1>3, <1>4, <1>6, <1>7, <1>8, <1>9, <1>10 DEF ArtifactStep

\* An artifact that is still stays so while users are quiet and no call fails.
LEMMA StillKept ==
    ASSUME TypeInv, CaughtInv, [Next]_vars, edits' = edits, faults' = faults,
           crashes' # crashes => UNCHANGED <<boot, file>>, NEW a \in Artifacts, Still(a)
    PROVE  /\ arts'[a] = arts[a] /\ artEvents'[a] = {}
           /\ file'[a][Path(a)] = file[a][Path(a)]
           /\ job'.pc = "idle" \/ job'.key # a
<1>0. TypeOK /\ artEvents[a] = {} /\ (job.pc = "idle" \/ job.key # a) /\ artCache[a] = arts[a]
  BY DEF TypeInv, Still, CaughtInv, ArtifactCaught
<1>1. CASE UNCHANGED <<artVars, fileVars>>
  BY <1>0, <1>1 DEF artVars, fileVars
<1>2. CASE AssemblingStep
  BY <1>1, <1>2, AssemblingFrame
<1>3. CASE SetReady \/ SetPending \/ SetError
  BY <1>1, <1>3 DEF SetReady, SetPending, SetError, Finish
<1>4. CASE \E c \in Configs : Reconcile(c) \/ Deliver(c) \/ Elapse(c)
  BY <1>1, <1>4 DEF Reconcile, Deliver, Elapse
<1>5. CASE \E c \in Configs : Delete(c) \/ \E s \in Specs : Create(c, s) \/ Edit(c, s)
  BY <1>1, <1>5 DEF Delete, Create, Edit, Submit
<1>6. CASE ChangeArtifact
  <2>1. ~UserEdit /\ ~Fault
    BY <1>0, NothingFails
  <2>2. ArtifactStep
    BY <1>6, <2>1 DEF ChangeArtifact, ArtifactAction, FailDownload, FailStat, SubmitArtifact
  <2> QED BY <1>0, <2>2, ArtifactStill
<1>7. ASSUME NEW b \in Artifacts, DeliverArtifact(b)
      PROVE  UNCHANGED <<arts, fileVars>> /\ artEvents'[a] = {}
  BY <1>0, <1>7 DEF DeliverArtifact, TypeOK
<1>8. CASE Restart
  <2>1. crashes' # crashes
    <3>1. crashes \in Nat
      BY <1>0, BoundsAssumption DEF TypeOK
    <3> QED BY <1>8, <3>1 DEF Restart
  <2> QED BY <1>8, <2>1 DEF Restart, NoJob
<1>9. CASE UNCHANGED vars
  BY <1>1, <1>9 DEF vars, artVars, fileVars
<1> QED BY <1>0, <1>2, <1>3, <1>4, <1>5, <1>6, <1>7, <1>8, <1>9, NextCases DEF fileVars

\* The artifacts of a spec that is undisturbed stay as they are.
Calm(s) == \A a \in Refs(s) : /\ Still(a)
                              /\ arts'[a] = arts[a] /\ artEvents'[a] = {}
                              /\ file'[a][Path(a)] = file[a][Path(a)]
                              /\ job'.pc = "idle" \/ job'.key # a

LEMMA CalmStep ==
    ASSUME TypeInv, CaughtInv, [Next]_vars, edits' = edits, faults' = faults,
           crashes' # crashes => UNCHANGED <<boot, file>>,
           NEW s \in Specs, \A a \in Refs(s) : Still(a)
    PROVE  Calm(s)
<1>1. Refs(s) \subseteq Artifacts
  BY RefsType
<1> QED BY <1>1, StillKept DEF Calm

LEMMA CalmPaths ==
    ASSUME NEW s \in Specs, Calm(s), NEW a \in Refs(s)
    PROVE  /\ Path(a)' = Path(a) /\ Present(a)' = Present(a) /\ Content(a)' = Content(a)
           /\ Here(a)' = Here(a) /\ Still(a)'
<1>1. arts'[a] = arts[a] /\ file'[a][Path(a)] = file[a][Path(a)] /\ Still(a)
  BY DEF Calm
<1>2. Path(a)' = Path(a)
  BY <1>1 DEF Path, PathOf
<1>3. Present(a)' = Present(a)
  BY <1>1, <1>2 DEF Present
<1>4. Matching(a)'
  BY <1>1, <1>2, <1>3 DEF Still, Matching, Matches, Present, Path
<1>5. Still(a)'
  BY <1>1, <1>4 DEF Calm, Still
<1> QED BY <1>1, <1>2, <1>3, <1>5 DEF Content, Here

\* A directory that serves the spec goes on doing so.
LEMMA IntactKept ==
    ASSUME NEW s \in Specs, Calm(s), NEW d, Intact(d, s)
    PROVE  Intact(d, s)'
<1>1. CASE s.mode = "iso"
  <2>1. s.iso \in Refs(s)
    BY <1>1, RefsType
  <2> QED BY <1>1, <2>1, CalmPaths DEF Intact, IntactISO
<1>2. CASE s.mode # "iso"
  <2>1. s.kernel \in Refs(s) /\ s.initrd \in Refs(s) /\ (s.firmware # None => s.firmware \in Refs(s))
    BY <1>2, RefsType
  <2>2. \A a \in {s.kernel, s.initrd} : Path(a)' = Path(a) /\ Here(a)' = Here(a)
    BY <2>1, CalmPaths
  <2>3. s.firmware # None => \A a \in {s.initrd, s.firmware} :
            Present(a)' = Present(a) /\ Content(a)' = Content(a)
    BY <2>1, CalmPaths
  <2> QED BY <1>2, <2>2, <2>3 DEF Intact, IntactNetboot
<1> QED BY <1>1, <1>2

\* What the versions of a BootConfig say stays so unless a user changes it.
LEMMA KnownKept ==
    ASSUME TypeInv, VersionsInv, [Next]_vars, edits' = edits, NEW c \in Configs, NEW s \in Specs,
           \A u \in Known(c) : u.obj # Absent /\ u.obj.spec = s
    PROVE  \A u \in Known(c)' : u.obj # Absent /\ u.obj.spec = s
<1>0. TypeOK /\ edits \in Nat
  BY BoundsAssumption DEF TypeInv, TypeOK
<1>1. ASSUME Known(c)' \subseteq Known(c)
      PROVE  \A u \in Known(c)' : u.obj # Absent /\ u.obj.spec = s
  BY <1>1
<1>2. CASE AssemblingStep
  <2>1. UNCHANGED <<api, events, cache>> /\ w'.key = w.key /\ w'.bc = w.bc
    BY <1>2, AssemblingFrame DEF configVars
  <2> QED BY <1>1, <2>1 DEF Known
<1>3. ASSUME NEW step, NEW ph \in Phases, Finish(step, ph), step # "idle"
      PROVE  \A u \in Known(c)' : u.obj # Absent /\ u.obj.spec = s
  <2>1. UNCHANGED cache /\ w'.key = None /\ w.pc # "idle" /\ None # c
    BY <1>0, <1>3, NoKey DEF Finish
  <2>2. CASE UNCHANGED <<api, events>>
    BY <1>1, <2>1, <2>2 DEF Known
  <2>3. CASE Accept(ph)
    <3>1. PICK o \in BootConfigObject, t \in Messages : o = w.bc.obj /\ t = w.message
      BY <1>0, <2>1, Working
    <3>2. PICK x : x = [o EXCEPT !.phase = ph, !.message = t]
      OBVIOUS
    <3>3. x \in BootConfigObject /\ x.spec = o.spec /\ x # Absent
      <4>1. Absent \notin BootConfigObject
        BY ConstantsAssumption
      <4> QED BY <3>2, <4>1 DEF BootConfigObject
    <3>4. Publish(w.key, x)
      BY <2>3, <3>1, <3>2 DEF Accept
    <3>5. CASE w.key # c
      <4>1. api'[c] = api[c] /\ events'[c] = events[c]
        BY <1>0, <3>4, <3>5 DEF Publish, TypeOK
      <4> QED BY <1>1, <2>1, <4>1 DEF Known
    <3>6. CASE w.key = c
      <4>1. PICK v : v = [rv |-> api[c].rv + 1, obj |-> x]
        OBVIOUS
      <4>2. api'[c] = v /\ events'[c] = events[c] \cup {v}
        BY <1>0, <3>4, <3>6, <4>1 DEF Publish, TypeOK
      <4>3. v.obj # Absent /\ v.obj.spec = s
        <5>1. w.bc.obj.spec = s
          BY <3>6 DEF Known
        <5> QED BY <3>1, <3>3, <4>1, <5>1
      <4>4. Known(c)' \subseteq Known(c) \cup {v}
        BY <2>1, <4>2 DEF Known
      <4> QED BY <4>3, <4>4
    <3> QED BY <3>5, <3>6
  <2> QED BY <1>3, <2>2, <2>3 DEF Finish, UpdateErr, configVars
<1>4. CASE SetReady \/ SetPending \/ SetError
  BY <1>3, <1>4 DEF SetReady, SetPending, SetError, Phases
<1>5. ASSUME NEW d \in Configs, Reconcile(d)
      PROVE  Known(c)' \subseteq Known(c)
  BY <1>0, <1>5, ReconcileEffect DEF Known, configVars
<1>6. ASSUME NEW d \in Configs, Deliver(d) \/ Elapse(d)
      PROVE  Known(c)' \subseteq Known(c)
  BY <1>0, <1>6 DEF Known, Deliver, Elapse, configVars, TypeOK
<1>7. ASSUME NEW d \in Configs, Delete(d) \/ \E t \in Specs : Create(d, t) \/ Edit(d, t)
      PROVE  FALSE
  <2>1. PICK obj : Submit(d, obj)
    BY <1>7 DEF Delete, Create, Edit
  <2> QED BY <1>0, <2>1 DEF Submit, UserEdit
<1>8. CASE ChangeArtifact \/ \E a \in Artifacts : DeliverArtifact(a)
  BY <1>0, <1>1, <1>8, ChangeEffect DEF Known, DeliverArtifact, configVars
<1>9. CASE Restart
  <2>1. UNCHANGED api /\ cache' = api /\ events'[c] = {} /\ w'.key # c
    BY <1>0, <1>9, NoKey DEF Restart
  <2> QED BY <1>1, <2>1 DEF Known
<1>10. CASE UNCHANGED vars
  BY <1>1, <1>10 DEF vars, Known
<1> QED BY <1>1, <1>2, <1>4, <1>5, <1>6, <1>7, <1>8, <1>9, <1>10, NextCases

-----------------------------------------------------------------------------
(* A reconcile of a directory that serves its spec *)

\* What such a reconcile sees.
LEMMA UndisturbedState ==
    ASSUME TypeInv, w.pc \in DOMAIN Doing, NEW c \in Configs, w.key = c, NEW s, Undisturbed(c, s)
    PROVE  /\ spec = s /\ s \in Specs /\ s.mode \in {"netboot", "iso"}
           /\ w \in Reconciling /\ w.pc # "idle" /\ dir = boot[c] /\ dir \in BootDir
           /\ Intact(dir, s) /\ Harmless(w, s) /\ now \in Nat /\ faults \in Nat
           /\ \A a \in Refs(s) :
                /\ a \in Artifacts /\ w.name[a] = Path(a) /\ LinkTo(a) = Here(a) /\ Here(a) \in Links
                /\ FileOf(a) = Present(a) /\ Present(a) \in File /\ Present(a).data = Content(a)
<1>1. TypeOK /\ w.pc # "idle" /\ now \in Nat /\ faults \in Nat
  BY DoingSteps, BoundsAssumption DEF TypeInv, TypeOK, NetbootSteps, ISOSteps
<1>2. w \in Reconciling /\ spec \in Specs /\ dir \in BootDir
  BY <1>1, Working
<1>3. spec = s /\ dir = boot[c] /\ Intact(dir, s) /\ Harmless(w, s)
  BY DEF Undisturbed, Known, spec, dir
<1>4. ASSUME NEW a \in Refs(s)
      PROVE  /\ a \in Artifacts /\ w.name[a] = Path(a) /\ LinkTo(a) = Here(a) /\ Here(a) \in Links
             /\ FileOf(a) = Present(a) /\ Present(a) \in File /\ Present(a).data = Content(a)
  <2>1. a \in Artifacts /\ w.name[a] = Path(a) /\ Matching(a)
    BY <1>2, <1>3, RefsType DEF Undisturbed, Still, Harmless
  <2>2. Path(a) \in Files
    BY <1>1, <2>1, ArtifactState
  <2>3. FileOf(a) = Present(a) /\ LinkTo(a) = Here(a) /\ Here(a) \in Links
    BY <2>1, <2>2 DEF FileOf, Present, LinkTo, Here, Link, Links
  <2>4. Present(a) \in File /\ Present(a).data = Content(a)
    BY <1>1, <2>1, <2>2 DEF Matching, Matches, Present, Path, Content, TypeOK
  <2> QED BY <2>1, <2>3, <2>4
<1> QED BY <1>1, <1>2, <1>3, <1>4, RefsType

LEMMA NoFault ==
    ASSUME faults \in Nat, faults' = faults
    PROVE  /\ ~Fault
           /\ \A missing \in BOOLEAN : TakenFor(missing) => missing
BY DEF Fault, TakenFor

LEMMA GoneHarmless ==
    ASSUME TypeInv, w.pc \in DOMAIN Doing, NEW s, Harmless(w, s), NEW next \in Steps, Goto(next),
           next \in {"kernel", "initrd", "concat", "extract", "extractKernel", "extractInitrd",
                     "linkISO", "setReady"},
           next = "initrd" => s.firmware = None,
           next \in {"extractKernel", "extractInitrd"} => w.copied[1] = Content(s.iso)
    PROVE  Harmless(w', s)
BY Gone DEF Harmless, TypeInv

\* mkdir finds both directories.
LEMMA MkdirHarmless ==
    ASSUME TypeInv, NEW c \in Configs, w.key = c, NEW s, Undisturbed(c, s), Mkdir
    PROVE  Intact(boot'[c], s) /\ Harmless(w', s)
<1>1. w.pc = "mkdir" /\ w.pc \in DOMAIN Doing /\ TypeOK
  BY DoingSteps DEF Mkdir, Assembling, TypeInv
<1>2. /\ spec = s /\ s.mode \in {"netboot", "iso"} /\ w.pc # "idle" /\ dir = boot[c] /\ dir \in BootDir
      /\ Intact(dir, s) /\ Harmless(w, s)
  BY <1>1, UndisturbedState
<1>3. {"kernel", "extract"} \subseteq Steps
  BY DoingSteps DEF Steps, NetbootSteps, ISOSteps
<1>4. CASE s.mode = "iso"
  BY <1>1, <1>2, <1>3, <1>4, GoneHarmless DEF Mkdir
<1>5. CASE s.mode = "netboot"
  <2>1. dir.kernel \in Directory /\ dir.initrd \in Directory
    BY <1>2, <1>5 DEF Intact, IntactNetboot
  <2>2. dir.kernel # NoFile /\ dir.initrd # NoFile /\ dir.initrd \notin Extracted
    BY <2>1, Kinds
  <2>3. Goto("kernel") /\ SetDir([dir EXCEPT !.kernel = dir.kernel, !.initrd = dir.initrd])
    BY <1>2, <1>5, <2>2 DEF Mkdir, NewDirectory
  <2>4. [dir EXCEPT !.kernel = dir.kernel, !.initrd = dir.initrd] = dir
    BY <1>2 DEF BootDir
  <2>5. boot'[c] = dir
    BY <1>1, <1>2, <2>3, <2>4, BootSet
  <2> QED BY <1>1, <1>2, <1>3, <2>3, <2>5, GoneHarmless
<1> QED BY <1>2, <1>4, <1>5

\* ensureSymlink finds the link it would make.
LEMMA LinkHarmless ==
    ASSUME TypeInv, NEW c \in Configs, w.key = c, NEW s, Undisturbed(c, s), faults' = faults,
           KernelLink \/ InitrdLink
    PROVE  Intact(boot'[c], s) /\ Harmless(w', s)
<1>1. w.pc \in {"kernel", "initrd"} /\ w.pc \in DOMAIN Doing /\ w.pc \in NetbootSteps
  BY DoingSteps DEF KernelLink, InitrdLink, EnsureSymlink, Assembling, NetbootSteps
<1>2. /\ spec = s /\ s.mode = "netboot" /\ s \in Specs /\ dir = boot[c] /\ faults \in Nat
      /\ Intact(dir, s) /\ Harmless(w, s)
      /\ \A a \in Refs(s) : LinkTo(a) = Here(a) /\ w.name[a] = Path(a)
  BY <1>1, UndisturbedState, NetbootState
<1>3. s.kernel \in Refs(s) /\ s.initrd \in Refs(s)
  BY <1>2, RefsType
<1>4. IntactNetboot(dir, s)
  BY <1>2 DEF Intact
<1>5. CASE KernelLink
  <2>1. Linked("kernel")
    BY <1>2, <1>3, <1>4 DEF IntactNetboot, Linked
  <2>2. UNCHANGED boot /\ Goto(InitrdStep)
    BY <1>2, <1>5, <2>1, NoFault DEF KernelLink, EnsureSymlink, Clean
  <2>3. InitrdStep \in {"initrd", "concat"} /\ (InitrdStep = "initrd" => s.firmware = None)
    BY <1>2 DEF InitrdStep
  <2>4. {"initrd", "concat"} \subseteq Steps
    BY DoingSteps DEF Steps, NetbootSteps
  <2> QED BY <1>1, <1>2, <2>2, <2>3, <2>4, GoneHarmless
<1>6. CASE InitrdLink
  <2>1. w.pc = "initrd"
    BY <1>6 DEF InitrdLink, EnsureSymlink, Assembling
  <2>2. Linked("initrd")
    BY <1>2, <1>3, <1>4, <2>1 DEF IntactNetboot, Harmless, Linked
  <2>3. UNCHANGED boot /\ Goto("setReady")
    BY <1>2, <1>6, <2>2, NoFault DEF InitrdLink, EnsureSymlink, Clean
  <2> QED BY <1>1, <1>2, <2>3, GoneHarmless DEF Steps
<1> QED BY <1>5, <1>6

\* concatenateFiles finds a file that is newer than its sources.
LEMMA ConcatHarmless ==
    ASSUME TypeInv, NEW c \in Configs, w.key = c, NEW s, Undisturbed(c, s), faults' = faults, Concat
    PROVE  Intact(boot'[c], s) /\ Harmless(w', s)
<1>1. w.pc = "concat" /\ w.pc \in DOMAIN Doing /\ w.pc \in NetbootSteps /\ w.pc \in CombineSteps
  BY DoingSteps DEF Concat, Assembling, NetbootSteps, CombineSteps
<1>2. /\ spec = s /\ s.mode = "netboot" /\ s \in Specs /\ dir = boot[c] /\ faults \in Nat
      /\ Intact(dir, s) /\ Harmless(w, s)
      /\ \A a \in Refs(s) : FileOf(a) = Present(a) /\ Present(a) \in File /\ w.name[a] = Path(a)
  BY <1>1, UndisturbedState, NetbootState
<1>3. s.firmware # None
  BY <1>1, <1>2 DEF TypeInv, Prepared, spec
<1>4. s.initrd \in Refs(s) /\ s.firmware \in Refs(s)
  BY <1>2, <1>3, RefsType
<1>5. PICK e \in Combined :
        /\ e = dir.initrd.entry[Path(s.initrd)]
        /\ \A a \in {s.initrd, s.firmware} : Present(a).mtime < e.mtime
  BY <1>2, <1>3 DEF Intact, IntactNetboot
<1>6. Dst = {e}
  <2>1. e # NoFile /\ e \notin Links
    BY Kinds
  <2> QED BY <1>2, <1>4, <1>5, <2>1 DEF Dst, Resolve
<1>7. NoFile \notin Sources
  <2>1. NoFile \notin File
    BY ConstantsAssumption
  <2> QED BY <1>2, <1>4, <2>1 DEF Sources
<1>8. ~ \A f \in Dst : NoFile \notin Sources /\ \E src \in Sources : f.mtime <= src.mtime
  <2>1. \A src \in Sources : src.mtime \in Nat /\ src.mtime < e.mtime
    BY <1>2, <1>4, <1>5 DEF Sources, File
  <2>2. e.mtime \in Nat
    BY DEF Combined
  <2> QED BY <1>6, <2>1, <2>2
<1>9. Goto("setReady") /\ UNCHANGED boot
  BY <1>2, <1>7, <1>8, NoFault DEF Concat, Clean
<1> QED BY <1>1, <1>2, <1>9, GoneHarmless DEF Steps

\* extractFromISO keeps what it finds, or opens the image that is there.
LEMMA ExtractHarmless ==
    ASSUME TypeInv, NEW c \in Configs, w.key = c, NEW s, Undisturbed(c, s), Extract
    PROVE  Intact(boot'[c], s) /\ Harmless(w', s)
<1>1. w.pc = "extract" /\ w.pc \in DOMAIN Doing /\ w.pc \in ISOSteps /\ TypeOK
  BY DoingSteps DEF Extract, Assembling, ISOSteps, TypeInv
<1>2. /\ spec = s /\ s.mode = "iso" /\ s \in Specs /\ dir = boot[c] /\ w \in Reconciling
      /\ Intact(dir, s) /\ Harmless(w, s) /\ s.iso \in Refs(s)
      /\ \A a \in Refs(s) : FileOf(a) = Present(a) /\ Present(a) \in File /\ Present(a).data = Content(a)
  BY <1>1, UndisturbedState, ISOState
<1>3. FileOf(s.iso) # NoFile /\ FileOf(s.iso).data = Content(s.iso)
  <2>1. NoFile \notin File
    BY ConstantsAssumption
  <2> QED BY <1>2, <2>1
<1>4. UNCHANGED boot
  BY DEF Extract
<1>5. CASE Goto("linkISO")
  <2>1. "linkISO" \in Steps
    BY DoingSteps DEF Steps, ISOSteps
  <2> QED BY <1>1, <1>2, <1>4, <1>5, <2>1, GoneHarmless
<1>6. CASE w' = [w EXCEPT !.pc = "extractKernel", !.copied = <<FileOf(s.iso).data>>]
  <2>1. w'.pc = "extractKernel" /\ w'.copied = <<Content(s.iso)>> /\ w'.name = w.name
    BY <1>2, <1>3, <1>6 DEF Reconciling
  <2> QED BY <1>1, <1>2, <1>4, <2>1 DEF Harmless
<1> QED BY <1>2, <1>3, <1>5, <1>6 DEF Extract

\* extractFile puts the same content in place again.
LEMMA OutputHarmless ==
    ASSUME TypeInv, NEW c \in Configs, w.key = c, NEW s, Undisturbed(c, s),
           ExtractKernel \/ ExtractInitrd
    PROVE  Intact(boot'[c], s) /\ Harmless(w', s)
<1>1. /\ w.pc \in {"extractKernel", "extractInitrd"} /\ w.pc \in DOMAIN Doing
      /\ w.pc \in ISOSteps /\ TypeOK /\ (Stamp => now' \in Nat)
  BY DoingSteps, StampType DEF ExtractKernel, ExtractInitrd, Assembling, ISOSteps, TypeInv
<1>2. /\ spec = s /\ s.mode = "iso" /\ s \in Specs /\ dir = boot[c] /\ w \in Reconciling
      /\ w.pc # "idle" /\ dir \in BootDir
      /\ Intact(dir, s) /\ Harmless(w, s) /\ s.iso \in Refs(s)
      /\ s.kernelPath \in ISOPaths /\ s.initrdPath \in ISOPaths
  BY <1>1, UndisturbedState, ISOState
<1>3. /\ Here(s.iso) \in dir.iso
      /\ dir.vmlinuz \in Extracted /\ dir.vmlinuz.data \in {Torn, <<Content(s.iso), s.kernelPath>>}
      /\ dir.initrd \in Extracted /\ dir.initrd.data \in {Torn, <<Content(s.iso), s.initrdPath>>}
  BY <1>2 DEF Intact, IntactISO
<1>4. w.copied[1] = Content(s.iso) /\ Content(s.iso) \in Data
  <2>1. s.iso \in Artifacts /\ TypeOK
    BY <1>2, RefsType DEF TypeInv
  <2> QED BY <1>1, <1>2, <2>1, ArtifactState DEF Harmless, Content, Data
<1>5. ASSUME NEW path \in ISOPaths, Stamp
      PROVE  Output(path) \in Extracted /\ Output(path).data = <<Content(s.iso), path>>
  <2>1. now' \in Nat
    BY <1>1, <1>5
  <2> QED BY <1>4, <2>1 DEF Output, Extracted
<1>6. {"extractInitrd", "linkISO"} \subseteq Steps
  BY DoingSteps DEF Steps, ISOSteps
<1>7. CASE ExtractKernel
  <2>1. Stamp /\ SetDir([dir EXCEPT !.vmlinuz = Output(spec.kernelPath)]) /\ Goto("extractInitrd")
    BY <1>7 DEF ExtractKernel
  <2>2. PICK x \in Extracted : x = Output(spec.kernelPath) /\ x.data = <<Content(s.iso), s.kernelPath>>
    BY <1>2, <1>5, <2>1
  <2>3. PICK d : d = [dir EXCEPT !.vmlinuz = x]
    OBVIOUS
  <2>4. d.vmlinuz = x /\ d.initrd = dir.initrd /\ d.iso = dir.iso
    BY <1>2, <2>3 DEF BootDir
  <2>5. boot'[c] = d
    <3>1. SetDir(d)
      BY <2>1, <2>2, <2>3
    <3> QED BY <1>1, <1>2, <3>1, BootSet
  <2>6. Intact(d, s)
    BY <1>2, <1>3, <2>2, <2>4 DEF Intact, IntactISO
  <2> QED BY <1>1, <1>2, <1>4, <1>6, <2>1, <2>5, <2>6, GoneHarmless
<1>8. CASE ExtractInitrd
  <2>1. dir.initrd \notin Directory
    BY <1>3, Kinds
  <2>2. Stamp /\ SetDir([dir EXCEPT !.initrd = Output(spec.initrdPath)]) /\ Goto("linkISO")
    BY <1>8, <2>1 DEF ExtractInitrd
  <2>3. PICK x \in Extracted : x = Output(spec.initrdPath) /\ x.data = <<Content(s.iso), s.initrdPath>>
    BY <1>2, <1>5, <2>2
  <2>4. PICK d : d = [dir EXCEPT !.initrd = x]
    OBVIOUS
  <2>5. d.vmlinuz = dir.vmlinuz /\ d.initrd = x /\ d.iso = dir.iso
    BY <1>2, <2>4 DEF BootDir
  <2>6. boot'[c] = d
    <3>1. SetDir(d)
      BY <2>2, <2>3, <2>4
    <3> QED BY <1>1, <1>2, <3>1, BootSet
  <2>7. Intact(d, s)
    BY <1>2, <1>3, <2>3, <2>5 DEF Intact, IntactISO
  <2> QED BY <1>1, <1>2, <1>6, <2>2, <2>6, <2>7, GoneHarmless
<1> QED BY <1>7, <1>8

\* ensureFileSymlink finds the link it would make.
LEMMA LinkISOHarmless ==
    ASSUME TypeInv, NEW c \in Configs, w.key = c, NEW s, Undisturbed(c, s), faults' = faults, LinkISO
    PROVE  Intact(boot'[c], s) /\ Harmless(w', s)
<1>1. w.pc = "linkISO" /\ w.pc \in DOMAIN Doing /\ w.pc \in ISOSteps
  BY DoingSteps DEF LinkISO, Assembling, ISOSteps
<1>2. /\ spec = s /\ s.mode = "iso" /\ dir = boot[c] /\ faults \in Nat
      /\ Intact(dir, s) /\ Harmless(w, s) /\ s.iso \in Refs(s)
      /\ \A a \in Refs(s) : LinkTo(a) = Here(a)
  BY <1>1, UndisturbedState, ISOState
<1>3. LinkTo(spec.iso) \in dir.iso
  BY <1>2 DEF Intact, IntactISO
<1>4. Goto("setReady") /\ UNCHANGED boot
  BY <1>2, <1>3, NoFault DEF LinkISO
<1> QED BY <1>1, <1>2, <1>4, GoneHarmless DEF Steps

\* No step of a reconcile that finds everything as it should be harms it.
LEMMA AssemblingHarmless ==
    ASSUME TypeInv, NEW c \in Configs, w.key = c, NEW s, Undisturbed(c, s), faults' = faults,
           AssemblingStep
    PROVE  Intact(boot'[c], s) /\ Harmless(w', s)
<1>1. w.pc \in DOMAIN Doing
  BY AssemblingFrame
<1>2. Harmless(w, s) /\ faults \in Nat
  BY <1>1, UndisturbedState
<1>3. ~(LinkKernel \/ LinkInitrd \/ CopyInitrd \/ CopyFirmware \/ WriteCombined \/ Install
         \/ SymlinkISO)
  BY <1>2 DEF Harmless, LinkKernel, LinkInitrd, Symlink, CopyInitrd, CopyFirmware, WriteCombined,
         Install, SymlinkISO, Assembling
<1>4. ~CallFails
  BY <1>2, NoFault DEF CallFails
<1> QED BY <1>3, <1>4, MkdirHarmless, LinkHarmless, ConcatHarmless, ExtractHarmless,
           OutputHarmless, LinkISOHarmless DEF AssemblingStep

LEMMA UndisturbedSpec ==
    ASSUME TypeOK, NEW c \in Configs, NEW s, Undisturbed(c, s)
    PROVE  s \in Specs /\ Refs(s) \subseteq Artifacts
<1>1. api[c] \in Version /\ api[c].obj # Absent /\ api[c].obj.spec = s
  BY KnownType DEF Undisturbed, Known
<1>2. s \in Specs
  BY <1>1 DEF Version, BootConfigObject
<1> QED BY <1>2, RefsType

\* The same for every step of the system.
LEMMA NextHarmless ==
    ASSUME TypeInv, CaughtInv, [Next]_vars, edits' = edits, faults' = faults,
           crashes' # crashes => UNCHANGED <<boot, file>>,
           NEW c \in Configs, NEW s, Undisturbed(c, s)
    PROVE  Intact(boot'[c], s) /\ (w'.key = c => Harmless(w', s))
<1>0. /\ TypeOK /\ edits \in Nat /\ crashes \in Nat /\ Intact(boot[c], s)
      /\ w.key = c => Harmless(w, s)
  BY BoundsAssumption DEF TypeInv, TypeOK, Undisturbed
<1>1. ASSUME boot'[c] = boot[c], w'.key = c => w' = w
      PROVE  Intact(boot'[c], s) /\ (w'.key = c => Harmless(w', s))
  BY <1>0, <1>1
<1>2. CASE AssemblingStep
  <2>1. CASE w.key = c
    BY <1>2, <2>1, AssemblingHarmless
  <2>2. CASE w.key # c
    BY <1>1, <1>2, <2>2, AssemblingFrame
  <2> QED BY <2>1, <2>2
<1>3. CASE SetReady \/ SetPending \/ SetError
  <2>1. UNCHANGED boot /\ w'.key # c
    BY <1>0, <1>3, NoKey DEF SetReady, SetPending, SetError, Finish
  <2> QED BY <1>1, <2>1
<1>4. ASSUME NEW d \in Configs, Reconcile(d)
      PROVE  Intact(boot'[c], s) /\ (w'.key = c => Harmless(w', s))
  <2>1. CASE d # c
    BY <1>0, <1>1, <1>4, <2>1, ReconcileEffect, NoKey
  <2>2. CASE d = c
    <3>1. cache[c].obj # Absent /\ cache[c].obj.spec = s
      BY DEF Undisturbed, Known
    <3>2. /\ UNCHANGED boot /\ w'.pc \in {"mkdir", "setPending", "setError"}
          /\ w'.pc = "mkdir" => \A a \in Refs(s) : w'.name[a] = Filename[a][artCache[a].rev]
      BY <1>4, <2>2, <3>1, ReconcileEffect
    <3>3. \A a \in Refs(s) : Filename[a][artCache[a].rev] = Path(a)
      BY <1>0, UndisturbedSpec DEF Undisturbed, Still, CaughtInv, ArtifactCaught, Path, PathOf
    <3>4. w'.pc \in DOMAIN Doing => w'.pc = "mkdir"
      BY <3>2, DoingSteps DEF NetbootSteps, ISOSteps
    <3> QED BY <1>0, <3>2, <3>3, <3>4 DEF Harmless
  <2> QED BY <2>1, <2>2
<1>5. CASE OtherStep
  BY <1>0, <1>1, <1>5, OtherEffect
<1>6. CASE Restart
  <2>1. w'.key # c /\ crashes' # crashes
    BY <1>0, <1>6, NoKey DEF Restart
  <2> QED BY <1>1, <2>1
<1> QED BY <1>2, <1>3, <1>4, <1>5, <1>6, NextCases DEF OtherStep

\* As long as users are quiet and no call fails, a directory that serves its
\* spec goes on doing so.
LEMMA UndisturbedStep ==
    ASSUME TypeInv, VersionsInv, CaughtInv, [Next]_vars,
           edits' = edits, faults' = faults, crashes' # crashes => UNCHANGED <<boot, file>>,
           NEW c \in Configs, NEW s, Undisturbed(c, s)
    PROVE  Undisturbed(c, s)' /\ Calm(s) /\ s \in Specs
<1>1. s \in Specs
  BY UndisturbedSpec DEF TypeInv
<1>2. Calm(s)
  BY <1>1, CalmStep DEF Undisturbed
<1>3. \A a \in Refs(s) : Still(a)'
  BY <1>1, <1>2, CalmPaths
<1>4. \A u \in Known(c)' : u.obj # Absent /\ u.obj.spec = s
  BY <1>1, KnownKept DEF Undisturbed
<1>5. Intact(boot[c], s)'
  <2>1. PICK d : d = boot'[c] /\ Intact(d, s)
    BY NextHarmless
  <2>2. Intact(d, s)'
    BY <1>1, <1>2, <2>1, IntactKept
  <2> QED BY <2>1, <2>2 DEF Intact, IntactISO, IntactNetboot
<1>6. w'.key = c => Harmless(w, s)'
  <2>1. w'.key = c => Harmless(w', s)
    BY NextHarmless
  <2>2. \A a \in Refs(s) : Path(a)' = Path(a) /\ Content(a)' = Content(a)
    BY <1>1, <1>2, CalmPaths
  <2>3. w'.pc \in {"extractKernel", "extractInitrd"} /\ w'.key = c => s.iso \in Refs(s)
    <3>1. TypeInv'
      BY TypeStep
    <3>2. w'.key = c => w'.bc.obj.spec = s
      BY <1>4 DEF Known
    <3> QED BY <1>1, <3>1, <3>2, RefsType DEF TypeInv, Prepared, ISOSteps
  <2> QED BY <2>1, <2>2, <2>3 DEF Harmless
<1> QED BY <1>1, <1>2, <1>3, <1>4, <1>5, <1>6 DEF Undisturbed

-----------------------------------------------------------------------------
(* What a machine gets *)

LEMMA PairOfSingles ==
    ASSUME NEW a, NEW q, NEW b, NEW r, NEW x \in ({a} \X {q}) \X ({b} \X {r})
    PROVE  x = <<<<a, q>>, <<b, r>>>>
<1>1. x[1] \in {a} \X {q} /\ x[2] \in {b} \X {r} /\ x = <<x[1], x[2]>>
  OBVIOUS
<1>2. x[1] = <<a, q>>
  BY <1>1
<1>3. x[2] = <<b, r>>
  BY <1>1
<1> QED BY <1>1, <1>2, <1>3

\* A directory that is settled serves its spec, and so it will.
LEMMA SettledServes ==
    ASSUME TypeInv, FreshInv, NEW c \in Configs, Settled(c)
    PROVE  Undisturbed(c, api[c].obj.spec) /\ api[c].obj.spec \in Specs
<1> DEFINE s == api[c].obj.spec
           d == boot[c]
<1>0. TypeOK /\ CaughtInv /\ RestedInv
  BY DEF TypeInv, FreshInv
<1>1. ReadyNow(c) /\ Quiet(c)
  BY DEF Settled
<1>2. /\ api[c].obj # Absent /\ w.key # c /\ events[c] = {}
      /\ \A a \in Refs(s) : Still(a)
  BY <1>1 DEF ReadyNow, Quiet, Still
<1>3. s \in Specs
  BY <1>0, <1>2 DEF TypeOK, Version, BootConfigObject
<1>4. \A u \in Known(c) : u.obj # Absent /\ u.obj.spec = s
  BY <1>0, <1>2 DEF Known, CaughtInv, Caught
<1>5. CASE s.mode = "iso"
  <2>1. s.iso \in Refs(s)
    BY <1>3, <1>5, RefsType
  <2>2. ServesISO(d, s, WantedRevision)
    BY <1>5 DEF Settled, Serves
  <2>3. \E r \in {arts[s.iso].rev} : Link(s.iso, Filename[s.iso][r]) \in d.iso
    BY <2>2 DEF ServesISO, WantedRevision
  <2>4. Here(s.iso) \in d.iso
    BY <2>3 DEF Here, Path, PathOf
  <2>5. d.vmlinuz \in Extracted /\ d.initrd \in Extracted
    BY <2>2 DEF ServesISO, WantedRevision
  <2>6. \E r \in {arts[s.iso].rev} : /\ d.vmlinuz.data \in {Torn, <<<<s.iso, r>>, s.kernelPath>>}
                                     /\ d.initrd.data \in {Torn, <<<<s.iso, r>>, s.initrdPath>>}
    BY <2>2 DEF ServesISO, WantedRevision
  <2>7. Intact(d, s)
    BY <1>5, <2>4, <2>5, <2>6 DEF Intact, IntactISO, Content
  <2> QED BY <1>2, <1>3, <1>4, <2>7 DEF Undisturbed
<1>6. CASE s.mode # "iso"
  <2>1. s.mode = "netboot" /\ s.initrd \in Refs(s) /\ (s.firmware # None => s.firmware \in Refs(s))
    BY <1>3, <1>6, RefsType
  <2>2. ServesNetboot(d, s, WantedRevision)
    BY <1>6 DEF Settled, Serves
  <2>3. d.kernel \in Directory /\ d.initrd \in Directory
    BY <2>2 DEF ServesNetboot, HasLink
  <2>4. d.kernel.entry[Path(s.kernel)] = Here(s.kernel)
    BY <2>2 DEF ServesNetboot, HasLink, WantedRevision, Here, Path, PathOf
  <2>5. CASE s.firmware = None
    <3>1. d.initrd.entry[Path(s.initrd)] = Here(s.initrd)
      BY <2>2, <2>5 DEF ServesNetboot, HasLink, WantedRevision, Here, Path, PathOf
    <3>2. Intact(d, s)
      BY <1>6, <2>3, <2>4, <2>5, <3>1 DEF Intact, IntactNetboot
    <3> QED BY <1>2, <1>3, <1>4, <3>2 DEF Undisturbed
  <2>6. CASE s.firmware # None
    <3>1. PICK e : e = d.initrd.entry[Path(s.initrd)]
      OBVIOUS
    <3>2. /\ e \in Combined
          /\ e.data # Torn => e.data \in
                ({s.initrd} \X {arts[s.initrd].rev}) \X ({s.firmware} \X {arts[s.firmware].rev})
      BY <2>2, <2>6, <3>1 DEF ServesNetboot, HasCombined, WantedRevision, Path, PathOf
    <3>3. e.data \in {Torn, <<Content(s.initrd), Content(s.firmware)>>}
      BY <3>2, PairOfSingles DEF Content
    <3>4. Outlasts(d, s)
      <4>1. Resting(c) /\ WithFirmware(s)
        BY <1>1, <1>2, <2>1, <2>6 DEF Resting, NoEvents, WithFirmware, Still
      <4> QED BY <1>0, <4>1 DEF RestedInv, Rested
    <3>5. \A a \in {s.initrd, s.firmware} : Present(a).mtime < e.mtime
      <4>1. \A a \in {s.initrd, s.firmware} : Older(a, e.mtime)
        BY <2>3, <3>1, <3>2, <3>4 DEF Outlasts
      <4> QED BY <1>2, <2>1, <2>6, <4>1 DEF Older, Still
    <3>6. Intact(d, s)
      BY <1>6, <2>3, <2>4, <2>6, <3>1, <3>2, <3>3, <3>5 DEF Intact, IntactNetboot
    <3> QED BY <1>2, <1>3, <1>4, <3>6 DEF Undisturbed
  <2> QED BY <2>5, <2>6
<1> QED BY <1>5, <1>6

\* The file an artifact's link leads to.
LEMMA ResolveHere ==
    ASSUME TypeOK, NEW a \in Artifacts, Matching(a)
    PROVE  Here(a) \in Links /\ Named(Here(a)) = Path(a) /\ Resolve(Here(a)) = {Present(a)}
           /\ Here(a) # NoFile /\ Present(a).data = Content(a)
<1>1. Path(a) \in Files
  BY ArtifactState
<1>2. Here(a) \in Links /\ Here(a).to = <<a, Path(a)>>
  BY <1>1 DEF Here, Link, Links
<1>3. Here(a) # NoFile
  BY <1>2, Kinds
<1>4. Resolve(Here(a)) = {file[a][Path(a)]} \ {NoFile}
  BY <1>2, <1>3 DEF Resolve
<1>5. Present(a) # NoFile /\ Present(a).data = Content(a)
  BY DEF Matching, Matches, Present, Path, Content
<1> QED BY <1>2, <1>3, <1>4, <1>5 DEF Named, Present

\* One file, with the right content.
Right(found, data) == found # {} /\ \A f \in found : f.data \in {Torn, data}

LEMMA RightOne ==
    ASSUME NEW E, NEW e, E = {e}, NEW f, Resolve(e) = {f}, NEW data, f.data \in {Torn, data}
    PROVE  Right(UNION {Resolve(x) : x \in E}, data)
<1>1. f \in UNION {Resolve(x) : x \in E}
  OBVIOUS
<1>2. \A g \in UNION {Resolve(x) : x \in E} : g = f
  OBVIOUS
<1>3. PICK F : F = UNION {Resolve(x) : x \in E}
  OBVIOUS
<1>4. Right(F, data)
  BY <1>1, <1>2, <1>3 DEF Right
<1> QED BY <1>3, <1>4

\* The entry of a directory is the link to a present file.
LEMMA LinkRight ==
    ASSUME TypeOK, NEW a \in Artifacts, Matching(a), NEW d \in Directory,
           d.entry[Path(a)] = Here(a)
    PROVE  Right(UNION {Resolve(e) : e \in EntryOf(d, Path(a))}, Content(a))
<1>1. PICK E, e, f, data :
        E = EntryOf(d, Path(a)) /\ e = Here(a) /\ f = Present(a) /\ data = Content(a)
  OBVIOUS
<1>2. E = {e}
  BY <1>1, ResolveHere DEF EntryOf
<1>3. Resolve(e) = {f} /\ f.data \in {Torn, data}
  BY <1>1, ResolveHere
<1>4. UNION {Resolve(x) : x \in E} = {f}
  BY <1>2, <1>3
<1> QED BY <1>1, <1>3, <1>4 DEF Right

LEMMA NetbootFound ==
    ASSUME TypeOK, NEW s \in Specs, s.mode = "netboot", NEW d, IntactNetboot(d, s),
           \A a \in Refs(s) : Matching(a),
           NEW names, names[1] = Path(s.kernel), names[2] = Path(s.initrd), NEW n \in {1, 2}
    PROVE  Right(UNION {Resolve(e) : e \in Requested(d, s, names)[n]}, WantedData(s)[n])
<1>1. s.kernel \in Refs(s) /\ s.initrd \in Refs(s) /\ Refs(s) \subseteq Artifacts
  BY RefsType
<1>2. /\ Requested(d, s, names)[1] = EntryOf(d.kernel, Path(s.kernel))
      /\ Requested(d, s, names)[2] = EntryOf(d.initrd, Path(s.initrd))
  BY DEF Requested
<1>3. /\ WantedData(s)[1] = Content(s.kernel)
      /\ WantedData(s)[2] = IF s.firmware = None THEN Content(s.initrd)
                            ELSE <<Content(s.initrd), Content(s.firmware)>>
  BY DEF WantedData, Content
<1>4. CASE n = 1
  <2>1. d.kernel \in Directory /\ d.kernel.entry[Path(s.kernel)] = Here(s.kernel)
    BY DEF IntactNetboot
  <2> QED BY <1>1, <1>2, <1>3, <1>4, <2>1, LinkRight
<1>5. CASE n = 2 /\ s.firmware = None
  <2>1. d.initrd \in Directory /\ d.initrd.entry[Path(s.initrd)] = Here(s.initrd)
    BY <1>5 DEF IntactNetboot
  <2> QED BY <1>1, <1>2, <1>3, <1>5, <2>1, LinkRight
<1>6. CASE n = 2 /\ s.firmware # None
  <2>1. PICK e \in Combined :
          /\ d.initrd \in Directory /\ e = d.initrd.entry[Path(s.initrd)]
          /\ e.data \in {Torn, <<Content(s.initrd), Content(s.firmware)>>}
    BY <1>6 DEF IntactNetboot
  <2>2. e # NoFile /\ e \notin Links
    BY Kinds
  <2>3. Resolve(e) = {e}
    BY <2>1, <2>2 DEF Resolve
  <2>4. EntryOf(d.initrd, Path(s.initrd)) = {e}
    BY <2>1, <2>2 DEF EntryOf
  <2>5. Requested(d, s, names)[n] = {e} /\ e.data \in {Torn, WantedData(s)[n]}
    BY <1>2, <1>3, <1>6, <2>1, <2>4
  <2> QED BY <2>3, <2>5, RightOne
<1> QED BY <1>4, <1>5, <1>6

LEMMA ISOFound ==
    ASSUME TypeOK, NEW s \in Specs, s.mode = "iso", NEW d \in BootDir, IntactISO(d, s),
           \A l, k \in d.iso : l.to[2] = k.to[2] => l = k,
           Matching(s.iso), NEW names, names[1] = Path(s.iso), NEW n \in {1, 2, 3}
    PROVE  Right(UNION {Resolve(e) : e \in Requested(d, s, names)[n]}, WantedData(s)[n])
<1>1. s.iso \in Artifacts
  BY RefsType
<1>2. /\ Requested(d, s, names)[1] = {d.vmlinuz}
      /\ Requested(d, s, names)[2] = {d.initrd} \ Directory
      /\ Requested(d, s, names)[3] = {l \in d.iso : Named(l) = Path(s.iso)}
  BY DEF Requested
<1>3. /\ WantedData(s)[1] = <<Content(s.iso), s.kernelPath>>
      /\ WantedData(s)[2] = <<Content(s.iso), s.initrdPath>>
      /\ WantedData(s)[3] = Content(s.iso)
  BY DEF WantedData, Content
<1>4. ASSUME NEW e \in Extracted
      PROVE  Resolve(e) = {e} /\ e \notin Directory
  <2>1. e # NoFile /\ e \notin Links /\ e \notin Directory
    BY Kinds DEF Extracted, Links
  <2> QED BY <2>1 DEF Resolve
<1>5. CASE n = 1
  <2>1. d.vmlinuz \in Extracted /\ d.vmlinuz.data \in {Torn, <<Content(s.iso), s.kernelPath>>}
    BY DEF IntactISO
  <2>2. Requested(d, s, names)[n] = {d.vmlinuz} /\ d.vmlinuz.data \in {Torn, WantedData(s)[n]}
    BY <1>2, <1>3, <1>5, <2>1
  <2> QED BY <1>4, <2>1, <2>2, RightOne
<1>6. CASE n = 2
  <2>1. d.initrd \in Extracted /\ d.initrd.data \in {Torn, <<Content(s.iso), s.initrdPath>>}
    BY DEF IntactISO
  <2>2. Requested(d, s, names)[2] = {d.initrd}
    BY <1>2, <1>4, <2>1
  <2>3. Requested(d, s, names)[n] = {d.initrd} /\ d.initrd.data \in {Torn, WantedData(s)[n]}
    BY <1>3, <1>6, <2>1, <2>2
  <2> QED BY <1>4, <2>1, <2>3, RightOne
<1>7. CASE n = 3
  <2>1. Here(s.iso) \in d.iso /\ d.iso \subseteq Links
    BY DEF IntactISO, BootDir
  <2>2. Named(Here(s.iso)) = Path(s.iso) /\ Resolve(Here(s.iso)) = {Present(s.iso)}
        /\ Present(s.iso).data = Content(s.iso)
    BY <1>1, ResolveHere
  <2>3. Requested(d, s, names)[3] = {Here(s.iso)}
    <3>1. \A l \in d.iso : Named(l) = l.to[2]
      BY <2>1 DEF Named
    <3> QED BY <1>2, <2>1, <2>2, <3>1
  <2>4. Requested(d, s, names)[n] = {Here(s.iso)} /\ Present(s.iso).data \in {Torn, WantedData(s)[n]}
    BY <1>3, <1>7, <2>2, <2>3
  <2>5. PICK E, l, f, data :
          E = Requested(d, s, names)[n] /\ l = Here(s.iso) /\ f = Present(s.iso) /\ data = WantedData(s)[n]
    OBVIOUS
  <2>6. E = {l} /\ Resolve(l) = {f} /\ f.data \in {Torn, data}
    BY <2>2, <2>4, <2>5
  <2>7. Right(UNION {Resolve(x) : x \in E}, data)
    BY <2>6, RightOne
  <2> QED BY <2>5, <2>7
<1> QED BY <1>5, <1>6, <1>7

-----------------------------------------------------------------------------
(* Boots as specified *)

LEMMA SettledInit == BootInit => SettledInv
BY OffType DEF BootInit, SettledInv, Promised

\* The names and files a machine has keep their value while all is calm.
LEMMA OnTrackKept ==
    ASSUME NEW s \in Specs, Calm(s), NEW x, x.spec = s, OnTrack(x),
           DOMAIN x.names \subseteq DOMAIN ReadFor(s)
    PROVE  OnTrack(x)'
<1>1. \A a \in Refs(s) : Path(a)' = Path(a) /\ arts'[a] = arts[a]
  BY CalmPaths DEF Calm
<1>2. \A n \in DOMAIN x.names : Path(ReadFor(s)[n])' = Path(ReadFor(s)[n])
  BY <1>1, ReadForType
<1>3. WantedData(s)' = WantedData(s)
  <2>1. CASE s.mode = "iso"
    BY <1>1, <2>1, RefsType DEF WantedData
  <2>2. CASE s.mode = "netboot"
    <3>1. /\ arts'[s.kernel] = arts[s.kernel] /\ arts'[s.initrd] = arts[s.initrd]
          /\ s.firmware # None => arts'[s.firmware] = arts[s.firmware]
      BY <1>1, <2>2, RefsType
    <3> QED BY <2>2, <3>1 DEF WantedData
  <2> QED BY <2>1, <2>2, RefsType
<1> QED BY <1>2, <1>3 DEF OnTrack

\* How many names a machine has.
LEMMA NamesBound ==
    ASSUME MachineInv, NEW p \in Provisions, m[p].pc \in {"directive", "load", "booted"}
    PROVE  DOMAIN m[p].names \subseteq DOMAIN ReadFor(m[p].spec)
<1>1. m[p].names \in Seq(Files) /\ Asking(m[p])
  BY DEF MachineInv, Machine
<1>2. m[p].spec \in Specs /\ Len(m[p].names) <= Len(ReadFor(m[p].spec))
  BY <1>1 DEF Asking
<1> QED BY <1>1, <1>2, ReadForType

LEMMA GetBootConfigSettled ==
    ASSUME TypeInv, FreshInv, MachineInv, NEW p \in Provisions, GetBootConfig(p), m'[p].settled
    PROVE  /\ Undisturbed(BootConfigRef[p], m'[p].spec) /\ m'[p].spec \in Specs
           /\ OnTrack(m'[p])
<1> DEFINE c == BootConfigRef[p]
           t == api[c].obj.spec
<1>1. c \in Configs
  BY BootConfigRefAssumption
<1>2. PICK x : x = [Off EXCEPT !.pc = "directive", !.spec = t, !.settled = Settled(c)]
  OBVIOUS
<1>3. m'[p] = x
  BY <1>2 DEF GetBootConfig, Set, MachineInv
<1>4. x.pc = "directive" /\ x.spec = t /\ x.names = <<>> /\ x.loaded = <<>>
  BY <1>2 DEF Off
<1>5. x.settled = Settled(c)
  BY <1>2 DEF Off
<1>6. Settled(c)
  BY <1>3, <1>5
<1> QED BY <1>1, <1>3, <1>4, <1>6, SettledServes DEF OnTrack

LEMMA GetArtifactSettled ==
    ASSUME TypeInv, MachineInv, NEW p \in Provisions, Promised(BootConfigRef[p], m[p]),
           GetArtifact(p), m'[p].settled
    PROVE  m[p].settled /\ m'[p].spec = m[p].spec /\ OnTrack(m'[p])
<1>1. PICK x \in Machine, t \in Specs : x = m[p] /\ t = x.spec
  BY GetArtifactEffect DEF TypeInv
<1>2. PICK n \in 1..Len(ReadFor(t)) : n = Len(x.names) + 1
  BY <1>1, GetArtifactEffect DEF TypeInv
<1>3. PICK a \in Refs(t) : a = ReadFor(t)[n]
  BY <1>1, <1>2, GetArtifactEffect DEF TypeInv
<1>4. x.loaded = <<>> /\ x.names \in Seq(Files) /\ Path(a) \in Files /\ Len(ReadFor(t)) \in {1, 2}
  BY <1>1, <1>2, <1>3, GetArtifactEffect, ReadForType DEF TypeInv, Machine
<1>5. CASE arts[a].phase = "none" /\ m' = [m EXCEPT ![p] = [x EXCEPT !.pc = "failed"]]
  <2>1. m'[p].settled = x.settled
    BY <1>1, <1>5 DEF MachineInv, Machine
  <2>2. arts[a].phase = "Ready"
    BY <1>1, <2>1 DEF Promised, Undisturbed, Still
  <2> QED BY <1>5, <2>2
<1>6. CASE m' = [m EXCEPT ![p] = [x EXCEPT !.names = Append(x.names, Path(a)),
                    !.pc = IF n = Len(ReadFor(t)) THEN "load" ELSE "directive"]]
  <2>1. PICK y : y = [x EXCEPT !.names = Append(x.names, Path(a)),
                          !.pc = IF n = Len(ReadFor(t)) THEN "load" ELSE "directive"]
    OBVIOUS
  <2>2. m'[p] = y
    BY <1>6, <2>1 DEF MachineInv
  <2>3. /\ y.settled = x.settled /\ y.spec = t /\ y.loaded = <<>> /\ y.names = Append(x.names, Path(a))
        /\ y.pc \in {"directive", "load"}
    BY <1>1, <1>4, <2>1 DEF Machine
  <2>4. x.settled /\ OnTrack(x)
    BY <1>1, <2>2, <2>3 DEF Promised
  <2>5. \A k \in DOMAIN y.names : y.names[k] = Path(ReadFor(t)[k])
    BY <1>1, <1>2, <1>3, <1>4, <2>3, <2>4 DEF OnTrack
  <2> QED BY <1>1, <2>2, <2>3, <2>4, <2>5 DEF OnTrack
<1> QED BY <1>1, <1>2, <1>3, <1>5, <1>6, GetArtifactEffect DEF TypeInv

LEMMA LoadSettled ==
    ASSUME TypeInv, LinksInv, MachineInv, NEW p \in Provisions, Promised(BootConfigRef[p], m[p]),
           Load(p), m'[p].settled
    PROVE  m[p].settled /\ m'[p].spec = m[p].spec /\ OnTrack(m'[p])
<1> DEFINE c == BootConfigRef[p]
<1>0. TypeOK /\ c \in Configs
  BY BootConfigRefAssumption DEF TypeInv
<1>1. PICK x \in Machine, t \in Specs : x = m[p] /\ t = x.spec
  BY <1>0, LoadEffect
<1>2. PICK n \in 1..Requests(t) : n = Len(x.loaded) + 1
  BY <1>0, <1>1, LoadEffect
<1>3. PICK found : found = UNION {Resolve(e) : e \in Requested(boot[c], t, x.names)[n]}
  OBVIOUS
<1>4. /\ x.pc = "load" /\ boot[c] \in BootDir /\ x.loaded \in Seq(MachineData)
      /\ \A f \in found : f.data \in MachineData
      /\ \/ found = {} /\ m' = [m EXCEPT ![p] = [x EXCEPT !.pc = "failed"]]
         \/ \E f \in found :
               m' = [m EXCEPT ![p] = [x EXCEPT !.loaded = Append(x.loaded, f.data),
                           !.pc = IF n = Requests(t) THEN "booted" ELSE "load"]]
  BY <1>0, <1>1, <1>2, <1>3, LoadEffect DEF Machine
<1>5. ASSUME x.settled
      PROVE  Right(found, WantedData(t)[n])
  <2>1. Undisturbed(c, t) /\ OnTrack(x)
    BY <1>1, <1>5 DEF Promised
  <2>2. Asking(x) /\ x.names \in Seq(Files) /\ Len(x.names) = Len(ReadFor(t))
    BY <1>1, <1>4 DEF MachineInv, Machine, Asking
  <2>3. \A k \in 1..Len(ReadFor(t)) : x.names[k] = Path(ReadFor(t)[k])
    BY <1>1, <2>1, <2>2 DEF OnTrack
  <2>4. (\A a \in Refs(t) : Matching(a)) /\ Intact(boot[c], t)
    BY <2>1 DEF Undisturbed, Still
  <2>5. CASE t.mode = "iso"
    <3>1. Len(ReadFor(t)) = 1 /\ ReadFor(t)[1] = t.iso /\ n \in {1, 2, 3} /\ t.iso \in Refs(t)
      BY <1>2, <2>5, RefsType DEF ReadFor, Requests
    <3>2. x.names[1] = Path(t.iso) /\ IntactISO(boot[c], t) /\ Matching(t.iso)
      BY <2>3, <2>4, <2>5, <3>1 DEF Intact
    <3>3. \A l, k \in boot[c].iso : l.to[2] = k.to[2] => l = k
      BY <1>0 DEF LinksInv, OneLink
    <3> QED BY <1>0, <1>3, <1>4, <2>5, <3>1, <3>2, <3>3, ISOFound
  <2>6. CASE t.mode = "netboot"
    <3>1. /\ Len(ReadFor(t)) = 2 /\ n \in {1, 2}
          /\ ReadFor(t)[1] = t.kernel /\ ReadFor(t)[2] = t.initrd
      BY <1>2, <2>6 DEF ReadFor, Requests
    <3>2. /\ x.names[1] = Path(t.kernel) /\ x.names[2] = Path(t.initrd)
          /\ IntactNetboot(boot[c], t)
      BY <2>3, <2>4, <2>6, <3>1 DEF Intact
    <3> QED BY <1>0, <1>3, <2>4, <2>6, <3>1, <3>2, NetbootFound
  <2> QED BY <2>5, <2>6, RefsType
<1>6. CASE found = {} /\ m' = [m EXCEPT ![p] = [x EXCEPT !.pc = "failed"]]
  <2>1. m'[p].settled = x.settled
    BY <1>1, <1>6 DEF MachineInv, Machine
  <2> QED BY <1>5, <1>6, <2>1 DEF Right
<1>7. ASSUME NEW f \in found,
             m' = [m EXCEPT ![p] = [x EXCEPT !.loaded = Append(x.loaded, f.data),
                        !.pc = IF n = Requests(t) THEN "booted" ELSE "load"]]
      PROVE  m[p].settled /\ m'[p].spec = m[p].spec /\ OnTrack(m'[p])
  <2>1. PICK y : y = [x EXCEPT !.loaded = Append(x.loaded, f.data),
                          !.pc = IF n = Requests(t) THEN "booted" ELSE "load"]
    OBVIOUS
  <2>2. m'[p] = y
    BY <1>7, <2>1 DEF MachineInv
  <2>3. /\ y.settled = x.settled /\ y.spec = t /\ y.names = x.names
        /\ y.loaded = Append(x.loaded, f.data) /\ y.pc \in {"load", "booted"}
    BY <1>1, <2>1 DEF Machine
  <2>4. x.settled /\ OnTrack(x) /\ f.data \in {Torn, WantedData(t)[n]} /\ f.data \in MachineData
    BY <1>1, <1>4, <1>5, <2>2, <2>3 DEF Promised, Right
  <2>5. \A k \in DOMAIN y.loaded : y.loaded[k] \in {Torn, WantedData(t)[k]}
    <3>1. PICK d \in MachineData : d = f.data /\ d \in {Torn, WantedData(t)[n]}
      BY <2>4
    <3>2. PICK l \in Seq(MachineData) : l = x.loaded /\ n = Len(l) + 1
      BY <1>2, <1>4
    <3>3. DOMAIN Append(l, d) = 1..n /\ Append(l, d)[n] = d /\ \A k \in DOMAIN l : Append(l, d)[k] = l[k]
      BY <3>2
    <3>4. \A k \in 1..n : k = n \/ k \in DOMAIN l
      BY <3>2
    <3>5. \A k \in DOMAIN l : l[k] \in {Torn, WantedData(t)[k]}
      BY <1>1, <2>4, <3>2 DEF OnTrack
    <3> QED BY <2>3, <3>1, <3>2, <3>3, <3>4, <3>5
  <2> QED BY <1>1, <2>2, <2>3, <2>4, <2>5 DEF OnTrack
<1> QED BY <1>4, <1>6, <1>7

\* A machine of which nothing changes but what the rest of the system does.
LEMMA MeanwhileSettled ==
    ASSUME TypeInv, VersionsInv, FreshInv, MachineInv, [Next]_vars,
           NEW p \in Provisions, Promised(BootConfigRef[p], m[p]), Meanwhile
    PROVE  Promised(BootConfigRef[p], m[p])'
<1> DEFINE c == BootConfigRef[p]
<1>0. c \in Configs /\ CaughtInv /\ m \in [Provisions -> Machine]
  BY BootConfigRefAssumption DEF FreshInv, MachineInv
<1>1. PICK x : x = m[p]
  OBVIOUS
<1>2. PICK y : y = m'[p]
  OBVIOUS
<1>3. y.pc = x.pc /\ y.spec = x.spec /\ y.names = x.names /\ y.loaded = x.loaded
  BY <1>0, <1>1, <1>2, MeanwhileEffect
<1> SUFFICES ASSUME y.settled
             PROVE  (Undisturbed(c, y.spec) /\ OnTrack(y))' /\ y.spec \in Specs
  BY <1>2 DEF Promised
<1>4. /\ x.settled /\ edits' = edits /\ faults' = faults
      /\ crashes' # crashes => UNCHANGED <<boot, file>>
  BY <1>0, <1>1, <1>2, MeanwhileEffect
<1>5. Undisturbed(c, x.spec) /\ OnTrack(x) /\ x.spec \in Specs
  BY <1>1, <1>4 DEF Promised
<1>6. Undisturbed(c, x.spec)' /\ Calm(x.spec)
  BY <1>0, <1>4, <1>5, UndisturbedStep
<1>7. OnTrack(y)
  BY <1>3, <1>5 DEF OnTrack
<1>8. DOMAIN y.names \subseteq DOMAIN ReadFor(y.spec)
  BY <1>1, <1>3, <1>5, NamesBound DEF OnTrack
<1>9. OnTrack(y)'
  BY <1>3, <1>5, <1>6, <1>7, <1>8, OnTrackKept
<1> QED BY <1>3, <1>5, <1>6, <1>9

LEMMA SettledStep ==
    ASSUME TypeInv, VersionsInv, FreshInv, LinksInv, MachineInv, SettledInv,
           [BootNext]_allVars
    PROVE  SettledInv'
<1>1. CASE Next /\ Meanwhile
  BY <1>1, MeanwhileSettled DEF SettledInv
<1>2. ASSUME UNCHANGED vars, NEW q \in Provisions, m'[q] = m[q]
      PROVE  Promised(BootConfigRef[q], m[q])'
  <2>1. PICK x : x = m[q] /\ Promised(BootConfigRef[q], x)
    BY DEF SettledInv
  <2>2. CASE x.settled
    <3>1. Undisturbed(BootConfigRef[q], x.spec) /\ x.spec \in Specs /\ OnTrack(x)
      BY <2>1, <2>2 DEF Promised
    <3>2. (Undisturbed(BootConfigRef[q], x.spec) /\ OnTrack(x))'
      BY <1>2, <3>1 DEF vars, Undisturbed, OnTrack, Known, Still, Matching, Matches, Intact, IntactISO,
         IntactNetboot, Harmless, Present, Path, PathOf, Here, Content, WantedData
    <3> QED BY <1>2, <2>1, <3>1, <3>2 DEF Promised
  <2>3. CASE ~x.settled
    BY <1>2, <2>1, <2>3 DEF Promised
  <2> QED BY <2>2, <2>3
<1>3. ASSUME NEW p \in Provisions, MachineStep(p), UNCHANGED vars, NEW q \in Provisions
      PROVE  Promised(BootConfigRef[q], m[q])'
  <2>1. CASE q # p
    <3>1. m'[q] = m[q]
      BY <1>3, <2>1, OffSet DEF MachineStep, GetBootConfig, GetArtifact, Load, Set, MachineInv
    <3> QED BY <1>2, <1>3, <3>1
  <2>2. CASE q = p
    <3>1. CASE ~m'[p].settled
      BY <2>2, <3>1 DEF Promised
    <3>2. CASE Retry(p) \/ Report(p)
      BY <2>2, <3>1, <3>2, OffSet, OffType DEF MachineInv
    <3>3. CASE (GetBootConfig(p) \/ GetArtifact(p) \/ Load(p)) /\ m'[p].settled
      <4>1. PICK y : y = m'[p]
        OBVIOUS
      <4>2. Undisturbed(BootConfigRef[p], y.spec) /\ y.spec \in Specs /\ OnTrack(y)
        BY <3>3, <4>1, GetBootConfigSettled, GetArtifactSettled, LoadSettled DEF SettledInv, Promised
      <4>3. (Undisturbed(BootConfigRef[p], y.spec) /\ OnTrack(y))'
        BY <1>3, <4>2 DEF vars, Undisturbed, OnTrack, Known, Still, Matching, Matches, Intact, IntactISO,
           IntactNetboot, Harmless, Present, Path, PathOf, Here, Content, WantedData
      <4> QED BY <2>2, <4>1, <4>2, <4>3 DEF Promised
    <3> QED BY <1>3, <3>1, <3>2, <3>3 DEF MachineStep
  <2> QED BY <2>1, <2>2
<1>4. CASE UNCHANGED allVars
  BY <1>2, <1>4 DEF allVars, SettledInv
<1> QED BY <1>1, <1>3, <1>4, BootCases DEF SettledInv

\* A machine that asks when its BootConfig is Ready and up to date boots
\* exactly the kernel and initrd of the spec, as long as no user changes
\* anything, no call fails and no power loss damages a file: whatever
\* reconcile comes in between, and wherever a restart of the manager breaks it
\* off, each of its steps finds what it would make (the shortcuts in
\* ensureSymlink, concatenateFiles, extractFromISO and ensureFileSymlink), and
\* the paths that BootDirectiveForMAC computes lead to the right files.
THEOREM MachineBootsAsSpecified == BootSpec => []BootsAsSpecified
<1> DEFINE Inv == /\ TypeInv /\ VersionsInv /\ FreshInv /\ LinksInv
                  /\ MachineInv /\ SettledInv
<1>1. BootInit => Inv
  BY TypeInit, VersionsInit, FreshInit, LinksInit, MachineInit, SettledInit DEF BootInit
<1>2. Inv /\ [BootNext]_allVars => Inv'
  <2>1. ASSUME Inv, [BootNext]_allVars
        PROVE  Inv'
    <3>1. [Next]_vars /\ TypeOK
      BY <2>1, BootCases DEF TypeInv
    <3>2. TypeInv' /\ VersionsInv' /\ FreshInv' /\ LinksInv'
      BY <2>1, <3>1, TypeStep, VersionsStep, FreshStep, LinksStep
    <3>3. MachineInv' /\ SettledInv'
      BY <2>1, <3>1, MachineStepType, SettledStep
    <3> QED BY <3>2, <3>3
  <2> QED BY <2>1
<1>3. Inv => BootsAsSpecified
  BY DEF SettledInv, Promised, OnTrack, BootsAsSpecified
<1> QED BY <1>1, <1>2, <1>3, PTL DEF BootSpec

=============================================================================
