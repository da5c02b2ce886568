--------------------------- MODULE BootConfigProofs ---------------------------
(***************************************************************************)
(* Theorems about module BootConfig, for any sets of BootConfigs,          *)
(* artifacts and files and any bounds: type correctness, and that a Ready  *)
(* BootConfig serves what its spec names, in netboot mode and in iso mode. *)
(***************************************************************************)
EXTENDS BootConfig, TLAPS

-----------------------------------------------------------------------------
(* Type correctness *)

NetbootSteps == {"kernel", "linkKernel", "initrd", "linkInitrd",
                 "concat", "copyInitrd", "copyFirmware", "write", "install"}
CombineSteps == {"concat", "copyInitrd", "copyFirmware", "write", "install"}
ISOSteps == {"extract", "extractKernel", "extractInitrd", "linkISO", "symlinkISO"}

ReadSteps == {"mkdir", "kernel", "linkKernel", "concat", "copyInitrd", "copyFirmware", "write",
              "install", "extractKernel", "extractInitrd"}

\* How many sources have been read when one of these steps begins.
Read(pc) == IF pc \in {"copyFirmware", "extractKernel", "extractInitrd"} THEN 1
            ELSE IF pc \in {"write", "install"} THEN 2 ELSE 0

\* What reconcile x relies on in the directories b.
Prepared(x, b) ==
    /\ x.pc \in {"mkdir"} \cup NetbootSteps \cup ISOSteps =>
        x.name \in [Refs(x.bc.obj.spec) -> Files]
    /\ x.pc \in NetbootSteps =>
        /\ x.bc.obj.spec.mode = "netboot"
        /\ b[x.key].kernel \in Directory /\ b[x.key].initrd \in Directory
    /\ x.pc \in CombineSteps => x.bc.obj.spec.firmware # None
    /\ x.pc \in ISOSteps => x.bc.obj.spec.mode = "iso"
    /\ x.pc \in ReadSteps => Len(x.copied) = Read(x.pc)

TypeInv == TypeOK /\ Prepared(w, boot)

LEMMA DoingSteps ==
    /\ DOMAIN Doing = {"mkdir"} \cup NetbootSteps \cup ISOSteps
    /\ \A step \in DOMAIN Doing : Doing[step] \in Calls
<1>1. DOMAIN Doing = {"mkdir", "kernel", "linkKernel", "initrd", "linkInitrd", "concat",
                      "copyInitrd", "copyFirmware", "write", "install", "extract",
                      "extractKernel", "extractInitrd", "linkISO", "symlinkISO"}
  BY DEF Doing
<1>2. DOMAIN Doing = {"mkdir"} \cup NetbootSteps \cup ISOSteps
  BY <1>1 DEF NetbootSteps, ISOSteps
<1>3. ASSUME NEW step \in DOMAIN Doing
      PROVE  Doing[step] \in {"mkdir", "kernel symlink", "initrd symlink", "concatenate",
                              "extract", "iso symlink"}
  <2>1. /\ Doing["mkdir"] = "mkdir" /\ Doing["kernel"] = "kernel symlink"
        /\ Doing["linkKernel"] = "kernel symlink" /\ Doing["initrd"] = "initrd symlink"
        /\ Doing["linkInitrd"] = "initrd symlink" /\ Doing["concat"] = "concatenate"
        /\ Doing["copyInitrd"] = "concatenate" /\ Doing["copyFirmware"] = "concatenate"
        /\ Doing["write"] = "concatenate" /\ Doing["install"] = "concatenate"
        /\ Doing["extract"] = "extract"
        /\ Doing["extractKernel"] = "extract" /\ Doing["extractInitrd"] = "extract"
        /\ Doing["linkISO"] = "iso symlink" /\ Doing["symlinkISO"] = "iso symlink"
    BY DEF Doing
  <2> QED BY <1>1, <1>3, <2>1, Zenon
<1> QED BY <1>2, <1>3 DEF Calls

LEMMA Working ==
    ASSUME TypeOK, w.pc # "idle"
    PROVE  /\ w \in Reconciling /\ w.pc \in Steps /\ w.key \in Configs
           /\ w.bc.rv \in Nat /\ w.bc.obj \in BootConfigObject /\ spec \in Specs
           /\ w.message \in Messages /\ w.copied \in Seq(Data) /\ w.stamp \in Nat
           /\ dir \in BootDir /\ boot \in [Configs -> BootDir]
BY DEF TypeOK, Idle, Reconciling, BootConfigObject, spec, dir

\* The two ways a step ends.
LEMMA GotoType ==
    ASSUME NEW x \in Reconciling, NEW step \in Steps
    PROVE  /\ [x EXCEPT !.pc = step] \in Reconciling
           /\ [x EXCEPT !.pc = step].pc = step /\ [x EXCEPT !.pc = step].key = x.key
           /\ [x EXCEPT !.pc = step].bc = x.bc /\ [x EXCEPT !.pc = step].name = x.name
           /\ [x EXCEPT !.pc = step].copied = x.copied
           /\ [x EXCEPT !.pc = step].stamp = x.stamp
BY DEF Reconciling

LEMMA FailType ==
    ASSUME TypeOK, w.pc \in DOMAIN Doing, Fail
    PROVE  w' \in Reconciling /\ w'.pc = "setError" /\ w'.key = w.key /\ w'.bc = w.bc
<1>1. w.pc # "idle"
  BY DoingSteps DEF NetbootSteps, ISOSteps
<1>2. w \in Reconciling
  BY <1>1, Working
<1>3. <<Doing[w.pc]>> \in Messages /\ "setError" \in Steps
  BY DoingSteps DEF Messages, Steps
<1>4. ASSUME NEW m \in Messages, NEW x \in Reconciling
      PROVE  /\ [x EXCEPT !.pc = "setError", !.message = m] \in Reconciling
             /\ [x EXCEPT !.pc = "setError", !.message = m].pc = "setError"
             /\ [x EXCEPT !.pc = "setError", !.message = m].key = x.key
             /\ [x EXCEPT !.pc = "setError", !.message = m].bc = x.bc
  BY <1>3, <1>4 DEF Reconciling
<1>5. PICK m \in Messages : m = <<Doing[w.pc]>>
  BY <1>3
<1>6. w' = [w EXCEPT !.pc = "setError", !.message = m]
  BY <1>5 DEF Fail
<1> QED BY <1>2, <1>4, <1>6

\* A failed reconcile relies on nothing.
LEMMA NothingPrepared ==
    ASSUME NEW x, NEW b, x.pc \in {"idle", "setReady", "setPending", "setError"}
    PROVE  Prepared(x, b)
BY DEF Prepared, NetbootSteps, CombineSteps, ISOSteps, ReadSteps

LEMMA StampType ==
    ASSUME TypeOK, Stamp
    PROVE  now' \in 0..MaxTime /\ now' \in Nat /\ now < now'
BY BoundsAssumption DEF TypeOK, Stamp

LEMMA FaultType ==
    ASSUME TypeOK, UNCHANGED faults \/ Fault
    PROVE  faults' \in 0..MaxFaults
BY BoundsAssumption DEF TypeOK, Fault

\* What an assembling step has to establish.
LEMMA AssembleType ==
    ASSUME TypeInv, NEW step, Assembling(step), w' \in Reconciling,
           boot' \in [Configs -> BootDir], now' \in 0..MaxTime, UNCHANGED faults \/ Fault,
           Prepared(w', boot')
    PROVE  TypeInv'
<1>1. faults' \in 0..MaxFaults
  BY FaultType DEF TypeInv
<1> QED BY <1>1 DEF TypeInv, TypeOK, Assembling, configVars, artVars, fileVars

LEMMA BootSet ==
    ASSUME TypeOK, w.pc # "idle", NEW d, SetDir(d)
    PROVE  /\ boot'[w.key] = d
           /\ \A c \in Configs : c # w.key => boot'[c] = boot[c]
           /\ d \in BootDir => boot' \in [Configs -> BootDir]
BY Working DEF SetDir

\* Changing the entries of one of the two directories.
LEMMA EntriesSet ==
    ASSUME TypeOK, w.pc # "idle", dir.kernel \in Directory, dir.initrd \in Directory,
           NEW d \in {"kernel", "initrd"}, NEW es \in Entries, SetDir([dir EXCEPT ![d].entry = es])
    PROVE  /\ boot' \in [Configs -> BootDir]
           /\ boot'[w.key].kernel \in Directory /\ boot'[w.key].initrd \in Directory
           /\ boot'[w.key][d].entry = es
           /\ \A k \in {"kernel", "initrd"} : k # d => boot'[w.key][k] = dir[k]
           /\ \A c \in Configs : c # w.key => boot'[c] = boot[c]
<1>1. dir \in BootDir
  BY Working
<1>2. ASSUME NEW old \in BootDir, old.kernel \in Directory, old.initrd \in Directory
      PROVE  LET new == [old EXCEPT ![d].entry = es]
             IN  /\ new \in BootDir /\ new.kernel \in Directory /\ new.initrd \in Directory
                 /\ new[d].entry = es
                 /\ \A k \in {"kernel", "initrd"} : k # d => new[k] = old[k]
  <2>1. ASSUME NEW o \in Directory
        PROVE  /\ [o EXCEPT !.entry = es] \in Directory
               /\ [o EXCEPT !.entry = es].entry = es
    BY DEF Directory
  <2>2. CASE d = "kernel"
    BY <1>2, <2>1, <2>2 DEF BootDir
  <2>3. CASE d = "initrd"
    BY <1>2, <2>1, <2>3 DEF BootDir
  <2> QED BY <2>2, <2>3
<1> DEFINE new == [dir EXCEPT ![d].entry = es]
<1>3. /\ new \in BootDir /\ new.kernel \in Directory /\ new.initrd \in Directory
      /\ new[d].entry = es
      /\ \A k \in {"kernel", "initrd"} : k # d => new[k] = dir[k]
  BY <1>1, <1>2
<1>4. SetDir(new)
  OBVIOUS
<1> HIDE DEF new
<1>5. /\ boot'[w.key] = new
      /\ \A c \in Configs : c # w.key => boot'[c] = boot[c]
      /\ boot' \in [Configs -> BootDir]
  BY <1>3, <1>4, BootSet
<1> QED BY <1>3, <1>5

\* The entries of a directory.
LEMMA EntriesType ==
    ASSUME NEW d \in Directory
    PROVE  /\ d.entry \in Entries /\ DOMAIN d.entry = Files
           /\ \A f \in Files : d.entry[f] \in Links \cup Combined \cup {NoFile}
BY DEF Directory, Entries

\* Changing one entry.
LEMMA EntrySet ==
    ASSUME TypeOK, w.pc # "idle", dir.kernel \in Directory, dir.initrd \in Directory,
           NEW d \in {"kernel", "initrd"}, NEW f \in Files,
           NEW e \in Links \cup Combined \cup {NoFile}, SetEntry(d, f, e)
    PROVE  /\ boot' \in [Configs -> BootDir]
           /\ boot'[w.key].kernel \in Directory /\ boot'[w.key].initrd \in Directory
           /\ boot'[w.key][d].entry[f] = e
           /\ \A g \in Files : g # f => boot'[w.key][d].entry[g] = dir[d].entry[g]
           /\ \A k \in {"kernel", "initrd"} : k # d => boot'[w.key][k] = dir[k]
           /\ \A c \in Configs : c # w.key => boot'[c] = boot[c]
<1>1. dir[d] \in Directory /\ d \in DOMAIN dir
  BY Working DEF BootDir
<1> DEFINE es == [dir[d].entry EXCEPT ![f] = e]
<1>2. /\ es \in Entries /\ es[f] = e
      /\ \A g \in Files : g # f => es[g] = dir[d].entry[g]
  BY <1>1, EntriesType DEF Entries
<1>3. dir[d].entry \in [Files -> Links \cup Combined \cup {NoFile}]
  BY <1>1 DEF Directory, Entries
<1>4. [dir EXCEPT ![d].entry[f] = e] = [dir EXCEPT ![d].entry = es]
  BY <1>1
<1>5. SetDir([dir EXCEPT ![d].entry = es])
  BY <1>4 DEF SetEntry
<1> HIDE DEF es
<1> QED BY <1>2, <1>5, EntriesSet

\* Keeping some entries of a directory.
LEMMA EntriesKept ==
    ASSUME TypeOK, w.pc # "idle", dir.kernel \in Directory, dir.initrd \in Directory,
           NEW d \in {"kernel", "initrd"}, NEW names \in SUBSET Files, Keep(d, names)
    PROVE  /\ boot' \in [Configs -> BootDir]
           /\ boot'[w.key].kernel \in Directory /\ boot'[w.key].initrd \in Directory
           /\ \A f \in Files : boot'[w.key][d].entry[f]
                                 = IF f \in names THEN dir[d].entry[f] ELSE NoFile
           /\ \A k \in {"kernel", "initrd"} : k # d => boot'[w.key][k] = dir[k]
           /\ \A c \in Configs : c # w.key => boot'[c] = boot[c]
<1>1. dir[d] \in Directory /\ d \in DOMAIN dir
  BY Working DEF BootDir
<1> DEFINE es == [f \in Files |-> IF f \in names THEN dir[d].entry[f] ELSE NoFile]
<1>2. es \in Entries
  BY <1>1, EntriesType DEF Entries
<1>3. \A f \in Files : es[f] = IF f \in names THEN dir[d].entry[f] ELSE NoFile
  OBVIOUS
<1>4. [dir EXCEPT ![d].entry = [f \in Files |-> IF f \in names THEN @[f] ELSE NoFile]]
        = [dir EXCEPT ![d].entry = es]
  BY <1>1
<1>5. SetDir([dir EXCEPT ![d].entry = es])
  BY <1>4 DEF Keep
<1> HIDE DEF es
<1> QED BY <1>2, <1>3, <1>5, EntriesSet

LEMMA RefsType ==
    ASSUME NEW s \in Specs
    PROVE  /\ s.mode \in {"netboot", "iso"} /\ Refs(s) \subseteq Artifacts
           /\ s.mode = "netboot" =>
                /\ s.kernel \in Refs(s) /\ s.initrd \in Refs(s)
                /\ s.firmware # None => s.firmware \in Refs(s)
           /\ s.mode = "iso" =>
                /\ s.iso \in Refs(s)
                /\ s.kernelPath \in ISOPaths /\ s.initrdPath \in ISOPaths
<1>1. s \in NetbootSpec \cup ISOSpec
  BY ConstantsAssumption
<1>2. CASE s \in NetbootSpec
  BY <1>2 DEF NetbootSpec, Refs
<1>3. CASE s \in ISOSpec
  BY <1>3 DEF ISOSpec, Refs
<1> QED BY <1>1, <1>2, <1>3

LEMMA NameType ==
    ASSUME TypeInv, w.pc \in DOMAIN Doing, NEW a \in Refs(spec)
    PROVE  /\ a \in Artifacts /\ w.name[a] \in Files
           /\ LinkTo(a) \in Links /\ FileOf(a) \in File \cup {NoFile}
<1>1. w.pc # "idle" /\ w.pc \in {"mkdir"} \cup NetbootSteps \cup ISOSteps
  BY DoingSteps DEF NetbootSteps, ISOSteps
<1>2. spec \in Specs /\ w.name \in [Refs(spec) -> Files]
  BY <1>1, Working DEF TypeInv, Prepared, spec
<1>3. a \in Artifacts /\ w.name[a] \in Files
  BY <1>2, RefsType
<1>4. LinkTo(a) \in Links
  BY <1>3 DEF LinkTo, Link, Links
<1>5. FileOf(a) \in File \cup {NoFile}
  BY <1>3 DEF FileOf, TypeInv, TypeOK
<1> QED BY <1>3, <1>4, <1>5

LEMMA TypeInit == Init => TypeInv
<1> SUFFICES ASSUME Init
             PROVE  TypeInv
  OBVIOUS
<1>1. /\ api \in [Configs -> Version] /\ cache \in [Configs -> Version]
      /\ events \in [Configs -> SUBSET Version]
  BY DEF Init, Version
<1>2. /\ arts \in [Artifacts -> ArtifactVersion] /\ artCache \in [Artifacts -> ArtifactVersion]
      /\ artEvents \in [Artifacts -> SUBSET ArtifactVersion]
      /\ file \in [Artifacts -> [Files -> File \cup {NoFile}]]
  <2>1. Original \in Revisions
    BY ConstantsAssumption
  <2>2. \A a \in Artifacts :
            [rv |-> 0, rev |-> Original, phase |-> IF a \in Initial THEN "Ready" ELSE "none"]
                \in ArtifactVersion
    BY <2>1 DEF ArtifactVersion
  <2>3. \A a \in Artifacts : [data |-> <<a, Original>>, mtime |-> 0] \in File
    BY <2>1 DEF File, Data
  <2> QED BY <2>2, <2>3 DEF Init
<1>3. boot \in [Configs -> BootDir]
  BY DEF Init, BootDir, Empty
<1>4. Prepared(w, boot)
  BY NothingPrepared DEF Init, Idle
<1> QED BY <1>1, <1>2, <1>3, <1>4, BoundsAssumption DEF Init, TypeInv, TypeOK

LEMMA CheckType ==
    ASSUME NEW s \in Specs, NEW n \in DOMAIN CheckList(s)
    PROVE  CheckList(s)[n] \in Checks
<1>1. \A t \in {"safe", "found", "ready"} : \A x \in Artifacts \cup ISOPaths : <<t, x>> \in Checks
  BY DEF Checks
<1>2. s \in NetbootSpec \cup ISOSpec
  BY ConstantsAssumption
<1>3. CASE s \in ISOSpec
  <2>1. CheckList(s) = <<<<"safe", s.kernelPath>>, <<"safe", s.initrdPath>>,
                         <<"found", s.iso>>, <<"ready", s.iso>>>>
    BY <1>3 DEF CheckList, ISOSpec
  <2> QED BY <1>1, <1>3, <2>1 DEF ISOSpec
<1>4. CASE s \in NetbootSpec
  <2> DEFINE first == <<<<"found", s.kernel>>, <<"found", s.initrd>>,
                        <<"ready", s.kernel>>, <<"ready", s.initrd>>>>
             second == IF s.firmware = None THEN <<>>
                       ELSE <<<<"found", s.firmware>>, <<"ready", s.firmware>>>>
  <2>1. first \in Seq(Checks) /\ second \in Seq(Checks)
    BY <1>1, <1>4 DEF NetbootSpec
  <2>2. CheckList(s) = first \o second
    BY <1>4 DEF CheckList, NetbootSpec
  <2> HIDE DEF first, second
  <2>3. CheckList(s) \in Seq(Checks)
    BY <2>1, <2>2
  <2> QED BY <2>3
<1> QED BY <1>2, <1>3, <1>4

\* The beginning of a reconcile.
LEMMA EnterType ==
    ASSUME TypeOK, NEW c \in Configs, cache[c].obj # Absent, Enter(c)
    PROVE  /\ w' \in Reconciling /\ w'.key = c /\ w'.bc = cache[c]
           /\ w'.pc \in {"mkdir", "setPending", "setError"}
           /\ w'.pc = "mkdir" =>
                /\ w'.name = [a \in Refs(cache[c].obj.spec) |-> Filename[a][artCache[a].rev]]
                /\ w'.copied = <<>>
<1> DEFINE s == cache[c].obj.spec
           name == [a \in Refs(s) |-> Filename[a][artCache[a].rev]]
           checks == CheckList(s)
<1>1. /\ cache[c] \in [rv : Nat, obj : BootConfigObject] /\ s \in Specs
  BY DEF TypeOK, Version, BootConfigObject
<1>2. name \in [Refs(s) -> Files]
  <2>1. \A a \in Artifacts : artCache[a].rev \in Revisions
    BY DEF TypeOK, ArtifactVersion
  <2> QED BY <1>1, <2>1, RefsType, ConstantsAssumption
<1>3. Refs(s) \in SUBSET Artifacts /\ <<>> \in Messages /\ <<>> \in Seq(Data)
  BY <1>1, RefsType DEF Messages
<1>4. {"mkdir", "setPending", "setError"} \subseteq Steps
  BY DoingSteps DEF Steps
<1>5. <<>> \in UNION {[S -> Files] : S \in SUBSET Artifacts}
  <2>1. <<>> \in [{} -> Files]
    OBVIOUS
  <2> QED BY <2>1
<1>6. name \in UNION {[S -> Files] : S \in SUBSET Artifacts}
  BY <1>2, <1>3
<1>7. ASSUME NEW pc \in Steps, NEW m \in Messages, NEW v \in [rv : Nat, obj : BootConfigObject],
             NEW f \in UNION {[S -> Files] : S \in SUBSET Artifacts}
      PROVE  [pc |-> pc, key |-> c, bc |-> v, message |-> m, name |-> f, copied |-> <<>>,
              stamp |-> 0] \in Reconciling
  BY <1>3 DEF Reconciling
<1>8. CASE w' = [Idle EXCEPT !.pc = "mkdir", !.key = c, !.bc = cache[c], !.name = name]
  <2>1. w' = [pc |-> "mkdir", key |-> c, bc |-> cache[c], message |-> <<>>, name |-> name,
              copied |-> <<>>, stamp |-> 0]
    BY <1>8 DEF Idle
  <2> HIDE DEF name
  <2>2. w' \in Reconciling
    BY <1>1, <1>3, <1>4, <1>6, <1>7, <2>1
  <2> QED BY <2>1, <2>2 DEF name
<1>9. ASSUME NEW n \in DOMAIN checks, NEW pc \in {"setPending", "setError"},
             w' = [Idle EXCEPT !.pc = pc, !.key = c, !.bc = cache[c], !.message = checks[n]]
      PROVE  w' \in Reconciling /\ w'.key = c /\ w'.bc = cache[c] /\ w'.pc = pc
  <2>1. PICK m \in Messages : m = checks[n]
    BY <1>1, CheckType DEF Messages
  <2>2. w' = [pc |-> pc, key |-> c, bc |-> cache[c], message |-> m, name |-> <<>>,
              copied |-> <<>>, stamp |-> 0]
    BY <1>9, <2>1 DEF Idle
  <2>3. w' \in Reconciling
    BY <1>1, <1>4, <1>5, <1>7, <2>2
  <2> QED BY <2>2, <2>3
<1> HIDE DEF name
<1>10. \/ w' = [Idle EXCEPT !.pc = "mkdir", !.key = c, !.bc = cache[c], !.name = name]
       \/ \E n \in DOMAIN checks, pc \in {"setPending", "setError"} :
            w' = [Idle EXCEPT !.pc = pc, !.key = c, !.bc = cache[c], !.message = checks[n]]
  BY DEF Enter, name
<1> QED BY <1>8, <1>9, <1>10 DEF name

\* What is left of an entry, of a file or of a directory when entries are lost.
LEMMA LeftCases ==
    ASSUME NEW e, NEW torn \in BOOLEAN, NEW x \in Left(e, torn)
    PROVE  \/ x = e \/ x = NoFile
           \/ torn /\ e \in Combined \cup Extracted /\ x = [e EXCEPT !.data = Torn]
BY DEF Left

LEMMA LeftEntry ==
    ASSUME NEW e \in Links \cup Combined \cup {NoFile}, NEW torn \in BOOLEAN, NEW x \in Left(e, torn)
    PROVE  /\ x \in Links \cup Combined \cup {NoFile}
           /\ x \in Links => x = e
           /\ x \in Combined => /\ e \in Combined /\ x.mtime = e.mtime
                                /\ x.data = e.data \/ (torn /\ x.data = Torn)
<1>1. \A l \in Links : \A y \in Combined \cup Extracted : l # y
  BY DEF Links, Combined, Extracted
<1>2. ASSUME NEW y \in Combined
      PROVE  /\ [y EXCEPT !.data = Torn] \in Combined
             /\ [y EXCEPT !.data = Torn].mtime = y.mtime /\ [y EXCEPT !.data = Torn].data = Torn
  BY DEF Combined
<1>3. \A y \in Extracted : y \notin Combined
  BY DEF Combined, Extracted
<1>4. NoFile \notin Links \cup Combined \cup Extracted
  BY ConstantsAssumption
<1>5. CASE torn /\ e \in Combined \cup Extracted /\ x = [e EXCEPT !.data = Torn]
  <2>1. e \in Combined
    BY <1>1, <1>3, <1>4, <1>5
  <2> QED BY <1>1, <1>2, <1>5, <2>1
<1>6. CASE x = e \/ x = NoFile
  BY <1>4, <1>6
<1> QED BY <1>5, <1>6, LeftCases

LEMMA LeftExtracted ==
    ASSUME NEW e \in Extracted \cup {NoFile}, NEW torn \in BOOLEAN, NEW x \in Left(e, torn)
    PROVE  /\ x \in Extracted \cup {NoFile}
           /\ x \in Extracted => /\ e \in Extracted /\ x.mtime = e.mtime
                                 /\ x.data = e.data \/ (torn /\ x.data = Torn)
<1>1. ASSUME NEW y \in Extracted
      PROVE  /\ [y EXCEPT !.data = Torn] \in Extracted
             /\ [y EXCEPT !.data = Torn].mtime = y.mtime /\ [y EXCEPT !.data = Torn].data = Torn
  BY DEF Extracted
<1>2. \A y \in Extracted : y \notin Combined
  BY DEF Combined, Extracted
<1>3. NoFile \notin Combined \cup Extracted
  BY ConstantsAssumption
<1>4. CASE torn /\ e \in Combined \cup Extracted /\ x = [e EXCEPT !.data = Torn]
  BY <1>1, <1>2, <1>3, <1>4
<1>5. CASE x = e \/ x = NoFile
  BY <1>3, <1>5
<1> QED BY <1>4, <1>5, LeftCases

LEMMA Kinds ==
    /\ \A d \in Directory : d \notin Combined \cup Extracted /\ d # NoFile
    /\ \A e \in Extracted : e # NoFile
    /\ \A l \in Links : l \notin Combined /\ l # NoFile
    /\ \A e \in Combined : e # NoFile
<1>1. NoFile \notin Links \cup Combined \cup Extracted \cup Directory
  BY ConstantsAssumption
<1>2. \A d \in Directory : d \notin Combined \cup Extracted
  BY DEF Directory, Combined, Extracted
<1>3. \A l \in Links : l \notin Combined
  BY DEF Links, Combined
<1> QED BY <1>1, <1>2, <1>3

LEMMA LeftDirectory ==
    ASSUME NEW d \in Directory \cup Extracted \cup {NoFile}, NEW torn \in BOOLEAN,
           NEW x \in LeftDir(d, torn)
    PROVE  \/ /\ d \in Directory /\ x \in Directory
              /\ \A f \in Files : x.entry[f] \in Left(d.entry[f], torn)
           \/ d \in Extracted \cup {NoFile} /\ x \in Left(d, torn)
           \/ x = NoFile
<1>1. CASE x \in Left(d, torn)
  <2>1. CASE d \in Directory
    <3>1. x \in {d, NoFile}
      BY <1>1, <2>1, LeftCases, Kinds
    <3>2. \A f \in Files : d.entry[f] \in Left(d.entry[f], torn)
      BY DEF Left
    <3> QED BY <2>1, <3>1, <3>2
  <2>2. CASE d \notin Directory
    BY <1>1, <2>2
  <2> QED BY <2>1, <2>2
<1>2. CASE d \in Directory /\ \E es \in LeftEntries(d.entry, torn) : x = [d EXCEPT !.entry = es]
  <2>1. PICK es \in LeftEntries(d.entry, torn) : x = [d EXCEPT !.entry = es]
    BY <1>2
  <2> DEFINE names == {f \in Files : d.entry[f] # NoFile}
  <2>2. PICK l \in [names -> UNION {Left(d.entry[f], torn) : f \in names}] :
          /\ \A f \in names : l[f] \in Left(d.entry[f], torn)
          /\ es = [f \in Files |-> IF f \in names THEN l[f] ELSE NoFile]
    BY <2>1, Zenon DEF LeftEntries
  <2>3. ASSUME NEW f \in Files
        PROVE  es[f] \in Left(d.entry[f], torn) /\ es[f] \in Links \cup Combined \cup {NoFile}
    <3>1. es[f] \in Left(d.entry[f], torn)
      BY <2>2 DEF Left
    <3> QED BY <1>2, <3>1, LeftEntry, EntriesType
  <2>4. es = [f \in Files |-> es[f]]
    BY <2>2
  <2>5. es \in Entries
    BY <2>3, <2>4 DEF Entries
  <2>6. x \in Directory /\ x.entry = es
    BY <1>2, <2>1, <2>5 DEF Directory
  <2> QED BY <1>2, <2>3, <2>6
<1> QED BY <1>1, <1>2 DEF LeftDir

LEMMA LeftType ==
    ASSUME NEW b \in BootDir, NEW torn \in BOOLEAN, NEW x \in LeftOf(b, torn)
    PROVE  x \in BootDir
<1>1. /\ x.kernel \in LeftDir(b.kernel, torn) /\ x.initrd \in LeftDir(b.initrd, torn)
      /\ x.vmlinuz \in Left(b.vmlinuz, torn) /\ x.iso \subseteq Links
      /\ x = [kernel |-> x.kernel, initrd |-> x.initrd, vmlinuz |-> x.vmlinuz, iso |-> x.iso]
  BY DEF LeftOf, BootDir
<1>2. /\ b.kernel \in Directory \cup {NoFile}
      /\ b.initrd \in Directory \cup Extracted \cup {NoFile} /\ b.vmlinuz \in Extracted \cup {NoFile}
  BY DEF BootDir
<1>3. x.kernel \in Directory \cup {NoFile}
  <2>1. b.kernel \notin Extracted
    BY <1>2, Kinds
  <2>2. x.kernel \in Left(NoFile, torn) => x.kernel = NoFile
    BY LeftCases, ConstantsAssumption
  <2> QED BY <1>1, <1>2, <2>1, <2>2, LeftDirectory
<1>4. x.initrd \in Directory \cup Extracted \cup {NoFile}
  BY <1>1, <1>2, LeftDirectory, LeftExtracted
<1>5. x.vmlinuz \in Extracted \cup {NoFile}
  BY <1>1, <1>2, LeftExtracted
<1> QED BY <1>1, <1>3, <1>4, <1>5 DEF BootDir

LEMMA ReconcileType ==
    ASSUME TypeInv, NEW c \in Configs, Reconcile(c)
    PROVE  TypeInv'
<1> USE DEF TypeInv
<1>1. queue' \in [Configs -> {"idle", "delayed", "ready"}]
  BY DEF Reconcile, TypeOK
<1>2. faults' \in 0..MaxFaults
  BY FaultType DEF Reconcile
<1>3. boot' \in [Configs -> BootDir]
  <2>1. Empty \in BootDir
    BY DEF Empty, BootDir
  <2>2. boot[c] \in BootDir /\ LeftOf(boot[c], FALSE) \subseteq BootDir
    BY LeftType DEF TypeOK
  <2> QED BY <2>1, <2>2 DEF Reconcile, TypeOK
<1>4. w' \in {Idle} \cup Reconciling /\ Prepared(w', boot')
  <2>1. CASE cache[c].obj = Absent
    <3>1. w' = w /\ w.pc = "idle"
      BY <2>1 DEF Reconcile
    <3> QED BY <3>1, NothingPrepared DEF TypeOK
  <2>2. CASE cache[c].obj # Absent
    <3>1. /\ w' \in Reconciling /\ w'.key = c /\ w'.bc = cache[c]
          /\ w'.pc \in {"mkdir", "setPending", "setError"}
          /\ w'.pc = "mkdir" =>
                /\ w'.name = [a \in Refs(cache[c].obj.spec) |-> Filename[a][artCache[a].rev]]
                /\ w'.copied = <<>>
      <4>1. TypeOK /\ Enter(c)
        BY <2>2 DEF Reconcile
      <4> QED BY <2>2, <4>1, EnterType
    <3>2. CASE w'.pc = "mkdir"
      <4>1. PICK s \in Specs : s = cache[c].obj.spec
        BY <2>2 DEF TypeOK, Version, BootConfigObject
      <4>2. w'.name \in [Refs(s) -> Files]
        <5>1. \A a \in Artifacts : artCache[a].rev \in Revisions
          BY DEF TypeOK, ArtifactVersion
        <5>2. w'.name = [a \in Refs(s) |-> Filename[a][artCache[a].rev]]
          BY <3>1, <3>2, <4>1
        <5> QED BY <4>1, <5>1, <5>2, RefsType, ConstantsAssumption
      <4>3. w'.bc.obj.spec = s /\ Len(w'.copied) = 0
        BY <3>1, <3>2, <4>1
      <4> QED BY <3>1, <3>2, <4>2, <4>3
              DEF Prepared, Read, NetbootSteps, ISOSteps, CombineSteps, ReadSteps
    <3>3. CASE w'.pc \in {"setPending", "setError"}
      BY <3>1, <3>3, NothingPrepared
    <3> QED BY <3>1, <3>2, <3>3
  <2> QED BY <2>1, <2>2
<1> QED BY <1>1, <1>2, <1>3, <1>4 DEF Reconcile, TypeOK, configVars, artVars, fileVars

\* A step that fails before it changes a directory.
LEMMA FailedType ==
    ASSUME TypeInv, NEW step \in DOMAIN Doing, Assembling(step), Fail, UNCHANGED boot,
           now' \in 0..MaxTime, UNCHANGED faults \/ Fault
    PROVE  TypeInv'
<1>1. w.pc = step
  BY DEF Assembling
<1>2. w' \in Reconciling /\ w'.pc = "setError"
  BY <1>1, FailType DEF TypeInv
<1>3. Prepared(w', boot')
  BY <1>2, NothingPrepared
<1> QED BY <1>2, <1>3, AssembleType DEF TypeInv, TypeOK

\* A step that goes on to another one.
LEMMA GoneType ==
    ASSUME TypeInv, NEW step \in DOMAIN Doing, Assembling(step), NEW next \in Steps, Goto(next),
           boot' \in [Configs -> BootDir], now' \in 0..MaxTime, UNCHANGED faults \/ Fault,
           next \in ReadSteps => step \in ReadSteps /\ Read(next) = Read(step),
           next \in NetbootSteps =>
                /\ spec.mode = "netboot"
                /\ boot'[w.key].kernel \in Directory /\ boot'[w.key].initrd \in Directory,
           next \in CombineSteps => spec.firmware # None,
           next \in ISOSteps => spec.mode = "iso"
    PROVE  TypeInv'
<1>1. w.pc = step /\ w.pc # "idle"
  BY DoingSteps DEF Assembling, NetbootSteps, ISOSteps
<1>2. w \in Reconciling
  BY <1>1, Working DEF TypeInv
<1>3. /\ w' \in Reconciling /\ w'.pc = next /\ w'.key = w.key /\ w'.bc = w.bc
      /\ w'.name = w.name /\ w'.copied = w.copied
  BY <1>2, GotoType DEF Goto
<1>4. w.name \in [Refs(spec) -> Files]
  BY <1>1, DoingSteps DEF TypeInv, Prepared, spec
<1>5. step \in ReadSteps => Len(w.copied) = Read(step)
  BY <1>1 DEF TypeInv, Prepared
<1>6. next \in ReadSteps => Len(w.copied) = Read(next)
  BY <1>5
<1>7. Prepared(w', boot')
  BY <1>3, <1>4, <1>6 DEF Prepared, spec
<1> QED BY <1>3, <1>7, AssembleType

LEMMA MkdirType == ASSUME TypeInv, Mkdir PROVE TypeInv'
<1>0. /\ w.pc = "mkdir" /\ Assembling("mkdir") /\ "mkdir" \in DOMAIN Doing
      /\ UNCHANGED <<now, faults>> /\ {"kernel", "extract", "setError"} \subseteq Steps
  BY DoingSteps DEF Mkdir, Assembling, Steps, NetbootSteps, ISOSteps
<1>1. w.pc # "idle" /\ dir \in BootDir /\ boot \in [Configs -> BootDir] /\ spec \in Specs
      /\ w.key \in Configs /\ now \in 0..MaxTime
  BY <1>0, Working DEF TypeInv, TypeOK
<1>2. CASE spec.mode = "iso" /\ Goto("extract") /\ UNCHANGED boot
  BY <1>0, <1>1, <1>2, GoneType DEF NetbootSteps, ISOSteps, CombineSteps, ReadSteps
<1>3. CASE spec.mode = "netboot"
  <2> DEFINE new == [dir EXCEPT !.kernel = NewDirectory(@),
                                !.initrd = IF @ \in Extracted THEN @ ELSE NewDirectory(@)]
  <2>1. now' \in 0..MaxTime
    BY <1>0, <1>1
  <2>2. ASSUME NEW d \in Directory \cup {NoFile}
        PROVE  NewDirectory(d) \in Directory
    <3>1. NoEntries \in Entries
      BY DEF NoEntries, Entries
    <3> QED BY <3>1 DEF NewDirectory, Directory
  <2>3. /\ new \in BootDir /\ new.kernel \in Directory
        /\ dir.initrd \notin Extracted => new.initrd \in Directory
    <3>1. dir.kernel \in Directory \cup {NoFile}
          /\ dir.initrd \in Directory \cup Extracted \cup {NoFile}
      BY <1>1 DEF BootDir
    <3>3. PICK x, y : /\ x = NewDirectory(dir.kernel)
                      /\ y = IF dir.initrd \in Extracted THEN dir.initrd
                             ELSE NewDirectory(dir.initrd)
      OBVIOUS
    <3>4. x \in Directory /\ (dir.initrd \notin Extracted => y \in Directory)
          /\ y \in Directory \cup Extracted
      BY <2>2, <3>1, <3>3
    <3>5. new = [dir EXCEPT !.kernel = x, !.initrd = y]
      BY <3>3
    <3>6. /\ [dir EXCEPT !.kernel = x, !.initrd = y] \in BootDir
          /\ [dir EXCEPT !.kernel = x, !.initrd = y].kernel = x
          /\ [dir EXCEPT !.kernel = x, !.initrd = y].initrd = y
      <4>1. PICK d \in BootDir : d = dir
        BY <1>1
      <4>2. y \in Directory \cup Extracted
        BY <3>4
      <4>3. /\ [d EXCEPT !.kernel = x, !.initrd = y] \in BootDir
            /\ [d EXCEPT !.kernel = x, !.initrd = y].kernel = x
            /\ [d EXCEPT !.kernel = x, !.initrd = y].initrd = y
        BY <3>4, <4>2 DEF BootDir
      <4> QED BY <4>1, <4>3
    <3> HIDE DEF new
    <3> QED BY <3>4, <3>5, <3>6
  <2>4. SetDir(new)
    BY <1>0, <1>3 DEF Mkdir
  <2> HIDE DEF new
  <2>5. boot' \in [Configs -> BootDir] /\ boot'[w.key] = new
    BY <1>1, <2>3, <2>4, BootSet DEF TypeInv
  <2>6. CASE dir.initrd \in Extracted
    <3>1. Fail
      BY <1>0, <1>3, <2>6 DEF Mkdir
    <3>2. w' \in Reconciling /\ w'.pc = "setError"
      BY <1>0, <3>1, FailType DEF TypeInv
    <3> QED BY <1>0, <2>1, <2>5, <3>2, NothingPrepared, AssembleType
  <2>7. CASE dir.initrd \notin Extracted
    <3>1. Goto("kernel")
      BY <1>0, <1>3, <2>7 DEF Mkdir
    <3>2. Read("kernel") = Read("mkdir")
      BY DEF Read
    <3> QED BY <1>0, <1>1, <1>3, <2>1, <2>3, <2>5, <2>7, <3>1, <3>2, GoneType
            DEF NetbootSteps, ISOSteps, CombineSteps, ReadSteps
  <2> QED BY <2>6, <2>7
<1> QED BY <1>2, <1>3, <1>0 DEF Mkdir

\* Where a step of netboot mode starts from.
LEMMA NetbootState ==
    ASSUME TypeInv, w.pc \in NetbootSteps
    PROVE  /\ w.pc \in DOMAIN Doing /\ w.pc # "idle" /\ w.key \in Configs
           /\ w \in Reconciling /\ spec \in Specs /\ spec.mode = "netboot"
           /\ boot \in [Configs -> BootDir] /\ dir \in BootDir
           /\ dir.kernel \in Directory /\ dir.initrd \in Directory
           /\ spec.kernel \in Refs(spec) /\ spec.initrd \in Refs(spec)
           /\ spec.firmware # None => spec.firmware \in Refs(spec)
           /\ now \in 0..MaxTime
<1>1. w.pc \in DOMAIN Doing /\ w.pc # "idle"
  BY DoingSteps DEF NetbootSteps
<1>2. /\ w.key \in Configs /\ w \in Reconciling /\ spec \in Specs
      /\ boot \in [Configs -> BootDir] /\ dir \in BootDir /\ now \in 0..MaxTime
  BY <1>1, Working DEF TypeInv, TypeOK
<1>3. spec.mode = "netboot" /\ dir.kernel \in Directory /\ dir.initrd \in Directory
  BY DEF TypeInv, Prepared, spec, dir
<1>4. /\ spec.kernel \in Refs(spec) /\ spec.initrd \in Refs(spec)
      /\ spec.firmware # None => spec.firmware \in Refs(spec)
  BY <1>2, <1>3, RefsType
<1> QED BY <1>1, <1>2, <1>3, <1>4

LEMMA CleanEffect ==
    ASSUME TypeInv, w.pc \in NetbootSteps, NEW d \in {"kernel", "initrd"},
           NEW missing \in BOOLEAN, Clean(d, missing)
    PROVE  /\ boot' \in [Configs -> BootDir] /\ (UNCHANGED faults \/ Fault)
           /\ boot'[w.key].kernel \in Directory /\ boot'[w.key].initrd \in Directory
           /\ \A f \in Files : boot'[w.key][d].entry[f] \in {dir[d].entry[f], NoFile}
           /\ Fault \/ (missing /\ \A f \in Files : boot'[w.key][d].entry[f] = NoFile)
           /\ \A k \in {"kernel", "initrd"} : k # d => boot'[w.key][k] = dir[k]
           /\ \A c \in Configs : c # w.key => boot'[c] = boot[c]
<1>1. TypeOK /\ w.pc # "idle" /\ dir.kernel \in Directory /\ dir.initrd \in Directory
  BY NetbootState DEF TypeInv
<1>2. CASE TakenFor(missing) /\ Keep(d, {})
  <2>1. {} \in SUBSET Files
    OBVIOUS
  <2>2. (missing /\ UNCHANGED faults) \/ Fault
    BY <1>2 DEF TakenFor
  <2> QED BY <1>1, <1>2, <2>1, <2>2, EntriesKept
<1>3. CASE Fault /\ \E names \in SUBSET {f \in Files : dir[d].entry[f] # NoFile} : Keep(d, names)
  <2>1. PICK names \in SUBSET Files : Keep(d, names)
    BY <1>3
  <2> QED BY <1>1, <1>3, <2>1, EntriesKept
<1> QED BY <1>2, <1>3 DEF Clean

\* ensureSymlink up to its cleaning.
LEMMA EnsureEffect ==
    ASSUME TypeInv, NEW d \in {"kernel", "initrd"}, NEW link, NEW next,
           EnsureSymlink(d, link, next)
    PROVE  /\ boot' \in [Configs -> BootDir] /\ now' \in 0..MaxTime
           /\ w.pc = d /\ Assembling(d) /\ (UNCHANGED faults \/ Fault)
           /\ boot'[w.key].kernel \in Directory /\ boot'[w.key].initrd \in Directory
           /\ \A f \in Files : boot'[w.key][d].entry[f] \in {dir[d].entry[f], NoFile}
           /\ \A k \in {"kernel", "initrd"} : k # d => boot'[w.key][k] = dir[k]
           /\ \A c \in Configs : c # w.key => boot'[c] = boot[c]
           /\ \/ Goto(next) /\ UNCHANGED boot /\ Linked(d)
              \/ /\ Goto(link)
                 /\ \/ Fault
                    \/ ~Linked(d) /\ \A f \in Files : boot'[w.key][d].entry[f] = NoFile
<1>1. w.pc = d /\ Assembling(d) /\ w.pc \in NetbootSteps /\ UNCHANGED now
  BY DEF EnsureSymlink, Assembling, NetbootSteps
<1>2. now' \in 0..MaxTime
  BY <1>1, NetbootState
<1>3. CASE Goto(next) /\ UNCHANGED <<boot, faults>> /\ Linked(d)
  BY <1>1, <1>2, <1>3, NetbootState DEF dir
<1>4. CASE Goto(link) /\ Clean(d, ~Linked(d))
  <2>1. PICK missing \in BOOLEAN : missing = ~Linked(d)
    OBVIOUS
  <2>2. Clean(d, missing)
    BY <1>4, <2>1
  <2>3. Goto(link) /\ (missing => ~Linked(d))
    BY <1>4, <2>1
  <2> QED BY <1>1, <1>2, <2>2, <2>3, CleanEffect
<1> QED BY <1>3, <1>4 DEF EnsureSymlink

\* Its last call.
LEMMA SymlinkEffect ==
    ASSUME TypeInv, NEW d \in {"kernel", "initrd"}, NEW link \in NetbootSteps, NEW next,
           Symlink(d, link, next)
    PROVE  /\ w.pc = link /\ Assembling(link) /\ UNCHANGED <<now, faults>>
           /\ boot' \in [Configs -> BootDir]
           /\ boot'[w.key].kernel \in Directory /\ boot'[w.key].initrd \in Directory
           /\ \A k \in {"kernel", "initrd"} : k # d => boot'[w.key][k] = dir[k]
           /\ \A c \in Configs : c # w.key => boot'[c] = boot[c]
           /\ w.name[spec[d]] \in Files /\ spec[d] \in Refs(spec)
           /\ \/ /\ Goto(next)
                 /\ dir[d].entry[w.name[spec[d]]] = NoFile
                 /\ boot'[w.key][d].entry[w.name[spec[d]]] = LinkTo(spec[d])
                 /\ \A g \in Files : g # w.name[spec[d]] =>
                        boot'[w.key][d].entry[g] = dir[d].entry[g]
              \/ dir[d].entry[w.name[spec[d]]] # NoFile /\ Fail /\ UNCHANGED boot
<1>1. w.pc = link /\ Assembling(link) /\ UNCHANGED <<now, faults>>
  BY DEF Symlink, Assembling
<1>2. TypeOK /\ w.pc # "idle" /\ dir.kernel \in Directory /\ dir.initrd \in Directory
      /\ w.pc \in DOMAIN Doing /\ spec[d] \in Refs(spec)
  BY <1>1, NetbootState DEF TypeInv
<1>3. LinkTo(spec[d]) \in Links /\ w.name[spec[d]] \in Files
  BY <1>2, NameType
<1>4. CASE dir[d].entry[w.name[spec[d]]] = NoFile
  <2>1. PICK e \in Links : e = LinkTo(spec[d])
    BY <1>3
  <2>2. PICK f \in Files : f = w.name[spec[d]]
    BY <1>3
  <2>3. SetEntry(d, f, e) /\ Goto(next)
    BY <1>4, <2>1, <2>2 DEF Symlink
  <2> QED BY <1>1, <1>2, <1>4, <2>1, <2>2, <2>3, EntrySet
<1>5. CASE dir[d].entry[w.name[spec[d]]] # NoFile
  <2>1. Fail /\ UNCHANGED boot
    BY <1>5 DEF Symlink
  <2> QED BY <1>1, <1>2, <1>3, <1>5, <2>1, NetbootState DEF dir
<1> QED BY <1>4, <1>5

LEMMA KernelType == ASSUME TypeInv, KernelLink \/ LinkKernel PROVE TypeInv'
<1>1. InitrdStep \in {"initrd", "concat"} /\ (InitrdStep = "concat" => spec.firmware # None)
  BY DEF InitrdStep
<1>2. {"kernel", "linkKernel", "initrd", "concat"} \subseteq Steps
      /\ {"kernel", "linkKernel"} \subseteq DOMAIN Doing
  BY DoingSteps DEF Steps, NetbootSteps
<1>3. ASSUME NEW step \in {"kernel", "linkKernel"}, NEW next \in {"linkKernel", "initrd", "concat"}
      PROVE  /\ next \in ReadSteps => step \in ReadSteps /\ Read(next) = Read(step)
             /\ next \notin ISOSteps /\ (next \in CombineSteps => next = "concat")
  BY DEF ReadSteps, ISOSteps, CombineSteps, Read
<1>4. CASE KernelLink
  <2>1. EnsureSymlink("kernel", "linkKernel", InitrdStep)
    BY <1>4 DEF KernelLink
  <2>2. PICK next \in {"linkKernel", InitrdStep} : Goto(next)
    BY <2>1, EnsureEffect
  <2>3. /\ boot' \in [Configs -> BootDir] /\ now' \in 0..MaxTime
        /\ Assembling("kernel") /\ (UNCHANGED faults \/ Fault) /\ w.pc \in NetbootSteps
        /\ boot'[w.key].kernel \in Directory /\ boot'[w.key].initrd \in Directory
    BY <2>1, EnsureEffect DEF NetbootSteps
  <2> QED BY <1>1, <1>2, <1>3, <2>2, <2>3, NetbootState, GoneType
<1>5. CASE LinkKernel
  <2>1. Symlink("kernel", "linkKernel", InitrdStep) /\ "linkKernel" \in NetbootSteps
    BY <1>5 DEF LinkKernel, NetbootSteps
  <2>2. /\ boot' \in [Configs -> BootDir] /\ UNCHANGED now
        /\ Assembling("linkKernel") /\ UNCHANGED faults /\ w.pc \in NetbootSteps
        /\ boot'[w.key].kernel \in Directory /\ boot'[w.key].initrd \in Directory
    BY <2>1, SymlinkEffect
  <2>3. now' \in 0..MaxTime
    BY <2>2, NetbootState
  <2>4. CASE Fail /\ UNCHANGED boot
    BY <1>2, <2>2, <2>3, <2>4, FailedType
  <2>5. CASE Goto(InitrdStep)
    <3>1. PICK next \in {InitrdStep} : Goto(next)
      BY <2>5
    <3> QED BY <1>1, <1>2, <1>3, <2>2, <2>3, <3>1, NetbootState, GoneType
  <2> QED BY <2>1, <2>4, <2>5, SymlinkEffect
<1> QED BY <1>4, <1>5

LEMMA InitrdType == ASSUME TypeInv, InitrdLink \/ LinkInitrd PROVE TypeInv'
<1>1. {"initrd", "linkInitrd", "setReady"} \subseteq Steps
      /\ {"initrd", "linkInitrd"} \subseteq DOMAIN Doing
  BY DoingSteps DEF Steps, NetbootSteps
<1>2. ASSUME NEW next \in {"linkInitrd", "setReady"}
      PROVE  next \notin ReadSteps /\ next \notin ISOSteps /\ next \notin CombineSteps
  BY DEF ReadSteps, ISOSteps, CombineSteps
<1>3. CASE InitrdLink
  <2>1. EnsureSymlink("initrd", "linkInitrd", "setReady")
    BY <1>3 DEF InitrdLink
  <2>2. PICK next \in {"linkInitrd", "setReady"} : Goto(next)
    BY <2>1, EnsureEffect
  <2>3. /\ boot' \in [Configs -> BootDir] /\ now' \in 0..MaxTime
        /\ Assembling("initrd") /\ (UNCHANGED faults \/ Fault) /\ w.pc \in NetbootSteps
        /\ boot'[w.key].kernel \in Directory /\ boot'[w.key].initrd \in Directory
    BY <2>1, EnsureEffect DEF NetbootSteps
  <2> QED BY <1>1, <1>2, <2>2, <2>3, NetbootState, GoneType
<1>4. CASE LinkInitrd
  <2>1. Symlink("initrd", "linkInitrd", "setReady") /\ "linkInitrd" \in NetbootSteps
    BY <1>4 DEF LinkInitrd, NetbootSteps
  <2>2. /\ boot' \in [Configs -> BootDir] /\ UNCHANGED now
        /\ Assembling("linkInitrd") /\ UNCHANGED faults /\ w.pc \in NetbootSteps
        /\ boot'[w.key].kernel \in Directory /\ boot'[w.key].initrd \in Directory
    BY <2>1, SymlinkEffect
  <2>3. now' \in 0..MaxTime
    BY <2>2, NetbootState
  <2>4. CASE Fail /\ UNCHANGED boot
    BY <1>1, <2>2, <2>3, <2>4, FailedType
  <2>5. CASE Goto("setReady")
    BY <1>1, <1>2, <2>2, <2>3, <2>5, NetbootState, GoneType
  <2> QED BY <2>1, <2>4, <2>5, SymlinkEffect
<1> QED BY <1>3, <1>4

LEMMA ConcatType == ASSUME TypeInv, Concat PROVE TypeInv'
<1>1. /\ w.pc = "concat" /\ Assembling("concat") /\ "concat" \in DOMAIN Doing
      /\ w.pc \in NetbootSteps /\ w.pc \in CombineSteps
      /\ {"setReady", "copyInitrd"} \subseteq Steps
  BY DoingSteps DEF Concat, Assembling, NetbootSteps, CombineSteps, Steps
<1>2. spec.firmware # None
  BY <1>1 DEF TypeInv, Prepared, spec
<1> DEFINE missing == \A f \in Dst : NoFile \notin Sources
                                    /\ \E src \in Sources : f.mtime <= src.mtime
<1>6. now' \in 0..MaxTime
  BY <1>1, NetbootState DEF Concat
<1>3. CASE Fail /\ UNCHANGED <<boot, faults>>
  BY <1>1, <1>3, <1>6, NetbootState, FailedType
<1>4. CASE Goto("setReady") /\ UNCHANGED <<boot, faults>>
  BY <1>1, <1>4, <1>6, NetbootState, GoneType DEF ReadSteps, NetbootSteps, CombineSteps, ISOSteps
<1>5. CASE Clean("initrd", missing) /\ Goto("copyInitrd")
  <2>0. missing \in BOOLEAN
    OBVIOUS
  <2> HIDE DEF missing
  <2>1. /\ boot' \in [Configs -> BootDir] /\ (UNCHANGED faults \/ Fault)
        /\ boot'[w.key].kernel \in Directory /\ boot'[w.key].initrd \in Directory
    BY <1>1, <1>5, <2>0, CleanEffect
  <2>2. /\ "copyInitrd" \in ReadSteps => "concat" \in ReadSteps /\ Read("copyInitrd") = Read("concat")
        /\ "copyInitrd" \notin ISOSteps
    BY DEF ReadSteps, ISOSteps, Read
  <2> QED BY <1>1, <1>2, <1>5, <1>6, <2>1, <2>2, NetbootState, GoneType
<1> QED BY <1>3, <1>4, <1>5 DEF Concat

\* The open and copy of one source.
LEMMA CopyEffect ==
    ASSUME TypeInv, w.pc \in NetbootSteps, NEW a \in Refs(spec), NEW next \in Steps,
           CopySource(a, next)
    PROVE  /\ UNCHANGED <<boot, now, faults>>
           /\ \/ Fail
              \/ /\ w' \in Reconciling /\ w'.pc = next /\ w'.key = w.key /\ w'.bc = w.bc
                 /\ w'.name = w.name /\ FileOf(a) \in File
                 /\ w'.copied = Append(w.copied, FileOf(a).data)
<1>1. CASE FileOf(a) = NoFile
  BY <1>1, NetbootState DEF CopySource
<1>2. CASE FileOf(a) # NoFile
  <2>1. FileOf(a) \in File /\ w \in Reconciling
    BY <1>2, NetbootState, NameType
  <2>3. PICK d \in Data : d = FileOf(a).data
    BY <2>1 DEF File
  <2>5. w' = [w EXCEPT !.pc = next, !.copied = Append(@, d)]
    BY <1>2, <2>3 DEF CopySource
  <2>6. ASSUME NEW x \in Reconciling
        PROVE  LET new == [x EXCEPT !.pc = next, !.copied = Append(@, d)]
               IN  /\ new \in Reconciling /\ new.pc = next /\ new.key = x.key /\ new.bc = x.bc
                   /\ new.name = x.name /\ new.copied = Append(x.copied, d)
    <3>1. Append(x.copied, d) \in Seq(Data)
      BY DEF Reconciling
    <3> QED BY <3>1 DEF Reconciling
  <2>7. PICK x \in Reconciling : x = w
    BY <2>1
  <2>8. /\ w' \in Reconciling /\ w'.pc = next /\ w'.key = x.key /\ w'.bc = x.bc
        /\ w'.name = x.name /\ w'.copied = Append(x.copied, d)
    BY <2>5, <2>6, <2>7
  <2> QED BY <1>2, <2>1, <2>3, <2>7, <2>8 DEF CopySource
<1> QED BY <1>1, <1>2

LEMMA CopyType == ASSUME TypeInv, CopyInitrd \/ CopyFirmware PROVE TypeInv'
<1>1. PICK step \in {"copyInitrd", "copyFirmware"} : w.pc = step /\ Assembling(step)
  BY DEF CopyInitrd, CopyFirmware, Assembling
<1>2. /\ w.pc \in NetbootSteps /\ w.pc \in CombineSteps /\ w.pc \in DOMAIN Doing /\ w.pc # "idle"
      /\ w.pc \in ReadSteps /\ {"copyFirmware", "write"} \subseteq Steps
  BY <1>1, DoingSteps DEF NetbootSteps, CombineSteps, ReadSteps, Steps
<1>3. /\ spec.firmware # None /\ Len(w.copied) = Read(w.pc) /\ w.copied \in Seq(Data)
      /\ w.name \in [Refs(spec) -> Files]
  BY <1>2, Working DEF TypeInv, Prepared, spec
<1>4. PICK a \in Refs(spec), next \in {"copyFirmware", "write"} :
        CopySource(a, next) /\ Read(next) = Read(w.pc) + 1
  <2>1. CASE CopyInitrd
    <3>1. CopySource(spec.initrd, "copyFirmware") /\ w.pc = "copyInitrd"
      BY <2>1 DEF CopyInitrd, Assembling
    <3>2. Read("copyFirmware") = Read("copyInitrd") + 1
      BY DEF Read
    <3> QED BY <1>2, <3>1, <3>2, NetbootState
  <2>2. CASE CopyFirmware
    <3>1. CopySource(spec.firmware, "write") /\ w.pc = "copyFirmware"
      BY <2>2 DEF CopyFirmware, Assembling
    <3>2. Read("write") = Read("copyFirmware") + 1
      BY DEF Read
    <3> QED BY <1>2, <1>3, <3>1, <3>2, NetbootState
  <2> QED BY <2>1, <2>2
<1>5. UNCHANGED <<boot, faults>> /\ now' \in 0..MaxTime
  BY <1>2, <1>4, CopyEffect, NetbootState
<1>6. CASE Fail
  BY <1>1, <1>2, <1>5, <1>6, FailedType
<1>7. CASE /\ w' \in Reconciling /\ w'.pc = next /\ w'.key = w.key /\ w'.bc = w.bc
           /\ w'.name = w.name /\ FileOf(a) \in File
           /\ w'.copied = Append(w.copied, FileOf(a).data)
  <2>1. Len(w'.copied) = Read(next)
    <3>1. PICK d \in Data : d = FileOf(a).data
      BY <1>7 DEF File
    <3>2. PICK old \in Seq(Data) : old = w.copied
      BY <1>3
    <3>3. Len(Append(old, d)) = Len(old) + 1
      OBVIOUS
    <3> QED BY <1>3, <1>4, <1>7, <3>1, <3>2, <3>3
  <2>2. boot'[w.key].kernel \in Directory /\ boot'[w.key].initrd \in Directory /\ spec.mode = "netboot"
    BY <1>2, <1>5, NetbootState DEF dir
  <2>3. Prepared(w', boot')
    BY <1>3, <1>4, <1>7, <2>1, <2>2 DEF Prepared, spec, NetbootSteps, CombineSteps, ISOSteps
  <2>4. boot' \in [Configs -> BootDir]
    BY <1>2, <1>5, NetbootState
  <2> QED BY <1>1, <1>5, <1>7, <2>3, <2>4, AssembleType
<1> QED BY <1>2, <1>4, <1>6, <1>7, CopyEffect

\* The last write of the concatenation.
LEMMA WriteEffect ==
    ASSUME TypeInv, WriteCombined
    PROVE  /\ w.pc = "write" /\ Assembling("write") /\ UNCHANGED <<boot, faults>>
           /\ now' \in 0..MaxTime /\ now' \in Nat /\ now < now'
           /\ w' \in Reconciling /\ w'.pc = "install" /\ w'.key = w.key /\ w'.bc = w.bc
           /\ w'.name = w.name /\ w'.copied = w.copied /\ w'.stamp = now'
<1>1. /\ w.pc = "write" /\ Assembling("write") /\ UNCHANGED <<boot, faults>> /\ Stamp
      /\ w.pc \in NetbootSteps /\ "install" \in Steps
  BY DoingSteps DEF WriteCombined, Assembling, NetbootSteps, Steps
<1>2. now' \in 0..MaxTime /\ now' \in Nat /\ now < now'
  BY <1>1, StampType DEF TypeInv
<1>3. PICK x \in Reconciling : x = w
  BY <1>1, NetbootState
<1>4. PICK t \in Nat : t = now'
  BY <1>2
<1>5. w' = [x EXCEPT !.pc = "install", !.stamp = t]
  BY <1>3, <1>4 DEF WriteCombined
<1>6. /\ w' \in Reconciling /\ w'.pc = "install" /\ w'.key = x.key /\ w'.bc = x.bc
      /\ w'.name = x.name /\ w'.copied = x.copied /\ w'.stamp = t
  BY <1>1, <1>5 DEF Reconciling
<1> QED BY <1>1, <1>2, <1>3, <1>4, <1>6

LEMMA WriteType == ASSUME TypeInv, WriteCombined PROVE TypeInv'
<1>1. /\ w.pc \in NetbootSteps /\ w.pc \in CombineSteps /\ w.pc \in ReadSteps
      /\ w.pc \in {"mkdir"} \cup NetbootSteps \cup ISOSteps
  BY WriteEffect DEF NetbootSteps, CombineSteps, ReadSteps
<1>2. /\ spec.firmware # None /\ Len(w.copied) = Read("write") /\ spec.mode = "netboot"
      /\ w.name \in [Refs(spec) -> Files]
      /\ boot[w.key].kernel \in Directory /\ boot[w.key].initrd \in Directory
  BY <1>1, WriteEffect DEF TypeInv, Prepared, spec
<1>3. Read("install") = Read("write") /\ "install" \notin ISOSteps
  BY DEF Read, ISOSteps
<1>4. Prepared(w', boot')
  BY <1>2, <1>3, WriteEffect DEF Prepared, spec
<1>5. boot' \in [Configs -> BootDir]
  BY <1>1, NetbootState, WriteEffect
<1> QED BY <1>4, <1>5, WriteEffect, AssembleType

\* The rename of the concatenation.
LEMMA InstallEffect ==
    ASSUME TypeInv, Install
    PROVE  LET f == w.name[spec.initrd]
               e == boot'[w.key].initrd.entry[f]
           IN  /\ w.pc = "install" /\ Assembling("install") /\ UNCHANGED <<now, faults>>
               /\ Goto("setReady") /\ boot' \in [Configs -> BootDir]
               /\ boot'[w.key].kernel = dir.kernel /\ boot'[w.key].initrd \in Directory
               /\ \A c \in Configs : c # w.key => boot'[c] = boot[c]
               /\ f \in Files
               /\ e \in Combined /\ e.data = <<w.copied[1], w.copied[2]>> /\ e.mtime = w.stamp
               /\ \A g \in Files : g # f => boot'[w.key].initrd.entry[g] = dir.initrd.entry[g]
<1>1. /\ w.pc = "install" /\ Assembling("install") /\ UNCHANGED <<now, faults>> /\ Goto("setReady")
      /\ w.pc \in NetbootSteps /\ w.pc \in ReadSteps
  BY DEF Install, Assembling, NetbootSteps, ReadSteps
<1>2. /\ TypeOK /\ w.pc # "idle" /\ w.pc \in DOMAIN Doing /\ dir.kernel \in Directory
      /\ dir.initrd \in Directory /\ spec.initrd \in Refs(spec)
  BY <1>1, NetbootState DEF TypeInv
<1>3. w.copied[1] \in Data /\ w.copied[2] \in Data
  <2>1. Len(w.copied) = 2 /\ w.copied \in Seq(Data)
    BY <1>1, <1>2, Working DEF TypeInv, Prepared, Read
  <2> QED BY <2>1
<1>4. w.stamp \in Nat
  BY <1>2, Working
<1>5. PICK f \in Files : f = w.name[spec.initrd]
  BY <1>2, NameType
<1>6. PICK e : e = [type |-> "combined", mtime |-> w.stamp, data |-> <<w.copied[1], w.copied[2]>>]
  OBVIOUS
<1>7. e \in Combined /\ e.data = <<w.copied[1], w.copied[2]>> /\ e.mtime = w.stamp
  <2>1. <<w.copied[1], w.copied[2]>> \in (Data \X Data) \cup {Torn}
    BY <1>3
  <2> QED BY <1>4, <1>6, <2>1 DEF Combined
<1>8. SetEntry("initrd", f, e)
  BY <1>5, <1>6 DEF Install
<1>9. e \in Links \cup Combined \cup {NoFile}
  BY <1>7
<1>10. /\ boot' \in [Configs -> BootDir]
       /\ boot'[w.key].initrd \in Directory /\ boot'[w.key]["initrd"].entry[f] = e
       /\ \A g \in Files : g # f => boot'[w.key]["initrd"].entry[g] = dir["initrd"].entry[g]
       /\ \A k \in {"kernel", "initrd"} : k # "initrd" => boot'[w.key][k] = dir[k]
       /\ \A c \in Configs : c # w.key => boot'[c] = boot[c]
  BY <1>2, <1>8, <1>9, EntrySet
<1>11. boot'[w.key].kernel = dir.kernel
  BY <1>10
<1> QED BY <1>1, <1>5, <1>7, <1>10, <1>11

LEMMA InstallType == ASSUME TypeInv, Install PROVE TypeInv'
<1>1. /\ w.pc = "install" /\ Assembling("install") /\ UNCHANGED faults /\ Goto("setReady")
      /\ boot' \in [Configs -> BootDir] /\ now' \in 0..MaxTime
  BY InstallEffect DEF TypeInv, TypeOK
<1>2. "install" \in DOMAIN Doing /\ "setReady" \in Steps
  BY DoingSteps DEF NetbootSteps, Steps
<1> QED BY <1>1, <1>2, GoneType DEF NetbootSteps, CombineSteps, ISOSteps, ReadSteps

\* Where a step of iso mode starts from.
LEMMA ISOState ==
    ASSUME TypeInv, w.pc \in ISOSteps
    PROVE  /\ w.pc \in DOMAIN Doing /\ w.pc # "idle" /\ w.key \in Configs
           /\ w \in Reconciling /\ spec \in Specs /\ spec.mode = "iso"
           /\ boot \in [Configs -> BootDir] /\ dir \in BootDir
           /\ spec.iso \in Refs(spec) /\ spec.kernelPath \in ISOPaths /\ spec.initrdPath \in ISOPaths
           /\ LinkTo(spec.iso) \in Links /\ now \in 0..MaxTime
<1>1. w.pc \in DOMAIN Doing /\ w.pc # "idle"
  BY DoingSteps DEF ISOSteps
<1>2. /\ w.key \in Configs /\ w \in Reconciling /\ spec \in Specs
      /\ boot \in [Configs -> BootDir] /\ dir \in BootDir /\ now \in 0..MaxTime
  BY <1>1, Working DEF TypeInv, TypeOK
<1>3. spec.mode = "iso"
  BY DEF TypeInv, Prepared, spec
<1>4. spec.iso \in Refs(spec) /\ spec.kernelPath \in ISOPaths /\ spec.initrdPath \in ISOPaths
  BY <1>2, <1>3, RefsType
<1>5. LinkTo(spec.iso) \in Links
  BY <1>1, <1>4, NameType
<1> QED BY <1>1, <1>2, <1>3, <1>4, <1>5

LEMMA ExtractType == ASSUME TypeInv, Extract PROVE TypeInv'
<1>1. /\ w.pc = "extract" /\ Assembling("extract") /\ UNCHANGED <<boot, now>>
      /\ (UNCHANGED faults \/ Fault) /\ w.pc \in ISOSteps /\ "extract" \in DOMAIN Doing
      /\ {"linkISO", "extractKernel"} \subseteq Steps
  BY DoingSteps DEF Extract, TakenFor, Assembling, ISOSteps, Steps
<1>2. boot' \in [Configs -> BootDir] /\ now' \in 0..MaxTime /\ spec.mode = "iso"
  BY <1>1, ISOState
<1>3. CASE Fail
  BY <1>1, <1>2, <1>3, FailedType
<1>4. CASE Goto("linkISO")
  BY <1>1, <1>2, <1>4, GoneType DEF NetbootSteps, CombineSteps, ReadSteps
<1>5. CASE /\ FileOf(spec.iso) # NoFile
           /\ w' = [w EXCEPT !.pc = "extractKernel", !.copied = <<FileOf(spec.iso).data>>]
  <2>1. FileOf(spec.iso) \in File
    BY <1>1, <1>5, ISOState, NameType
  <2>2. PICK d \in Data : d = FileOf(spec.iso).data
    BY <2>1 DEF File
  <2>3. PICK x \in Reconciling : x = w
    BY <1>1, ISOState
  <2>4. w' = [x EXCEPT !.pc = "extractKernel", !.copied = <<d>>]
    BY <1>5, <2>2, <2>3
  <2>5. /\ w' \in Reconciling /\ w'.pc = "extractKernel" /\ w'.key = x.key /\ w'.bc = x.bc
        /\ w'.name = x.name /\ w'.copied = <<d>>
    <3>1. <<d>> \in Seq(Data)
      OBVIOUS
    <3> QED BY <1>1, <2>4, <3>1 DEF Reconciling
  <2>6. w.name \in [Refs(spec) -> Files]
    BY <1>1 DEF TypeInv, Prepared, spec
  <2>7. Len(w'.copied) = Read("extractKernel")
    BY <2>5 DEF Read
  <2>8. Prepared(w', boot')
    BY <1>2, <2>3, <2>5, <2>6, <2>7 DEF Prepared, spec, NetbootSteps, CombineSteps, ISOSteps
  <2> QED BY <1>1, <1>2, <2>5, <2>8, AssembleType
<1> QED BY <1>3, <1>4, <1>5 DEF Extract

LEMMA ExtractKernelType == ASSUME TypeInv, ExtractKernel PROVE TypeInv'
<1>1. /\ w.pc = "extractKernel" /\ Assembling("extractKernel") /\ UNCHANGED faults
      /\ w.pc \in ISOSteps /\ w.pc \in ReadSteps /\ "extractKernel" \in DOMAIN Doing
      /\ "extractInitrd" \in Steps /\ Goto("extractInitrd") /\ Stamp
  BY DoingSteps DEF ExtractKernel, Assembling, ISOSteps, ReadSteps, Steps
<1>2. TypeOK /\ w.pc # "idle" /\ dir \in BootDir /\ spec.mode = "iso" /\ spec.kernelPath \in ISOPaths
  BY <1>1, ISOState DEF TypeInv
<1>3. PICK t \in Nat : t = now'
  BY <1>1, <1>2, StampType
<1>4. w.copied[1] \in Data
  <2>1. Len(w.copied) = 1 /\ w.copied \in Seq(Data)
    BY <1>1, <1>2, Working DEF TypeInv, Prepared, Read
  <2> QED BY <2>1
<1>5. PICK o \in Extracted : o = [type |-> "file", mtime |-> t, data |-> <<w.copied[1], spec.kernelPath>>]
  BY <1>2, <1>4 DEF Extracted
<1>6. PICK d \in BootDir : d = [dir EXCEPT !.vmlinuz = o]
  BY <1>2 DEF BootDir
<1>7. SetDir(d)
  BY <1>3, <1>5, <1>6 DEF ExtractKernel, Output
<1>8. boot' \in [Configs -> BootDir] /\ now' \in 0..MaxTime
  BY <1>1, <1>2, <1>7, BootSet, StampType
<1>9. Read("extractInitrd") = Read("extractKernel") /\ "extractInitrd" \notin NetbootSteps \cup CombineSteps
  BY DEF Read, NetbootSteps, CombineSteps
<1> QED BY <1>1, <1>2, <1>8, <1>9, GoneType

LEMMA ExtractInitrdType == ASSUME TypeInv, ExtractInitrd PROVE TypeInv'
<1>1. /\ w.pc = "extractInitrd" /\ Assembling("extractInitrd") /\ UNCHANGED faults
      /\ w.pc \in ISOSteps /\ w.pc \in ReadSteps /\ "extractInitrd" \in DOMAIN Doing
      /\ "linkISO" \in Steps
  BY DoingSteps DEF ExtractInitrd, Assembling, ISOSteps, ReadSteps, Steps
<1>2. TypeOK /\ w.pc # "idle" /\ dir \in BootDir /\ spec.mode = "iso" /\ spec.initrdPath \in ISOPaths
      /\ boot \in [Configs -> BootDir] /\ now \in 0..MaxTime
  BY <1>1, ISOState DEF TypeInv
<1>3. CASE Fail /\ UNCHANGED <<boot, now>>
  BY <1>1, <1>2, <1>3, FailedType
<1>4. CASE Stamp /\ SetDir([dir EXCEPT !.initrd = Output(spec.initrdPath)]) /\ Goto("linkISO")
  <2>1. PICK t \in Nat : t = now'
    BY <1>2, <1>4, StampType
  <2>2. w.copied[1] \in Data
    <3>1. Len(w.copied) = 1 /\ w.copied \in Seq(Data)
      BY <1>1, <1>2, Working DEF TypeInv, Prepared, Read
    <3> QED BY <3>1
  <2>3. PICK o \in Extracted :
            o = [type |-> "file", mtime |-> t, data |-> <<w.copied[1], spec.initrdPath>>]
    BY <1>2, <2>2 DEF Extracted
  <2>4. PICK d \in BootDir : d = [dir EXCEPT !.initrd = o]
    BY <1>2 DEF BootDir
  <2>5. SetDir(d)
    BY <1>4, <2>1, <2>3, <2>4 DEF Output
  <2>6. boot' \in [Configs -> BootDir] /\ now' \in 0..MaxTime
    BY <1>2, <1>4, <2>5, BootSet, StampType
  <2>7. "linkISO" \notin NetbootSteps \cup CombineSteps \cup ReadSteps
    BY DEF ReadSteps, NetbootSteps, CombineSteps
  <2> QED BY <1>1, <1>2, <1>4, <2>6, <2>7, GoneType
<1> QED BY <1>3, <1>4 DEF ExtractInitrd

LEMMA LinkISOType == ASSUME TypeInv, LinkISO \/ SymlinkISO PROVE TypeInv'
<1>1. /\ w.pc \in {"linkISO", "symlinkISO"} /\ Assembling(w.pc) /\ UNCHANGED now
      /\ w.pc \in ISOSteps /\ (UNCHANGED faults \/ Fault)
      /\ {"setReady", "symlinkISO"} \subseteq Steps
  BY DoingSteps DEF LinkISO, SymlinkISO, TakenFor, Assembling, ISOSteps, Steps
<1>2. /\ TypeOK /\ w.pc # "idle" /\ dir \in BootDir /\ spec.mode = "iso" /\ w.pc \in DOMAIN Doing
      /\ boot \in [Configs -> BootDir] /\ now' \in 0..MaxTime /\ LinkTo(spec.iso) \in Links
  BY <1>1, ISOState DEF TypeInv
<1>3. ASSUME NEW S, S \subseteq Links, SetDir([dir EXCEPT !.iso = S])
      PROVE  boot' \in [Configs -> BootDir]
  <2>1. PICK d \in BootDir : d = [dir EXCEPT !.iso = S]
    BY <1>2, <1>3 DEF BootDir
  <2>2. SetDir(d)
    BY <1>3, <2>1
  <2> QED BY <1>2, <2>2, BootSet
<1>4. dir.iso \subseteq Links
  BY <1>2 DEF BootDir
<1>5. (\E next \in {"setReady", "symlinkISO"} : Goto(next)) \/ (Fail /\ UNCHANGED boot)
  BY DEF LinkISO, SymlinkISO
<1>6. boot' \in [Configs -> BootDir]
  <2>1. CASE UNCHANGED boot
    BY <1>2, <2>1
  <2>2. CASE SetDir([dir EXCEPT !.iso = OtherLinks])
    <3>1. PICK S : S = OtherLinks
      OBVIOUS
    <3> QED BY <1>3, <1>4, <2>2, <3>1 DEF OtherLinks
  <2>3. CASE SetDir([dir EXCEPT !.iso = @ \cup {LinkTo(spec.iso)}])
    <3>1. PICK S : S = dir.iso \cup {LinkTo(spec.iso)}
      OBVIOUS
    <3> QED BY <1>2, <1>3, <1>4, <2>3, <3>1
  <2> QED BY <2>1, <2>2, <2>3 DEF LinkISO, SymlinkISO
<1>7. {"setReady", "symlinkISO"} \cap (NetbootSteps \cup CombineSteps \cup ReadSteps) = {}
  BY DEF ReadSteps, NetbootSteps, CombineSteps
<1>8. CASE Fail /\ UNCHANGED boot
  BY <1>1, <1>2, <1>8, FailedType
<1>9. ASSUME NEW next \in {"setReady", "symlinkISO"}, Goto(next)
      PROVE  TypeInv'
  BY <1>1, <1>2, <1>6, <1>7, <1>9, GoneType
<1> QED BY <1>5, <1>8, <1>9

LEMMA CallFailsType == ASSUME TypeInv, CallFails PROVE TypeInv'
<1>1. w.pc # "idle" /\ w.pc \in DOMAIN Doing /\ Assembling(w.pc) /\ Fail /\ UNCHANGED <<boot, now>>
      /\ Fault
  BY DoingSteps DEF CallFails, NetbootSteps, ISOSteps
<1>2. boot' \in [Configs -> BootDir] /\ now' \in 0..MaxTime
  BY <1>1 DEF TypeInv, TypeOK
<1> QED BY <1>1, <1>2, FailedType

LEMMA PublishType ==
    ASSUME TypeOK, NEW c \in Configs, NEW obj \in BootConfigObject \cup {Absent}, Publish(c, obj)
    PROVE  api' \in [Configs -> Version] /\ events' \in [Configs -> SUBSET Version]
<1>0. api[c].rv + 1 \in Nat
  BY DEF TypeOK, Version
<1>1. PICK v \in Version : v = [rv |-> api[c].rv + 1, obj |-> obj]
  BY <1>0 DEF Version
<1>2. api' = [api EXCEPT ![c] = v] /\ events' = [events EXCEPT ![c] = @ \cup {v}]
  BY <1>1 DEF Publish
<1> QED BY <1>2 DEF TypeOK

LEMMA AddAfterType ==
    ASSUME TypeOK, NEW c \in Configs, AddAfter(c)
    PROVE  /\ queue' \in [Configs -> {"idle", "delayed", "ready"}]
           /\ queue'[c] # "idle" /\ \A d \in Configs : d # c => queue'[d] = queue[d]
BY DEF TypeOK, AddAfter

\* The status writes.
LEMMA AcceptType ==
    ASSUME TypeOK, w.pc # "idle", NEW phase \in {"Ready", "Pending", "Error"}, Accept(phase)
    PROVE  /\ api' \in [Configs -> Version] /\ events' \in [Configs -> SUBSET Version]
           /\ confirmed' \in [Configs -> Nat]
<1>1. /\ w.key \in Configs /\ w.bc.obj \in BootConfigObject /\ w.message \in Messages
  BY Working
<1>2. PICK obj \in BootConfigObject : obj = [w.bc.obj EXCEPT !.phase = phase, !.message = w.message]
  BY <1>1 DEF BootConfigObject, Phases
<1>3. Publish(w.key, obj) /\ Confirm(phase)
  BY <1>2 DEF Accept
<1>4. confirmed' \in [Configs -> Nat]
  BY <1>1, <1>3 DEF Confirm, BootConfigObject, TypeOK
<1> QED BY <1>1, <1>3, <1>4, PublishType

LEMMA FinishType ==
    ASSUME TypeInv, NEW step \in {"setReady", "setPending", "setError"},
           NEW phase \in {"Ready", "Pending", "Error"}, Finish(step, phase)
    PROVE  TypeInv'
<1>1. /\ w.pc # "idle" /\ TypeOK /\ w' = Idle
      /\ UNCHANGED <<cache, artVars, artCache, fileVars, boot, now, edits, crashes>>
  BY DEF Finish, TypeInv
<1>2. w.key \in Configs /\ w.bc.obj \in BootConfigObject
  BY <1>1, Working
<1>3. queue' \in [Configs -> {"idle", "delayed", "ready"}]
  <2>1. UNCHANGED queue \/ AddAfter(w.key)
    BY DEF Finish
  <2> QED BY <1>1, <1>2, <2>1, AddAfterType DEF TypeOK
<1>4. faults' \in 0..MaxFaults
  <2>1. UNCHANGED faults \/ Fault
    BY DEF Finish, UpdateErr
  <2> QED BY <1>1, <2>1, FaultType
<1>5. /\ api' \in [Configs -> Version] /\ events' \in [Configs -> SUBSET Version]
      /\ confirmed' \in [Configs -> Nat]
  <2>1. \/ UNCHANGED <<api, events>> /\ (UNCHANGED confirmed \/ Confirm(phase))
        \/ Accept(phase)
    BY DEF Finish, UpdateErr, configVars
  <2>2. Confirm(phase) => confirmed' \in [Configs -> Nat]
    BY <1>1, <1>2 DEF Confirm, BootConfigObject, TypeOK
  <2> QED BY <1>1, <2>1, <2>2, AcceptType DEF TypeOK
<1>6. Prepared(w', boot')
  BY <1>1, NothingPrepared DEF Idle
<1> QED BY <1>1, <1>3, <1>4, <1>5, <1>6 DEF TypeInv, TypeOK, artVars, fileVars

LEMMA WorkerType == ASSUME TypeInv, WorkerStep PROVE TypeInv'
<1>1. CASE SetReady \/ SetPending \/ SetError
  BY <1>1, FinishType DEF SetReady, SetPending, SetError
<1> QED BY <1>1, MkdirType, KernelType, InitrdType, ConcatType, CopyType, WriteType, InstallType,
        ExtractType, ExtractKernelType, ExtractInitrdType, LinkISOType, CallFailsType DEF WorkerStep

LEMMA DeliverType ==
    ASSUME TypeInv, NEW c \in Configs, Deliver(c) \/ Elapse(c)
    PROVE  TypeInv'
<1>1. /\ api' = api /\ confirmed' = confirmed
      /\ UNCHANGED <<artVars, artCache, w, fileVars, boot, now, edits, faults, crashes>>
  BY DEF Deliver, Elapse, configVars
<1>2. /\ events \in [Configs -> SUBSET Version] /\ cache \in [Configs -> Version]
      /\ queue \in [Configs -> {"idle", "delayed", "ready"}]
  BY DEF TypeInv, TypeOK
<1>3. events' \in [Configs -> SUBSET Version] /\ cache' \in [Configs -> Version]
  <2>1. CASE Deliver(c)
    <3>1. PICK v \in Version :
            cache' = [cache EXCEPT ![c] = v] /\ events' = [events EXCEPT ![c] = @ \ {v}]
      BY <1>2, <2>1 DEF Deliver
    <3> QED BY <1>2, <3>1
  <2>2. CASE Elapse(c)
    BY <1>2, <2>2 DEF Elapse, configVars
  <2> QED BY <2>1, <2>2
<1>4. queue' \in [Configs -> {"idle", "delayed", "ready"}]
  BY <1>2 DEF Deliver, Elapse
<1> QED BY <1>1, <1>3, <1>4 DEF TypeInv, TypeOK, artVars, fileVars

LEMMA DeliverArtifactType ==
    ASSUME TypeInv, NEW a \in Artifacts, DeliverArtifact(a)
    PROVE  TypeInv'
<1>1. UNCHANGED <<configVars, cache, arts, w, fileVars, boot, now, edits, faults, crashes>>
  BY DEF DeliverArtifact
<1>2. artEvents' \in [Artifacts -> SUBSET ArtifactVersion] /\ artCache' \in [Artifacts -> ArtifactVersion]
  BY DEF TypeInv, TypeOK, DeliverArtifact
<1>3. queue' \in [Configs -> {"idle", "delayed", "ready"}]
  BY DEF TypeInv, TypeOK, DeliverArtifact
<1> QED BY <1>1, <1>2, <1>3 DEF TypeInv, TypeOK, configVars, fileVars

LEMMA RestartType ==
    ASSUME TypeInv, Restart, boot' \in [Configs -> BootDir],
           file' \in [Artifacts -> [Files -> File \cup {NoFile}]]
    PROVE  TypeInv'
<1>1. /\ cache' = api /\ artCache' = arts /\ w' = Idle /\ job' = NoJob
      /\ UNCHANGED <<api, arts, now, edits, faults, confirmed>>
  BY DEF Restart
<1>2. /\ events' \in [Configs -> SUBSET Version] /\ artEvents' \in [Artifacts -> SUBSET ArtifactVersion]
      /\ queue' \in [Configs -> {"idle", "delayed", "ready"}]
  BY DEF Restart
<1>3. crashes' \in 0..MaxCrashes
  BY BoundsAssumption DEF Restart, TypeInv, TypeOK
<1>4. Prepared(w', boot')
  BY <1>1, NothingPrepared DEF Idle
<1> QED BY <1>1, <1>2, <1>3, <1>4 DEF TypeInv, TypeOK

\* The reconcile of an artifact in progress.
LEMMA JobType ==
    ASSUME TypeOK, job.pc # "idle"
    PROVE  /\ job \in Jobs /\ job.key \in Artifacts /\ job.read \in ArtifactVersion
           /\ job.read.rev \in Revisions /\ job.name \in Files /\ job.file \in File \cup {NoFile}
<1>1. job \in Jobs
  BY DEF TypeOK, NoJob
<1>2. /\ job.key \in Artifacts /\ job.read \in ArtifactVersion /\ job.name \in Files
      /\ job.file \in File \cup {NoFile}
  BY <1>1 DEF Jobs
<1>3. job.read.rev \in Revisions
  BY <1>2 DEF ArtifactVersion
<1> QED BY <1>1, <1>2, <1>3

\* What a power loss leaves.
LEMMA PowerLossEffect ==
    ASSUME TypeInv, PowerLoss
    PROVE  /\ \E c \in Configs : \E left \in LeftOf(boot[c], TRUE) :
                /\ boot' \in [Configs -> BootDir]
                /\ left \in BootDir /\ boot'[c] = left
                /\ \A d \in Configs : d # c => boot'[d] = boot[d]
           /\ file' \in [Artifacts -> [Files -> File \cup {NoFile}]]
           /\ \A a \in Artifacts, f \in Files : file'[a][f] \in {file[a][f], NoFile}
<1>1. /\ boot \in [Configs -> BootDir] /\ file \in [Artifacts -> [Files -> File \cup {NoFile}]]
  BY DEF TypeInv, TypeOK
<1>2. PICK c \in Configs : \E left \in LeftOf(boot[c], TRUE) : boot' = [boot EXCEPT ![c] = left]
  BY DEF PowerLoss
<1>3. PICK left \in LeftOf(boot[c], TRUE) : boot' = [boot EXCEPT ![c] = left]
  BY <1>2
<1>4. left \in BootDir
  BY <1>1, LeftType
<1>5. /\ boot' \in [Configs -> BootDir] /\ boot'[c] = left
      /\ \A d \in Configs : d # c => boot'[d] = boot[d]
  BY <1>1, <1>3, <1>4
<1>6. /\ file' \in [Artifacts -> [Files -> File \cup {NoFile}]]
      /\ \A a \in Artifacts, f \in Files : file'[a][f] \in {file[a][f], NoFile}
  <2>1. CASE UNCHANGED file
    BY <1>1, <2>1
  <2>2. CASE job.pc = "finish" /\ file' = [file EXCEPT ![job.key][job.name] = NoFile]
    <3>1. PICK b \in Artifacts, g \in Files : file' = [file EXCEPT ![b][g] = NoFile]
      BY <2>2, JobType DEF TypeInv
    <3> QED BY <1>1, <3>1
  <2> QED BY <2>1, <2>2 DEF PowerLoss
<1> QED BY <1>4, <1>5, <1>6

LEMMA PowerLossType == ASSUME TypeInv, Crash \/ PowerLoss PROVE TypeInv'
<1>1. CASE Crash
  BY <1>1, RestartType DEF Crash, TypeInv, TypeOK
<1>2. CASE PowerLoss
  BY <1>2, PowerLossEffect, RestartType DEF PowerLoss
<1> QED BY <1>1, <1>2

LEMMA PathType ==
    ASSUME NEW a \in Artifacts, NEW v \in ArtifactVersion
    PROVE  v.rev \in Revisions /\ PathOf(a, v) \in Files
<1>1. v.rev \in Revisions
  BY DEF ArtifactVersion
<1> QED BY <1>1, ConstantsAssumption DEF PathOf

LEMMA ArtifactState ==
    ASSUME TypeOK, NEW a \in Artifacts
    PROVE  /\ arts[a].rv + 1 \in Nat /\ arts[a].rev \in Revisions /\ Path(a) \in Files
           /\ arts[a].phase \in {"none", "", "Downloading", "Ready", "Error"}
           /\ arts[a] \in ArtifactVersion /\ artCache[a] \in ArtifactVersion
<1>1. PICK v \in ArtifactVersion : v = arts[a]
  BY DEF TypeOK
<1>2. v.rev \in Revisions /\ v.phase \in {"none", "", "Downloading", "Ready", "Error"}
  BY DEF ArtifactVersion
<1>3. v.rv + 1 \in Nat
  <2>1. v.rv \in Nat
    BY DEF ArtifactVersion
  <2> QED BY <2>1
<1>4. Path(a) \in Files
  BY <1>1, PathType DEF Path
<1> QED BY <1>1, <1>2, <1>3, <1>4 DEF TypeOK

LEMMA PublishArtifactType ==
    ASSUME TypeOK, NEW a \in Artifacts, NEW rev \in Revisions,
           NEW phase \in {"none", "", "Downloading", "Ready", "Error"},
           PublishArtifact(a, rev, phase)
    PROVE  /\ arts' \in [Artifacts -> ArtifactVersion]
           /\ artEvents' \in [Artifacts -> SUBSET ArtifactVersion]
<1>1. arts[a].rv + 1 \in Nat
  BY ArtifactState
<1>2. PICK v \in ArtifactVersion : v = [rv |-> arts[a].rv + 1, rev |-> rev, phase |-> phase]
  BY <1>1 DEF ArtifactVersion
<1>3. arts' = [arts EXCEPT ![a] = v] /\ artEvents' = [artEvents EXCEPT ![a] = @ \cup {v}]
  BY <1>2 DEF PublishArtifact
<1> QED BY <1>3 DEF TypeOK

LEMMA BeginType ==
    ASSUME NEW a \in Artifacts, NEW v \in ArtifactVersion, NEW pc \in {"remove", "get"},
           Begin(a, v, pc)
    PROVE  /\ job' \in Jobs /\ job'.pc = pc /\ job'.key = a /\ job'.read = v
           /\ job'.name = PathOf(a, v) /\ job'.file = NoFile
<1>1. PICK f \in Files : f = PathOf(a, v)
  BY PathType
<1>2. job' = [pc |-> pc, key |-> a, read |-> v, name |-> f, file |-> NoFile]
  BY <1>1 DEF Begin
<1> QED BY <1>1, <1>2 DEF Jobs

\* The later changes of a job.
LEMMA RefetchJob ==
    ASSUME NEW j \in Jobs, NEW v \in ArtifactVersion
    PROVE  /\ [j EXCEPT !.pc = "write", !.read = v] \in Jobs
           /\ [j EXCEPT !.pc = "write", !.read = v].pc = "write"
           /\ [j EXCEPT !.pc = "write", !.read = v].key = j.key
           /\ [j EXCEPT !.pc = "write", !.read = v].read = v
           /\ [j EXCEPT !.pc = "write", !.read = v].name = j.name
           /\ [j EXCEPT !.pc = "write", !.read = v].file = j.file
BY DEF Jobs

LEMMA WriteJob ==
    ASSUME NEW j \in Jobs, NEW x \in File
    PROVE  /\ [j EXCEPT !.pc = "rename", !.file = x] \in Jobs
           /\ [j EXCEPT !.pc = "rename", !.file = x].pc = "rename"
           /\ [j EXCEPT !.pc = "rename", !.file = x].key = j.key
           /\ [j EXCEPT !.pc = "rename", !.file = x].read = j.read
           /\ [j EXCEPT !.pc = "rename", !.file = x].name = j.name
           /\ [j EXCEPT !.pc = "rename", !.file = x].file = x
BY DEF Jobs

LEMMA RenameJob ==
    ASSUME NEW j \in Jobs
    PROVE  /\ [j EXCEPT !.pc = "finish"] \in Jobs /\ [j EXCEPT !.pc = "finish"].pc = "finish"
           /\ [j EXCEPT !.pc = "finish"].key = j.key /\ [j EXCEPT !.pc = "finish"].read = j.read
           /\ [j EXCEPT !.pc = "finish"].name = j.name /\ [j EXCEPT !.pc = "finish"].file = j.file
BY DEF Jobs

\* What the BootArtifact controller does.
ArtifactAction == ArtifactStep \/ FailDownload \/ \E a \in Artifacts : FailStat(a)

\* The objects it writes, the files it changes, and the job that goes on. What
\* a job writes is the content of the version it read last.
LEMMA ArtifactEffect ==
    ASSUME TypeOK, ArtifactAction
    PROVE  /\ UNCHANGED artifactStepVars /\ (UNCHANGED faults \/ Fault) /\ now' \in 0..MaxTime
           /\ \/ UNCHANGED artVars
              \/ \E a \in Artifacts, phase \in {"Downloading", "Ready", "Error"} : SetPhase(a, phase)
           /\ \/ UNCHANGED file
              \/ /\ job.pc \in {"remove", "rename"}
                 /\ \E x \in {NoFile, job.file} : file' = [file EXCEPT ![job.key][job.name] = x]
           /\ \/ UNCHANGED job
              \/ job' = NoJob
              \/ /\ job' \in Jobs
                 /\ \/ job'.read \in {artCache[job'.key], arts[job'.key]}
                    \/ job.pc # "idle" /\ job'.key = job.key /\ job'.read = job.read
                 /\ \/ job'.file = NoFile
                    \/ job.pc # "idle" /\ job'.key = job.key /\ job'.file = job.file
                    \/ job'.file \in File /\ job'.file.data = <<job'.key, job'.read.rev>>
<1>1. /\ now \in 0..MaxTime /\ job \in {NoJob} \cup Jobs
      /\ \A a \in Artifacts : arts[a] \in ArtifactVersion /\ artCache[a] \in ArtifactVersion
  BY DEF TypeOK
<1>2. ASSUME NEW a \in Artifacts, Verify(a)
      PROVE  /\ UNCHANGED <<artifactStepVars, artVars, file, now, faults>>
             /\ job' \in Jobs /\ job'.key = a /\ job'.read = artCache[a] /\ job'.file = NoFile
  BY <1>1, <1>2, BeginType DEF Verify
<1>3. ASSUME NEW a \in Artifacts, VerifyMatch(a)
      PROVE  /\ UNCHANGED <<artifactStepVars, fileVars, now, faults>>
             /\ SetPhase(a, "Ready")
  BY <1>3 DEF VerifyMatch
<1>4. ASSUME NEW a \in Artifacts, StartDownload(a)
      PROVE  /\ UNCHANGED <<artifactStepVars, file, now>> /\ (UNCHANGED faults \/ Fault)
             /\ UNCHANGED artVars \/ SetPhase(a, "Downloading")
             /\ job' \in Jobs /\ job'.key = a /\ job'.read = arts[a] /\ job'.file = NoFile
  <2>1. Begin(a, arts[a], "get") /\ SetDownloading(a) /\ UNCHANGED <<artifactStepVars, file, now>>
        /\ (UNCHANGED faults \/ Fault)
    BY <1>4 DEF StartDownload
  <2> QED BY <1>1, <2>1, BeginType DEF SetDownloading
<1>5. ASSUME Refetch
      PROVE  /\ UNCHANGED <<artifactStepVars, artVars, file, now, faults>>
             /\ \/ job' = NoJob
                \/ /\ job' \in Jobs /\ job'.key = job.key /\ job'.read = artCache[job'.key]
                   /\ job'.file = job.file /\ job.pc # "idle"
  <2>1. job \in Jobs /\ job.pc = "get" /\ job.key \in Artifacts
    BY <1>5, JobType DEF Refetch
  <2>3. PICK v \in ArtifactVersion : v = artCache[job.key]
    BY <1>1, <2>1
  <2>4. CASE job' = [job EXCEPT !.pc = "write", !.read = v]
    <3>1. PICK j \in Jobs : j = job
      BY <2>1
    <3>2. job' \in Jobs /\ job'.key = j.key /\ job'.read = v /\ job'.file = j.file
      BY <2>4, <3>1, RefetchJob
    <3> QED BY <1>5, <2>1, <2>3, <3>1, <3>2 DEF Refetch
  <2> QED BY <1>5, <2>1, <2>3, <2>4 DEF Refetch
<1>6. ASSUME WriteTmp
      PROVE  /\ UNCHANGED <<artifactStepVars, artVars, file, faults>> /\ now' \in 0..MaxTime
             /\ job' \in Jobs /\ job'.key = job.key /\ job'.read = job.read
             /\ job'.file \in File /\ job'.file.data = <<job'.key, job'.read.rev>>
             /\ job.pc # "idle"
  <2>1. /\ job \in Jobs /\ job.key \in Artifacts /\ job.read \in ArtifactVersion
        /\ job.read.rev \in Revisions /\ UNCHANGED <<artifactStepVars, artVars, file, faults>>
        /\ now' \in 0..MaxTime /\ now' \in Nat
    BY <1>6, JobType, StampType DEF WriteTmp
  <2>2. PICK t \in Nat : t = now'
    BY <2>1
  <2>3. <<job.key, job.read.rev>> \in Data
    BY <2>1 DEF Data
  <2>4. PICK x \in File : x = [data |-> <<job.key, job.read.rev>>, mtime |-> t]
    BY <2>3 DEF File
  <2>5. job' = [job EXCEPT !.pc = "rename", !.file = x]
    BY <1>6, <2>2, <2>4 DEF WriteTmp
  <2>6. PICK j \in Jobs : j = job
    BY <2>1
  <2>7. job' \in Jobs /\ job'.key = j.key /\ job'.read = j.read /\ job'.file = x
    BY <2>5, <2>6, WriteJob
  <2> QED BY <1>6, <2>1, <2>4, <2>6, <2>7 DEF WriteTmp
<1>7. ASSUME RenameTmp
      PROVE  /\ UNCHANGED <<artifactStepVars, artVars, now, faults>> /\ job.pc = "rename"
             /\ file' = [file EXCEPT ![job.key][job.name] = job.file]
             /\ job' \in Jobs /\ job'.key = job.key /\ job'.read = job.read /\ job'.file = job.file
  <2>1. job \in Jobs /\ job' = [job EXCEPT !.pc = "finish"]
    BY <1>7, JobType DEF RenameTmp
  <2>2. job' \in Jobs /\ job'.key = job.key /\ job'.read = job.read /\ job'.file = job.file
    BY <2>1, RenameJob
  <2> QED BY <1>7, <2>2 DEF RenameTmp
<1>8. ASSUME Discard
      PROVE  /\ UNCHANGED <<artifactStepVars, artVars, now, faults>> /\ job.pc = "remove"
             /\ file' = [file EXCEPT ![job.key][job.name] = NoFile] /\ job' = NoJob
  BY <1>8 DEF Discard
<1>9. ASSUME EndDownload \/ FailDownload
      PROVE  /\ UNCHANGED <<artifactStepVars, file, now>> /\ (UNCHANGED faults \/ Fault)
             /\ \/ UNCHANGED artVars
                \/ \E a \in Artifacts, phase \in {"Ready", "Error"} : SetPhase(a, phase)
             /\ job' = NoJob
  <2>1. job.key \in Artifacts
    BY <1>9, JobType DEF EndDownload, FailDownload
  <2> QED BY <1>9, <2>1 DEF EndDownload, FailDownload
<1>10. ASSUME NEW a \in Artifacts, FailStat(a)
       PROVE  UNCHANGED <<artifactStepVars, fileVars, now>> /\ Fault /\ SetPhase(a, "Error")
  BY <1>10 DEF FailStat
<1>11. CASE ArtifactStep
  <2>1. CASE \E a \in Artifacts : Verify(a) \/ VerifyMatch(a) \/ StartDownload(a)
    <3>1. PICK a \in Artifacts : Verify(a) \/ VerifyMatch(a) \/ StartDownload(a)
      BY <2>1
    <3>2. CASE Verify(a)
      BY <1>1, <1>2, <3>2
    <3>3. CASE VerifyMatch(a)
      BY <1>1, <1>3, <3>3 DEF fileVars
    <3>4. CASE StartDownload(a)
      BY <1>1, <1>4, <3>4
    <3> QED BY <3>1, <3>2, <3>3, <3>4
  <2>2. CASE Discard
    BY <1>1, <1>8, <2>2
  <2>3. CASE Refetch
    BY <1>1, <1>5, <2>3
  <2>4. CASE WriteTmp
    BY <1>1, <1>6, <2>4
  <2>5. CASE RenameTmp
    BY <1>1, <1>7, <2>5
  <2>6. CASE EndDownload
    BY <1>1, <1>9, <2>6
  <2> QED BY <1>11, <2>1, <2>2, <2>3, <2>4, <2>5, <2>6 DEF ArtifactStep
<1>12. CASE FailDownload
  BY <1>1, <1>9, <1>12
<1>13. CASE \E a \in Artifacts : FailStat(a)
  BY <1>1, <1>10, <1>13 DEF fileVars
<1> QED BY <1>11, <1>12, <1>13 DEF ArtifactAction

LEMMA ArtifactType == ASSUME TypeInv, ArtifactAction PROVE TypeInv'
<1>1. TypeOK /\ UNCHANGED artifactStepVars /\ (UNCHANGED faults \/ Fault) /\ now' \in 0..MaxTime
  BY ArtifactEffect DEF TypeInv
<1>2. arts' \in [Artifacts -> ArtifactVersion] /\ artEvents' \in [Artifacts -> SUBSET ArtifactVersion]
  <2>1. CASE UNCHANGED artVars
    BY <1>1, <2>1 DEF artVars, TypeOK
  <2>2. CASE \E a \in Artifacts, phase \in {"Downloading", "Ready", "Error"} : SetPhase(a, phase)
    <3>1. PICK a \in Artifacts, phase \in {"Downloading", "Ready", "Error"} : SetPhase(a, phase)
      BY <2>2
    <3> QED BY <1>1, <3>1, ArtifactState, PublishArtifactType DEF SetPhase
  <2> QED BY <1>1, <2>1, <2>2, ArtifactEffect
<1>3. file' \in [Artifacts -> [Files -> File \cup {NoFile}]]
  <2>1. file \in [Artifacts -> [Files -> File \cup {NoFile}]]
    BY <1>1 DEF TypeOK
  <2>2. CASE \E x \in {NoFile, job.file} : job.pc \in {"remove", "rename"}
                /\ file' = [file EXCEPT ![job.key][job.name] = x]
    <3>1. /\ job.key \in Artifacts /\ job.name \in Files /\ job.file \in File \cup {NoFile}
      BY <1>1, <2>2, JobType
    <3>2. PICK x \in {NoFile, job.file} : file' = [file EXCEPT ![job.key][job.name] = x]
      BY <2>2
    <3>3. PICK a \in Artifacts, f \in Files : a = job.key /\ f = job.name
      BY <3>1
    <3>4. x \in File \cup {NoFile} /\ file' = [file EXCEPT ![a][f] = x]
      BY <3>1, <3>2, <3>3
    <3> QED BY <2>1, <3>4
  <2> QED BY <1>1, <2>1, <2>2, ArtifactEffect
<1>4. job' \in {NoJob} \cup Jobs
  BY <1>1, ArtifactEffect DEF TypeOK
<1>5. faults' \in 0..MaxFaults
  BY <1>1, FaultType
<1> QED BY <1>1, <1>2, <1>3, <1>4, <1>5 DEF TypeInv, TypeOK, artifactStepVars, configVars

LEMMA UserType ==
    ASSUME TypeOK, UserEdit
    PROVE  edits' \in 0..MaxEdits
BY BoundsAssumption DEF TypeOK, UserEdit

LEMMA SubmitType ==
    ASSUME TypeInv, NEW c \in Configs, NEW obj \in BootConfigObject \cup {Absent}, Submit(c, obj)
    PROVE  TypeInv'
<1>1. TypeOK /\ Publish(c, obj)
  BY DEF Submit, TypeInv
<1>2. edits' \in 0..MaxEdits /\ api' \in [Configs -> Version] /\ events' \in [Configs -> SUBSET Version]
  BY <1>1, UserType, PublishType DEF Submit
<1> QED BY <1>2 DEF Submit, TypeInv, TypeOK, artVars, fileVars

\* The objects users submit.
LEMMA SubmittedType ==
    ASSUME TypeOK, NEW c \in Configs, NEW s \in Specs
    PROVE  /\ [spec |-> s, gen |-> api[c].rv + 1, phase |-> "", message |-> <<>>] \in BootConfigObject
           /\ api[c].obj # Absent =>
                [api[c].obj EXCEPT !.spec = s, !.gen = api[c].rv + 1] \in BootConfigObject
<1>1. api[c].rv + 1 \in Nat /\ api[c].obj \in BootConfigObject \cup {Absent}
  BY DEF TypeOK, Version
<1> QED BY <1>1 DEF BootConfigObject, Phases, Messages

LEMMA UsersType ==
    ASSUME TypeInv,
           NEW c \in Configs, Delete(c) \/ \E s \in Specs : Create(c, s) \/ Edit(c, s)
    PROVE  TypeInv'
BY SubmitType, SubmittedType DEF Create, Edit, Delete, TypeInv

LEMMA SubmitArtifactType ==
    ASSUME TypeInv, NEW a \in Artifacts, NEW rev \in Revisions,
           NEW phase \in {"none", "", arts[a].phase}, SubmitArtifact(a, rev, phase)
    PROVE  TypeInv'
<1>1. TypeOK /\ PublishArtifact(a, rev, phase) /\ UserEdit
  BY DEF TypeInv, SubmitArtifact
<1>2. phase \in {"none", "", "Downloading", "Ready", "Error"}
  BY <1>1, ArtifactState
<1>3. /\ arts' \in [Artifacts -> ArtifactVersion] /\ artEvents' \in [Artifacts -> SUBSET ArtifactVersion]
      /\ edits' \in 0..MaxEdits
  BY <1>1, <1>2, PublishArtifactType, UserType
<1>4. UNCHANGED <<configVars, cache, artCache, queue, w, fileVars, boot, now, faults, crashes>>
  BY DEF SubmitArtifact
<1> QED BY <1>3, <1>4 DEF TypeInv, TypeOK, configVars, fileVars

LEMMA TypeStep == TypeInv /\ [Next]_vars => TypeInv'
<1> SUFFICES ASSUME TypeInv, [Next]_vars
             PROVE  TypeInv'
  OBVIOUS
<1>1. CASE UNCHANGED vars
  BY <1>1 DEF vars, TypeInv, TypeOK
<1>2. ASSUME NEW c \in Configs, Reconcile(c) \/ Deliver(c) \/ Elapse(c) \/ Delete(c)
      PROVE  TypeInv'
  BY <1>2, ReconcileType, DeliverType, UsersType
<1>3. ASSUME NEW c \in Configs, NEW s \in Specs, Create(c, s) \/ Edit(c, s)
      PROVE  TypeInv'
  BY <1>3, UsersType
<1>4. ASSUME (\E a \in Artifacts : DeliverArtifact(a)) \/ ArtifactAction
      PROVE  TypeInv'
  BY <1>4, DeliverArtifactType, ArtifactType
<1>5. ASSUME NEW a \in Editable, NEW r \in Revisions, NEW phase \in {"none", "", arts[a].phase},
             SubmitArtifact(a, r, phase)
      PROVE  TypeInv'
  <2>1. a \in Artifacts
    BY ConstantsAssumption
  <2> QED BY <1>5, <2>1, SubmitArtifactType
<1> QED BY <1>1, <1>2, <1>3, <1>4, <1>5, WorkerType, PowerLossType DEF Next, ArtifactAction

\* Every reachable state is well typed: no reconcile reads a missing artifact
\* or file, and each step finds the directories that MkdirAll made for it.
THEOREM TypeCorrect == Spec => []TypeOK
<1>1. TypeInv => TypeOK
  BY DEF TypeInv
<1> QED BY <1>1, TypeInit, TypeStep, PTL DEF Spec

-----------------------------------------------------------------------------
(* Ready in netboot mode *)

\* No two of the specs S make different concatenations, or a concatenation and
\* a link, under the same file name.
OwnInitrds(S) ==
    \A s, t \in S : \A q, r \in Revisions :
        s.firmware # None /\ Filename[s.initrd][q] = Filename[t.initrd][r] =>
            /\ s.initrd = t.initrd
            /\ t.firmware # None => s.firmware = t.firmware

Names(a) == {Filename[a][r] : r \in Revisions}

\* The initrd that a link or a concatenation of name f is for.
LinkFor(f, e, s) == f \in Names(s.initrd) /\ e = Link(s.initrd, f)
CombinedFor(f, e, s) ==
    /\ s.firmware # None
    /\ e \in Combined /\ f \in Names(s.initrd)
    /\ e.data # Torn => e.data[1][1] = s.initrd /\ e.data[2][1] = s.firmware

\* The parts of ServesNetboot.
KernelServed(d, s) ==
    d.kernel \in Directory /\ \E f \in Names(s.kernel) : d.kernel.entry[f] = Link(s.kernel, f)
InitrdServed(d, s) ==
    /\ d.initrd \in Directory
    /\ \E f \in Files : IF s.firmware = None THEN LinkFor(f, d.initrd.entry[f], s)
                        ELSE CombinedFor(f, d.initrd.entry[f], s)

LEMMA ServesParts ==
    ASSUME NEW d, NEW s, s.firmware = None \/ s.firmware \in Artifacts
    PROVE  KernelServed(d, s) /\ InitrdServed(d, s) => ServesNetboot(d, s, AnyRevision)
<1> SUFFICES ASSUME KernelServed(d, s), InitrdServed(d, s)
             PROVE  ServesNetboot(d, s, AnyRevision)
  OBVIOUS
<1>1. d.kernel \in Directory /\ HasLink(d.kernel, s.kernel, AnyRevision)
  BY DEF KernelServed, HasLink, AnyRevision, Names
<1>2. CASE s.firmware = None
  BY <1>1, <1>2 DEF InitrdServed, LinkFor, ServesNetboot, HasLink, AnyRevision, Names
<1>3. CASE s.firmware # None
  <2>1. PICK f \in Files : d.initrd \in Directory /\ CombinedFor(f, d.initrd.entry[f], s)
    BY <1>3 DEF InitrdServed
  <2>2. PICK e : e = d.initrd.entry[f]
    OBVIOUS
  <2>3. e.data # Torn => e.data \in ({s.initrd} \X Revisions) \X ({s.firmware} \X Revisions)
    <3>1. e.data # Torn => e.data \in Data \X Data
      BY <2>1, <2>2 DEF CombinedFor, Combined
    <3> QED BY <2>1, <2>2, <3>1 DEF CombinedFor, Data
  <2>4. PICK r \in Revisions : f = Filename[s.initrd][r]
    BY <2>1 DEF CombinedFor, Names
  <2>5. e \in Combined
    BY <2>1, <2>2 DEF CombinedFor
  <2>6. HasCombined(d.initrd, s, AnyRevision)
    BY <2>2, <2>3, <2>4, <2>5 DEF HasCombined, AnyRevision
  <2> QED BY <1>1, <1>3, <2>1, <2>6 DEF ServesNetboot
<1> QED BY <1>2, <1>3


\* How v relates to an earlier version u: an object changes its spec only
\* together with its generation, which is then a newer number.
Follows(u, v) ==
    /\ u.rv = v.rv => u = v
    /\ v.obj # Absent => \/ v.obj.gen > u.rv
                         \/ u.obj # Absent /\ v.obj.gen = u.obj.gen /\ v.obj.spec = u.obj.spec

Sound(v) == v.obj # Absent => v.obj.gen <= v.rv
Consistent(V) == \A u, v \in V : Sound(v) /\ (u.rv <= v.rv => Follows(u, v))

\* The versions of a BootConfig that somebody holds or will get.
Known(c) == {cache[c], api[c]} \cup events[c] \cup (IF w.key = c THEN {w.bc} ELSE {})

VersionsOf(c) ==
    /\ Consistent(Known(c))
    /\ \A v \in Known(c) : v.rv <= api[c].rv
    /\ \A e \in events[c] : cache[c].rv <= e.rv
    /\ w.key = c => w.bc.rv <= cache[c].rv
    /\ confirmed[c] <= cache[c].rv

VersionsInv == \A c \in Configs : VersionsOf(c)

\* An artifact's files hold that artifact's content.
Own(a, x) == x # NoFile => x.data[1] = a
FilesInv ==
    /\ job.pc # "idle" => Own(job.key, job.file)
    /\ \A a \in Artifacts, f \in Files : Own(a, file[a][f])

\* Every initrd was made for one of the specs S.
MadeFor(i, S) ==
    i \in Directory =>
        \A f \in Files : i.entry[f] # NoFile =>
            \E s \in S : LinkFor(f, i.entry[f], s) \/ CombinedFor(f, i.entry[f], s)

\* How far reconcile x has come in the directory d.
Progress(x, d) ==
    LET s == x.bc.obj.spec
    IN  /\ x.pc \in {"mkdir"} \cup NetbootSteps => \A a \in Refs(s) : x.name[a] \in Names(a)
        /\ x.pc \in {"initrd", "linkInitrd"} => s.firmware = None
        /\ x.pc \in {"initrd", "linkInitrd", "setReady"} \cup CombineSteps => KernelServed(d, s)
        /\ x.pc \in {"copyFirmware", "write", "install"} => x.copied[1][1] = s.initrd
        /\ x.pc \in {"write", "install"} => x.copied[2][1] = s.firmware
        /\ x.pc = "setReady" => InitrdServed(d, s)

\* Confirmed for the present spec and at rest.
AtRest(c) ==
    /\ api[c].obj # Absent /\ api[c].obj.gen = confirmed[c]
    /\ w.key # c /\ queue[c] = "idle"


\* Nothing but newer versions is ever added to a consistent set.
LEMMA ConsistentMore ==
    ASSUME NEW V \in SUBSET Version, Consistent(V), NEW u \in V, \A v \in V : v.rv <= u.rv,
           NEW obj \in BootConfigObject \cup {Absent},
           obj # Absent => \/ obj.gen = u.rv + 1
                           \/ u.obj # Absent /\ obj.gen = u.obj.gen /\ obj.spec = u.obj.spec
    PROVE  /\ Consistent(V \cup {[rv |-> u.rv + 1, obj |-> obj]})
           /\ \A v \in V : v.rv < u.rv + 1
<1> DEFINE n == [rv |-> u.rv + 1, obj |-> obj]
<1>1. /\ u.rv \in Nat /\ (obj # Absent => obj.gen \in Nat)
      /\ n.rv = u.rv + 1 /\ n.obj = obj
  BY DEF Version, BootConfigObject
<1>2. ASSUME NEW v \in V
      PROVE  v.rv \in Nat /\ v.rv <= u.rv /\ Follows(v, u) /\ Sound(v) /\ Sound(u)
  BY DEF Version, Consistent
<1>3. \A v \in V : v.rv < n.rv
  BY <1>1, <1>2
<1>4. Sound(n)
  <2>1. u.obj # Absent => u.obj.gen <= u.rv
    BY <1>2 DEF Sound
  <2>2. u.obj # Absent => u.obj.gen \in Nat
    BY DEF Version, BootConfigObject
  <2> QED BY <1>1, <2>1, <2>2 DEF Sound
<1>5. ASSUME NEW v \in V
      PROVE  Follows(v, n)
  <2>1. v.rv < n.rv /\ v.rv <= u.rv /\ v.rv \in Nat
    BY <1>2, <1>3
  <2>2. CASE obj # Absent /\ obj.gen = u.rv + 1
    BY <1>1, <2>1, <2>2 DEF Follows
  <2>3. CASE u.obj # Absent /\ obj.gen = u.obj.gen /\ obj.spec = u.obj.spec
    <3>1. \/ u.obj.gen > v.rv
          \/ v.obj # Absent /\ u.obj.gen = v.obj.gen /\ u.obj.spec = v.obj.spec
      BY <1>2, <2>3 DEF Follows
    <3> QED BY <1>1, <2>1, <2>3, <3>1 DEF Follows
  <2> QED BY <1>1, <2>1, <2>2, <2>3 DEF Follows
<1> HIDE DEF n
<1>6. Follows(n, n)
  BY DEF Follows
<1>7. ASSUME NEW x \in V \cup {n}, NEW y \in V \cup {n}
      PROVE  Sound(x) /\ (x.rv <= y.rv => Follows(x, y))
  <2>1. CASE x \in V /\ y \in V
    BY <2>1 DEF Consistent
  <2>2. CASE x \in V /\ y = n
    BY <1>2, <1>5, <2>2
  <2>3. CASE x = n /\ y \in V
    <3>1. n.rv \in Nat /\ y.rv \in Nat /\ y.rv < n.rv
      BY <1>1, <1>2, <1>3, <2>3
    <3> QED BY <1>4, <2>3, <3>1
  <2>4. CASE x = n /\ y = n
    BY <1>4, <1>6, <2>4
  <2> QED BY <2>1, <2>2, <2>3, <2>4
<1> QED BY <1>1, <1>3, <1>7 DEF Consistent, n

LEMMA KnownType ==
    ASSUME TypeOK, NEW c \in Configs
    PROVE  /\ Known(c) \in SUBSET Version /\ api[c] \in Version /\ cache[c] \in Version
           /\ confirmed[c] \in Nat
<1>1. w.key = c => w.bc \in Version
  <2>1. None \notin Configs
    BY ConstantsAssumption
  <2> QED BY <2>1 DEF TypeOK, Idle, Reconciling, Version
<1> QED BY <1>1 DEF TypeOK, Known

LEMMA VersionsInit == Init => VersionsInv
<1> SUFFICES ASSUME Init, NEW c \in Configs
             PROVE  VersionsOf(c)
  BY DEF VersionsInv
<1>1. /\ api[c] = [rv |-> 0, obj |-> Absent] /\ cache[c] = api[c] /\ events[c] = {}
      /\ confirmed[c] = 0 /\ w = Idle
  BY DEF Init
<1>2. w.key # c
  <2>1. None \notin Configs
    BY ConstantsAssumption
  <2> QED BY <1>1, <2>1 DEF Idle
<1>3. Known(c) = {[rv |-> 0, obj |-> Absent]}
  BY <1>1, <1>2 DEF Known
<1> QED BY <1>1, <1>2, <1>3 DEF VersionsOf, Consistent, Sound, Follows

\* What is confirmed is the generation of a version that the cache has had.
LEMMA ConfirmedBound ==
    ASSUME TypeOK, NEW c \in Configs, VersionsOf(c),
           \/ confirmed'[c] = confirmed[c]
           \/ w.key = c /\ w.bc.obj # Absent /\ confirmed'[c] = w.bc.obj.gen
    PROVE  confirmed'[c] <= cache[c].rv
<1>1. /\ cache[c] \in Version /\ confirmed[c] \in Nat /\ Known(c) \in SUBSET Version
  BY KnownType
<1>2. CASE confirmed'[c] = confirmed[c]
  BY <1>2 DEF VersionsOf
<1>3. CASE w.key = c /\ w.bc.obj # Absent /\ confirmed'[c] = w.bc.obj.gen
  <2>1. w.bc \in Known(c)
    BY <1>3 DEF Known
  <2>2. w.bc.obj.gen <= w.bc.rv /\ w.bc.rv <= cache[c].rv
    BY <1>3, <2>1 DEF VersionsOf, Consistent, Sound
  <2>3. w.bc.obj.gen \in Nat /\ w.bc.rv \in Nat /\ cache[c].rv \in Nat
    BY <1>1, <1>3, <2>1 DEF Version, BootConfigObject
  <2> QED BY <1>3, <2>2, <2>3
<1> QED BY <1>2, <1>3

\* A step after which no version is known that was not known before.
LEMMA VersionsKept ==
    ASSUME TypeOK, VersionsInv, NEW c \in Configs,
           api'[c] = api[c], Known(c)' \subseteq Known(c), cache'[c] \in Known(c),
           \A e \in events'[c] : cache'[c].rv <= e.rv,
           cache[c].rv <= cache'[c].rv, w'.key = c => w'.bc.rv <= cache'[c].rv,
           \/ confirmed'[c] = confirmed[c]
           \/ w.key = c /\ w.bc.obj # Absent /\ confirmed'[c] = w.bc.obj.gen
    PROVE  VersionsOf(c)'
<1>1. VersionsOf(c)
  BY DEF VersionsInv
<1>2. /\ cache'[c] \in Version /\ cache[c] \in Version /\ confirmed'[c] \in Nat
  <2>1. w.key = c /\ w.bc.obj # Absent => w.bc \in Version
    BY KnownType DEF Known
  <2> QED BY <2>1, KnownType DEF Version, BootConfigObject
<1>3. Consistent(Known(c)')
  BY <1>1 DEF VersionsOf, Consistent
<1>4. \A v \in Known(c)' : v.rv <= api'[c].rv
  BY <1>1 DEF VersionsOf
<1>5. confirmed'[c] <= cache'[c].rv
  <2>1. confirmed'[c] <= cache[c].rv
    BY <1>1, ConfirmedBound
  <2>2. cache[c].rv \in Nat /\ cache'[c].rv \in Nat
    BY <1>2 DEF Version
  <2> QED BY <1>2, <2>1, <2>2
<1> QED BY <1>3, <1>4, <1>5 DEF VersionsOf

\* A step that writes a version, by the worker or by a user.
LEMMA VersionsPublished ==
    ASSUME TypeOK, VersionsInv, NEW c \in Configs, NEW obj \in BootConfigObject \cup {Absent},
           obj # Absent => \/ obj.gen = api[c].rv + 1
                           \/ /\ api[c].obj # Absent
                              /\ obj.gen = api[c].obj.gen /\ obj.spec = api[c].obj.spec,
           Publish(c, obj), UNCHANGED cache, w' \in {w, Idle},
           \/ confirmed'[c] = confirmed[c]
           \/ w.key = c /\ w.bc.obj # Absent /\ confirmed'[c] = w.bc.obj.gen,
           \A d \in Configs : d # c => confirmed'[d] = confirmed[d]
    PROVE  VersionsInv'
<1> SUFFICES ASSUME NEW d \in Configs
             PROVE  VersionsOf(d)'
  BY DEF VersionsInv
<1>0. None \notin Configs /\ VersionsOf(d)
  <2>1. None \notin Configs
    BY ConstantsAssumption
  <2> QED BY <2>1 DEF VersionsInv
<1>1. w'.key = d => w'.key = w.key /\ w'.bc = w.bc
  BY <1>0 DEF Idle
<1>2. CASE d # c
  <2>1. api'[d] = api[d] /\ events'[d] = events[d] /\ cache'[d] = cache[d]
    BY <1>2 DEF Publish, TypeOK
  <2>2. Known(d)' \subseteq Known(d) /\ cache'[d] \in Known(d)
    BY <1>1, <2>1 DEF Known
  <2>3. cache[d].rv <= cache'[d].rv
    BY <2>1, KnownType DEF Version
  <2> QED BY <1>0, <1>1, <1>2, <2>1, <2>2, <2>3, VersionsKept DEF VersionsOf
<1>3. CASE d = c
  <2> DEFINE n == [rv |-> api[c].rv + 1, obj |-> obj]
  <2>1. api'[c] = n /\ events'[c] = events[c] \cup {n} /\ cache'[c] = cache[c]
    BY DEF Publish, TypeOK
  <2>2. /\ Known(c) \in SUBSET Version /\ api[c] \in Known(c) /\ Consistent(Known(c))
        /\ \A v \in Known(c) : v.rv <= api[c].rv
    BY <1>0, <1>3, KnownType DEF Known, VersionsOf
  <2>3. Consistent(Known(c) \cup {n}) /\ \A v \in Known(c) : v.rv < api[c].rv + 1
    BY <2>2, ConsistentMore
  <2>4. n.rv = api[c].rv + 1
    OBVIOUS
  <2> HIDE DEF n
  <2>5. Known(c)' \subseteq Known(c) \cup {n}
    BY <1>1, <1>3, <2>1 DEF Known
  <2>6. Consistent(Known(c)')
    BY <2>3, <2>5 DEF Consistent
  <2>7. \A v \in Known(c)' : v.rv <= api'[c].rv
    <3>1. \A v \in Known(c) : v.rv \in Nat
      BY <2>2 DEF Version
    <3>2. n.rv \in Nat
      BY <2>2, <2>4, <3>1
    <3> QED BY <2>1, <2>3, <2>4, <2>5, <3>1, <3>2
  <2>8. \A e \in events'[c] : cache'[c].rv <= e.rv
    <3>1. cache[c] \in Known(c) /\ cache[c].rv < api[c].rv + 1 /\ cache[c].rv \in Nat
          /\ api[c].rv \in Nat
      BY <2>2, <2>3 DEF Known, Version
    <3> QED BY <1>0, <1>3, <2>1, <2>4, <3>1 DEF VersionsOf
  <2>9. confirmed'[c] <= cache'[c].rv
    BY <1>0, <1>3, <2>1, ConfirmedBound
  <2>10. w'.key = c => w'.bc.rv <= cache'[c].rv
    BY <1>0, <1>1, <1>3, <2>1 DEF VersionsOf
  <2> QED BY <1>3, <2>6, <2>7, <2>8, <2>9, <2>10 DEF VersionsOf
<1> QED BY <1>2, <1>3


\* The steps between the beginning and the end of a reconcile.
AssemblingStep ==
    \/ Mkdir \/ KernelLink \/ LinkKernel \/ InitrdLink \/ LinkInitrd
    \/ Concat \/ CopyInitrd \/ CopyFirmware \/ WriteCombined \/ Install
    \/ Extract \/ ExtractKernel \/ ExtractInitrd \/ LinkISO \/ SymlinkISO
    \/ CallFails

LEMMA AssemblingFrame ==
    ASSUME TypeInv, AssemblingStep
    PROVE  /\ w.pc \in DOMAIN Doing /\ w.pc # "idle"
           /\ w'.key = w.key /\ w'.bc = w.bc /\ w'.name = w.name
           /\ UNCHANGED <<configVars, cache, artVars, artCache, queue, fileVars>>
           /\ \A c \in Configs : c # w.key => boot'[c] = boot[c]
<1>1. PICK step \in DOMAIN Doing : Assembling(step)
  <2>1. {"mkdir", "kernel", "linkKernel", "initrd", "linkInitrd", "concat", "copyInitrd",
         "copyFirmware", "write", "install", "extract", "extractKernel", "extractInitrd", "linkISO",
         "symlinkISO"} \subseteq DOMAIN Doing
    BY DoingSteps DEF NetbootSteps, ISOSteps
  <2> QED BY <2>1 DEF AssemblingStep, Mkdir, KernelLink, LinkKernel, InitrdLink, LinkInitrd, Concat,
          CopyInitrd, CopyFirmware, WriteCombined, Install, Extract, ExtractKernel, ExtractInitrd,
          LinkISO, SymlinkISO, CallFails, EnsureSymlink, Symlink
<1>2. /\ w.pc \in DOMAIN Doing /\ w.pc # "idle"
      /\ UNCHANGED <<configVars, cache, artVars, artCache, queue, fileVars>>
  BY <1>1, DoingSteps DEF Assembling, NetbootSteps, ISOSteps
<1>3. w \in Reconciling /\ boot \in [Configs -> BootDir]
  BY <1>2, Working DEF TypeInv
<1>4. \/ \E pc : Goto(pc)
      \/ Fail
      \/ \E pc, t : w' = [w EXCEPT !.pc = pc, !.stamp = t]
      \/ \E pc, d : w' = [w EXCEPT !.pc = pc, !.copied = d]
  BY DEF AssemblingStep, Mkdir, KernelLink, LinkKernel, InitrdLink, LinkInitrd, Concat,
         CopyInitrd, CopyFirmware, CopySource, WriteCombined, Install, Extract, ExtractKernel,
         ExtractInitrd, LinkISO, SymlinkISO, CallFails, EnsureSymlink, Symlink
<1>5. w'.key = w.key /\ w'.bc = w.bc /\ w'.name = w.name
  BY <1>3, <1>4 DEF Goto, Fail, Reconciling
<1>6. UNCHANGED boot \/ \E d : SetDir(d)
  BY DEF AssemblingStep, Mkdir, KernelLink, LinkKernel, InitrdLink, LinkInitrd, Concat,
         CopyInitrd, CopyFirmware, CopySource, WriteCombined, Install, Extract, ExtractKernel,
         ExtractInitrd, LinkISO, SymlinkISO, CallFails, EnsureSymlink, Symlink, Clean, Keep, SetEntry
<1>7. \A c \in Configs : c # w.key => boot'[c] = boot[c]
  BY <1>3, <1>6 DEF SetDir
<1> QED BY <1>2, <1>5, <1>7

\* A step that reads and writes no version.
LEMMA VersionsSame ==
    ASSUME TypeOK, VersionsInv, UNCHANGED <<configVars, cache>>,
           \/ w'.key = w.key /\ w'.bc = w.bc
           \/ w'.key \in Configs /\ w'.bc = cache[w'.key]
    PROVE  VersionsInv'
<1> SUFFICES ASSUME NEW c \in Configs
             PROVE  VersionsOf(c)'
  BY DEF VersionsInv
<1>1. /\ api'[c] = api[c] /\ events'[c] = events[c] /\ cache'[c] = cache[c]
      /\ confirmed'[c] = confirmed[c]
  BY DEF configVars
<1>2. VersionsOf(c) /\ cache[c].rv <= cache[c].rv
  BY KnownType DEF VersionsInv, Version
<1>3. Known(c)' \subseteq Known(c) /\ cache'[c] \in Known(c)
  BY <1>1 DEF Known
<1>4. w'.key = c => w'.bc.rv <= cache'[c].rv
  BY <1>1, <1>2 DEF VersionsOf
<1> QED BY <1>1, <1>2, <1>3, <1>4, VersionsKept DEF VersionsOf

LEMMA CurrentVersion ==
    ASSUME TypeOK, VersionsInv, w.pc # "idle", Current
    PROVE  w.bc = api[w.key]
<1>1. w.key \in Configs /\ w.bc.rv = api[w.key].rv
  BY Working DEF Current
<1>2. VersionsOf(w.key) /\ w.bc \in Known(w.key) /\ api[w.key] \in Known(w.key)
  BY <1>1 DEF VersionsInv, Known
<1>3. w.bc.rv <= api[w.key].rv
  BY <1>2 DEF VersionsOf
<1> QED BY <1>1, <1>2, <1>3 DEF VersionsOf, Consistent, Follows

LEMMA VersionsFinish ==
    ASSUME TypeInv, VersionsInv, NEW step \in {"setReady", "setPending", "setError"},
           NEW phase \in {"Ready", "Pending", "Error"}, Finish(step, phase)
    PROVE  VersionsInv'
<1>1. w.pc # "idle" /\ TypeOK /\ w' = Idle /\ UNCHANGED cache
  BY DEF Finish, TypeInv
<1>2. /\ w.key \in Configs /\ w.bc.obj \in BootConfigObject /\ w.bc.obj # Absent
      /\ w.message \in Messages /\ None \notin Configs
  <2>1. None \notin Configs
    BY ConstantsAssumption
  <2>2. Absent \notin BootConfigObject
    BY ConstantsAssumption
  <2> QED BY <1>1, <2>1, <2>2, Working
<1>3. CASE Accept(phase)
  <2>1. PICK obj \in BootConfigObject :
            /\ obj = [w.bc.obj EXCEPT !.phase = phase, !.message = w.message]
            /\ obj.gen = w.bc.obj.gen /\ obj.spec = w.bc.obj.spec
    <3>1. PICK old \in BootConfigObject, m \in Messages : old = w.bc.obj /\ m = w.message
      BY <1>2
    <3>2. phase \in Phases
      BY DEF Phases
    <3>3. PICK obj : obj = [old EXCEPT !.phase = phase, !.message = m]
      OBVIOUS
    <3>4. obj \in BootConfigObject /\ obj.gen = old.gen /\ obj.spec = old.spec
      BY <3>2, <3>3 DEF BootConfigObject
    <3> QED BY <3>1, <3>3, <3>4
  <2>2. Publish(w.key, obj) /\ Confirm(phase) /\ w.bc = api[w.key]
    BY <1>1, <1>3, <2>1, CurrentVersion DEF Accept
  <2>3. /\ confirmed'[w.key] = confirmed[w.key] \/ confirmed'[w.key] = w.bc.obj.gen
        /\ \A d \in Configs : d # w.key => confirmed'[d] = confirmed[d]
    BY <1>1, <2>2 DEF Confirm, TypeOK
  <2> QED BY <1>1, <1>2, <2>1, <2>2, <2>3, VersionsPublished
<1>4. CASE UNCHANGED <<api, events>> /\ (UNCHANGED confirmed \/ Confirm(phase))
  <2> SUFFICES ASSUME NEW c \in Configs
               PROVE  VersionsOf(c)'
    BY DEF VersionsInv
  <2>1. VersionsOf(c) /\ cache[c].rv <= cache[c].rv /\ w'.key # c
    BY <1>1, <1>2, KnownType DEF VersionsInv, Version, Idle
  <2>2. Known(c)' \subseteq Known(c) /\ cache'[c] \in Known(c) /\ api'[c] = api[c]
    BY <1>1, <1>4, <2>1 DEF Known
  <2>3. \/ confirmed'[c] = confirmed[c]
        \/ w.key = c /\ w.bc.obj # Absent /\ confirmed'[c] = w.bc.obj.gen
    BY <1>1, <1>2, <1>4 DEF Confirm, TypeOK
  <2> QED BY <1>1, <1>4, <2>1, <2>2, <2>3, VersionsKept DEF VersionsOf
<1> QED BY <1>3, <1>4 DEF Finish, UpdateErr, configVars

LEMMA VersionsDeliver ==
    ASSUME TypeOK, VersionsInv, NEW c \in Configs, Deliver(c)
    PROVE  VersionsInv'
<1>1. PICK v \in events[c] :
        /\ Oldest(events[c], v)
        /\ cache' = [cache EXCEPT ![c] = v] /\ events' = [events EXCEPT ![c] = @ \ {v}]
  BY DEF Deliver
<1>2. UNCHANGED <<api, w, confirmed>>
  BY DEF Deliver
<1>3. ASSUME NEW d \in Configs
      PROVE  VersionsOf(d)'
  <2>1. VersionsOf(d) /\ cache[d] \in Version /\ Known(d) \in SUBSET Version
    BY KnownType DEF VersionsInv
  <2>2. CASE d # c
    <3>1. cache'[d] = cache[d] /\ events'[d] = events[d]
      BY <1>1, <2>2 DEF TypeOK
    <3>2. Known(d)' = Known(d) /\ cache'[d] \in Known(d) /\ cache[d].rv <= cache'[d].rv
      BY <1>2, <2>1, <3>1 DEF Known, Version
    <3> QED BY <1>2, <2>1, <3>1, <3>2, VersionsKept DEF VersionsOf
  <2>3. CASE d = c
    <3>1. cache'[c] = v /\ events'[c] = events[c] \ {v}
      BY <1>1 DEF TypeOK
    <3>2. Known(d)' \subseteq Known(d) /\ cache'[d] \in Known(d)
      BY <1>2, <2>3, <3>1 DEF Known
    <3>3. cache[d].rv <= cache'[d].rv /\ \A e \in events'[d] : cache'[d].rv <= e.rv
      BY <1>1, <2>1, <2>3, <3>1 DEF VersionsOf, Oldest
    <3>4. w'.key = d => w'.bc.rv <= cache'[d].rv
      <4>1. ASSUME w.key = d
            PROVE  w.bc.rv \in Nat /\ w.bc.rv <= cache[d].rv
        BY <2>1, <4>1 DEF Known, Version, VersionsOf
      <4>2. cache'[d].rv \in Nat /\ cache[d].rv \in Nat
        BY <2>1, <3>2 DEF Version
      <4> QED BY <1>2, <3>3, <4>1, <4>2
    <3> QED BY <1>2, <3>2, <3>3, <3>4, VersionsKept
  <2> QED BY <2>2, <2>3
<1> QED BY <1>3 DEF VersionsInv

LEMMA VersionsRestart ==
    ASSUME TypeOK, VersionsInv, Restart
    PROVE  VersionsInv'
<1> SUFFICES ASSUME NEW c \in Configs
             PROVE  VersionsOf(c)'
  BY DEF VersionsInv
<1>1. /\ api'[c] = api[c] /\ cache'[c] = api[c] /\ events'[c] = {} /\ confirmed'[c] = confirmed[c]
      /\ w' = Idle
  BY DEF Restart
<1>2. w'.key # c
  <2>1. None \notin Configs
    BY ConstantsAssumption
  <2> QED BY <1>1, <2>1 DEF Idle
<1>3. Known(c)' \subseteq Known(c) /\ cache'[c] \in Known(c)
  BY <1>1, <1>2 DEF Known
<1>4. cache[c].rv <= cache'[c].rv
  BY <1>1 DEF VersionsInv, VersionsOf, Known
<1> QED BY <1>1, <1>2, <1>3, <1>4, VersionsKept

LEMMA VersionsUsers ==
    ASSUME TypeOK, VersionsInv,
           NEW c \in Configs, Delete(c) \/ \E s \in Specs : Create(c, s) \/ Edit(c, s)
    PROVE  VersionsInv'
<1>1. PICK obj \in BootConfigObject \cup {Absent} :
        Submit(c, obj) /\ (obj # Absent => obj.gen = api[c].rv + 1)
  <2>1. CASE Delete(c)
    BY <2>1 DEF Delete
  <2>2. CASE \E s \in Specs : Create(c, s)
    <3>1. PICK s \in Specs : Create(c, s)
      BY <2>2
    <3>2. PICK obj \in BootConfigObject :
            obj = [spec |-> s, gen |-> api[c].rv + 1, phase |-> "", message |-> <<>>]
      BY SubmittedType
    <3>3. Submit(c, obj) /\ obj.gen = api[c].rv + 1
      BY <3>1, <3>2 DEF Create
    <3> QED BY <3>3
  <2>3. CASE \E s \in Specs : Edit(c, s)
    <3>1. PICK s \in Specs : Edit(c, s)
      BY <2>3
    <3>2. PICK obj \in BootConfigObject : obj = [api[c].obj EXCEPT !.spec = s, !.gen = api[c].rv + 1]
      BY <3>1, SubmittedType DEF Edit
    <3>3. obj.gen = api[c].rv + 1
      <4>1. api[c].obj \in BootConfigObject
        BY <3>1 DEF Edit, TypeOK, Version
      <4> QED BY <3>2, <4>1 DEF BootConfigObject
    <3> QED BY <3>1, <3>2, <3>3 DEF Edit
  <2> QED BY <2>1, <2>2, <2>3
<1>2. Publish(c, obj) /\ UNCHANGED <<cache, w, confirmed>>
  BY <1>1 DEF Submit
<1> QED BY <1>1, <1>2, VersionsPublished

LEMMA VersionsStep == TypeInv /\ VersionsInv /\ [Next]_vars => VersionsInv'
<1> SUFFICES ASSUME TypeInv, VersionsInv, [Next]_vars
             PROVE  VersionsInv'
  OBVIOUS
<1>0. TypeOK
  BY DEF TypeInv
<1>1. CASE UNCHANGED vars
  BY <1>0, <1>1, VersionsSame DEF vars, configVars
<1>2. ASSUME NEW c \in Configs, Reconcile(c)
      PROVE  VersionsInv'
  <2>1. CASE UNCHANGED w
    BY <1>0, <1>2, <2>1, VersionsSame DEF Reconcile
  <2>2. CASE cache[c].obj # Absent /\ Enter(c)
    <3>1. w'.key = c /\ w'.bc = cache[c]
      BY <1>0, <2>2, EnterType
    <3> QED BY <1>0, <1>2, <3>1, VersionsSame DEF Reconcile
  <2> QED BY <1>2, <2>1, <2>2 DEF Reconcile
<1>3. ASSUME NEW c \in Configs, Elapse(c)
      PROVE  VersionsInv'
  BY <1>0, <1>3, VersionsSame DEF Elapse
<1>4. CASE AssemblingStep
  BY <1>0, <1>4, AssemblingFrame, VersionsSame
<1>5. CASE SetReady \/ SetPending \/ SetError
  BY <1>5, VersionsFinish DEF SetReady, SetPending, SetError
<1>6. ASSUME \/ ArtifactAction
             \/ \E a \in Artifacts : DeliverArtifact(a) \/ \E r, phase : SubmitArtifact(a, r, phase)
      PROVE  VersionsInv'
  <2>1. UNCHANGED <<configVars, cache, w>>
    BY <1>0, <1>6, ArtifactEffect DEF DeliverArtifact, SubmitArtifact, artifactStepVars
  <2> QED BY <1>0, <2>1, VersionsSame
<1>7. Editable \subseteq Artifacts
  BY ConstantsAssumption
<1> QED BY <1>0, <1>1, <1>2, <1>3, <1>4, <1>5, <1>6, <1>7, VersionsDeliver, VersionsRestart,
        VersionsUsers DEF Next, WorkerStep, AssemblingStep, ArtifactAction, Crash, PowerLoss

LEMMA FilesInit == Init => FilesInv
<1> SUFFICES ASSUME Init
             PROVE  FilesInv
  OBVIOUS
<1>1. job.pc = "idle"
  BY DEF Init, NoJob
<1>2. ASSUME NEW a \in Artifacts, NEW f \in Files
      PROVE  Own(a, file[a][f])
  <2>1. file[a][f] = [data |-> <<a, Original>>, mtime |-> 0] \/ file[a][f] = NoFile
    BY DEF Init
  <2> QED BY <2>1 DEF Own
<1> QED BY <1>1, <1>2 DEF FilesInv

LEMMA FilesStep == TypeInv /\ FilesInv /\ [Next]_vars => FilesInv'
<1> SUFFICES ASSUME TypeInv, FilesInv, [Next]_vars
             PROVE  FilesInv'
  OBVIOUS
<1>0. TypeOK /\ file \in [Artifacts -> [Files -> File \cup {NoFile}]]
  BY DEF TypeInv, TypeOK
<1>1. CASE UNCHANGED fileVars
  BY <1>1 DEF FilesInv, fileVars
<1>2. CASE Crash
  BY <1>2 DEF Crash, Restart, FilesInv, NoJob
<1>3. CASE PowerLoss
  <2>1. job'.pc = "idle"
    BY <1>3 DEF PowerLoss, Restart, NoJob
  <2>2. \A a \in Artifacts, f \in Files : Own(a, file'[a][f])
    BY <1>3, PowerLossEffect DEF FilesInv, Own
  <2> QED BY <2>1, <2>2 DEF FilesInv
<1>4. CASE ArtifactAction
  <2>1. ASSUME job'.pc # "idle"
        PROVE  Own(job'.key, job'.file)
    <3>1. CASE UNCHANGED job
      BY <2>1, <3>1 DEF FilesInv
    <3>2. CASE job'.file = NoFile
      BY <3>2 DEF Own
    <3>3. CASE job.pc # "idle" /\ job'.key = job.key /\ job'.file = job.file
      BY <3>3 DEF FilesInv
    <3>4. CASE job'.file.data = <<job'.key, job'.read.rev>>
      BY <3>4 DEF Own
    <3>5. job' # NoJob
      BY <2>1 DEF NoJob
    <3> QED BY <1>0, <1>4, <3>1, <3>2, <3>3, <3>4, <3>5, ArtifactEffect
  <2>2. ASSUME NEW a \in Artifacts, NEW f \in Files
        PROVE  Own(a, file'[a][f])
    <3>1. CASE UNCHANGED file
      BY <3>1 DEF FilesInv
    <3>2. CASE /\ job.pc \in {"remove", "rename"}
               /\ \E x \in {NoFile, job.file} : file' = [file EXCEPT ![job.key][job.name] = x]
      <4>1. PICK x \in {NoFile, job.file} : file' = [file EXCEPT ![job.key][job.name] = x]
        BY <3>2
      <4>2. job.key \in Artifacts /\ job.name \in Files
        BY <1>0, <3>2, JobType
      <4>3. file'[a][f] = IF a = job.key /\ f = job.name THEN x ELSE file[a][f]
        BY <1>0, <4>1, <4>2
      <4>4. Own(job.key, x)
        BY <3>2 DEF FilesInv, Own
      <4> QED BY <4>3, <4>4 DEF FilesInv
    <3> QED BY <1>0, <1>4, <3>1, <3>2, ArtifactEffect
  <2> QED BY <2>1, <2>2 DEF FilesInv
<1>5. CASE AssemblingStep
  BY <1>1, <1>5, AssemblingFrame
<1>6. CASE \/ SetReady \/ SetPending \/ SetError \/ UNCHANGED vars
           \/ \E c \in Configs : Reconcile(c) \/ Deliver(c) \/ Elapse(c) \/ Delete(c)
           \/ \E c \in Configs, s \in Specs : Create(c, s) \/ Edit(c, s)
           \/ \E a \in Artifacts : DeliverArtifact(a)
           \/ \E a \in Editable, r \in Revisions :
                \E phase \in {"none", "", arts[a].phase} : SubmitArtifact(a, r, phase)
  <2>1. UNCHANGED fileVars
    BY <1>6 DEF SetReady, SetPending, SetError, Finish, vars, fileVars, Reconcile, Deliver, Elapse,
           Delete, Create, Edit, Submit, DeliverArtifact, SubmitArtifact
  <2> QED BY <1>1, <2>1
<1> QED BY <1>2, <1>3, <1>4, <1>5, <1>6 DEF Next, WorkerStep, AssemblingStep, ArtifactAction


LEMMA Netboot ==
    ASSUME NEW s \in NetbootSpec
    PROVE  /\ s.mode = "netboot" /\ s.kernel \in Artifacts /\ s.initrd \in Artifacts
           /\ s.firmware = None \/ s.firmware \in Artifacts
           /\ s.kernel \in Refs(s) /\ s.initrd \in Refs(s)
           /\ s.firmware # None => s.firmware \in Refs(s)
BY DEF NetbootSpec, Refs

LEMMA NoProgress ==
    ASSUME NEW x, NEW d, x.pc \in {"setPending", "setError"}
    PROVE  Progress(x, d)
BY DEF Progress, NetbootSteps, CombineSteps

LEMMA Gone ==
    ASSUME TypeOK, w.pc \in DOMAIN Doing, NEW next, Goto(next)
    PROVE  /\ w'.pc = next /\ w'.key = w.key /\ w'.bc = w.bc /\ w'.name = w.name
           /\ w'.copied = w.copied /\ spec' = spec /\ dir' = boot'[w.key]
<1>1. w \in Reconciling
  BY Working, DoingSteps DEF NetbootSteps, ISOSteps
<1> QED BY <1>1 DEF Goto, Reconciling, spec, dir

LEMMA FailedProgress ==
    ASSUME TypeOK, w.pc \in DOMAIN Doing, Fail
    PROVE  Progress(w, dir)'
BY FailType, NoProgress

LEMMA MkdirProgress ==
    ASSUME NEW S \in SUBSET NetbootSpec, spec \in S, TypeInv, Progress(w, dir),
           MadeFor(dir.initrd, S), Mkdir
    PROVE  Progress(w, dir)' /\ MadeFor(boot'[w.key].initrd, S)
<1>1. /\ w.pc = "mkdir" /\ w.pc \in DOMAIN Doing /\ w.pc # "idle" /\ TypeOK
      /\ "mkdir" \in {"mkdir"} \cup NetbootSteps
  BY DoingSteps DEF Mkdir, Assembling, TypeInv
<1>2. spec \in Specs /\ spec.mode = "netboot" /\ w.key \in Configs /\ dir \in BootDir
  BY <1>1, Working, Netboot
<1>3. Progress(w, dir)'
  <2>1. CASE Fail
    BY <1>1, <2>1, FailedProgress
  <2>2. CASE Goto("kernel")
    <3>1. \A a \in Refs(spec) : w.name[a] \in Names(a)
      BY <1>1 DEF Progress, spec
    <3> QED BY <1>1, <2>2, <3>1, Gone DEF Progress, spec, CombineSteps
  <2> QED BY <1>2, <2>1, <2>2 DEF Mkdir
<1>4. MadeFor(boot'[w.key].initrd, S)
  <2>1. PICK i : i = IF dir.initrd \in Extracted THEN dir.initrd ELSE NewDirectory(dir.initrd)
    OBVIOUS
  <2>2. MadeFor(i, S)
    <3>1. i # dir.initrd => \A f \in Files : i.entry[f] = NoFile
      BY <2>1 DEF NewDirectory, NoEntries
    <3> QED BY <1>2, <3>1 DEF MadeFor
  <2>3. PICK k : k = NewDirectory(dir.kernel)
    OBVIOUS
  <2>4. SetDir([dir EXCEPT !.kernel = k, !.initrd = i])
    BY <1>2, <2>1, <2>3 DEF Mkdir
  <2>5. PICK d : d = [dir EXCEPT !.kernel = k, !.initrd = i]
    OBVIOUS
  <2>6. d.initrd = i
    BY <1>2, <2>5 DEF BootDir
  <2>7. boot'[w.key] = d /\ \A c \in Configs : c # w.key => boot'[c] = boot[c]
    BY <1>1, <2>4, <2>5, BootSet
  <2> QED BY <2>2, <2>6, <2>7
<1> QED BY <1>3, <1>4

LEMMA KernelProgress ==
    ASSUME NEW S \in SUBSET NetbootSpec, spec \in S, TypeInv, Progress(w, dir),
           MadeFor(dir.initrd, S), KernelLink \/ LinkKernel
    PROVE  Progress(w, dir)' /\ MadeFor(boot'[w.key].initrd, S)
<1>1. /\ w.pc \in {"kernel", "linkKernel"} /\ w.pc \in NetbootSteps /\ TypeOK
  BY DEF KernelLink, LinkKernel, EnsureSymlink, Symlink, Assembling, NetbootSteps, TypeInv
<1>2. /\ w.pc \in DOMAIN Doing /\ w.key \in Configs /\ spec.kernel \in Refs(spec)
      /\ boot \in [Configs -> BootDir]
  BY <1>1, NetbootState
<1>3. \A a \in Refs(spec) : w.name[a] \in Names(a)
  BY <1>1, <1>2, DoingSteps DEF Progress, spec, NetbootSteps
<1>4. \/ Fail /\ UNCHANGED boot
      \/ /\ boot'[w.key].kernel \in Directory /\ boot'[w.key].initrd = dir.initrd
         /\ \A c \in Configs : c # w.key => boot'[c] = boot[c]
         /\ \/ Goto("linkKernel")
            \/ /\ Goto(InitrdStep)
               /\ boot'[w.key].kernel.entry[w.name[spec.kernel]] = LinkTo(spec.kernel)
  <2>1. CASE KernelLink
    <3>1. EnsureSymlink("kernel", "linkKernel", InitrdStep)
      BY <2>1 DEF KernelLink
    <3>2. /\ boot'[w.key].kernel \in Directory
          /\ \A k \in {"kernel", "initrd"} : k # "kernel" => boot'[w.key][k] = dir[k]
          /\ \A c \in Configs : c # w.key => boot'[c] = boot[c]
          /\ \/ Goto(InitrdStep) /\ UNCHANGED boot /\ Linked("kernel")
             \/ Goto("linkKernel")
      BY <3>1, EnsureEffect
    <3>3. Linked("kernel") => dir.kernel.entry[w.name[spec.kernel]] = LinkTo(spec.kernel)
      BY DEF Linked
    <3> QED BY <3>2, <3>3 DEF dir
  <2>2. CASE LinkKernel
    <3>1. Symlink("kernel", "linkKernel", InitrdStep) /\ "linkKernel" \in NetbootSteps
      BY <2>2 DEF LinkKernel, NetbootSteps
    <3>2. /\ boot'[w.key].kernel \in Directory
          /\ \A k \in {"kernel", "initrd"} : k # "kernel" => boot'[w.key][k] = dir[k]
          /\ \A c \in Configs : c # w.key => boot'[c] = boot[c]
          /\ \/ /\ Goto(InitrdStep)
                /\ boot'[w.key]["kernel"].entry[w.name[spec["kernel"]]] = LinkTo(spec["kernel"])
             \/ Fail /\ UNCHANGED boot
      BY <3>1, SymlinkEffect
    <3> QED BY <3>2
  <2> QED BY <2>1, <2>2
<1>5. MadeFor(boot'[w.key].initrd, S)
  BY <1>4 DEF dir
<1>6. Progress(w, dir)'
  <2>0. CASE Fail
    BY <1>1, <1>2, <2>0, FailedProgress
  <2>1. CASE Goto("linkKernel")
    BY <1>1, <1>2, <1>3, <2>1, Gone DEF Progress, spec, CombineSteps
  <2>2. CASE /\ Goto(InitrdStep) /\ boot'[w.key].kernel \in Directory
             /\ boot'[w.key].kernel.entry[w.name[spec.kernel]] = LinkTo(spec.kernel)
    <3>1. KernelServed(boot'[w.key], spec)
      BY <1>2, <1>3, <2>2 DEF KernelServed, LinkTo
    <3>2. CASE spec.firmware = None
      <4>1. Goto("initrd")
        BY <2>2, <3>2 DEF InitrdStep
      <4> QED BY <1>1, <1>2, <1>3, <3>1, <3>2, <4>1, Gone DEF Progress, spec
    <3>3. CASE spec.firmware # None
      <4>1. Goto("concat")
        BY <2>2, <3>3 DEF InitrdStep
      <4> QED BY <1>1, <1>2, <1>3, <3>1, <4>1, Gone DEF Progress, spec
    <3> QED BY <3>2, <3>3
  <2> QED BY <1>4, <2>0, <2>1, <2>2
<1> QED BY <1>5, <1>6


\* What every step after the kernel starts from.
LEMMA InitrdState ==
    ASSUME NEW S \in SUBSET NetbootSpec, spec \in S, TypeInv, Progress(w, dir),
           w.pc \in {"initrd", "linkInitrd"} \cup CombineSteps
    PROVE  /\ TypeOK /\ w.pc \in NetbootSteps /\ w.pc \in DOMAIN Doing /\ w.pc # "idle"
           /\ w.key \in Configs /\ spec \in Specs /\ boot \in [Configs -> BootDir]
           /\ dir.initrd \in Directory /\ KernelServed(dir, spec)
           /\ spec.initrd \in Refs(spec)
           /\ \A a \in Refs(spec) : w.name[a] \in Names(a)
<1>1. TypeOK /\ w.pc \in NetbootSteps
  BY DEF TypeInv, NetbootSteps, CombineSteps
<1>2. /\ w.pc \in DOMAIN Doing /\ w.pc # "idle" /\ w.key \in Configs /\ spec \in Specs
      /\ boot \in [Configs -> BootDir] /\ spec.initrd \in Refs(spec) /\ dir.initrd \in Directory
  BY <1>1, NetbootState
<1>3. KernelServed(dir, spec) /\ \A a \in Refs(spec) : w.name[a] \in Names(a)
  BY <1>1, <1>2 DEF Progress, spec
<1> QED BY <1>1, <1>2, <1>3

\* A directory that keeps its kernel goes on serving it.
LEMMA KernelKept ==
    ASSUME NEW d, NEW e, NEW s, KernelServed(d, s), e.kernel = d.kernel
    PROVE  KernelServed(e, s)
BY DEF KernelServed

LEMMA InitrdProgress ==
    ASSUME NEW S \in SUBSET NetbootSpec, spec \in S, TypeInv, Progress(w, dir),
           MadeFor(dir.initrd, S), InitrdLink \/ LinkInitrd
    PROVE  Progress(w, dir)' /\ MadeFor(boot'[w.key].initrd, S)
<1>1. w.pc \in {"initrd", "linkInitrd"}
  BY DEF InitrdLink, LinkInitrd, EnsureSymlink, Symlink, Assembling
<1>2. /\ TypeOK /\ w.pc \in NetbootSteps /\ w.pc \in DOMAIN Doing /\ w.pc # "idle"
      /\ w.key \in Configs /\ spec \in Specs /\ boot \in [Configs -> BootDir]
      /\ dir.initrd \in Directory /\ KernelServed(dir, spec)
      /\ spec.initrd \in Refs(spec) /\ \A a \in Refs(spec) : w.name[a] \in Names(a)
  BY <1>1, InitrdState
<1>3. spec.firmware = None
  BY <1>1, <1>2 DEF Progress, spec
<1> DEFINE name == w.name[spec.initrd]
<1>4. name \in Files /\ LinkFor(name, LinkTo(spec.initrd), spec)
  BY <1>2, NameType DEF LinkFor, LinkTo
<1>5. \/ Fail /\ UNCHANGED boot
      \/ /\ boot'[w.key].initrd \in Directory /\ boot'[w.key].kernel = dir.kernel
         /\ \A c \in Configs : c # w.key => boot'[c] = boot[c]
         /\ \/ /\ Goto("linkInitrd")
               /\ \A f \in Files : boot'[w.key].initrd.entry[f] \in {dir.initrd.entry[f], NoFile}
            \/ /\ Goto("setReady")
               /\ boot'[w.key].initrd.entry[name] = LinkTo(spec.initrd)
               /\ \A f \in Files : f # name => boot'[w.key].initrd.entry[f] = dir.initrd.entry[f]
  <2>1. CASE InitrdLink
    <3>1. EnsureSymlink("initrd", "linkInitrd", "setReady")
      BY <2>1 DEF InitrdLink
    <3>2. /\ boot'[w.key].initrd \in Directory
          /\ \A k \in {"kernel", "initrd"} : k # "initrd" => boot'[w.key][k] = dir[k]
          /\ \A c \in Configs : c # w.key => boot'[c] = boot[c]
          /\ \A f \in Files : boot'[w.key]["initrd"].entry[f] \in {dir["initrd"].entry[f], NoFile}
          /\ \/ Goto("setReady") /\ UNCHANGED boot /\ Linked("initrd")
             \/ Goto("linkInitrd")
      BY <3>1, EnsureEffect
    <3>3. Linked("initrd") => dir.initrd.entry[name] = LinkTo(spec.initrd)
      BY DEF Linked
    <3> HIDE DEF name
    <3> QED BY <3>2, <3>3 DEF dir
  <2>2. CASE LinkInitrd
    <3>1. Symlink("initrd", "linkInitrd", "setReady") /\ "linkInitrd" \in NetbootSteps
      BY <2>2 DEF LinkInitrd, NetbootSteps
    <3>2. /\ boot'[w.key].initrd \in Directory
          /\ \A k \in {"kernel", "initrd"} : k # "initrd" => boot'[w.key][k] = dir[k]
          /\ \A c \in Configs : c # w.key => boot'[c] = boot[c]
          /\ \/ /\ Goto("setReady")
                /\ boot'[w.key]["initrd"].entry[w.name[spec["initrd"]]] = LinkTo(spec["initrd"])
                /\ \A g \in Files : g # w.name[spec["initrd"]] =>
                        boot'[w.key]["initrd"].entry[g] = dir["initrd"].entry[g]
             \/ Fail /\ UNCHANGED boot
      BY <3>1, SymlinkEffect
    <3> QED BY <3>2
  <2> QED BY <2>1, <2>2
<1> HIDE DEF name
<1>6. MadeFor(boot'[w.key].initrd, S)
  <2>1. ASSUME NEW f \in Files, dir.initrd.entry[f] # NoFile
        PROVE  \E s \in S : LinkFor(f, dir.initrd.entry[f], s) \/ CombinedFor(f, dir.initrd.entry[f], s)
    BY <1>2, <2>1 DEF MadeFor
  <2>2. CASE UNCHANGED boot
    BY <2>2 DEF dir
  <2>3. ASSUME NEW f \in Files, boot'[w.key].initrd.entry[f] # NoFile, boot' # boot
        PROVE  \/ f = name /\ boot'[w.key].initrd.entry[f] = LinkTo(spec.initrd)
               \/ boot'[w.key].initrd.entry[f] = dir.initrd.entry[f]
    BY <1>5, <2>3
  <2> QED BY <1>4, <2>1, <2>2, <2>3 DEF MadeFor
<1>9. Progress(w, dir)'
  <2>0. CASE Fail
    BY <1>2, <2>0, FailedProgress
  <2>1. CASE Goto("linkInitrd") /\ boot'[w.key].kernel = dir.kernel
    <3>1. /\ w'.pc = "linkInitrd" /\ w'.bc = w.bc /\ w'.name = w.name /\ dir' = boot'[w.key]
      BY <1>2, <2>1, Gone
    <3>2. KernelServed(boot'[w.key], spec)
      BY <1>2, <2>1, KernelKept
    <3> QED BY <1>2, <1>3, <3>1, <3>2 DEF Progress, spec
  <2>2. CASE /\ Goto("setReady") /\ boot'[w.key].kernel = dir.kernel
             /\ boot'[w.key].initrd \in Directory
             /\ boot'[w.key].initrd.entry[name] = LinkTo(spec.initrd)
    <3>1. w'.pc = "setReady" /\ w'.bc = w.bc /\ dir' = boot'[w.key]
      BY <1>2, <2>2, Gone
    <3>2. InitrdServed(boot'[w.key], spec)
      BY <1>3, <1>4, <2>2 DEF InitrdServed
    <3>3. KernelServed(boot'[w.key], spec)
      BY <1>2, <2>2, KernelKept
    <3> QED BY <3>1, <3>2, <3>3 DEF Progress, spec, NetbootSteps
  <2> QED BY <1>5, <2>0, <2>1, <2>2
<1> QED BY <1>6, <1>9

\* The concatenation that is kept was made for this spec.
LEMMA KeptConcatenation ==
    ASSUME NEW S \in SUBSET NetbootSpec, spec \in S, OwnInitrds(S), TypeInv, Progress(w, dir),
           MadeFor(dir.initrd, S), w.pc = "concat",
           NoFile \notin Sources, \E f \in Dst : \A src \in Sources : f.mtime > src.mtime
    PROVE  InitrdServed(dir, spec)
<1> DEFINE name == w.name[spec.initrd]
           e == dir.initrd.entry[name]
<1>1. /\ TypeOK /\ w.pc \in DOMAIN Doing /\ w.key \in Configs /\ spec \in Specs
      /\ dir.initrd \in Directory /\ spec.initrd \in Refs(spec) /\ w.name[spec.initrd] \in Names(spec.initrd)
      /\ spec.firmware # None
  <2>1. w.pc \in CombineSteps
    BY DEF CombineSteps
  <2>2. spec.firmware # None
    BY <2>1 DEF TypeInv, Prepared, spec
  <2> QED BY <2>1, <2>2, InitrdState
<1>2. PICK f \in Dst : \A src \in Sources : f.mtime > src.mtime
  OBVIOUS
<1>3. f \in Resolve(e) /\ name \in Files
  BY <1>1, NameType DEF Dst
<1>4. e # NoFile
  <2>1. NoFile \notin Links
    BY ConstantsAssumption
  <2>2. Resolve(NoFile) = {}
    BY <2>1 DEF Resolve
  <2> QED BY <1>3, <2>2
<1>5. PICK t \in S : LinkFor(name, e, t) \/ CombinedFor(name, e, t)
  BY <1>1, <1>3, <1>4 DEF MadeFor
<1>6. t \in NetbootSpec
  OBVIOUS
<1>7. PICK q \in Revisions : w.name[spec.initrd] = Filename[spec.initrd][q]
  BY <1>1 DEF Names
<1>8. CASE LinkFor(name, e, t)
  <2>1. PICK r \in Revisions : /\ e = Link(t.initrd, Filename[t.initrd][r])
                               /\ name = Filename[t.initrd][r]
    BY <1>8 DEF LinkFor, Names
  <2>2. Filename[t.initrd][r] \in Files /\ t.initrd \in Artifacts
    <3>1. t.initrd \in Artifacts /\ Filename \in [Artifacts -> [Revisions -> Files]]
      BY <1>6, Netboot, ConstantsAssumption
    <3> QED BY <3>1
  <2>3. e \in Links /\ e.to = <<t.initrd, Filename[t.initrd][r]>>
    BY <2>1, <2>2 DEF Link, Links
  <2>4. Filename[t.initrd][r] = Filename[spec.initrd][q]
    BY <1>7, <2>1
  <2>5. spec.initrd = t.initrd
    BY <1>1, <2>4 DEF OwnInitrds
  <2>6. f = FileOf(spec.initrd)
    BY <1>3, <1>4, <1>7, <2>3, <2>4, <2>5 DEF Resolve, FileOf
  <2>7. f \in Sources /\ f # NoFile
    BY <2>6 DEF Sources
  <2>8. f \in File
    BY <1>1, <2>6, <2>7, NameType
  <2>9. f.mtime > f.mtime /\ f.mtime \in Nat
    BY <1>2, <2>7, <2>8 DEF File
  <2> QED BY <2>9
<1>9. CASE CombinedFor(name, e, t)
  <2>2. PICK r \in Revisions : name = Filename[t.initrd][r]
    BY <1>9 DEF CombinedFor, Names
  <2>3. Filename[t.initrd][r] = Filename[spec.initrd][q]
    BY <1>7, <2>2
  <2>4. spec.initrd = t.initrd /\ spec.firmware = t.firmware
    BY <1>1, <1>9, <2>3 DEF OwnInitrds, CombinedFor
  <2>5. CombinedFor(name, e, spec)
    BY <1>9, <2>4 DEF CombinedFor
  <2> QED BY <1>1, <1>3, <2>5 DEF InitrdServed
<1> QED BY <1>5, <1>8, <1>9

LEMMA ConcatProgress ==
    ASSUME NEW S \in SUBSET NetbootSpec, spec \in S, OwnInitrds(S), TypeInv, Progress(w, dir),
           MadeFor(dir.initrd, S), Concat
    PROVE  Progress(w, dir)' /\ MadeFor(boot'[w.key].initrd, S)
<1>1. w.pc = "concat" /\ w.pc \in CombineSteps
  BY DEF Concat, Assembling, CombineSteps
<1>2. /\ TypeOK /\ w.pc \in NetbootSteps /\ w.pc \in DOMAIN Doing /\ w.pc # "idle"
      /\ w.key \in Configs /\ KernelServed(dir, spec) /\ dir.initrd \in Directory
      /\ \A a \in Refs(spec) : w.name[a] \in Names(a)
  BY <1>1, InitrdState
<1>3. CASE Fail /\ UNCHANGED <<boot, faults>>
  BY <1>2, <1>3, FailedProgress DEF dir
<1>4. CASE /\ NoFile \notin Sources
           /\ \E f \in Dst : \A src \in Sources : f.mtime > src.mtime
           /\ Goto("setReady")
           /\ UNCHANGED <<boot, faults>>
  <2>1. InitrdServed(dir, spec)
    BY <1>1, <1>4, KeptConcatenation
  <2>2. w'.pc = "setReady" /\ w'.bc = w.bc /\ dir' = dir
    BY <1>2, <1>4, Gone DEF dir
  <2>3. Progress(w, dir)'
    BY <1>2, <2>1, <2>2 DEF Progress, spec, NetbootSteps
  <2> QED BY <1>4, <2>3 DEF dir
<1> DEFINE missing == \A f \in Dst : NoFile \notin Sources
                                    /\ \E src \in Sources : f.mtime <= src.mtime
<1>5. CASE Clean("initrd", missing) /\ Goto("copyInitrd")
  <2>0. missing \in BOOLEAN
    OBVIOUS
  <2> HIDE DEF missing
  <2>1. /\ \A f \in Files : boot'[w.key]["initrd"].entry[f] \in {dir["initrd"].entry[f], NoFile}
        /\ \A k \in {"kernel", "initrd"} : k # "initrd" => boot'[w.key][k] = dir[k]
        /\ \A c \in Configs : c # w.key => boot'[c] = boot[c]
    BY <1>2, <1>5, <2>0, CleanEffect
  <2>2. /\ \A f \in Files : boot'[w.key].initrd.entry[f] \in {dir.initrd.entry[f], NoFile}
        /\ boot'[w.key].kernel = dir.kernel
    BY <2>1
  <2>3. MadeFor(boot'[w.key].initrd, S)
    BY <1>2, <2>2 DEF MadeFor
  <2>4. KernelServed(boot'[w.key], spec)
    BY <1>2, <2>2, KernelKept
  <2>5. w'.pc = "copyInitrd" /\ w'.bc = w.bc /\ w'.name = w.name /\ dir' = boot'[w.key]
    BY <1>2, <1>5, Gone
  <2>6. Progress(w, dir)'
    BY <1>2, <2>4, <2>5 DEF Progress, spec
  <2> QED BY <2>3, <2>6
<1> QED BY <1>3, <1>4, <1>5 DEF Concat


LEMMA CopyProgress ==
    ASSUME NEW S \in SUBSET NetbootSpec, spec \in S, TypeInv, FilesInv, Progress(w, dir),
           MadeFor(dir.initrd, S), CopyInitrd \/ CopyFirmware
    PROVE  Progress(w, dir)' /\ MadeFor(boot'[w.key].initrd, S)
<1>1. /\ w.pc \in {"copyInitrd", "copyFirmware"} /\ w.pc \in CombineSteps /\ w.pc \in ReadSteps
      /\ {"copyFirmware", "write"} \subseteq Steps
  BY DoingSteps DEF CopyInitrd, CopyFirmware, Assembling, CombineSteps, ReadSteps, Steps, NetbootSteps
<1>2. /\ TypeOK /\ w.pc \in NetbootSteps /\ w.pc \in DOMAIN Doing /\ w.pc # "idle"
      /\ w.key \in Configs /\ spec \in Specs /\ KernelServed(dir, spec)
      /\ spec.initrd \in Refs(spec) /\ \A a \in Refs(spec) : w.name[a] \in Names(a)
  BY <1>1, InitrdState
<1>3. /\ spec.firmware \in Refs(spec) /\ w.copied \in Seq(Data) /\ Len(w.copied) = Read(w.pc)
  <2>1. spec.firmware # None /\ Len(w.copied) = Read(w.pc)
    BY <1>1 DEF TypeInv, Prepared, spec
  <2> QED BY <1>2, <2>1, Working, Netboot
<1>4. \/ w.pc = "copyInitrd" /\ CopySource(spec.initrd, "copyFirmware")
      \/ w.pc = "copyFirmware" /\ CopySource(spec.firmware, "write")
  BY DEF CopyInitrd, CopyFirmware, Assembling
<1>5. UNCHANGED boot
  BY <1>4 DEF CopySource
<1>6. MadeFor(boot'[w.key].initrd, S) /\ dir' = boot[w'.key]
  BY <1>5 DEF dir
<1>7. CASE Fail
  BY <1>2, <1>6, <1>7, FailedProgress
<1>8. ASSUME NEW a \in Refs(spec), FileOf(a) \in File
      PROVE  FileOf(a).data \in Data /\ FileOf(a).data[1] = a
  <2>1. a \in Artifacts /\ w.name[a] \in Files
    BY <1>2, NameType
  <2>2. FileOf(a) # NoFile
    <3>1. NoFile \notin File
      BY ConstantsAssumption
    <3> QED BY <1>8, <3>1
  <2> QED BY <1>8, <2>1, <2>2 DEF FilesInv, Own, FileOf, File
<1>9. CASE w.pc = "copyInitrd" /\ ~Fail
  <2>1. CopySource(spec.initrd, "copyFirmware")
    BY <1>4, <1>9
  <2>2. /\ w'.pc = "copyFirmware" /\ w'.key = w.key /\ w'.bc = w.bc /\ w'.name = w.name
        /\ FileOf(spec.initrd) \in File
        /\ w'.copied = Append(w.copied, FileOf(spec.initrd).data)
    BY <1>1, <1>2, <1>9, <2>1, CopyEffect
  <2>3. PICK d \in Data : d = FileOf(spec.initrd).data /\ d[1] = spec.initrd
    BY <1>2, <1>8, <2>2
  <2>4. w'.copied[1] = d
    <3>1. PICK old \in Seq(Data) : old = w.copied /\ Len(old) = 0
      BY <1>3, <1>9 DEF Read
    <3>2. Append(old, d)[1] = d
      BY <3>1
    <3> QED BY <2>2, <2>3, <3>1, <3>2
  <2>5. dir' = dir
    BY <1>6, <2>2 DEF dir
  <2> QED BY <1>2, <1>6, <2>2, <2>3, <2>4, <2>5 DEF Progress, spec
<1>10. CASE w.pc = "copyFirmware" /\ ~Fail
  <2>1. CopySource(spec.firmware, "write")
    BY <1>4, <1>10
  <2>2. /\ w'.pc = "write" /\ w'.key = w.key /\ w'.bc = w.bc /\ w'.name = w.name
        /\ FileOf(spec.firmware) \in File
        /\ w'.copied = Append(w.copied, FileOf(spec.firmware).data)
    BY <1>1, <1>2, <1>3, <1>10, <2>1, CopyEffect
  <2>3. PICK d \in Data : d = FileOf(spec.firmware).data /\ d[1] = spec.firmware
    BY <1>3, <1>8, <2>2
  <2>4. w'.copied[1] = w.copied[1] /\ w'.copied[2] = d
    <3>1. PICK old \in Seq(Data) : old = w.copied /\ Len(old) = 1
      BY <1>3, <1>10 DEF Read
    <3>2. Append(old, d)[1] = old[1] /\ Append(old, d)[2] = d
      BY <3>1
    <3> QED BY <2>2, <2>3, <3>1, <3>2
  <2>5. w.copied[1][1] = spec.initrd
    BY <1>2, <1>10 DEF Progress, spec
  <2>6. dir' = dir
    BY <1>6, <2>2 DEF dir
  <2> QED BY <1>2, <1>6, <2>2, <2>3, <2>4, <2>5, <2>6 DEF Progress, spec
<1> QED BY <1>1, <1>7, <1>9, <1>10

LEMMA WriteProgress ==
    ASSUME NEW S \in SUBSET NetbootSpec, spec \in S, TypeInv, Progress(w, dir),
           MadeFor(dir.initrd, S), WriteCombined
    PROVE  Progress(w, dir)' /\ MadeFor(boot'[w.key].initrd, S)
<1>1. /\ w.pc = "write" /\ UNCHANGED boot /\ w'.pc = "install" /\ w'.key = w.key
      /\ w'.bc = w.bc /\ w'.name = w.name /\ w'.copied = w.copied
  BY WriteEffect
<1>2. w.pc \in CombineSteps
  BY <1>1 DEF CombineSteps
<1>3. KernelServed(dir, spec) /\ \A a \in Refs(spec) : w.name[a] \in Names(a)
  BY <1>2, InitrdState
<1>4. dir' = dir
  BY <1>1 DEF dir
<1>5. w.copied[1][1] = spec.initrd /\ w.copied[2][1] = spec.firmware
  BY <1>1 DEF Progress, spec
<1> QED BY <1>1, <1>3, <1>4, <1>5 DEF Progress, spec, dir

LEMMA InstallProgress ==
    ASSUME NEW S \in SUBSET NetbootSpec, spec \in S, TypeInv, Progress(w, dir),
           MadeFor(dir.initrd, S), Install
    PROVE  Progress(w, dir)' /\ MadeFor(boot'[w.key].initrd, S)
<1> DEFINE name == w.name[spec.initrd]
           e == boot'[w.key].initrd.entry[name]
<1>1. /\ w.pc = "install" /\ Goto("setReady")
      /\ boot'[w.key].kernel = dir.kernel /\ boot'[w.key].initrd \in Directory
      /\ \A c \in Configs : c # w.key => boot'[c] = boot[c]
      /\ name \in Files /\ e \in Combined /\ e.data = <<w.copied[1], w.copied[2]>>
      /\ \A f \in Files : f # name => boot'[w.key].initrd.entry[f] = dir.initrd.entry[f]
  BY InstallEffect
<1>2. w.pc \in CombineSteps
  BY <1>1 DEF CombineSteps
<1>3. /\ TypeOK /\ w.pc \in DOMAIN Doing /\ w.pc # "idle" /\ spec \in Specs
      /\ KernelServed(dir, spec) /\ name \in Names(spec.initrd) /\ dir.initrd \in Directory
  BY <1>2, InitrdState
<1>4. spec.firmware # None
  BY <1>2 DEF TypeInv, Prepared, spec
<1>5. w.copied[1][1] = spec.initrd /\ w.copied[2][1] = spec.firmware
  BY <1>1, <1>3 DEF Progress, spec
<1>6. e.data[1] = w.copied[1] /\ e.data[2] = w.copied[2]
  <2>1. PICK u, v, x : u = w.copied[1] /\ v = w.copied[2] /\ x = e.data
    OBVIOUS
  <2>2. x = <<u, v>>
    BY <1>1, <2>1
  <2>3. x[1] = u /\ x[2] = v
    BY <2>2
  <2> QED BY <2>1, <2>3
<1> HIDE DEF name
<1>7. CombinedFor(name, e, spec)
  BY <1>1, <1>3, <1>4, <1>5, <1>6 DEF CombinedFor
<1>8. MadeFor(boot'[w.key].initrd, S)
  BY <1>1, <1>3, <1>7 DEF MadeFor
<1>10. KernelServed(boot'[w.key], spec)
  BY <1>1, <1>3, KernelKept
<1>11. InitrdServed(boot'[w.key], spec)
  BY <1>1, <1>4, <1>7 DEF InitrdServed
<1>12. w'.pc = "setReady" /\ w'.bc = w.bc /\ dir' = boot'[w.key]
  BY <1>1, <1>3, Gone
<1>13. Progress(w, dir)'
  BY <1>10, <1>11, <1>12 DEF Progress, spec, NetbootSteps
<1> QED BY <1>8, <1>13

\* What is left of an initrd was made for the same spec.
LEMMA LeftMadeFor ==
    ASSUME NEW S, NEW o \in Directory \cup Extracted \cup {NoFile}, MadeFor(o, S),
           NEW torn \in BOOLEAN, NEW i \in LeftDir(o, torn)
    PROVE  MadeFor(i, S)
<1> SUFFICES ASSUME i \in Directory, NEW f \in Files, i.entry[f] # NoFile
             PROVE  \E s \in S : LinkFor(f, i.entry[f], s) \/ CombinedFor(f, i.entry[f], s)
  BY DEF MadeFor
<1>1. o \in Directory /\ i.entry[f] \in Left(o.entry[f], torn)
  <2>1. i \notin Extracted \cup {NoFile}
    BY Kinds
  <2> QED BY <2>1, LeftDirectory, LeftExtracted
<1>2. PICK e \in Links \cup Combined \cup {NoFile} : e = o.entry[f]
  BY <1>1, EntriesType
<1>3. PICK x \in Left(e, torn) : x = i.entry[f]
  BY <1>1, <1>2
<1>4. \/ x = e
      \/ x \in Combined /\ e \in Combined /\ (x.data = e.data \/ x.data = Torn)
  BY <1>2, <1>3, LeftEntry
<1>5. e # NoFile
  BY <1>3, <1>4, Kinds
<1>6. PICK s \in S : LinkFor(f, e, s) \/ CombinedFor(f, e, s)
  BY <1>1, <1>2, <1>5 DEF MadeFor
<1>7. CASE x # e
  <2>1. e \in Combined /\ x \in Combined /\ (x.data = e.data \/ x.data = Torn)
    BY <1>4, <1>7
  <2>2. ~LinkFor(f, e, s)
    BY <2>1 DEF LinkFor, Link, Combined
  <2> QED BY <1>3, <1>6, <2>1, <2>2 DEF CombinedFor
<1> QED BY <1>3, <1>6, <1>7

-----------------------------------------------------------------------------
(* Ready in iso mode *)

Safe(s) == {s.kernelPath, s.initrdPath} \subseteq SafePaths

\* No two of the specs S name different images, or different paths in one.
OneImage(S) == \A s, t \in S : Safe(s) /\ Safe(t) => s = t

\* The images that specs name, and that their specs ask for R throughout.
Images == {s.iso : s \in Specs \cap ISOSpec}
Unreplaced(R) == \A a \in Images : arts[a].rev = R[a]

\* Then so do their files.
OfRevision(a, x, R) == x # NoFile => x.data = <<a, R[a]>>
ImagesInv(R) ==
    /\ \A a \in Images : /\ artCache[a].rev = R[a] /\ \A v \in artEvents[a] : v.rev = R[a]
                         /\ \A f \in Files : OfRevision(a, file[a][f], R)
    /\ job.pc # "idle" /\ job.key \in Images =>
            job.read.rev = R[job.key] /\ OfRevision(job.key, job.file, R)

\* What was extracted was extracted for one of the specs S.
From(e, x, path) == e # NoFile => e.data \in {Torn, <<x, path>>}
Unpacked(d, S, R) ==
    /\ d.initrd \notin Directory
    /\ \A s \in S : Safe(s) => /\ From(d.vmlinuz, <<s.iso, R[s.iso]>>, s.kernelPath)
                               /\ From(d.initrd, <<s.iso, R[s.iso]>>, s.initrdPath)

ImageLinked(d, s) == \E f \in Names(s.iso) : Link(s.iso, f) \in d.iso
ImageServed(d, s) == Safe(s) /\ d.vmlinuz # NoFile /\ d.initrd # NoFile /\ ImageLinked(d, s)

\* How far reconcile x has come in the directory d.
ISOProgress(x, d, R) ==
    LET s == x.bc.obj.spec
    IN  /\ x.pc \in {"mkdir"} \cup ISOSteps => Safe(s) /\ x.name[s.iso] \in Names(s.iso)
        /\ x.pc \in {"extractKernel", "extractInitrd"} => x.copied[1] = <<s.iso, R[s.iso]>>
        /\ x.pc \in {"extractInitrd", "linkISO", "symlinkISO"} => d.vmlinuz # NoFile
        /\ x.pc \in {"linkISO", "symlinkISO"} => d.initrd # NoFile
        /\ x.pc = "setReady" => ImageServed(d, s)

LEMMA NoISOProgress ==
    ASSUME NEW x, NEW d, NEW R, x.pc \in {"setPending", "setError"}
    PROVE  ISOProgress(x, d, R)
BY DEF ISOProgress, ISOSteps

LEMMA FailedISOProgress ==
    ASSUME TypeOK, w.pc \in DOMAIN Doing, NEW R, Fail
    PROVE  ISOProgress(w, dir, R)'
BY FailType, NoISOProgress

\* Where a step of iso mode starts from.
LEMMA ImageState ==
    ASSUME NEW S \in SUBSET ISOSpec, spec \in S, TypeInv, NEW R, ISOProgress(w, dir, R),
           w.pc \in ISOSteps
    PROVE  /\ TypeOK /\ w.pc \in DOMAIN Doing /\ w.pc # "idle" /\ w.key \in Configs
           /\ dir \in BootDir /\ boot \in [Configs -> BootDir] /\ now \in 0..MaxTime
           /\ spec.kernelPath \in ISOPaths /\ spec.initrdPath \in ISOPaths
           /\ spec.iso \in Images /\ spec.iso \in Refs(spec)
           /\ Safe(spec) /\ w.name[spec.iso] \in Names(spec.iso)
<1>1. /\ TypeOK /\ w.pc \in DOMAIN Doing /\ w.pc # "idle" /\ w.key \in Configs
      /\ dir \in BootDir /\ boot \in [Configs -> BootDir] /\ now \in 0..MaxTime /\ spec \in Specs
      /\ spec.kernelPath \in ISOPaths /\ spec.initrdPath \in ISOPaths /\ spec.iso \in Refs(spec)
  BY ISOState DEF TypeInv
<1>2. spec.iso \in Images
  BY <1>1 DEF Images
<1>3. Safe(spec) /\ w.name[spec.iso] \in Names(spec.iso)
  BY DEF ISOProgress, spec
<1> QED BY <1>1, <1>2, <1>3

LEMMA ExtractProgress ==
    ASSUME NEW S \in SUBSET ISOSpec, spec \in S, TypeInv, NEW R, ImagesInv(R),
           ISOProgress(w, dir, R), Unpacked(dir, S, R), Extract
    PROVE  ISOProgress(w, dir, R)' /\ Unpacked(boot'[w.key], S, R)
<1>1. w.pc = "extract" /\ w.pc \in ISOSteps /\ UNCHANGED boot
  BY DEF Extract, Assembling, ISOSteps
<1>2. /\ TypeOK /\ w.pc \in DOMAIN Doing /\ spec.iso \in Images /\ spec.iso \in Refs(spec)
      /\ Safe(spec) /\ w.name[spec.iso] \in Names(spec.iso) /\ w.pc # "idle"
  BY <1>1, ImageState
<1>3. Unpacked(boot'[w.key], S, R)
  BY <1>1 DEF dir
<1>4. CASE Fail
  BY <1>2, <1>3, <1>4, FailedISOProgress
<1>5. CASE /\ \E newer \in BOOLEAN : UpToDate(dir.vmlinuz, newer) /\ UpToDate(dir.initrd, newer)
           /\ Goto("linkISO")
  <2>1. dir.vmlinuz # NoFile /\ dir.initrd # NoFile
    BY <1>5, Kinds DEF UpToDate
  <2>2. /\ w'.pc = "linkISO" /\ w'.bc = w.bc /\ w'.name = w.name /\ dir' = dir
    BY <1>1, <1>2, <1>5, Gone DEF dir
  <2> QED BY <1>2, <1>3, <2>1, <2>2 DEF ISOProgress, spec
<1>6. CASE /\ FileOf(spec.iso) # NoFile
           /\ w' = [w EXCEPT !.pc = "extractKernel", !.copied = <<FileOf(spec.iso).data>>]
  <2>1. FileOf(spec.iso).data = <<spec.iso, R[spec.iso]>>
    <3>1. w.name[spec.iso] \in Files
      BY <1>2, NameType
    <3> QED BY <1>2, <1>6, <3>1 DEF ImagesInv, OfRevision, FileOf
  <2>2. PICK d : d = FileOf(spec.iso).data
    OBVIOUS
  <2>3. w \in Reconciling
    BY <1>2, Working
  <2>4. /\ w'.pc = "extractKernel" /\ w'.bc = w.bc /\ w'.name = w.name /\ w'.copied = <<d>>
    BY <1>6, <2>2, <2>3 DEF Reconciling
  <2>5. w'.copied[1] = <<spec.iso, R[spec.iso]>>
    BY <2>1, <2>2, <2>4
  <2> QED BY <1>2, <1>3, <2>4, <2>5 DEF ISOProgress, spec
<1> QED BY <1>4, <1>5, <1>6 DEF Extract

LEMMA OutputType ==
    ASSUME TypeInv, w.pc \in {"extractKernel", "extractInitrd"}, Stamp, NEW path \in ISOPaths
    PROVE  /\ Output(path) \in Extracted /\ Output(path) \notin Directory /\ Output(path) # NoFile
           /\ Output(path).data = <<w.copied[1], path>>
<1>1. w.pc \in ISOSteps /\ w.pc \in ReadSteps /\ Read(w.pc) = 1
  BY DEF ISOSteps, ReadSteps, Read
<1>2. w.copied[1] \in Data
  <2>1. Len(w.copied) = 1 /\ w.copied \in Seq(Data)
    BY <1>1, ISOState, Working DEF TypeInv, Prepared
  <2> QED BY <2>1
<1>3. now' \in Nat
  BY StampType DEF TypeInv
<1>4. Output(path) \in Extracted /\ Output(path).type = "file" /\ Output(path).data = <<w.copied[1], path>>
  BY <1>2, <1>3 DEF Output, Extracted
<1>5. NoFile \notin Extracted
  BY ConstantsAssumption
<1> QED BY <1>4, <1>5 DEF Directory

\* An output of this spec is one that any of the specs may find.
LEMMA OutputFrom ==
    ASSUME NEW S, OneImage(S), NEW s \in S, Safe(s), NEW R, NEW t \in S, Safe(t),
           NEW e, NEW path, e.data = <<<<s.iso, R[s.iso]>>, s[path]>>
    PROVE  From(e, <<t.iso, R[t.iso]>>, t[path])
BY DEF OneImage, From

LEMMA ExtractKernelProgress ==
    ASSUME NEW S \in SUBSET ISOSpec, spec \in S, OneImage(S), TypeInv, NEW R,
           ISOProgress(w, dir, R), Unpacked(dir, S, R), ExtractKernel
    PROVE  ISOProgress(w, dir, R)' /\ Unpacked(boot'[w.key], S, R)
<1>1. w.pc = "extractKernel" /\ w.pc \in ISOSteps /\ Goto("extractInitrd") /\ Stamp
  BY DEF ExtractKernel, Assembling, ISOSteps
<1>2. /\ TypeOK /\ w.pc \in DOMAIN Doing /\ Safe(spec) /\ w.name[spec.iso] \in Names(spec.iso)
      /\ dir \in BootDir /\ w.pc # "idle" /\ spec.kernelPath \in ISOPaths
  BY <1>1, ImageState
<1>3. w.copied[1] = <<spec.iso, R[spec.iso]>>
  BY <1>1 DEF ISOProgress, spec
<1>4. PICK o : o = Output(spec.kernelPath)
  OBVIOUS
<1>5. o # NoFile /\ o.data = <<<<spec.iso, R[spec.iso]>>, spec.kernelPath>>
  BY <1>1, <1>2, <1>3, <1>4, OutputType
<1>6. PICK d : d = [dir EXCEPT !.vmlinuz = o]
  OBVIOUS
<1>7. d.vmlinuz = o /\ d.initrd = dir.initrd
  BY <1>2, <1>6 DEF BootDir
<1>8. boot'[w.key] = d
  <2>1. SetDir(d)
    BY <1>4, <1>6 DEF ExtractKernel
  <2> QED BY <1>2, <2>1, BootSet
<1>9. Unpacked(d, S, R)
  BY <1>2, <1>5, <1>7, OutputFrom DEF Unpacked
<1>10. w'.pc = "extractInitrd" /\ w'.bc = w.bc /\ w'.name = w.name /\ w'.copied = w.copied /\ dir' = d
  BY <1>1, <1>2, <1>8, Gone
<1>11. ISOProgress(w, dir, R)'
  <2>1. w'.bc.obj.spec = spec /\ w'.name[spec.iso] = w.name[spec.iso] /\ w'.copied[1] = w.copied[1]
    BY <1>10 DEF spec
  <2>2. dir'.vmlinuz # NoFile
    BY <1>5, <1>7, <1>10
  <2> QED BY <1>2, <1>3, <1>10, <2>1, <2>2 DEF ISOProgress
<1> QED BY <1>8, <1>9, <1>11

LEMMA ExtractInitrdProgress ==
    ASSUME NEW S \in SUBSET ISOSpec, spec \in S, OneImage(S), TypeInv, NEW R,
           ISOProgress(w, dir, R), Unpacked(dir, S, R), ExtractInitrd
    PROVE  ISOProgress(w, dir, R)' /\ Unpacked(boot'[w.key], S, R)
<1>1. w.pc = "extractInitrd" /\ w.pc \in ISOSteps
  BY DEF ExtractInitrd, Assembling, ISOSteps
<1>2. /\ TypeOK /\ w.pc \in DOMAIN Doing /\ Safe(spec) /\ w.name[spec.iso] \in Names(spec.iso)
      /\ dir \in BootDir /\ w.pc # "idle" /\ spec.initrdPath \in ISOPaths
  BY <1>1, ImageState
<1>3. w.copied[1] = <<spec.iso, R[spec.iso]>> /\ dir.vmlinuz # NoFile
  BY <1>1 DEF ISOProgress, spec
<1>4. /\ Stamp /\ Goto("linkISO")
      /\ SetDir([dir EXCEPT !.initrd = Output(spec.initrdPath)])
  BY DEF ExtractInitrd, Unpacked
<1>5. PICK o : o = Output(spec.initrdPath)
  OBVIOUS
<1>6. o # NoFile /\ o \notin Directory /\ o.data = <<<<spec.iso, R[spec.iso]>>, spec.initrdPath>>
  BY <1>1, <1>2, <1>3, <1>4, <1>5, OutputType
<1>7. PICK d : d = [dir EXCEPT !.initrd = o]
  OBVIOUS
<1>8. d.initrd = o /\ d.vmlinuz = dir.vmlinuz
  BY <1>2, <1>7 DEF BootDir
<1>9. boot'[w.key] = d
  <2>1. SetDir(d)
    BY <1>4, <1>5, <1>7
  <2> QED BY <1>2, <2>1, BootSet
<1>10. Unpacked(d, S, R)
  BY <1>2, <1>6, <1>8, OutputFrom DEF Unpacked
<1>11. w'.pc = "linkISO" /\ w'.bc = w.bc /\ w'.name = w.name /\ dir' = d
  BY <1>2, <1>4, <1>9, Gone
<1> QED BY <1>2, <1>3, <1>6, <1>8, <1>9, <1>10, <1>11 DEF ISOProgress, spec

LEMMA LinkISOProgress ==
    ASSUME NEW S \in SUBSET ISOSpec, spec \in S, TypeInv, NEW R,
           ISOProgress(w, dir, R), Unpacked(dir, S, R), LinkISO \/ SymlinkISO
    PROVE  ISOProgress(w, dir, R)' /\ Unpacked(boot'[w.key], S, R)
<1>1. w.pc \in {"linkISO", "symlinkISO"} /\ w.pc \in ISOSteps
  BY DEF LinkISO, SymlinkISO, Assembling, ISOSteps
<1>2. /\ TypeOK /\ w.pc \in DOMAIN Doing /\ Safe(spec) /\ w.name[spec.iso] \in Names(spec.iso)
      /\ dir \in BootDir /\ w.pc # "idle"
  BY <1>1, ImageState
<1>3. dir.vmlinuz # NoFile /\ dir.initrd # NoFile
  BY <1>1 DEF ISOProgress, spec
<1>4. ASSUME NEW d, d.vmlinuz = dir.vmlinuz, d.initrd = dir.initrd, boot'[w.key] = d,
             \/ Goto("symlinkISO")
             \/ Goto("setReady") /\ LinkTo(spec.iso) \in d.iso
      PROVE  ISOProgress(w, dir, R)' /\ Unpacked(boot'[w.key], S, R)
  <2>1. Unpacked(d, S, R)
    BY <1>4 DEF Unpacked
  <2>2. CASE Goto("symlinkISO")
    <3>1. w'.pc = "symlinkISO" /\ w'.bc = w.bc /\ w'.name = w.name /\ dir' = d
      BY <1>2, <1>4, <2>2, Gone
    <3> QED BY <1>2, <1>3, <1>4, <2>1, <3>1 DEF ISOProgress, spec
  <2>3. CASE Goto("setReady") /\ LinkTo(spec.iso) \in d.iso
    <3>1. w'.pc = "setReady" /\ w'.bc = w.bc /\ dir' = d
      BY <1>2, <1>4, <2>3, Gone
    <3>2. ImageServed(d, spec)
      BY <1>2, <1>3, <1>4, <2>3 DEF ImageServed, ImageLinked, LinkTo
    <3> QED BY <1>4, <2>1, <3>1, <3>2 DEF ISOProgress, spec, ISOSteps
  <2> QED BY <1>4, <2>2, <2>3
<1>5. ASSUME NEW T, SetDir([dir EXCEPT !.iso = T])
      PROVE  \E d : /\ d.vmlinuz = dir.vmlinuz /\ d.initrd = dir.initrd /\ d.iso = T
                    /\ boot'[w.key] = d
  <2>1. PICK d : d = [dir EXCEPT !.iso = T]
    OBVIOUS
  <2>2. d.vmlinuz = dir.vmlinuz /\ d.initrd = dir.initrd /\ d.iso = T
    BY <1>2, <2>1 DEF BootDir
  <2>3. boot'[w.key] = d
    BY <1>2, <1>5, <2>1, BootSet
  <2> QED BY <2>2, <2>3
<1>6. CASE LinkTo(spec.iso) \in dir.iso /\ Goto("setReady") /\ UNCHANGED boot
  BY <1>4, <1>6 DEF dir
<1>7. CASE SetDir([dir EXCEPT !.iso = OtherLinks]) /\ Goto("symlinkISO")
  BY <1>4, <1>5, <1>7
<1>8. CASE UNCHANGED boot /\ Goto("symlinkISO")
  BY <1>4, <1>8 DEF dir
<1>9. CASE SetDir([dir EXCEPT !.iso = @ \cup {LinkTo(spec.iso)}]) /\ Goto("setReady")
  <2>1. PICK T : T = dir.iso \cup {LinkTo(spec.iso)}
    OBVIOUS
  <2>2. SetDir([dir EXCEPT !.iso = T])
    BY <1>9, <2>1
  <2> QED BY <1>4, <1>5, <1>9, <2>1, <2>2
<1>10. CASE Fail /\ UNCHANGED boot
  <2>1. ISOProgress(w, dir, R)'
    BY <1>2, <1>10, FailedISOProgress
  <2> QED BY <1>10, <2>1 DEF dir
<1>11. CASE LinkISO
  BY <1>6, <1>7, <1>8, <1>11 DEF LinkISO
<1>12. CASE SymlinkISO
  BY <1>9, <1>10, <1>12 DEF SymlinkISO
<1> QED BY <1>11, <1>12

\* What is left of the outputs was extracted for the same spec.
LEMMA LeftUnpacked ==
    ASSUME NEW S, NEW R, NEW d \in BootDir, Unpacked(d, S, R), NEW torn \in BOOLEAN,
           NEW e \in LeftOf(d, torn)
    PROVE  Unpacked(e, S, R)
<1>1. /\ d.vmlinuz \in Extracted \cup {NoFile} /\ d.initrd \in Extracted \cup {NoFile}
      /\ d.initrd \notin Directory
  BY DEF Unpacked, BootDir
<1>2. e.vmlinuz \in Left(d.vmlinuz, torn) /\ e.initrd \in Left(d.initrd, torn)
  BY <1>1 DEF LeftOf, LeftDir
<1>3. ASSUME NEW o \in Extracted \cup {NoFile}, NEW x \in Left(o, torn)
      PROVE  /\ x \notin Directory
             /\ \A y, path : From(o, y, path) => From(x, y, path)
  <2>1. x \in Extracted \cup {NoFile} /\ (x \in Extracted => o \in Extracted /\ x.data \in {o.data, Torn})
    BY LeftExtracted
  <2>2. x \notin Directory
    BY <2>1, Kinds
  <2> QED BY <2>1, <2>2, Kinds DEF From
<1>4. e.initrd \notin Directory
  BY <1>1, <1>2, <1>3
<1>5. \A y, path : /\ From(d.vmlinuz, y, path) => From(e.vmlinuz, y, path)
                   /\ From(d.initrd, y, path) => From(e.initrd, y, path)
  BY <1>1, <1>2, <1>3
<1> QED BY <1>4, <1>5 DEF Unpacked

\* The versions of artifacts that are delivered are those that were published.
LEMMA ArtifactVersions ==
    ASSUME TypeInv, [Next]_vars, NEW a \in Artifacts
    PROVE  /\ artEvents'[a] \subseteq artEvents[a] \cup {arts'[a]}
           /\ artCache'[a] \in artEvents[a] \cup {artCache[a], arts[a]}
<1>0. /\ TypeOK /\ artEvents \in [Artifacts -> SUBSET ArtifactVersion]
      /\ arts \in [Artifacts -> ArtifactVersion] /\ artCache \in [Artifacts -> ArtifactVersion]
  BY DEF TypeInv, TypeOK
<1>1. CASE UNCHANGED <<artEvents, artCache>>
  BY <1>1
<1>2. ASSUME NEW b \in Artifacts, NEW rev, NEW phase, PublishArtifact(b, rev, phase), UNCHANGED artCache
      PROVE  /\ artEvents'[a] \subseteq artEvents[a] \cup {arts'[a]}
             /\ artCache'[a] \in artEvents[a] \cup {artCache[a], arts[a]}
  <2>1. PICK v : arts' = [arts EXCEPT ![b] = v] /\ artEvents' = [artEvents EXCEPT ![b] = @ \cup {v}]
    BY <1>2 DEF PublishArtifact
  <2> QED BY <1>0, <1>2, <2>1
<1>3. CASE Restart
  BY <1>0, <1>3 DEF Restart
<1>4. ASSUME NEW b \in Artifacts, DeliverArtifact(b)
      PROVE  /\ artEvents'[a] \subseteq artEvents[a] \cup {arts'[a]}
             /\ artCache'[a] \in artEvents[a] \cup {artCache[a], arts[a]}
  BY <1>0, <1>4 DEF DeliverArtifact
<1>5. CASE ArtifactAction
  <2>1. UNCHANGED artCache
    BY <1>0, <1>5, ArtifactEffect DEF artifactStepVars
  <2>2. CASE UNCHANGED artVars
    BY <1>1, <2>1, <2>2 DEF artVars
  <2>3. CASE \E b \in Artifacts, phase \in {"Downloading", "Ready", "Error"} : SetPhase(b, phase)
    BY <1>2, <2>1, <2>3 DEF SetPhase
  <2> QED BY <1>0, <1>5, <2>2, <2>3, ArtifactEffect
<1>6. CASE AssemblingStep
  BY <1>1, <1>6, AssemblingFrame DEF artVars
<1>7. ASSUME NEW b \in Editable, NEW r \in Revisions, NEW phase, SubmitArtifact(b, r, phase)
      PROVE  /\ artEvents'[a] \subseteq artEvents[a] \cup {arts'[a]}
             /\ artCache'[a] \in artEvents[a] \cup {artCache[a], arts[a]}
  BY <1>2, <1>7, ConstantsAssumption DEF SubmitArtifact
<1>8. CASE \/ SetReady \/ SetPending \/ SetError \/ UNCHANGED vars
           \/ \E c \in Configs : Reconcile(c) \/ Deliver(c) \/ Elapse(c) \/ Delete(c)
           \/ \E c \in Configs, s \in Specs : Create(c, s) \/ Edit(c, s)
  <2>1. UNCHANGED <<artEvents, artCache>>
    BY <1>8 DEF SetReady, SetPending, SetError, Finish, vars, artVars, Reconcile, Deliver, Elapse,
           Delete, Create, Edit, Submit
  <2> QED BY <1>1, <2>1
<1> QED BY <1>3, <1>4, <1>5, <1>6, <1>7, <1>8
        DEF Next, WorkerStep, AssemblingStep, Crash, PowerLoss, ArtifactAction

\* The files of images that are never replaced.
LEMMA ImagesInit == ASSUME NEW R, Init, Unreplaced(R) PROVE ImagesInv(R)
<1>1. ASSUME NEW a \in Images
      PROVE  /\ artCache[a].rev = R[a] /\ \A v \in artEvents[a] : v.rev = R[a]
             /\ \A f \in Files : OfRevision(a, file[a][f], R)
  <2>1. a \in Artifacts
    BY DEF Images, ISOSpec
  <2>2. arts[a].rev = Original /\ artEvents[a] = {} /\ artCache[a] = arts[a]
    BY <2>1 DEF Init
  <2>3. R[a] = Original
    BY <2>2 DEF Unreplaced
  <2>4. \A f \in Files : file[a][f] # NoFile => file[a][f] = [data |-> <<a, Original>>, mtime |-> 0]
    BY <2>1 DEF Init
  <2> QED BY <2>2, <2>3, <2>4 DEF OfRevision
<1>2. job.pc = "idle"
  BY DEF Init, NoJob
<1> QED BY <1>1, <1>2 DEF ImagesInv

LEMMA ImagesStep ==
    ASSUME NEW R, Unreplaced(R), Unreplaced(R)', TypeInv, ImagesInv(R), [Next]_vars
    PROVE  ImagesInv(R)'
<1>0. TypeOK /\ file \in [Artifacts -> [Files -> File \cup {NoFile}]]
  BY DEF TypeInv, TypeOK
<1>1. ASSUME NEW a \in Images
      PROVE  artCache'[a].rev = R[a] /\ \A v \in artEvents'[a] : v.rev = R[a]
  <2>1. a \in Artifacts /\ arts[a].rev = R[a] /\ arts'[a].rev = R[a]
    BY DEF Images, ISOSpec, Unreplaced
  <2> QED BY <2>1, ArtifactVersions DEF ImagesInv
<1> DEFINE Job == job.pc # "idle" /\ job.key \in Images =>
                    job.read.rev = R[job.key] /\ OfRevision(job.key, job.file, R)
           Kept == \A a \in Images, f \in Files : OfRevision(a, file[a][f], R)
<1>2. Job /\ Kept
  BY DEF ImagesInv
<1> SUFFICES Job' /\ Kept'
  BY <1>1 DEF ImagesInv
<1>3. CASE UNCHANGED fileVars
  BY <1>2, <1>3 DEF fileVars
<1>4. CASE Crash
  BY <1>2, <1>4 DEF Crash, Restart, NoJob
<1>5. CASE PowerLoss
  <2>1. job'.pc = "idle"
    BY <1>5 DEF PowerLoss, Restart, NoJob
  <2>2. Kept'
    BY <1>2, <1>5, PowerLossEffect DEF OfRevision, Images, ISOSpec
  <2> QED BY <2>1, <2>2
<1>6. CASE ArtifactAction
  <2>1. Job'
    <3> SUFFICES ASSUME job'.pc # "idle", job'.key \in Images
                 PROVE  job'.read.rev = R[job'.key] /\ OfRevision(job'.key, job'.file, R)
      OBVIOUS
    <3>1. job' # NoJob
      BY DEF NoJob
    <3>2. CASE UNCHANGED job
      BY <1>2, <3>2
    <3>3. CASE job' # job
      <4>1. artCache[job'.key].rev = R[job'.key] /\ arts[job'.key].rev = R[job'.key]
        BY DEF ImagesInv, Unreplaced
      <4>2. job'.read.rev = R[job'.key]
        BY <1>0, <1>2, <1>6, <3>1, <3>3, <4>1, ArtifactEffect
      <4>3. OfRevision(job'.key, job'.file, R)
        BY <1>0, <1>2, <1>6, <3>1, <3>3, <4>2, ArtifactEffect DEF OfRevision
      <4> QED BY <4>2, <4>3
    <3> QED BY <3>2, <3>3
  <2>2. ASSUME NEW a \in Images, NEW f \in Files
        PROVE  OfRevision(a, file'[a][f], R)
    <3>1. CASE UNCHANGED file
      BY <1>2, <3>1
    <3>2. CASE /\ job.pc \in {"remove", "rename"}
               /\ \E x \in {NoFile, job.file} : file' = [file EXCEPT ![job.key][job.name] = x]
      <4>1. PICK x \in {NoFile, job.file} : file' = [file EXCEPT ![job.key][job.name] = x]
        BY <3>2
      <4>2. job.key \in Artifacts /\ job.name \in Files /\ a \in Artifacts
        BY <1>0, <3>2, JobType DEF Images, ISOSpec
      <4>3. file'[a][f] = IF a = job.key /\ f = job.name THEN x ELSE file[a][f]
        BY <1>0, <4>1, <4>2
      <4>4. a = job.key => OfRevision(a, x, R)
        BY <1>2, <3>2 DEF OfRevision
      <4> QED BY <1>2, <4>3, <4>4
    <3> QED BY <1>0, <1>6, <3>1, <3>2, ArtifactEffect
  <2> QED BY <2>1, <2>2
<1>7. CASE AssemblingStep
  BY <1>3, <1>7, AssemblingFrame
<1>8. CASE \/ SetReady \/ SetPending \/ SetError \/ UNCHANGED vars
           \/ \E c \in Configs : Reconcile(c) \/ Deliver(c) \/ Elapse(c) \/ Delete(c)
           \/ \E c \in Configs, s \in Specs : Create(c, s) \/ Edit(c, s)
           \/ \E a \in Artifacts : DeliverArtifact(a)
           \/ \E a \in Editable, r \in Revisions :
                \E phase \in {"none", "", arts[a].phase} : SubmitArtifact(a, r, phase)
  <2>1. UNCHANGED fileVars
    BY <1>8 DEF SetReady, SetPending, SetError, Finish, vars, fileVars, Reconcile, Deliver, Elapse,
           Delete, Create, Edit, Submit, DeliverArtifact, SubmitArtifact
  <2> QED BY <1>3, <2>1
<1> QED BY <1>4, <1>5, <1>6, <1>7, <1>8 DEF Next, WorkerStep, AssemblingStep, ArtifactAction

-----------------------------------------------------------------------------
(* Ready in either mode *)

\* Specs that may follow each other on one BootConfig.
Compatible(S) ==
    \/ S \subseteq NetbootSpec /\ OwnInitrds(S)
    \/ S \subseteq ISOSpec /\ OneImage(S)

\* Users give BootConfig c specs of A[c] only. Then nobody holds another one.
Submitted(A) == \A c \in Configs : api[c].obj # Absent => api[c].obj.spec \in A[c]
SubmittedInv(A) == \A c \in Configs : \A v \in Known(c) : v.obj # Absent => v.obj.spec \in A[c]

\* Whatever is in a directory was made for one of the specs.
MadeForOne(d, S, R) ==
    /\ S \subseteq NetbootSpec => MadeFor(d.initrd, S)
    /\ S \subseteq ISOSpec => Unpacked(d, S, R)
DirectoriesInv(A, R) == \A c \in Configs : MadeForOne(boot[c], A[c], R)

ProgressInv(R) ==
    w.pc # "idle" => IF spec.mode = "iso" THEN ISOProgress(w, dir, R) ELSE Progress(w, dir)

\* Confirmed for the present spec and at rest, a BootConfig serves it.
ServedFor(d, s) ==
    IF s.mode = "iso" THEN ImageServed(d, s) ELSE KernelServed(d, s) /\ InitrdServed(d, s)
Served(c) == AtRest(c) => ServedFor(boot[c], api[c].obj.spec)
ServedInv == \A c \in Configs : Served(c)

LEMMA Modes ==
    /\ \A s \in NetbootSpec : s.mode = "netboot"
    /\ \A s \in ISOSpec : s.mode = "iso"
BY DEF NetbootSpec, ISOSpec

LEMMA KnownGrows ==
    ASSUME TypeInv, [Next]_vars, NEW c \in Configs
    PROVE  Known(c)' \subseteq Known(c) \cup {api'[c]}
<1>0. TypeOK /\ None # c
  <2>1. None \notin Configs
    BY ConstantsAssumption
  <2> QED BY <2>1 DEF TypeInv
<1>1. CASE AssemblingStep
  BY <1>1, AssemblingFrame DEF Known, configVars
<1>2. ASSUME NEW step, NEW ph, Finish(step, ph)
      PROVE  Known(c)' \subseteq Known(c) \cup {api'[c]}
  <2>1. UNCHANGED cache /\ w'.key # c
    BY <1>0, <1>2 DEF Finish, Idle
  <2>2. events'[c] \subseteq events[c] \cup {api'[c]}
    <3>1. CASE UNCHANGED <<api, events>>
      BY <3>1
    <3>2. ASSUME NEW obj, Publish(w.key, obj)
          PROVE  events'[c] \subseteq events[c] \cup {api'[c]}
      <4>1. PICK v : v = [rv |-> api[w.key].rv + 1, obj |-> obj]
        OBVIOUS
      <4>2. api' = [api EXCEPT ![w.key] = v] /\ events' = [events EXCEPT ![w.key] = @ \cup {v}]
        BY <3>2, <4>1 DEF Publish
      <4> QED BY <1>0, <4>2 DEF TypeOK
    <3> QED BY <1>2, <3>1, <3>2 DEF Finish, UpdateErr, Accept, configVars
  <2> QED BY <2>1, <2>2 DEF Known
<1>3. CASE SetReady \/ SetPending \/ SetError
  BY <1>2, <1>3 DEF SetReady, SetPending, SetError
<1>4. ASSUME NEW d \in Configs, Reconcile(d)
      PROVE  Known(c)' \subseteq Known(c) \cup {api'[c]}
  <2>1. UNCHANGED <<api, events, cache>>
    BY <1>4 DEF Reconcile, configVars
  <2>2. w' = w \/ (w'.key = d /\ w'.bc = cache[d])
    BY <1>0, <1>4, EnterType DEF Reconcile
  <2> QED BY <2>1, <2>2 DEF Known
<1>5. ASSUME NEW d \in Configs, Deliver(d)
      PROVE  Known(c)' \subseteq Known(c) \cup {api'[c]}
  <2>1. PICK v \in events[d] :
            cache' = [cache EXCEPT ![d] = v] /\ events' = [events EXCEPT ![d] = @ \ {v}]
    BY <1>5 DEF Deliver
  <2>2. UNCHANGED <<api, w>>
    BY <1>5 DEF Deliver
  <2>3. cache'[c] \in {cache[c]} \cup events[c] /\ events'[c] \subseteq events[c]
    BY <1>0, <2>1 DEF TypeOK
  <2> QED BY <2>2, <2>3 DEF Known
<1>6. ASSUME NEW d \in Configs, Delete(d) \/ \E s \in Specs : Create(d, s) \/ Edit(d, s)
      PROVE  Known(c)' \subseteq Known(c) \cup {api'[c]}
  <2>1. PICK obj : Submit(d, obj)
    BY <1>6 DEF Delete, Create, Edit
  <2>2. PICK v : v = [rv |-> api[d].rv + 1, obj |-> obj]
    OBVIOUS
  <2>3. /\ api' = [api EXCEPT ![d] = v] /\ events' = [events EXCEPT ![d] = @ \cup {v}]
        /\ UNCHANGED <<cache, w>>
    BY <2>1, <2>2 DEF Submit, Publish
  <2>4. events'[c] \subseteq events[c] \cup {api'[c]}
    BY <1>0, <2>3 DEF TypeOK
  <2> QED BY <2>3, <2>4 DEF Known
<1>7. CASE Restart
  BY <1>0, <1>7 DEF Restart, Idle, Known
<1>8. CASE \/ UNCHANGED vars
           \/ \E d \in Configs : Elapse(d)
           \/ (\E a \in Artifacts : DeliverArtifact(a)) \/ ArtifactAction
           \/ \E a \in Editable, r \in Revisions :
                \E phase \in {"none", "", arts[a].phase} : SubmitArtifact(a, r, phase)
  <2>1. UNCHANGED <<api, events, cache, w>>
    BY <1>0, <1>8, ArtifactEffect
       DEF vars, Elapse, DeliverArtifact, SubmitArtifact, artifactStepVars, configVars
  <2> QED BY <2>1 DEF Known
<1> QED BY <1>1, <1>3, <1>4, <1>5, <1>6, <1>7, <1>8
        DEF Next, WorkerStep, AssemblingStep, Crash, PowerLoss, ArtifactAction

LEMMA SubmittedStep ==
    ASSUME NEW A, TypeInv, SubmittedInv(A), Submitted(A)', [Next]_vars
    PROVE  SubmittedInv(A)'
BY KnownGrows DEF SubmittedInv, Submitted

LEMMA SubmittedInit == ASSUME NEW A, Init PROVE SubmittedInv(A)
<1>1. None \notin Configs
  BY ConstantsAssumption
<1> QED BY <1>1 DEF Init, Idle, SubmittedInv, Known

\* A reconcile comes to the files of an image only with paths that are safe.
LEMMA EnterSafe ==
    ASSUME TypeOK, NEW c \in Configs, cache[c].obj # Absent, cache[c].obj.spec \in ISOSpec,
           Enter(c), w'.pc = "mkdir"
    PROVE  Safe(cache[c].obj.spec)
<1> DEFINE s == cache[c].obj.spec
           checks == CheckList(s)
<1>1. checks = <<<<"safe", s.kernelPath>>, <<"safe", s.initrdPath>>,
                 <<"found", s.iso>>, <<"ready", s.iso>>>>
  BY Modes DEF CheckList
<1>2. {n \in DOMAIN checks : Fails(checks[n])} = {}
  BY DEF Enter, Idle
<1>3. 1 \in DOMAIN checks /\ 2 \in DOMAIN checks
  BY <1>1
<1>4. ~Fails(<<"safe", s.kernelPath>>) /\ ~Fails(<<"safe", s.initrdPath>>)
  BY <1>1, <1>2, <1>3
<1>5. \A path : ~Fails(<<"safe", path>>) => path \in SafePaths
  BY DEF Fails
<1> QED BY <1>4, <1>5 DEF Safe

\* The steps of a reconcile of a BootConfig in netboot mode.
LEMMA NetbootProgress ==
    ASSUME NEW S \in SUBSET NetbootSpec, spec \in S, OwnInitrds(S), TypeInv, FilesInv,
           Progress(w, dir), MadeFor(dir.initrd, S), AssemblingStep
    PROVE  Progress(w, dir)' /\ MadeFor(boot'[w.key].initrd, S)
<1>1. CASE CallFails
  <2>1. w.pc \in DOMAIN Doing /\ Fail /\ UNCHANGED boot /\ TypeOK
    BY <1>1 DEF CallFails, TypeInv
  <2> QED BY <2>1, FailedProgress DEF dir
<1>2. CASE Extract \/ ExtractKernel \/ ExtractInitrd \/ LinkISO \/ SymlinkISO
  <2>1. w.pc \in ISOSteps
    BY <1>2 DEF Extract, ExtractKernel, ExtractInitrd, LinkISO, SymlinkISO, Assembling, ISOSteps
  <2> QED BY <2>1, ISOState, Modes
<1> QED BY <1>1, <1>2, MkdirProgress, KernelProgress, InitrdProgress, ConcatProgress, CopyProgress,
        WriteProgress, InstallProgress DEF AssemblingStep

\* The steps of a reconcile of a BootConfig in iso mode.
LEMMA ImageProgress ==
    ASSUME NEW S \in SUBSET ISOSpec, spec \in S, OneImage(S), TypeInv, NEW R, ImagesInv(R),
           ISOProgress(w, dir, R), Unpacked(dir, S, R), AssemblingStep
    PROVE  ISOProgress(w, dir, R)' /\ Unpacked(boot'[w.key], S, R)
<1>1. CASE CallFails
  <2>1. w.pc \in DOMAIN Doing /\ Fail /\ UNCHANGED boot /\ TypeOK
    BY <1>1 DEF CallFails, TypeInv
  <2> QED BY <2>1, FailedISOProgress DEF dir
<1>2. CASE Mkdir
  <2>1. w.pc = "mkdir" /\ w.pc \in DOMAIN Doing /\ TypeOK
    BY <1>2, DoingSteps DEF Mkdir, Assembling, TypeInv
  <2>2. Goto("extract") /\ UNCHANGED boot
    BY <1>2, Modes DEF Mkdir
  <2>3. Safe(spec) /\ w.name[spec.iso] \in Names(spec.iso)
    BY <2>1 DEF ISOProgress, spec
  <2>4. w'.pc = "extract" /\ w'.bc = w.bc /\ w'.name = w.name
    BY <2>1, <2>2, Gone
  <2> QED BY <2>2, <2>3, <2>4 DEF ISOProgress, spec, dir
<1>3. CASE \/ KernelLink \/ LinkKernel \/ InitrdLink \/ LinkInitrd
           \/ Concat \/ CopyInitrd \/ CopyFirmware \/ WriteCombined \/ Install
  <2>1. w.pc \in NetbootSteps
    BY <1>3 DEF KernelLink, LinkKernel, InitrdLink, LinkInitrd, Concat, CopyInitrd, CopyFirmware,
           WriteCombined, Install, EnsureSymlink, Symlink, Assembling, NetbootSteps
  <2> QED BY <2>1, NetbootState, Modes
<1> QED BY <1>1, <1>2, <1>3, ExtractProgress, ExtractKernelProgress, ExtractInitrdProgress,
        LinkISOProgress DEF AssemblingStep

\* What is left of a directory was made for the same specs.
LEMMA LeftMade ==
    ASSUME NEW S, NEW R, NEW d \in BootDir, MadeForOne(d, S, R), NEW torn \in BOOLEAN,
           NEW e \in LeftOf(d, torn)
    PROVE  MadeForOne(e, S, R)
<1>1. S \subseteq NetbootSpec => MadeFor(e.initrd, S)
  <2>1. d.initrd \in Directory \cup Extracted \cup {NoFile} /\ e.initrd \in LeftDir(d.initrd, torn)
    BY DEF BootDir, LeftOf
  <2>2. PICK o, i : o = d.initrd /\ i = e.initrd
    OBVIOUS
  <2> QED BY <2>1, <2>2, LeftMadeFor DEF MadeForOne
<1>2. S \subseteq ISOSpec => Unpacked(e, S, R)
  BY LeftUnpacked DEF MadeForOne
<1> QED BY <1>1, <1>2 DEF MadeForOne

LEMMA ReconcileProgress ==
    ASSUME NEW A, NEW R, \A c \in Configs : Compatible(A[c]), TypeInv, SubmittedInv(A),
           ProgressInv(R), DirectoriesInv(A, R), NEW c \in Configs, Reconcile(c)
    PROVE  ProgressInv(R)' /\ DirectoriesInv(A, R)'
<1>0. TypeOK /\ NoFile \notin Directory
  <2>1. NoFile \notin Directory
    BY ConstantsAssumption
  <2> QED BY <2>1 DEF TypeInv
<1>1. CASE cache[c].obj = Absent
  <2>1. w' = w /\ w.pc = "idle"
    BY <1>1 DEF Reconcile
  <2>2. PICK left : /\ left = Empty \/ left \in LeftOf(boot[c], FALSE)
                    /\ boot' = [boot EXCEPT ![c] = left]
    BY <1>1 DEF Reconcile
  <2>3. boot \in [Configs -> BootDir] /\ boot[c] \in BootDir /\ MadeForOne(boot[c], A[c], R)
    BY <1>0 DEF TypeOK, DirectoriesInv
  <2>4. Empty.initrd = NoFile /\ Empty.vmlinuz = NoFile
    BY DEF Empty
  <2>5. MadeForOne(Empty, A[c], R)
    BY <1>0, <2>4 DEF MadeForOne, MadeFor, Unpacked, From
  <2>6. PICK d : d \in BootDir /\ d = boot[c]
    BY <2>3
  <2>7. MadeForOne(left, A[c], R)
    BY <2>2, <2>3, <2>5, <2>6, LeftMade
  <2>8. boot'[c] = left /\ \A b \in Configs : b # c => boot'[b] = boot[b]
    BY <2>2, <2>3
  <2>9. DirectoriesInv(A, R)'
    BY <2>7, <2>8 DEF DirectoriesInv
  <2> QED BY <2>1, <2>9 DEF ProgressInv
<1>2. CASE cache[c].obj # Absent
  <2>1. Enter(c) /\ UNCHANGED boot
    BY <1>2 DEF Reconcile
  <2>2. /\ w'.bc = cache[c] /\ w'.pc \in {"mkdir", "setPending", "setError"}
        /\ w'.pc = "mkdir" =>
              w'.name = [a \in Refs(cache[c].obj.spec) |-> Filename[a][artCache[a].rev]]
    BY <1>0, <1>2, <2>1, EnterType
  <2>3. DirectoriesInv(A, R)'
    BY <2>1 DEF DirectoriesInv
  <2>4. PICK s \in Specs : s = cache[c].obj.spec
    BY <1>0, <1>2 DEF TypeOK, Version, BootConfigObject
  <2>5. CASE w'.pc = "mkdir"
    <3>1. \A a \in Refs(s) : w'.name[a] \in Names(a)
      <4>1. \A a \in Artifacts : artCache[a].rev \in Revisions
        BY <1>0 DEF TypeOK, ArtifactVersion
      <4> QED BY <2>2, <2>4, <2>5, <4>1, RefsType DEF Names
    <3>2. CASE s.mode = "iso"
      <4>1. s \in ISOSpec /\ s.iso \in Refs(s)
        BY <3>2, Modes, RefsType, ConstantsAssumption
      <4>2. Safe(s)
        BY <1>0, <1>2, <2>1, <2>4, <2>5, <4>1, EnterSafe
      <4>3. ISOProgress(w, dir, R)'
        BY <2>2, <2>4, <2>5, <3>1, <4>1, <4>2 DEF ISOProgress
      <4> QED BY <2>2, <2>3, <2>4, <3>2, <4>3 DEF ProgressInv, spec
    <3>3. CASE s.mode # "iso"
      <4>1. Progress(w, dir)'
        BY <2>2, <2>4, <2>5, <3>1 DEF Progress, NetbootSteps, CombineSteps
      <4> QED BY <2>2, <2>3, <2>4, <3>3, <4>1 DEF ProgressInv, spec
    <3> QED BY <3>2, <3>3
  <2>6. CASE w'.pc \in {"setPending", "setError"}
    BY <2>3, <2>6, NoProgress, NoISOProgress DEF ProgressInv
  <2> QED BY <2>2, <2>5, <2>6
<1> QED BY <1>1, <1>2

LEMMA ProgressStep ==
    ASSUME NEW A, NEW R, \A c \in Configs : Compatible(A[c]), TypeInv, FilesInv, ImagesInv(R),
           SubmittedInv(A), ProgressInv(R), DirectoriesInv(A, R), [Next]_vars
    PROVE  ProgressInv(R)' /\ DirectoriesInv(A, R)'
<1>0. TypeOK
  BY DEF TypeInv
<1>1. CASE UNCHANGED <<w, boot>>
  BY <1>1 DEF ProgressInv, DirectoriesInv, dir, spec
<1>2. CASE AssemblingStep
  <2>1. /\ w.pc # "idle" /\ w'.key = w.key /\ w'.bc = w.bc
        /\ \A c \in Configs : c # w.key => boot'[c] = boot[c]
    BY <1>2, AssemblingFrame
  <2>2. w.key \in Configs /\ w.bc.obj # Absent
    <3>1. Absent \notin BootConfigObject
      BY ConstantsAssumption
    <3> QED BY <1>0, <2>1, <3>1, Working
  <2>3. PICK S : S = A[w.key]
    OBVIOUS
  <2>4. spec \in S /\ Compatible(S) /\ MadeForOne(dir, S, R)
    BY <2>2, <2>3 DEF SubmittedInv, Known, spec, DirectoriesInv, dir
  <2>5. spec' = spec
    BY <2>1 DEF spec
  <2>6. CASE S \subseteq NetbootSpec /\ OwnInitrds(S)
    <3>1. spec.mode # "iso" /\ ~(S \subseteq ISOSpec)
      BY <2>4, <2>6, Modes
    <3>2. Progress(w, dir) /\ MadeFor(dir.initrd, S)
      BY <2>1, <2>4, <2>6, <3>1 DEF ProgressInv, MadeForOne
    <3>3. Progress(w, dir)' /\ MadeFor(boot'[w.key].initrd, S)
      BY <1>2, <2>4, <2>6, <3>2, NetbootProgress
    <3>4. MadeForOne(boot'[w.key], S, R)
      BY <3>1, <3>3 DEF MadeForOne
    <3>5. DirectoriesInv(A, R)'
      BY <2>1, <2>3, <3>4 DEF DirectoriesInv
    <3> QED BY <2>5, <3>1, <3>3, <3>5 DEF ProgressInv
  <2>7. CASE S \subseteq ISOSpec /\ OneImage(S)
    <3>1. spec.mode = "iso" /\ ~(S \subseteq NetbootSpec)
      BY <2>4, <2>7, Modes
    <3>2. ISOProgress(w, dir, R) /\ Unpacked(dir, S, R)
      BY <2>1, <2>4, <2>7, <3>1 DEF ProgressInv, MadeForOne
    <3>3. ISOProgress(w, dir, R)' /\ Unpacked(boot'[w.key], S, R)
      BY <1>2, <2>4, <2>7, <3>2, ImageProgress
    <3>4. MadeForOne(boot'[w.key], S, R)
      BY <3>1, <3>3 DEF MadeForOne
    <3>5. DirectoriesInv(A, R)'
      BY <2>1, <2>3, <3>4 DEF DirectoriesInv
    <3> QED BY <2>5, <3>1, <3>3, <3>5 DEF ProgressInv
  <2> QED BY <2>4, <2>6, <2>7 DEF Compatible
<1>3. CASE SetReady \/ SetPending \/ SetError
  BY <1>3 DEF SetReady, SetPending, SetError, Finish, Idle, ProgressInv, DirectoriesInv
<1>4. CASE Crash
  BY <1>4 DEF Crash, Restart, Idle, ProgressInv, DirectoriesInv
<1>5. CASE PowerLoss
  <2>1. PICK c \in Configs : \E left \in LeftOf(boot[c], TRUE) :
            boot'[c] = left /\ \A d \in Configs : d # c => boot'[d] = boot[d]
    BY <1>5, PowerLossEffect
  <2>2. boot'[c] \in LeftOf(boot[c], TRUE) /\ \A d \in Configs : d # c => boot'[d] = boot[d]
    BY <2>1
  <2>3. PICK d, S : d \in BootDir /\ d = boot[c] /\ S = A[c] /\ MadeForOne(d, S, R)
    BY <1>0 DEF TypeOK, DirectoriesInv
  <2>4. PICK e : e = boot'[c]
    OBVIOUS
  <2>5. MadeForOne(e, S, R)
    BY <2>2, <2>3, <2>4, LeftMade
  <2>7. DirectoriesInv(A, R)'
    BY <2>2, <2>3, <2>4, <2>5 DEF DirectoriesInv
  <2>8. w' = Idle
    BY <1>5 DEF PowerLoss, Restart
  <2> QED BY <2>7, <2>8 DEF ProgressInv, Idle
<1>6. CASE \/ UNCHANGED vars
           \/ \E c \in Configs : Deliver(c) \/ Elapse(c) \/ Delete(c)
           \/ \E c \in Configs, s \in Specs : Create(c, s) \/ Edit(c, s)
           \/ (\E a \in Artifacts : DeliverArtifact(a)) \/ ArtifactAction
           \/ \E a \in Editable, r \in Revisions :
                \E phase \in {"none", "", arts[a].phase} : SubmitArtifact(a, r, phase)
  <2>1. UNCHANGED <<w, boot>>
    BY <1>0, <1>6, ArtifactEffect DEF vars, Deliver, Elapse, Delete, Create, Edit, Submit,
           DeliverArtifact, SubmitArtifact, artifactStepVars
  <2> QED BY <1>1, <2>1
<1> QED BY <1>2, <1>3, <1>4, <1>5, <1>6, ReconcileProgress
        DEF Next, WorkerStep, AssemblingStep, ArtifactAction

\* A BootConfig that a step leaves alone, except that it may be queued.
LEMMA ServedKept ==
    ASSUME NEW c \in Configs, Served(c), AtRest(c)' => AtRest(c),
           boot'[c] = boot[c], api'[c].obj = api[c].obj
    PROVE  Served(c)'
BY DEF Served

LEMMA FinishServed ==
    ASSUME TypeInv, VersionsInv, ServedInv, w.pc = "setReady" => ServedFor(dir, spec),
           NEW step \in {"setReady", "setPending", "setError"},
           NEW phase \in {"Ready", "Pending", "Error"}, (step = "setReady") <=> (phase = "Ready"),
           Finish(step, phase)
    PROVE  ServedInv'
<1>1. w.pc = step /\ w.pc # "idle" /\ TypeOK /\ w' = Idle /\ UNCHANGED boot
  BY DEF Finish, TypeInv
<1>2. /\ w.key \in Configs /\ w.bc.obj \in BootConfigObject /\ w.bc.obj # Absent
      /\ w.message \in Messages
  <2>1. Absent \notin BootConfigObject
    BY ConstantsAssumption
  <2> QED BY <1>1, <2>1, Working
<1>3. \/ UNCHANGED <<api, events>> /\ (UNCHANGED confirmed \/ Confirm(phase))
      \/ Accept(phase)
  BY DEF Finish, UpdateErr, configVars
<1>4. ASSUME NEW c \in Configs, c # w.key
      PROVE  Served(c)'
  <2>1. api'[c] = api[c] /\ confirmed'[c] = confirmed[c]
    BY <1>1, <1>3, <1>4 DEF Accept, Publish, Confirm, TypeOK
  <2>2. queue'[c] = queue[c]
    <3>1. UNCHANGED queue \/ AddAfter(w.key)
      BY DEF Finish
    <3> QED BY <1>1, <1>2, <1>4, <3>1, AddAfterType
  <2>3. AtRest(c)' => AtRest(c)
    BY <1>4, <2>1, <2>2 DEF AtRest
  <2> QED BY <1>1, <2>1, <2>3, ServedKept DEF ServedInv
<1>5. ASSUME NEW c \in Configs, c = w.key
      PROVE  Served(c)'
  <2>1. CASE AddAfter(w.key)
    BY <1>1, <1>2, <1>5, <2>1, AddAfterType DEF Served, AtRest
  <2>2. CASE ~AddAfter(w.key)
    <3>1. phase = "Ready" /\ step = "setReady"
      BY <2>2 DEF Finish
    <3>2. ServedFor(dir, spec)
      BY <1>1, <3>1
    <3>3. \/ UNCHANGED api /\ Confirm("Ready")
          \/ Accept("Ready")
      BY <2>2, <3>1 DEF Finish
    <3>4. w.bc.obj.gen = confirmed'[w.key]
      BY <1>1, <1>2, <3>3 DEF Accept, Confirm, TypeOK
    <3>5. CASE UNCHANGED api
      <4>1. /\ VersionsOf(w.key) /\ w.bc \in Known(w.key) /\ api[w.key] \in Known(w.key)
            /\ w.bc.rv \in Nat /\ w.bc.obj.gen \in Nat
        BY <1>1, <1>2, Working DEF VersionsInv, Known, BootConfigObject
      <4>2. Follows(w.bc, api[w.key]) /\ w.bc.obj.gen <= w.bc.rv
        BY <1>2, <4>1 DEF VersionsOf, Consistent, Sound
      <4>3. api[w.key].obj # Absent /\ api[w.key].obj.gen = w.bc.obj.gen => api[w.key].obj.spec = spec
        BY <4>1, <4>2 DEF Follows, spec
      <4> QED BY <1>1, <1>5, <3>2, <3>4, <3>5, <4>3 DEF Served, AtRest, dir
    <3>6. CASE Accept("Ready")
      <4>1. PICK old \in BootConfigObject, m \in Messages : old = w.bc.obj /\ m = w.message
        BY <1>2
      <4>2. PICK obj : obj = [old EXCEPT !.phase = "Ready", !.message = m]
        OBVIOUS
      <4>3. obj.spec = spec
        BY <4>1, <4>2 DEF BootConfigObject, spec
      <4>4. Publish(w.key, obj)
        BY <3>6, <4>1, <4>2 DEF Accept
      <4>5. api'[w.key].obj = obj
        BY <1>1, <1>2, <4>4 DEF Publish, TypeOK
      <4> QED BY <1>1, <1>5, <3>2, <4>3, <4>5 DEF Served, dir
    <3> QED BY <3>3, <3>5, <3>6
  <2> QED BY <2>1, <2>2
<1> QED BY <1>4, <1>5 DEF ServedInv

LEMMA ReconcileServed ==
    ASSUME TypeInv, VersionsInv, ServedInv, NEW c \in Configs, Reconcile(c)
    PROVE  ServedInv'
<1>1. /\ TypeOK /\ queue' = [queue EXCEPT ![c] = "idle"] /\ w.pc = "idle"
      /\ UNCHANGED <<api, confirmed>>
  BY DEF TypeInv, Reconcile, configVars
<1>2. w' = w \/ w'.key = c
  BY <1>1, EnterType DEF Reconcile
<1>3. None \notin Configs /\ w.key = None
  <2>1. None \notin Configs
    BY ConstantsAssumption
  <2>2. w \notin Reconciling
    BY <1>1, DoingSteps DEF Reconciling, Steps, NetbootSteps, ISOSteps
  <2> QED BY <1>1, <2>1, <2>2 DEF TypeOK, Idle
<1>4. ASSUME NEW d \in Configs, d # c
      PROVE  Served(d)'
  <2>1. queue'[d] = queue[d] /\ boot'[d] = boot[d]
    BY <1>1, <1>4 DEF TypeOK, Reconcile
  <2>2. AtRest(d)' => AtRest(d)
    BY <1>1, <1>3, <2>1 DEF AtRest
  <2> QED BY <1>1, <2>1, <2>2, ServedKept DEF ServedInv
<1>5. Served(c)'
  <2>1. CASE cache[c].obj = Absent
    <3>1. /\ VersionsOf(c) /\ cache[c] \in Known(c) /\ api[c] \in Known(c)
          /\ cache[c] \in Version /\ confirmed[c] \in Nat /\ api[c] \in Version
      BY <1>1, KnownType DEF VersionsInv, Known
    <3>2. Follows(cache[c], api[c]) /\ confirmed[c] <= cache[c].rv /\ cache[c].rv \in Nat
      BY <3>1 DEF VersionsOf, Consistent, Version
    <3>3. api[c].obj # Absent => api[c].obj.gen > cache[c].rv /\ api[c].obj.gen \in Nat
      BY <2>1, <3>1, <3>2 DEF Follows, Version, BootConfigObject
    <3> QED BY <1>1, <3>1, <3>2, <3>3 DEF Served, AtRest
  <2>2. CASE cache[c].obj # Absent
    <3>1. w'.key = c
      BY <1>1, <2>2, EnterType DEF Reconcile
    <3> QED BY <3>1 DEF Served, AtRest
  <2> QED BY <2>1, <2>2
<1> QED BY <1>4, <1>5 DEF ServedInv

LEMMA UsersServed ==
    ASSUME TypeInv, VersionsInv, ServedInv,
           NEW c \in Configs, Delete(c) \/ \E s \in Specs : Create(c, s) \/ Edit(c, s)
    PROVE  ServedInv'
<1>0. TypeOK /\ UNCHANGED <<w, queue, boot, confirmed>>
  BY DEF TypeInv, Delete, Create, Edit, Submit
<1>1. ASSUME NEW d \in Configs, d # c
      PROVE  Served(d)'
  <2>1. api'[d] = api[d]
    BY <1>0, <1>1 DEF Delete, Create, Edit, Submit, Publish, TypeOK
  <2> QED BY <1>0, <2>1, ServedKept DEF ServedInv, AtRest
<1>2. Served(c)'
  <2>1. /\ VersionsOf(c) /\ cache[c] \in Known(c)
        /\ cache[c].rv \in Nat /\ confirmed[c] \in Nat /\ api[c].rv \in Nat
    BY <1>0, KnownType DEF VersionsInv, Known, Version
  <2>2. confirmed[c] < api[c].rv + 1
    <3>1. confirmed[c] <= cache[c].rv /\ cache[c].rv <= api[c].rv
      BY <2>1 DEF VersionsOf
    <3> QED BY <2>1, <3>1
  <2>3. api'[c].obj = Absent \/ api'[c].obj.gen = api[c].rv + 1
    <3>1. CASE Delete(c)
      BY <1>0, <3>1 DEF Delete, Submit, Publish, TypeOK
    <3>2. CASE \E s \in Specs : Create(c, s)
      <4>1. PICK s \in Specs : Create(c, s)
        BY <3>2
      <4>2. PICK obj : obj = [spec |-> s, gen |-> api[c].rv + 1, phase |-> "", message |-> <<>>]
        OBVIOUS
      <4>3. Publish(c, obj) /\ obj.gen = api[c].rv + 1
        BY <4>1, <4>2 DEF Create, Submit
      <4> QED BY <1>0, <4>3 DEF Publish, TypeOK
    <3>3. CASE \E s \in Specs : Edit(c, s)
      <4>1. PICK s \in Specs : Edit(c, s)
        BY <3>3
      <4>2. PICK old \in BootConfigObject : old = api[c].obj
        BY <1>0, <4>1 DEF Edit, TypeOK, Version
      <4>3. PICK obj : obj = [old EXCEPT !.spec = s, !.gen = api[c].rv + 1]
        OBVIOUS
      <4>4. Publish(c, obj) /\ obj.gen = api[c].rv + 1
        BY <4>1, <4>2, <4>3 DEF Edit, Submit, BootConfigObject
      <4> QED BY <1>0, <4>4 DEF Publish, TypeOK
    <3> QED BY <3>1, <3>2, <3>3
  <2> QED BY <1>0, <2>1, <2>2, <2>3 DEF Served, AtRest
<1> QED BY <1>1, <1>2 DEF ServedInv

LEMMA ServedStep ==
    ASSUME TypeInv, VersionsInv, ServedInv, w.pc = "setReady" => ServedFor(dir, spec), [Next]_vars
    PROVE  ServedInv'
<1>0. TypeOK
  BY DEF TypeInv
<1>1. CASE AssemblingStep
  <2> SUFFICES ASSUME NEW c \in Configs
               PROVE  Served(c)'
    BY DEF ServedInv
  <2>1. /\ w'.key = w.key /\ UNCHANGED <<configVars, queue>>
        /\ c # w.key => boot'[c] = boot[c]
    BY <1>1, AssemblingFrame
  <2>2. CASE c = w.key
    BY <2>1, <2>2 DEF Served, AtRest
  <2>3. CASE c # w.key
    BY <2>1, <2>3, ServedKept DEF ServedInv, AtRest, configVars
  <2> QED BY <2>2, <2>3
<1>2. CASE SetReady \/ SetPending \/ SetError
  BY <1>2, FinishServed DEF SetReady, SetPending, SetError
<1>3. CASE Restart
  <2> SUFFICES ASSUME NEW c \in Configs
               PROVE  Served(c)'
    BY DEF ServedInv
  <2>1. queue'[c] = IF api[c].obj = Absent THEN "idle" ELSE "ready"
    BY <1>3 DEF Restart
  <2>2. UNCHANGED api
    BY <1>3 DEF Restart
  <2> QED BY <2>1, <2>2 DEF Served, AtRest
<1>4. CASE \/ UNCHANGED vars
           \/ \E c \in Configs : Deliver(c) \/ Elapse(c)
           \/ (\E a \in Artifacts : DeliverArtifact(a)) \/ ArtifactAction
           \/ \E a \in Editable, r \in Revisions :
                \E phase \in {"none", "", arts[a].phase} : SubmitArtifact(a, r, phase)
  <2>1. UNCHANGED <<api, confirmed, w, boot>>
    BY <1>0, <1>4, ArtifactEffect DEF vars, Deliver, Elapse, DeliverArtifact, SubmitArtifact,
           artifactStepVars, configVars
  <2>2. \A c \in Configs : queue'[c] \in {queue[c], "ready"}
    BY <1>0, <1>4, ArtifactEffect DEF vars, Deliver, Elapse, DeliverArtifact, SubmitArtifact,
           artifactStepVars, TypeOK
  <2> SUFFICES ASSUME NEW c \in Configs
               PROVE  Served(c)'
    BY DEF ServedInv
  <2>3. queue'[c] \in {queue[c], "ready"}
    BY <2>2
  <2>4. AtRest(c)' => AtRest(c)
    BY <2>1, <2>3 DEF AtRest
  <2> QED BY <2>1, <2>4, ServedKept DEF ServedInv
<1> QED BY <1>1, <1>2, <1>3, <1>4, ReconcileServed, UsersServed
        DEF Next, WorkerStep, AssemblingStep, Crash, PowerLoss, ArtifactAction

\* A reconcile that has come to setReady has set up all that its spec names.
LEMMA ProgressServed ==
    ASSUME NEW R, ProgressInv(R), w.pc = "setReady"
    PROVE  ServedFor(dir, spec)
<1>1. CASE spec.mode = "iso"
  BY <1>1 DEF ProgressInv, ISOProgress, ServedFor, spec
<1>2. CASE spec.mode # "iso"
  BY <1>2 DEF ProgressInv, Progress, ServedFor, spec
<1> QED BY <1>1, <1>2

\* Whatever was set up for a spec is what the machine may be sent to.
LEMMA ServesFor ==
    ASSUME TypeInv, NEW A, NEW R, NEW c \in Configs, Compatible(A[c]), Unreplaced(R),
           SubmittedInv(A), DirectoriesInv(A, R), api[c].obj # Absent,
           ServedFor(boot[c], api[c].obj.spec)
    PROVE  Serves(c, AnyRevision)
<1>1. boot[c] \in BootDir
  BY DEF TypeInv, TypeOK
<1>2. PICK s \in Specs : s = api[c].obj.spec
  BY DEF TypeInv, TypeOK, Version, BootConfigObject
<1>3. s \in A[c]
  BY <1>2 DEF SubmittedInv, Known
<1>4. CASE A[c] \subseteq NetbootSpec
  <2>1. s.mode = "netboot" /\ (s.firmware = None \/ s.firmware \in Artifacts)
    BY <1>3, <1>4 DEF NetbootSpec
  <2>2. KernelServed(boot[c], s) /\ InitrdServed(boot[c], s)
    BY <1>2, <2>1 DEF ServedFor
  <2>3. ServesNetboot(boot[c], s, AnyRevision)
    BY <2>1, <2>2, ServesParts
  <2> QED BY <1>2, <2>1, <2>3 DEF Serves
<1>5. CASE A[c] \subseteq ISOSpec
  <2>1. s \in ISOSpec /\ s.mode = "iso" /\ s.iso \in Images
    BY <1>3, <1>5, Modes DEF Images
  <2>2. PICK d \in BootDir : d = boot[c] /\ ImageServed(d, s) /\ Unpacked(d, A[c], R)
    BY <1>1, <1>2, <1>5, <2>1 DEF ServedFor, DirectoriesInv, MadeForOne
  <2>3. PICK r \in Revisions : r = R[s.iso]
    BY <2>1 DEF TypeInv, TypeOK, ArtifactVersion, ISOSpec, Unreplaced
  <2>4. \E q \in Revisions : Link(s.iso, Filename[s.iso][q]) \in d.iso
    BY <2>2 DEF ImageServed, ImageLinked, Names
  <2>5. d.vmlinuz \in Extracted /\ d.initrd \in Extracted
    BY <2>2 DEF BootDir, ImageServed, Unpacked
  <2>6. /\ d.vmlinuz.data \in {Torn, <<<<s.iso, r>>, s.kernelPath>>}
        /\ d.initrd.data \in {Torn, <<<<s.iso, r>>, s.initrdPath>>}
    BY <1>3, <2>2, <2>3 DEF ImageServed, Unpacked, From
  <2>7. ServesISO(d, s, AnyRevision)
    BY <2>4, <2>5, <2>6 DEF ServesISO, AnyRevision
  <2> QED BY <1>2, <2>1, <2>2, <2>7 DEF Serves
<1> QED BY <1>4, <1>5 DEF Compatible

\* All of it together, inductive as long as users submit no other specs and the
\* images keep their content.
SetUpInv(A, R) ==
    /\ TypeInv /\ VersionsInv /\ FilesInv /\ ImagesInv(R) /\ SubmittedInv(A)
    /\ ProgressInv(R) /\ DirectoriesInv(A, R) /\ ServedInv

LEMMA SetUpInit ==
    ASSUME NEW A, NEW R, Init, Unreplaced(R)
    PROVE  SetUpInv(A, R)
<1>1. ProgressInv(R)
  BY DEF Init, Idle, ProgressInv
<1>2. DirectoriesInv(A, R)
  <2>1. NoFile \notin Directory
    BY ConstantsAssumption
  <2>2. Empty.initrd = NoFile /\ Empty.vmlinuz = NoFile
    BY DEF Empty
  <2>3. \A S : MadeForOne(Empty, S, R)
    BY <2>1, <2>2 DEF MadeForOne, MadeFor, Unpacked, From
  <2>4. \A c \in Configs : boot[c] = Empty
    BY DEF Init
  <2> QED BY <2>3, <2>4 DEF DirectoriesInv
<1>3. ServedInv
  BY DEF Init, ServedInv, Served, AtRest
<1> QED BY <1>1, <1>2, <1>3, TypeInit, VersionsInit, FilesInit, ImagesInit, SubmittedInit
        DEF SetUpInv

LEMMA SetUpStep ==
    ASSUME NEW A, NEW R, \A c \in Configs : Compatible(A[c]), SetUpInv(A, R), Unreplaced(R),
           Unreplaced(R)', Submitted(A)', [Next]_vars
    PROVE  SetUpInv(A, R)'
<1> USE DEF SetUpInv
<1>1. TypeInv' /\ VersionsInv' /\ FilesInv'
  BY TypeStep, VersionsStep, FilesStep
<1>2. ImagesInv(R)' /\ SubmittedInv(A)'
  BY ImagesStep, SubmittedStep
<1>3. ProgressInv(R)' /\ DirectoriesInv(A, R)'
  BY ProgressStep
<1>4. ServedInv'
  BY ProgressServed, ServedStep
<1> QED BY <1>1, <1>2, <1>3, <1>4

LEMMA SetUpServes ==
    ASSUME NEW A, NEW R, \A c \in Configs : Compatible(A[c]), SetUpInv(A, R), Unreplaced(R)
    PROVE  ReadyServes
<1> SUFFICES ASSUME NEW c \in Configs, ReadyNow(c)
             PROVE  Serves(c, AnyRevision)
  BY DEF ReadyServes
<1>1. api[c].obj # Absent /\ ServedFor(boot[c], api[c].obj.spec)
  BY DEF ReadyNow, SetUpInv, ServedInv, Served, AtRest
<1> QED BY <1>1, ServesFor DEF SetUpInv

\* A BootConfig that was found Ready for its present spec, with no reconcile at
\* work or waiting, serves what that spec names: in netboot mode the kernel and
\* the initrd of its artifacts, in iso mode the files of its paths in its image.
\* It needs that the specs a BootConfig is given may follow each other, since
\* what is found in initrd/ or extracted already is taken for up to date without
\* a look at what it was made from (ensureSymlink, concatenateFiles,
\* extractFromISO, setReady), and, for the same reason, that an image keeps its
\* content.
THEOREM ReadyServesCompatible ==
    ASSUME NEW A, NEW R, \A c \in Configs : Compatible(A[c])
    PROVE  Spec /\ []Submitted(A) /\ []Unreplaced(R) => []ReadyServes
<1>1. Init /\ Unreplaced(R) => SetUpInv(A, R)
  BY SetUpInit
<1>2. /\ SetUpInv(A, R) /\ Unreplaced(R) /\ Unreplaced(R)' /\ Submitted(A)' /\ [Next]_vars
      => SetUpInv(A, R)'
  BY SetUpStep
<1>3. SetUpInv(A, R) /\ Unreplaced(R) => ReadyServes
  BY SetUpServes
<1> QED BY <1>1, <1>2, <1>3, PTL DEF Spec

\* In netboot mode alone nothing is asked of users and of the content of
\* artifacts: a BootConfig found Ready for its present spec serves the kernel
\* and the initrd that spec names, as long as initrds of different specs do not
\* share a file name. That is needed: initrd/<file> is taken for up to date by
\* its name and modification time alone (ensureSymlink, concatenateFiles,
\* setReady).
THEOREM ReadyServesNetboot ==
    ASSUME Specs \subseteq NetbootSpec, OwnInitrds(Specs)
    PROVE  Spec => []ReadyServes
<1> DEFINE A == [c \in Configs |-> Specs]
           R == <<>>
<1>1. \A c \in Configs : Compatible(A[c])
  BY DEF Compatible
<1>2. Unreplaced(R) /\ Unreplaced(R)'
  <2>1. Images = {}
    BY Modes DEF Images
  <2> QED BY <2>1 DEF Unreplaced
<1>3. TypeInv' => Submitted(A)'
  BY DEF TypeInv, TypeOK, Version, BootConfigObject, Submitted
<1> HIDE DEF A, R
<1>4. Init => SetUpInv(A, R)
  BY <1>2, SetUpInit
<1>5. SetUpInv(A, R) /\ [Next]_vars => SetUpInv(A, R)'
  <2> SUFFICES ASSUME SetUpInv(A, R), [Next]_vars
               PROVE  SetUpInv(A, R)'
    OBVIOUS
  <2>1. TypeInv'
    BY TypeStep DEF SetUpInv
  <2>2. Submitted(A)'
    BY <1>3, <2>1
  <2> QED BY <1>1, <1>2, <2>2, SetUpStep
<1>6. SetUpInv(A, R) => ReadyServes
  BY <1>1, <1>2, SetUpServes
<1> QED BY <1>4, <1>5, <1>6, PTL DEF Spec
=============================================================================
