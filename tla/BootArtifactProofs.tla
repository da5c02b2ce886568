-------------------------- MODULE BootArtifactProofs --------------------------
(***************************************************************************)
(* Proofs about the BootArtifact controller, for every set of artifacts,   *)
(* specs and contents and all bounds.                                      *)
(***************************************************************************)
EXTENDS BootArtifact, TLAPS

\* The temporary file exists from os.Create to the rename, is complete once
\* the copy is done and on stable storage when it is renamed.
TmpInv ==
    /\ w.pc \in {"copy", "sync", "rename"} => tmp[w.filePath] \in TmpFile
    /\ w.pc \in {"sync", "rename"} => tmp[w.filePath].data \in Contents
    /\ w.pc = "rename" => tmp[w.filePath].synced

TypeInv == TypeOK /\ TmpInv

\* A step of a reconcile finds its locals set.
LEMMA HeldType ==
    ASSUME TypeOK, w.pc # "idle"
    PROVE  w \in Reconciling
BY DEF TypeOK, Idle

LEMMA PathType ==
    ASSUME NEW a \in Artifacts, NEW s \in Specs
    PROVE  FilePath(a, s) \in Paths
BY ConstantsAssumption DEF FilePath, Paths, BootArtifactSpec

LEMMA DigestType ==
    ASSUME NEW s \in Specs, NEW c \in Contents
    PROVE  Digest(UseSHA256(s), c) \in Digests
BY DEF Digest, Digests, UseSHA256

\* Publishing an object keeps the API server's state and the watch typed.
LEMMA PublishType ==
    ASSUME TypeOK, NEW a \in Artifacts, NEW obj \in BootArtifactObject \cup {Absent},
           Publish(a, obj)
    PROVE  /\ api' \in [Artifacts -> Version]
           /\ events' \in [Artifacts -> SUBSET Version]
           /\ obj # Absent => api'[a] \in [rv : Nat, obj : BootArtifactObject]
<1> DEFINE v == IF obj = api[a].obj THEN api[a] ELSE [rv |-> api[a].rv + 1, obj |-> obj]
<1>1. v \in Version /\ v.obj = obj
  BY DEF TypeOK, Version
<1>2. api' = [api EXCEPT ![a] = v]
      /\ events' = [events EXCEPT ![a] = IF v = api[a] THEN @ ELSE @ \cup {v}]
  BY DEF Publish
<1>3. obj # Absent => v \in [rv : Nat, obj : BootArtifactObject]
  BY <1>1 DEF Version
<1> HIDE DEF v
<1>4. api' \in [Artifacts -> Version] /\ api'[a] = v
  BY <1>1, <1>2 DEF TypeOK
<1>5. events' \in [Artifacts -> SUBSET Version]
  BY <1>1, <1>2 DEF TypeOK
<1> QED BY <1>3, <1>4, <1>5

LEMMA UpdateType ==
    ASSUME TypeOK, w.pc # "idle", NEW obj \in BootArtifactObject,
           UpdateOK(obj) \/ UpdateErr(obj)
    PROVE  /\ api' \in [Artifacts -> Version]
           /\ events' \in [Artifacts -> SUBSET Version]
           /\ readyGen' \in [Artifacts -> Nat]
           /\ faults' \in 0..MaxFaults
           /\ UpdateOK(obj) => api'[w.key] \in [rv : Nat, obj : BootArtifactObject]
<1>1. w \in Reconciling /\ w.key \in Artifacts
  BY HeldType DEF Reconciling
<1>2. CASE Accept(obj) /\ (UNCHANGED faults \/ Fault)
  <2>1. obj \in BootArtifactObject \cup {Absent} /\ obj # Absent /\ Publish(w.key, obj)
    BY <1>2, ConstantsAssumption DEF Accept
  <2>2. /\ api' \in [Artifacts -> Version]
        /\ events' \in [Artifacts -> SUBSET Version]
        /\ api'[w.key] \in [rv : Nat, obj : BootArtifactObject]
    BY <1>1, <2>1, PublishType
  <2>3. readyGen' \in [Artifacts -> Nat]
    BY <1>1, <1>2 DEF Accept, TypeOK, BootArtifactObject
  <2>4. faults' \in 0..MaxFaults
    BY <1>2, BoundsAssumption DEF TypeOK, Fault
  <2> QED BY <2>2, <2>3, <2>4
<1>3. CASE ~Accept(obj)
  BY <1>3, BoundsAssumption DEF TypeOK, Fault, UpdateOK, UpdateErr
<1> QED BY <1>2, <1>3 DEF UpdateOK, UpdateErr

LEMMA TypeInit == Init => TypeInv
BY ConstantsAssumption, BoundsAssumption
DEF Init, TypeInv, TypeOK, TmpInv, Version, Idle, Paths

\* What the ways out of Reconcile do to the queue and the temporary files.
LEMMA ReturnType ==
    ASSUME TypeOK, w.pc # "idle", ReturnNil \/ ReturnErr \/ ReturnRequeueAfter
    PROVE  /\ w' = Idle
           /\ queue' \in [Artifacts -> {"idle", "delayed", "ready"}]
           /\ backoff' \subseteq Artifacts
           /\ tmp' \in [Paths -> TmpFile \cup {NoFile}]
<1>1. w.key \in Artifacts /\ w.filePath \in Paths
  BY HeldType DEF Reconciling
<1> QED
  BY <1>1 DEF TypeOK, ReturnNil, ReturnErr, ReturnRequeueAfter, Return, AddAfter

\* Steps of a reconcile that only touch the worker, the disk and faults.
LEMMA LocalStepType ==
    ASSUME TypeInv,
           \/ Stat \/ VerifyGone \/ VerifyMismatch \/ Mkdir \/ Get \/ Copy \/ SyncTmp
           \/ Rename \/ SyncDir
    PROVE  TypeInv'
<1> USE ConstantsAssumption, BoundsAssumption
<1>1. w \in Reconciling /\ w.pc # "idle"
  BY HeldType DEF TypeInv, Stat, VerifyGone, VerifyMismatch, Mkdir, Get, Copy, SyncTmp,
     Rename, SyncDir
<1>2. /\ w.filePath \in Paths /\ w.key \in Artifacts
      /\ w.artifact \in [rv : Nat, obj : BootArtifactObject] /\ HeldSpec \in Specs
  BY <1>1 DEF Reconciling, BootArtifactObject, HeldSpec
<1>3. ASSUME NEW s \in Steps, Goto(s)
      PROVE  w' \in Reconciling /\ w' = [w EXCEPT !.pc = s] /\ w'.pc = s
             /\ w'.filePath = w.filePath
  BY <1>1, <1>3 DEF Reconciling, Goto
<1>4. CASE Stat
  <2>1. \E s \in {"verify", "setDownloading", "setFailure"} : Goto(s)
    BY <1>4 DEF Stat
  <2> QED BY <1>3, <1>4, <2>1 DEF Stat, Fault, TypeInv, TypeOK, TmpInv, Steps, DownloadSteps,
     apiVars, diskVars, userVars
<1>5. CASE VerifyGone
  BY <1>3, <1>5 DEF VerifyGone, TypeInv, TypeOK, TmpInv, Steps, DownloadSteps,
     apiVars, diskVars, userVars
<1>6. CASE VerifyMismatch
  <2>1. disk' \in [Paths -> Contents \cup {Torn, NoFile}]
        /\ survivors' \in [Paths -> SUBSET (Contents \cup {Torn, NoFile})]
    BY <1>2, <1>6 DEF VerifyMismatch, TypeInv, TypeOK
  <2> QED BY <1>3, <1>6, <2>1 DEF VerifyMismatch, Fault, TypeInv, TypeOK, TmpInv, Steps,
     DownloadSteps, apiVars, userVars
<1>7. CASE Mkdir
  <2>1. CASE Goto("setFailure")
    BY <1>3, <1>7, <2>1 DEF Mkdir, Fault, TypeInv, TypeOK, TmpInv, Steps, DownloadSteps,
       apiVars, diskVars, userVars
  <2>2. CASE w' = [w EXCEPT !.pc = "get", !.cleanup = TRUE]
    <3>1. w' \in Reconciling /\ w'.pc = "get"
      BY <1>1, <2>2 DEF Reconciling, Steps, DownloadSteps
    <3> QED BY <1>7, <3>1 DEF Mkdir, Fault, TypeInv, TypeOK, TmpInv, apiVars, diskVars,
       userVars
  <2> QED BY <1>7, <2>1, <2>2 DEF Mkdir
<1>8. CASE Get
  <2>1. CASE Goto("copy") /\ tmp' = [tmp EXCEPT ![w.filePath] = [data |-> Torn, synced |-> FALSE]]
    <3>1. tmp' \in [Paths -> TmpFile \cup {NoFile}] /\ tmp'[w.filePath] \in TmpFile
      BY <1>2, <2>1 DEF TypeInv, TypeOK, TmpFile
    <3> QED BY <1>3, <1>8, <2>1, <3>1 DEF Get, Fault, TypeInv, TypeOK, TmpInv, Steps,
       DownloadSteps, apiVars, userVars
  <2>2. CASE Goto("setFailure") /\ UNCHANGED tmp
    BY <1>3, <1>8, <2>2 DEF Get, Fault, TypeInv, TypeOK, TmpInv, Steps, DownloadSteps,
       apiVars, userVars
  <2> QED BY <1>8, <2>1, <2>2 DEF Get
<1>9. CASE Copy
  <2>0. /\ faults' \in 0..MaxFaults
        /\ UNCHANGED <<apiVars, cache, queue, backoff, disk, survivors, disturbed, userVars, readyGen>>
    <3>1. UNCHANGED faults \/ Fault
      BY <1>9 DEF Copy
    <3>2. faults' \in 0..MaxFaults
      BY <3>1 DEF Fault, TypeInv, TypeOK
    <3> QED BY <1>9, <3>2 DEF Copy
  <2>1. CASE Goto("setFailure") /\ UNCHANGED tmp
    BY <1>3, <2>0, <2>1 DEF TypeInv, TypeOK, TmpInv, Steps, DownloadSteps, apiVars, userVars
  <2>2. ASSUME NEW c \in Contents,
               tmp' = [tmp EXCEPT ![w.filePath] = [data |-> c, synced |-> FALSE]],
               w' = [w EXCEPT !.pc = "sync", !.sum = Digest(UseSHA256(HeldSpec), c)]
        PROVE  TypeInv'
    <3>1. tmp' \in [Paths -> TmpFile \cup {NoFile}] /\ tmp'[w.filePath] \in TmpFile
          /\ tmp'[w.filePath].data = c
      BY <1>2, <2>2 DEF TypeInv, TypeOK, TmpFile
    <3>2. w' \in Reconciling /\ w'.pc = "sync" /\ w'.filePath = w.filePath
      BY <1>1, <1>2, <2>2, DigestType DEF Reconciling, Steps, DownloadSteps
    <3> QED BY <2>0, <2>2, <3>1, <3>2 DEF TypeInv, TypeOK, TmpInv, apiVars, userVars
  <2> QED BY <1>9, <2>1, <2>2 DEF Copy
<1>10. CASE SyncTmp
  <2>0. /\ faults' \in 0..MaxFaults
        /\ UNCHANGED <<apiVars, cache, queue, backoff, disk, survivors, disturbed, userVars, readyGen>>
    BY <1>10 DEF SyncTmp, Fault, TypeInv, TypeOK
  <2>1. CASE Goto("setFailure") /\ UNCHANGED tmp
    BY <1>3, <2>0, <2>1 DEF TypeInv, TypeOK, TmpInv, Steps, DownloadSteps, apiVars, userVars
  <2>2. CASE /\ tmp' = [tmp EXCEPT ![w.filePath].synced = TRUE]
             /\ \E s \in {"rename", "setFailure"} : Goto(s)
    <3>1. tmp[w.filePath] \in TmpFile /\ tmp[w.filePath].data \in Contents
      BY <1>10 DEF SyncTmp, TypeInv, TmpInv
    <3>2. /\ tmp' \in [Paths -> TmpFile \cup {NoFile}]
          /\ tmp'[w.filePath] \in TmpFile
          /\ tmp'[w.filePath].data = tmp[w.filePath].data /\ tmp'[w.filePath].synced
      BY <1>2, <2>2, <3>1 DEF TypeInv, TypeOK, TmpFile
    <3>3. PICK s \in {"rename", "setFailure"} : Goto(s)
      BY <2>2
    <3>4. w' \in Reconciling /\ w'.pc = s /\ w'.filePath = w.filePath
      BY <1>3, <3>3 DEF Steps, DownloadSteps
    <3> QED BY <2>0, <3>1, <3>2, <3>3, <3>4 DEF TypeInv, TypeOK, TmpInv, apiVars, userVars
  <2> QED BY <1>10, <2>1, <2>2 DEF SyncTmp
<1>11. CASE Rename
  <2>1. CASE Goto("setFailure") /\ UNCHANGED diskVars
    BY <1>3, <1>11, <2>1 DEF Rename, Fault, TypeInv, TypeOK, TmpInv, Steps, DownloadSteps,
       apiVars, diskVars, userVars
  <2>2. CASE Goto("syncDir")
    <3>1. tmp[w.filePath].data \in Contents
      BY <1>11 DEF Rename, TypeInv, TmpInv
    <3>2. /\ disk' \in [Paths -> Contents \cup {Torn, NoFile}]
          /\ survivors' \in [Paths -> SUBSET (Contents \cup {Torn, NoFile})]
          /\ tmp' \in [Paths -> TmpFile \cup {NoFile}]
          /\ disturbed' \subseteq Paths
      BY <1>2, <1>11, <2>2, <3>1 DEF Rename, TypeInv, TypeOK, diskVars
    <3> QED BY <1>3, <1>11, <2>2, <3>2 DEF Rename, Fault, TypeInv, TypeOK, TmpInv, Steps,
       DownloadSteps, apiVars, userVars
  <2> QED BY <1>11, <2>1, <2>2 DEF Rename
<1>12. CASE SyncDir
  <2>1. survivors' \in [Paths -> SUBSET (Contents \cup {Torn, NoFile})]
    BY <1>12 DEF SyncDir, TypeInv, TypeOK
  <2>2. \E s \in {"setReady", "setFailure"} : Goto(s)
    BY <1>12 DEF SyncDir
  <2> QED BY <1>3, <1>12, <2>1, <2>2 DEF SyncDir, Fault, TypeInv, TypeOK, TmpInv, Steps,
     DownloadSteps, apiVars, userVars
<1> QED BY <1>4, <1>5, <1>6, <1>7, <1>8, <1>9, <1>10, <1>11, <1>12

\* Steps of a reconcile that talk to the API server or return.
LEMMA ReportStepType ==
    ASSUME TypeInv,
           \/ VerifyUnreadable \/ VerifyMatch \/ SetDownloading \/ Refetch \/ SetReady
           \/ SetFailure
    PROVE  TypeInv'
<1> USE ConstantsAssumption, BoundsAssumption
<1>1. w \in Reconciling /\ w.pc # "idle" /\ TypeOK
  BY HeldType DEF TypeInv, VerifyUnreadable, VerifyMatch, SetDownloading, Refetch, SetReady,
     SetFailure
<1>2. /\ w.filePath \in Paths /\ w.key \in Artifacts
      /\ w.artifact \in [rv : Nat, obj : BootArtifactObject]
  BY <1>1 DEF Reconciling
<1>3. ASSUME ReturnNil \/ ReturnErr \/ ReturnRequeueAfter
      PROVE  /\ w' \in {Idle} \cup Reconciling
             /\ queue' \in [Artifacts -> {"idle", "delayed", "ready"}]
             /\ backoff' \subseteq Artifacts
             /\ tmp' \in [Paths -> TmpFile \cup {NoFile}]
             /\ TmpInv'
  BY <1>1, <1>3, ReturnType DEF TmpInv, Idle
<1>4. CASE VerifyUnreadable
  BY <1>3, <1>4 DEF VerifyUnreadable, Fault, TypeInv, TypeOK, apiVars, userVars
<1>5. CASE VerifyMatch
  <2>1. CASE ReturnNil
    BY <1>3, <1>5, <2>1 DEF VerifyMatch, TypeInv, TypeOK, apiVars, userVars
  <2>2. CASE Goto("setReady") /\ UNCHANGED <<tmp, queue, backoff>>
    <3>1. w' \in Reconciling /\ w'.pc = "setReady"
      BY <1>1, <2>2 DEF Goto, Reconciling, Steps
    <3> QED BY <1>5, <2>2, <3>1 DEF VerifyMatch, TypeInv, TypeOK, TmpInv, apiVars, userVars
  <2> QED BY <1>5, <2>1, <2>2 DEF VerifyMatch
<1>6. CASE SetDownloading
  <2> DEFINE obj == [w.artifact.obj EXCEPT !.phase = "Downloading"]
  <2>1. obj \in BootArtifactObject
    BY <1>2 DEF BootArtifactObject, Phases
  <2>2. UpdateOK(obj) \/ UpdateErr(obj)
    BY <1>6 DEF SetDownloading
  <2> HIDE DEF obj
  <2>3. /\ api' \in [Artifacts -> Version]
        /\ events' \in [Artifacts -> SUBSET Version]
        /\ readyGen' \in [Artifacts -> Nat]
        /\ faults' \in 0..MaxFaults
        /\ UpdateOK(obj) => api'[w.key] \in [rv : Nat, obj : BootArtifactObject]
    BY <1>1, <2>1, <2>2, UpdateType
  <2>4. UNCHANGED <<cache, disk, survivors, disturbed, userVars>>
    BY <1>6 DEF SetDownloading
  <2>5. CASE ReturnErr
    BY <1>3, <2>3, <2>4, <2>5 DEF TypeInv, TypeOK, userVars
  <2>6. CASE /\ UpdateOK(obj)
             /\ w' = [w EXCEPT !.pc = "refetch", !.artifact = api'[w.key]]
             /\ UNCHANGED <<tmp, queue, backoff>>
    <3>1. w' \in Reconciling /\ w'.pc = "refetch"
      BY <1>1, <2>3, <2>6 DEF Reconciling, Steps, DownloadSteps
    <3> QED BY <2>3, <2>4, <2>6, <3>1 DEF TypeInv, TypeOK, TmpInv, userVars
  <2> QED BY <1>6, <2>5, <2>6 DEF SetDownloading, obj
<1>7. CASE Refetch
  <2>1. CASE cache[w.key].obj = Absent
    BY <1>3, <1>7, <2>1 DEF Refetch, TypeInv, TypeOK, apiVars, userVars
  <2>2. CASE cache[w.key].obj # Absent
    <3>1. cache[w.key] \in [rv : Nat, obj : BootArtifactObject]
      BY <1>1, <1>2, <2>2 DEF TypeOK, Version
    <3>2. w' \in Reconciling /\ w'.pc = "mkdir"
      BY <1>1, <1>7, <2>2, <3>1 DEF Refetch, Reconciling, Steps, DownloadSteps
    <3> QED BY <1>7, <2>2, <3>2 DEF Refetch, TypeInv, TypeOK, TmpInv, apiVars, userVars
  <2> QED BY <2>1, <2>2
<1>8. CASE SetReady
  <2> DEFINE obj == [w.artifact.obj EXCEPT !.phase = "Ready", !.failureCount = 0]
  <2>1. obj \in BootArtifactObject
    BY <1>2 DEF BootArtifactObject, Phases
  <2>2. (UpdateOK(obj) \/ UpdateErr(obj)) /\ (ReturnNil \/ ReturnErr)
    BY <1>8 DEF SetReady
  <2> HIDE DEF obj
  <2>3. /\ api' \in [Artifacts -> Version]
        /\ events' \in [Artifacts -> SUBSET Version]
        /\ readyGen' \in [Artifacts -> Nat]
        /\ faults' \in 0..MaxFaults
    BY <1>1, <2>1, <2>2, UpdateType
  <2> QED BY <1>3, <1>8, <2>2, <2>3 DEF SetReady, TypeInv, TypeOK, userVars
<1>9. CASE SetFailure
  <2> DEFINE obj == [w.artifact.obj EXCEPT !.phase = "Error", !.failureCount = @ + 1]
  <2>0. w.artifact.obj.failureCount + 1 \in Nat
    BY <1>2 DEF BootArtifactObject
  <2>1. obj \in BootArtifactObject
    BY <1>2, <2>0 DEF BootArtifactObject, Phases
  <2>2. (UpdateOK(obj) \/ UpdateErr(obj)) /\ (ReturnRequeueAfter \/ ReturnErr)
    BY <1>9 DEF SetFailure
  <2> HIDE DEF obj
  <2>3. /\ api' \in [Artifacts -> Version]
        /\ events' \in [Artifacts -> SUBSET Version]
        /\ readyGen' \in [Artifacts -> Nat]
        /\ faults' \in 0..MaxFaults
    BY <1>1, <2>1, <2>2, UpdateType
  <2> QED BY <1>3, <1>9, <2>2, <2>3 DEF SetFailure, TypeInv, TypeOK, userVars
<1> QED BY <1>4, <1>5, <1>6, <1>7, <1>8, <1>9

\* Users' requests.
LEMMA SubmitType ==
    ASSUME TypeInv, NEW a \in Artifacts, NEW obj \in BootArtifactObject \cup {Absent},
           Submit(a, obj)
    PROVE  TypeInv'
<1>1. api' \in [Artifacts -> Version] /\ events' \in [Artifacts -> SUBSET Version]
  BY PublishType DEF Submit, TypeInv
<1> QED BY <1>1, BoundsAssumption DEF Submit, TypeInv, TypeOK, TmpInv, diskVars

\* The runtime, the users and the outside world.
LEMMA EnvironmentType ==
    ASSUME TypeInv,
           \/ \E a \in Artifacts : Reconcile(a) \/ Deliver(a) \/ Elapse(a) \/ Delete(a)
           \/ \E a \in Artifacts, s \in Specs : Create(a, s) \/ Edit(a, s)
           \/ \E p \in Exposed : Disturb(p)
           \/ Crash
           \/ PowerLoss
    PROVE  TypeInv'
<1> USE ConstantsAssumption, BoundsAssumption
<1>1. ASSUME NEW a \in Artifacts, Reconcile(a)
      PROVE  TypeInv'
  <2>1. CASE cache[a].obj = Absent
    BY <1>1, <2>1 DEF Reconcile, TypeInv, TypeOK, TmpInv, apiVars, diskVars, userVars
  <2>2. CASE cache[a].obj # Absent
    <3>1. cache[a] \in [rv : Nat, obj : BootArtifactObject] /\ cache[a].obj.spec \in Specs
      BY <2>2 DEF TypeInv, TypeOK, Version, BootArtifactObject
    <3>2. w' \in Reconciling /\ w'.pc = "stat"
      BY <1>1, <2>2, <3>1, PathType DEF Reconcile, Reconciling, Steps
    <3> QED BY <1>1, <3>2 DEF Reconcile, TypeInv, TypeOK, TmpInv, apiVars, diskVars, userVars
  <2> QED BY <2>1, <2>2
<1>2. ASSUME NEW a \in Artifacts, Deliver(a)
      PROVE  TypeInv'
  BY <1>2 DEF Deliver, TypeInv, TypeOK, TmpInv, diskVars, userVars
<1>3. ASSUME NEW a \in Artifacts, Elapse(a)
      PROVE  TypeInv'
  BY <1>3 DEF Elapse, TypeInv, TypeOK, TmpInv, apiVars, diskVars, userVars
<1>4. ASSUME NEW a \in Artifacts, Delete(a)
      PROVE  TypeInv'
  BY <1>4, SubmitType DEF Delete
<1>5. ASSUME NEW a \in Artifacts, NEW s \in Specs, Create(a, s)
      PROVE  TypeInv'
  <2>1. [spec |-> s, gen |-> api[a].rv + 1, phase |-> "", failureCount |-> 0] \in BootArtifactObject
    <3>1. api[a].rv + 1 \in Nat
      BY DEF TypeInv, TypeOK, Version
    <3> QED BY <3>1 DEF BootArtifactObject, Phases
  <2> QED BY <1>5, <2>1, SubmitType DEF Create
<1>6. ASSUME NEW a \in Artifacts, NEW s \in Specs, Edit(a, s)
      PROVE  TypeInv'
  <2>1. api[a].rv \in Nat /\ api[a].obj \in BootArtifactObject
    BY <1>6 DEF Edit, TypeInv, TypeOK, Version
  <2>2. [api[a].obj EXCEPT !.spec = s, !.gen = api[a].rv + 1] \in BootArtifactObject
    <3> DEFINE g == api[a].rv + 1
    <3>1. g \in Nat
      BY <2>1
    <3> HIDE DEF g
    <3>2. [api[a].obj EXCEPT !.spec = s, !.gen = g] \in BootArtifactObject
      BY <2>1, <3>1 DEF BootArtifactObject
    <3> QED BY <3>2 DEF g
  <2> QED BY <1>6, <2>2, SubmitType DEF Edit
<1>7. ASSUME NEW p \in Exposed, Disturb(p)
      PROVE  TypeInv'
  BY <1>7 DEF Disturb, Fault, TypeInv, TypeOK, TmpInv, apiVars, userVars
<1>8. ASSUME Restart
      PROVE  /\ api' \in [Artifacts -> Version]
             /\ events' \in [Artifacts -> SUBSET Version]
             /\ cache' \in [Artifacts -> Version]
             /\ queue' \in [Artifacts -> {"idle", "delayed", "ready"}]
             /\ backoff' \subseteq Artifacts
             /\ w' = Idle
             /\ edits' \in 0..MaxEdits /\ faults' \in 0..MaxFaults /\ crashes' \in 0..MaxCrashes
             /\ readyGen' \in [Artifacts -> Nat]
             /\ TmpInv'
  BY <1>8 DEF Restart, TypeInv, TypeOK, TmpInv, Idle
<1>9. CASE Crash
  BY <1>8, <1>9 DEF Crash, TypeInv, TypeOK, diskVars
<1>10. CASE PowerLoss
  <2>1. disk' \in [Paths -> Contents \cup {Torn, NoFile}]
        /\ survivors' \in [Paths -> SUBSET (Contents \cup {Torn, NoFile})]
        /\ disturbed' \subseteq Paths
    BY <1>10 DEF PowerLoss, TypeInv, TypeOK
  <2>2. tmp' \in [Paths -> TmpFile \cup {NoFile}]
    BY <1>10 DEF PowerLoss, TypeInv, TypeOK
  <2> QED BY <1>8, <1>10, <2>1, <2>2 DEF PowerLoss, TypeInv, TypeOK
<1> QED BY <1>1, <1>2, <1>3, <1>4, <1>5, <1>6, <1>7, <1>9, <1>10

LEMMA TypeStep == TypeInv /\ [Next]_vars => TypeInv'
<1>1. TypeInv /\ UNCHANGED vars => TypeInv'
  BY DEF vars, TypeInv, TypeOK, TmpInv
<1> QED BY <1>1, LocalStepType, ReportStepType, EnvironmentType DEF Next, WorkerStep

\* Every variable keeps its type in all reachable states; in particular a
\* reconcile never goes on with an object the cache did not have (the
\* NotFound paths of Reconcile and download).
THEOREM TypeCorrect == Spec => []TypeOK
<1>1. Spec => []TypeInv
  BY TypeInit, TypeStep, PTL DEF Spec
<1> QED BY <1>1, PTL DEF TypeInv

-----------------------------------------------------------------------------
(* No torn file *)

\* Neither what a path shows nor what it may show after a power loss is torn.
IntactInv == \A p \in Paths : disk[p] # Torn /\ Torn \notin survivors[p]

LEMMA IntactStep == TypeInv /\ IntactInv /\ [Next]_vars => IntactInv'
<1> SUFFICES ASSUME TypeInv, IntactInv, [Next]_vars
             PROVE  IntactInv'
  OBVIOUS
<1> USE ConstantsAssumption
<1>1. CASE UNCHANGED <<disk, survivors>>
  BY <1>1 DEF IntactInv
<1>2. CASE VerifyMismatch
  <2>1. w.filePath \in Paths
    BY <1>2, HeldType DEF VerifyMismatch, TypeInv, Reconciling
  <2> QED BY <1>2, <2>1 DEF VerifyMismatch, IntactInv, TypeInv, TypeOK
<1>3. CASE Rename
  <2>1. w.filePath \in Paths
    BY <1>3, HeldType DEF Rename, TypeInv, Reconciling
  <2>2. tmp[w.filePath].data # Torn /\ tmp[w.filePath].synced
    BY <1>3 DEF Rename, TypeInv, TmpInv
  <2> QED BY <1>3, <2>1, <2>2 DEF Rename, IntactInv, TypeInv, TypeOK, diskVars
<1>4. CASE SyncDir
  BY <1>4 DEF SyncDir, IntactInv, TypeInv, TypeOK
<1>5. ASSUME NEW p \in Exposed, Disturb(p)
      PROVE  IntactInv'
  BY <1>5 DEF Disturb, IntactInv, TypeInv, TypeOK
<1>6. CASE PowerLoss
  BY <1>6 DEF PowerLoss, IntactInv, TypeInv, TypeOK
<1>7. ASSUME WorkerStep, ~VerifyMismatch, ~Rename, ~SyncDir
      PROVE  UNCHANGED <<disk, survivors>>
  BY <1>7 DEF WorkerStep, Stat, VerifyGone, VerifyUnreadable, VerifyMatch, SetDownloading,
     Refetch, Mkdir, Get, Copy, SyncTmp, SetReady, SetFailure, diskVars
<1>8. ASSUME NEW a \in Artifacts, Reconcile(a) \/ Deliver(a) \/ Elapse(a) \/ Delete(a)
      PROVE  UNCHANGED <<disk, survivors>>
  BY <1>8 DEF Reconcile, Deliver, Elapse, Delete, Submit, diskVars
<1>9. ASSUME NEW a \in Artifacts, NEW s \in Specs, Create(a, s) \/ Edit(a, s)
      PROVE  UNCHANGED <<disk, survivors>>
  BY <1>9 DEF Create, Edit, Submit, diskVars
<1>10. Crash \/ UNCHANGED vars => UNCHANGED <<disk, survivors>>
  BY DEF Crash, diskVars, vars
<1> QED BY <1>1, <1>2, <1>3, <1>4, <1>5, <1>6, <1>7, <1>8, <1>9, <1>10 DEF Next

\* The final path of an artifact never shows a half-written file, whatever
\* fails and whenever the power goes (tmpFile.Sync before os.Rename).
THEOREM NeverTornTheorem == Spec => []NeverTorn
<1>1. Init => IntactInv
  BY ConstantsAssumption DEF Init, IntactInv
<1>2. Spec => [](TypeInv /\ IntactInv)
  BY <1>1, TypeInit, TypeStep, IntactStep, PTL DEF Spec
<1>3. IntactInv => NeverTorn
  BY DEF IntactInv, NeverTorn
<1> QED BY <1>2, <1>3, PTL

-----------------------------------------------------------------------------
(* Versions: what the cache, the watch and the worker hold *)

\* v is a version the API server has had of an object whose version now is
\* cur: not newer, equal to cur when the resource versions are equal, of a
\* generation that determines the spec, and not older than g, the last
\* generation reported Ready.
KnownIn(cur, g, v) ==
    /\ v.rv <= cur.rv
    /\ v.rv = cur.rv => v = cur
    /\ v.obj # Absent =>
        /\ v.obj.gen <= v.rv
        /\ g <= v.obj.gen
        /\ cur.obj # Absent =>
            /\ v.obj.gen <= cur.obj.gen
            /\ v.obj.gen = cur.obj.gen => v.obj.spec = cur.obj.spec

\* The watch never delivers a version older than the cache's.
LogInv ==
    \A a \in Artifacts :
        /\ readyGen[a] <= api[a].rv
        /\ KnownIn(api[a], readyGen[a], api[a])
        /\ KnownIn(api[a], readyGen[a], cache[a])
        /\ \A v \in events[a] : KnownIn(api[a], readyGen[a], v) /\ cache[a].rv <= v.rv

\* Except between its first status write and the second Get, the worker
\* holds a version it read from the cache.
HeldInv ==
    w.pc # "idle" =>
        /\ KnownIn(api[w.key], readyGen[w.key], w.artifact)
        /\ w.pc # "refetch" => w.artifact.rv <= cache[w.key].rv

VersionInv == LogInv /\ HeldInv

\* n may follow cur: a new spec gets a new generation, a status update keeps
\* the spec and the generation.
Follows(cur, n) ==
    /\ n.rv = cur.rv + 1
    /\ n.obj # Absent =>
        \/ n.obj.gen = n.rv
        \/ cur.obj # Absent /\ n.obj.gen = cur.obj.gen /\ n.obj.spec = cur.obj.spec

\* A known version stays known when the object moves on.
LEMMA KnownFollows ==
    ASSUME NEW cur \in Version, NEW n \in Version, NEW g \in Nat, g <= cur.rv,
           Follows(cur, n), KnownIn(cur, g, cur)
    PROVE  /\ KnownIn(n, g, n)
           /\ \A v \in Version : KnownIn(cur, g, v) => KnownIn(n, g, v)
<1>1. /\ cur.rv \in Nat /\ n.rv \in Nat
      /\ cur.obj # Absent => cur.obj.gen \in Nat
      /\ n.obj # Absent => n.obj.gen \in Nat
  BY DEF Version, BootArtifactObject
<1>2. KnownIn(n, g, n)
  BY <1>1 DEF KnownIn, Follows
<1>3. ASSUME NEW v \in Version, KnownIn(cur, g, v)
      PROVE  KnownIn(n, g, v)
  <2>1. v.rv \in Nat /\ (v.obj # Absent => v.obj.gen \in Nat)
    BY DEF Version, BootArtifactObject
  <2> QED BY <1>1, <1>3, <2>1 DEF KnownIn, Follows
<1> QED BY <1>2, <1>3

\* An accepted write of a following object keeps what is known of every
\* version.
LEMMA PublishLog ==
    ASSUME TypeOK, LogInv, NEW a \in Artifacts, NEW obj \in BootArtifactObject \cup {Absent},
           Publish(a, obj),
           obj = api[a].obj \/ Follows(api[a], [rv |-> api[a].rv + 1, obj |-> obj])
    PROVE  /\ \A b \in Artifacts :
                /\ readyGen[b] <= api'[b].rv
                /\ KnownIn(api'[b], readyGen[b], api'[b])
                /\ KnownIn(api'[b], readyGen[b], cache[b])
                /\ \A v \in events'[b] :
                    KnownIn(api'[b], readyGen[b], v) /\ cache[b].rv <= v.rv
           /\ \A b \in Artifacts, v \in Version :
                KnownIn(api[b], readyGen[b], v) => KnownIn(api'[b], readyGen[b], v)
<1>1. CASE obj = api[a].obj
  <2>1. api' = api /\ events' = events
    BY <1>1 DEF Publish, TypeOK
  <2> QED BY <2>1 DEF LogInv
<1>2. CASE obj # api[a].obj
  <2> DEFINE n == [rv |-> api[a].rv + 1, obj |-> obj]
  <2>1. /\ n \in Version /\ n # api[a] /\ n.rv = api[a].rv + 1
        /\ Follows(api[a], n)
    BY <1>2 DEF TypeOK, Version
  <2>2. /\ api' = [api EXCEPT ![a] = n]
        /\ events' = [events EXCEPT ![a] = @ \cup {n}]
    BY <1>2, <2>1 DEF Publish
  <2> HIDE DEF n
  <2>3. /\ api[a] \in Version /\ readyGen[a] \in Nat /\ readyGen[a] <= api[a].rv
        /\ api[a].rv \in Nat
        /\ KnownIn(api[a], readyGen[a], api[a])
    BY DEF LogInv, TypeOK, Version
  <2>4. /\ KnownIn(n, readyGen[a], n)
        /\ \A v \in Version : KnownIn(api[a], readyGen[a], v) => KnownIn(n, readyGen[a], v)
    BY <2>1, <2>3, KnownFollows
  <2>5. api'[a] = n /\ events'[a] = events[a] \cup {n}
        /\ \A b \in Artifacts : b # a => api'[b] = api[b] /\ events'[b] = events[b]
    BY <2>2 DEF TypeOK
  <2>6. cache[a].rv \in Nat /\ cache[a].rv < n.rv
    BY <2>1, <2>3 DEF LogInv, KnownIn, TypeOK, Version
  <2>7. \A b \in Artifacts : events[b] \subseteq Version /\ cache[b] \in Version
    BY DEF TypeOK
  <2>8. ASSUME NEW b \in Artifacts
        PROVE  /\ readyGen[b] <= api'[b].rv
               /\ KnownIn(api'[b], readyGen[b], api'[b])
               /\ KnownIn(api'[b], readyGen[b], cache[b])
               /\ \A v \in events'[b] :
                    KnownIn(api'[b], readyGen[b], v) /\ cache[b].rv <= v.rv
    <3>1. CASE b = a
      BY <2>1, <2>3, <2>4, <2>5, <2>6, <2>7, <3>1 DEF LogInv
    <3>2. CASE b # a
      BY <2>5, <3>2 DEF LogInv
    <3> QED BY <3>1, <3>2
  <2> QED BY <2>4, <2>5, <2>8
<1> QED BY <1>1, <1>2

\* A status write that is accepted was made from the version the API server
\* holds; when it is the Ready write, the cache holds that version too and
\* nothing newer is left in the watch.
LEMMA AcceptLog ==
    ASSUME TypeOK, VersionInv, w.pc # "idle", NEW obj \in BootArtifactObject,
           Accept(obj), UNCHANGED cache,
           obj.gen = w.artifact.obj.gen, obj.spec = w.artifact.obj.spec,
           obj.phase = "Ready" => w.pc # "refetch"
    PROVE  LogInv'
<1> DEFINE k == w.key
<1>1. /\ w \in Reconciling /\ k \in Artifacts
      /\ w.artifact \in [rv : Nat, obj : BootArtifactObject]
  BY HeldType DEF Reconciling
<1>2. w.artifact = api[k] /\ api[k].obj # Absent /\ Publish(k, obj)
  BY DEF VersionInv, HeldInv, Accept, Current, KnownIn
<1>3. Follows(api[k], [rv |-> api[k].rv + 1, obj |-> obj])
  BY <1>2 DEF Follows
<1>4. \A b \in Artifacts :
        /\ readyGen[b] <= api'[b].rv
        /\ KnownIn(api'[b], readyGen[b], api'[b])
        /\ KnownIn(api'[b], readyGen[b], cache[b])
        /\ \A v \in events'[b] : KnownIn(api'[b], readyGen[b], v) /\ cache[b].rv <= v.rv
  BY <1>1, <1>2, <1>3, PublishLog DEF VersionInv
<1>5. CASE obj.phase # "Ready"
  <2>1. readyGen' = readyGen
    BY <1>1, <1>5 DEF Accept, TypeOK
  <2> QED BY <1>4, <2>1 DEF LogInv
<1>6. CASE obj.phase = "Ready"
  <2>1. /\ \A b \in Artifacts : b # k => readyGen'[b] = readyGen[b]
        /\ readyGen'[k] = obj.gen
    BY <1>1, <1>6 DEF Accept, TypeOK
  <2>2. /\ api[k].rv \in Nat /\ cache[k].rv \in Nat
        /\ \A v \in events[k] : v.rv \in Nat
    BY <1>1 DEF TypeOK, Version
  <2>3. /\ api[k].rv <= cache[k].rv
        /\ KnownIn(api[k], readyGen[k], cache[k])
        /\ \A v \in events[k] : v.rv <= api[k].rv /\ cache[k].rv <= v.rv
    BY <1>1, <1>2, <1>6 DEF VersionInv, LogInv, HeldInv, KnownIn
  <2>4. cache[k] = api[k] /\ events[k] \subseteq {api[k]}
    BY <1>1, <2>2, <2>3 DEF KnownIn, VersionInv, LogInv
  <2>5. api'[k].obj = obj /\ events'[k] \subseteq {cache[k], api'[k]}
    BY <1>1, <1>2, <2>4 DEF Publish, TypeOK
  <2>6. obj.gen \in Nat /\ obj # Absent /\ obj.gen <= api'[k].rv
    BY <1>1, <1>4, <2>5, ConstantsAssumption DEF KnownIn, BootArtifactObject
  <2>7. /\ KnownIn(api'[k], obj.gen, api'[k])
        /\ KnownIn(api'[k], obj.gen, cache[k])
    BY <1>1, <1>2, <1>4, <2>4, <2>5, <2>6 DEF KnownIn
  <2> SUFFICES ASSUME NEW b \in Artifacts
               PROVE  /\ readyGen'[b] <= api'[b].rv
                      /\ KnownIn(api'[b], readyGen'[b], api'[b])
                      /\ KnownIn(api'[b], readyGen'[b], cache[b])
                      /\ \A v \in events'[b] :
                            KnownIn(api'[b], readyGen'[b], v) /\ cache[b].rv <= v.rv
    BY DEF LogInv
  <2>8. CASE b = k
    BY <1>1, <1>4, <2>1, <2>5, <2>6, <2>7, <2>8
  <2>9. CASE b # k
    BY <1>4, <2>1, <2>9
  <2> QED BY <2>8, <2>9
<1> QED BY <1>5, <1>6

LEMMA VersionInit == Init => VersionInv
BY DEF Init, VersionInv, LogInv, HeldInv, KnownIn, Idle

\* Steps of a reconcile that leave the API server, the watch and the cache
\* alone and keep the version in hand.
LEMMA VersionLocal ==
    ASSUME TypeOK, VersionInv,
           \/ Stat \/ VerifyGone \/ VerifyUnreadable \/ VerifyMismatch \/ VerifyMatch
           \/ Mkdir \/ Get \/ Copy \/ SyncTmp \/ Rename \/ SyncDir
    PROVE  VersionInv'
<1>1. w \in Reconciling /\ w.pc # "idle" /\ w.pc # "refetch"
  BY HeldType DEF Stat, VerifyGone, VerifyUnreadable, VerifyMismatch, VerifyMatch, Mkdir, Get,
     Copy, SyncTmp, Rename, SyncDir
<1>2. UNCHANGED <<api, events, cache, readyGen>>
  BY DEF Stat, VerifyGone, VerifyUnreadable, VerifyMismatch, VerifyMatch, Mkdir, Get, Copy,
     SyncTmp, Rename, SyncDir, apiVars
<1>3. w' = Idle \/ (w'.key = w.key /\ w'.artifact = w.artifact)
  BY <1>1 DEF Stat, VerifyGone, VerifyUnreadable, VerifyMismatch, VerifyMatch, Mkdir, Get, Copy,
     SyncTmp, Rename, SyncDir, Goto, ReturnErr, ReturnNil, Return, Reconciling
<1> QED BY <1>1, <1>2, <1>3 DEF VersionInv, LogInv, HeldInv, Idle

\* The three status writes.
LEMMA VersionReport ==
    ASSUME TypeOK, VersionInv, SetDownloading \/ SetReady \/ SetFailure
    PROVE  VersionInv'
<1>1. w \in Reconciling /\ w.pc # "idle" /\ w.pc # "refetch" /\ w.key \in Artifacts
      /\ w.artifact.obj \in BootArtifactObject /\ UNCHANGED cache
  BY HeldType DEF SetDownloading, SetReady, SetFailure, Reconciling
<1>2. PICK obj \in BootArtifactObject :
        /\ obj.gen = w.artifact.obj.gen /\ obj.spec = w.artifact.obj.spec
        /\ UpdateOK(obj) \/ UpdateErr(obj)
        /\ \/ w' = Idle
           \/ /\ UpdateOK(obj)
              /\ obj.phase # "Ready"
              /\ w' = [w EXCEPT !.pc = "refetch", !.artifact = api'[w.key]]
  <2>1. CASE SetDownloading
    <3> DEFINE o == [w.artifact.obj EXCEPT !.phase = "Downloading"]
    <3>1. o \in BootArtifactObject /\ o.gen = w.artifact.obj.gen
          /\ o.spec = w.artifact.obj.spec /\ o.phase # "Ready"
      BY <1>1 DEF BootArtifactObject, Phases
    <3>2. \/ UpdateOK(o) /\ w' = [w EXCEPT !.pc = "refetch", !.artifact = api'[w.key]]
          \/ UpdateErr(o) /\ w' = Idle
      BY <2>1 DEF SetDownloading, ReturnErr, Return
    <3> QED BY <3>1, <3>2
  <2>2. CASE SetReady
    <3> DEFINE o == [w.artifact.obj EXCEPT !.phase = "Ready", !.failureCount = 0]
    <3>1. o \in BootArtifactObject /\ o.gen = w.artifact.obj.gen
          /\ o.spec = w.artifact.obj.spec
      BY <1>1 DEF BootArtifactObject, Phases
    <3>2. (UpdateOK(o) \/ UpdateErr(o)) /\ w' = Idle
      BY <2>2 DEF SetReady, ReturnNil, ReturnErr, Return
    <3> QED BY <3>1, <3>2
  <2>3. CASE SetFailure
    <3> DEFINE o == [w.artifact.obj EXCEPT !.phase = "Error", !.failureCount = @ + 1]
    <3>0. w.artifact.obj.failureCount + 1 \in Nat
      BY <1>1 DEF BootArtifactObject
    <3>1. o \in BootArtifactObject /\ o.gen = w.artifact.obj.gen
          /\ o.spec = w.artifact.obj.spec
      BY <1>1, <3>0 DEF BootArtifactObject, Phases
    <3>2. (UpdateOK(o) \/ UpdateErr(o)) /\ w' = Idle
      BY <2>3 DEF SetFailure, ReturnRequeueAfter, ReturnErr, Return
    <3> QED BY <3>1, <3>2
  <2> QED BY <2>1, <2>2, <2>3
<1>3. CASE UNCHANGED <<api, events, readyGen>> /\ w' = Idle
  BY <1>1, <1>3 DEF VersionInv, LogInv, HeldInv, Idle
<1>4. CASE Accept(obj)
  <2>1. LogInv'
    BY <1>1, <1>2, <1>4, AcceptLog
  <2>2. CASE w' = Idle
    BY <2>1, <2>2 DEF VersionInv, HeldInv, Idle
  <2>3. CASE w' = [w EXCEPT !.pc = "refetch", !.artifact = api'[w.key]]
    <3>1. w'.pc = "refetch" /\ w'.key = w.key /\ w'.artifact = api'[w.key]
      BY <1>1, <2>3 DEF Reconciling
    <3>2. KnownIn(api'[w.key], readyGen'[w.key], api'[w.key])
      BY <1>1, <2>1 DEF LogInv
    <3> QED BY <2>1, <3>1, <3>2 DEF VersionInv, HeldInv
  <2> QED BY <1>2, <2>2, <2>3
<1> QED BY <1>2, <1>3, <1>4 DEF UpdateOK, UpdateErr

\* A user's request: the new object follows the present one.
LEMMA VersionSubmit ==
    ASSUME TypeOK, VersionInv, NEW a \in Artifacts,
           NEW obj \in BootArtifactObject \cup {Absent}, Submit(a, obj),
           obj # Absent => obj.gen = api[a].rv + 1
    PROVE  VersionInv'
<1>1. Publish(a, obj) /\ UNCHANGED <<cache, w, readyGen>>
  BY DEF Submit
<1>2. Follows(api[a], [rv |-> api[a].rv + 1, obj |-> obj])
  BY DEF Follows
<1>3. /\ \A b \in Artifacts :
            /\ readyGen[b] <= api'[b].rv
            /\ KnownIn(api'[b], readyGen[b], api'[b])
            /\ KnownIn(api'[b], readyGen[b], cache[b])
            /\ \A v \in events'[b] : KnownIn(api'[b], readyGen[b], v) /\ cache[b].rv <= v.rv
      /\ \A b \in Artifacts, v \in Version :
            KnownIn(api[b], readyGen[b], v) => KnownIn(api'[b], readyGen[b], v)
  BY <1>1, <1>2, PublishLog DEF VersionInv
<1>4. w.pc # "idle" => w.key \in Artifacts /\ w.artifact \in Version
  BY HeldType DEF Reconciling, Version
<1>5. LogInv'
  BY <1>1, <1>3 DEF LogInv
<1>6. HeldInv'
  BY <1>1, <1>3, <1>4 DEF VersionInv, HeldInv
<1> QED BY <1>5, <1>6 DEF VersionInv

LEMMA VersionStep == TypeInv /\ VersionInv /\ [Next]_vars => VersionInv'
<1> SUFFICES ASSUME TypeInv, VersionInv, [Next]_vars
             PROVE  VersionInv'
  OBVIOUS
<1>0. TypeOK
  BY DEF TypeInv
<1>1. ASSUME NEW a \in Artifacts, Reconcile(a)
      PROVE  VersionInv'
  <2>1. CASE cache[a].obj = Absent
    BY <1>1, <2>1 DEF Reconcile, apiVars, VersionInv, LogInv, HeldInv
  <2>2. CASE cache[a].obj # Absent
    <3>1. w'.key = a /\ w'.artifact = cache[a]
      BY <1>1, <2>2 DEF Reconcile
    <3>2. KnownIn(api[a], readyGen[a], cache[a]) /\ cache[a].rv \in Nat
      BY <1>0 DEF VersionInv, LogInv, TypeOK, Version
    <3> QED BY <1>1, <3>1, <3>2 DEF Reconcile, apiVars, VersionInv, LogInv, HeldInv
  <2> QED BY <2>1, <2>2
<1>2. CASE Refetch
  <2>1. w \in Reconciling /\ w.key \in Artifacts
    BY <1>0, <1>2, HeldType DEF Refetch, Reconciling
  <2>2. CASE cache[w.key].obj = Absent
    BY <1>2, <2>2 DEF Refetch, apiVars, VersionInv, LogInv, HeldInv, ReturnErr, Return, Idle
  <2>3. CASE cache[w.key].obj # Absent
    <3>1. w'.key = w.key /\ w'.artifact = cache[w.key]
      BY <1>2, <2>1, <2>3 DEF Refetch, Reconciling
    <3>2. KnownIn(api[w.key], readyGen[w.key], cache[w.key]) /\ cache[w.key].rv \in Nat
      BY <1>0, <2>1 DEF VersionInv, LogInv, TypeOK, Version
    <3> QED BY <1>2, <3>1, <3>2 DEF Refetch, apiVars, VersionInv, LogInv, HeldInv
  <2> QED BY <2>2, <2>3
<1>3. ASSUME NEW a \in Artifacts, Deliver(a)
      PROVE  VersionInv'
  <2>1. PICK v \in events[a] :
          /\ \A u \in events[a] : v.rv <= u.rv
          /\ cache' = [cache EXCEPT ![a] = v]
          /\ events' = [events EXCEPT ![a] = @ \ {v}]
    BY <1>3 DEF Deliver
  <2>2. /\ v \in Version /\ v.rv \in Nat
        /\ \A u \in events[a] : u \in Version /\ u.rv \in Nat
        /\ cache[a].rv \in Nat
    BY <1>0 DEF TypeOK, Version
  <2>3. KnownIn(api[a], readyGen[a], v) /\ cache[a].rv <= v.rv
    BY DEF VersionInv, LogInv
  <2>5. cache'[a] = v /\ events'[a] = events[a] \ {v}
        /\ \A b \in Artifacts : b # a => cache'[b] = cache[b] /\ events'[b] = events[b]
    BY <1>0, <2>1 DEF TypeOK
  <2>6. \A u \in events'[a] : v.rv <= u.rv
    BY <2>1, <2>5
  <2>7. UNCHANGED <<api, readyGen, w>>
    BY <1>3 DEF Deliver
  <2>8. LogInv'
    BY <2>3, <2>5, <2>6, <2>7 DEF VersionInv, LogInv
  <2>9. HeldInv'
    <3>1. w.pc # "idle" => w.key \in Artifacts /\ w.artifact.rv \in Nat
      BY <1>0, HeldType DEF Reconciling
    <3> QED BY <2>2, <2>3, <2>5, <2>7, <3>1 DEF VersionInv, HeldInv
  <2> QED BY <2>8, <2>9 DEF VersionInv
<1>4. ASSUME NEW a \in Artifacts, Delete(a)
      PROVE  VersionInv'
  BY <1>0, <1>4, VersionSubmit DEF Delete
<1>5. ASSUME NEW a \in Artifacts, NEW s \in Specs, Create(a, s)
      PROVE  VersionInv'
  <2> DEFINE o == [spec |-> s, gen |-> api[a].rv + 1, phase |-> "", failureCount |-> 0]
  <2>0. api[a].rv + 1 \in Nat
    BY <1>0 DEF TypeOK, Version
  <2>1. o \in BootArtifactObject /\ o.gen = api[a].rv + 1
    BY <2>0 DEF BootArtifactObject, Phases
  <2> QED BY <1>0, <1>5, <2>1, VersionSubmit DEF Create
<1>6. ASSUME NEW a \in Artifacts, NEW s \in Specs, Edit(a, s)
      PROVE  VersionInv'
  <2> DEFINE g == api[a].rv + 1
             o == [api[a].obj EXCEPT !.spec = s, !.gen = g]
  <2>0. g \in Nat /\ api[a].obj \in BootArtifactObject
    BY <1>0, <1>6 DEF Edit, TypeOK, Version
  <2>1. Submit(a, o)
    BY <1>6 DEF Edit
  <2> HIDE DEF g
  <2>2. o \in BootArtifactObject /\ o.gen = g
    BY <2>0 DEF BootArtifactObject
  <2> QED BY <1>0, <2>1, <2>2, VersionSubmit DEF g
<1>7. CASE Crash \/ PowerLoss
  <2>1. /\ api' = api /\ readyGen' = readyGen /\ cache' = api /\ w' = Idle
        /\ \A a \in Artifacts : events'[a] = {}
    BY <1>7 DEF Crash, PowerLoss, Restart
  <2> QED BY <2>1 DEF VersionInv, LogInv, HeldInv, Idle
<1>8. ASSUME NEW a \in Artifacts, Elapse(a)
      PROVE  VersionInv'
  BY <1>8 DEF Elapse, apiVars, VersionInv, LogInv, HeldInv
<1>9. ASSUME NEW p \in Exposed, Disturb(p)
      PROVE  VersionInv'
  BY <1>9 DEF Disturb, apiVars, VersionInv, LogInv, HeldInv
<1>10. CASE UNCHANGED vars
  BY <1>10 DEF vars, VersionInv, LogInv, HeldInv
<1> QED
  BY <1>0, <1>1, <1>2, <1>3, <1>4, <1>5, <1>6, <1>7, <1>8, <1>9, <1>10, VersionLocal,
     VersionReport DEF Next, WorkerStep

-----------------------------------------------------------------------------
(* Ready means verified *)

\* The two conditions under which the path of an artifact is its own and
\* stays the same when the spec is edited.
OwnNames == \A a, b \in Artifacts : Name[a] = Name[b] => a = b
StableFilename == \A s, t \in Specs : Filename[s.url] = Filename[t.url]

\* What the worker knows of its file at each step.
FileInv ==
    /\ w.pc # "idle" => w.filePath = FilePath(w.key, HeldSpec)
    /\ w.pc = "sync" => w.sum = Digest(UseSHA256(HeldSpec), tmp[w.filePath].data)
    /\ w.pc = "rename" => Matches(tmp[w.filePath].data, HeldSpec)
    /\ w.pc \in {"syncDir", "setReady"} =>
        w.filePath \in disturbed \/ Matches(disk[w.filePath], HeldSpec)
    /\ w.pc = "setDownloading" /\ Current => ~ReadyNow(w.key)

FileReadyInv == FileInv /\ ReadyVerified

LEMMA NothingMatches ==
    ASSUME NEW s \in Specs
    PROVE  ~Matches(NoFile, s)
BY ConstantsAssumption DEF Matches, Digest, ExpectedHash, UseSHA256, BootArtifactSpec

\* Whoever is Ready for its present spec at the worker's path is the
\* worker's artifact, and the spec in hand is the present one: the cache
\* cannot serve a generation older than the one reported Ready.
LEMMA SameSpec ==
    ASSUME TypeOK, VersionInv, OwnNames, w.pc # "idle",
           w.filePath = FilePath(w.key, HeldSpec),
           NEW a \in Artifacts, api[a].obj # Absent, api[a].obj.gen = readyGen[a],
           FilePath(a, api[a].obj.spec) = w.filePath
    PROVE  a = w.key /\ api[a].obj.spec = HeldSpec
<1>1. w.key \in Artifacts /\ w.artifact.obj \in BootArtifactObject
  BY HeldType DEF Reconciling
<1>2. a = w.key
  BY <1>1 DEF FilePath, OwnNames
<1>3. /\ w.artifact.obj.gen \in Nat /\ api[a].obj.gen \in Nat
      /\ w.artifact.obj # Absent
  BY <1>1, ConstantsAssumption DEF TypeOK, Version, BootArtifactObject
<1>4. w.artifact.obj.gen = api[a].obj.gen /\ w.artifact.obj.spec = api[a].obj.spec
  BY <1>2, <1>3 DEF VersionInv, HeldInv, KnownIn
<1> QED BY <1>2, <1>4 DEF HeldSpec

\* A step that leaves objects and files alone and disturbs no more keeps
\* ReadyVerified.
LEMMA ReadyFrame ==
    ASSUME ReadyVerified, UNCHANGED <<api, readyGen, disk>>, disturbed \subseteq disturbed'
    PROVE  ReadyVerified'
BY DEF ReadyVerified, ReadyNow

\* The same when only the worker's file changes, to a content the spec in
\* hand asks for, or when it changes although it does not match that spec.
LEMMA ReadyOwnFile ==
    ASSUME TypeOK, VersionInv, OwnNames, FileReadyInv, w.pc # "idle",
           UNCHANGED <<api, readyGen>>,
           \A p \in Paths : p # w.filePath =>
                disk'[p] = disk[p] /\ (p \in disturbed => p \in disturbed'),
           \/ Matches(disk'[w.filePath], HeldSpec)
           \/ /\ ~Matches(disk[w.filePath], HeldSpec)
              /\ w.filePath \in disturbed => w.filePath \in disturbed'
    PROVE  ReadyVerified'
<1> SUFFICES ASSUME NEW a \in Artifacts, ReadyNow(a)'
             PROVE  Matches(disk'[FilePath(a, api[a].obj.spec)], api[a].obj.spec)
  BY DEF ReadyVerified
<1>1. /\ api[a].obj # Absent /\ api[a].obj.phase = "Ready" /\ api[a].obj.gen = readyGen[a]
      /\ FilePath(a, api[a].obj.spec) \notin disturbed'
  BY DEF ReadyNow
<1>2. FilePath(a, api[a].obj.spec) \in Paths
  BY <1>1, PathType DEF TypeOK, Version, BootArtifactObject
<1>3. CASE FilePath(a, api[a].obj.spec) # w.filePath
  BY <1>1, <1>2, <1>3 DEF FileReadyInv, ReadyVerified, ReadyNow
<1>4. CASE FilePath(a, api[a].obj.spec) = w.filePath
  <2>1. a = w.key /\ api[a].obj.spec = HeldSpec
    BY <1>1, <1>4, SameSpec DEF FileReadyInv, FileInv
  <2>2. CASE Matches(disk'[w.filePath], HeldSpec)
    BY <1>4, <2>1, <2>2
  <2>3. CASE /\ ~Matches(disk[w.filePath], HeldSpec)
             /\ w.filePath \in disturbed => w.filePath \in disturbed'
    BY <1>1, <1>4, <2>1, <2>3 DEF FileReadyInv, ReadyVerified, ReadyNow
  <2> QED BY <2>2, <2>3
<1> QED BY <1>3, <1>4

\* Before the download starts: the file is missing, or wrong and removed.
LEMMA FileCheck ==
    ASSUME TypeInv, VersionInv, OwnNames, FileReadyInv,
           Stat \/ VerifyGone \/ VerifyUnreadable \/ VerifyMismatch \/ VerifyMatch
    PROVE  FileReadyInv'
<1>0. TypeOK /\ w \in Reconciling /\ w.pc # "idle" /\ w.key \in Artifacts
      /\ w.filePath \in Paths /\ w.artifact.obj \in BootArtifactObject /\ HeldSpec \in Specs
      /\ w.filePath = FilePath(w.key, HeldSpec)
  BY HeldType DEF TypeInv, Stat, VerifyGone, VerifyUnreadable, VerifyMismatch, VerifyMatch,
     Reconciling, BootArtifactObject, HeldSpec, FileReadyInv, FileInv
<1>1. UNCHANGED <<api, readyGen>>
  BY DEF Stat, VerifyGone, VerifyUnreadable, VerifyMismatch, VerifyMatch, apiVars
<1>2. ASSUME NEW s \in {"verify", "setDownloading", "setFailure", "setReady"}, Goto(s)
      PROVE  /\ w'.pc = s /\ w'.key = w.key /\ w'.artifact = w.artifact
             /\ w'.filePath = w.filePath /\ HeldSpec' = HeldSpec
             /\ Current' = Current
  BY <1>0, <1>1, <1>2 DEF Goto, Reconciling, HeldSpec, Current
<1>3. ASSUME ~Matches(disk[w.filePath], HeldSpec), Current
      PROVE  ~ReadyNow(w.key)
  <2>1. w.artifact = api[w.key]
    BY <1>0, <1>3 DEF VersionInv, HeldInv, KnownIn, Current
  <2> QED BY <1>0, <1>3, <2>1 DEF FileReadyInv, ReadyVerified, HeldSpec
<1>4. CASE Stat
  <2>1. ReadyVerified'
    BY <1>1, <1>4, ReadyFrame DEF Stat, diskVars, FileReadyInv
  <2>2. disturbed' = disturbed
    BY <1>4 DEF Stat, diskVars
  <2>3. CASE Goto("setDownloading") /\ disk[w.filePath] = NoFile
    <3>1. Current => ~ReadyNow(w.key)
      BY <1>0, <1>3, <2>3, NothingMatches
    <3>2. Current' => ~ReadyNow(w.key)'
      BY <1>1, <1>2, <2>2, <2>3, <3>1 DEF ReadyNow
    <3> QED BY <1>0, <1>2, <2>1, <2>3, <3>2 DEF FileReadyInv, FileInv
  <2>4. CASE Goto("verify") \/ Goto("setFailure")
    BY <1>0, <1>2, <2>1, <2>4 DEF FileReadyInv, FileInv
  <2> QED BY <1>4, <2>3, <2>4 DEF Stat
<1>5. CASE VerifyGone
  <2>1. ReadyVerified' /\ disturbed' = disturbed
    BY <1>1, <1>5, ReadyFrame DEF VerifyGone, diskVars, FileReadyInv
  <2>2. Current => ~ReadyNow(w.key)
    BY <1>0, <1>3, <1>5, NothingMatches DEF VerifyGone
  <2>3. Goto("setDownloading")
    BY <1>5 DEF VerifyGone
  <2>4. Current' => ~ReadyNow(w.key)'
    BY <1>1, <1>2, <2>1, <2>2, <2>3 DEF ReadyNow
  <2> QED BY <1>0, <1>2, <2>1, <2>3, <2>4 DEF FileReadyInv, FileInv
<1>6. CASE VerifyUnreadable
  <2>1. ReadyVerified' /\ w' = Idle
    BY <1>1, <1>6, ReadyFrame DEF VerifyUnreadable, FileReadyInv, ReturnErr, Return
  <2> QED BY <2>1 DEF FileReadyInv, FileInv, Idle
<1>7. CASE VerifyMismatch
  <2>1. /\ ~Matches(disk[w.filePath], HeldSpec) /\ disturbed' = disturbed
        /\ \A p \in Paths : p # w.filePath => disk'[p] = disk[p]
    BY <1>0, <1>7 DEF VerifyMismatch, TypeOK
  <2>2. ReadyVerified'
    BY <1>0, <1>1, <2>1, ReadyOwnFile
  <2>3. Goto("setDownloading")
    BY <1>7 DEF VerifyMismatch
  <2>4. Current' => ~ReadyNow(w.key)'
    BY <1>1, <1>2, <1>3, <2>1, <2>3 DEF ReadyNow
  <2> QED BY <1>0, <1>2, <2>2, <2>3, <2>4 DEF FileReadyInv, FileInv
<1>8. CASE VerifyMatch
  <2>1. /\ Matches(disk[w.filePath], HeldSpec) /\ disk' = disk
        /\ \A p \in Paths : p # w.filePath => (p \in disturbed => p \in disturbed')
    BY <1>8 DEF VerifyMatch
  <2>2. ReadyVerified'
    BY <1>0, <1>1, <2>1, ReadyOwnFile
  <2>3. CASE ReturnNil
    BY <2>2, <2>3 DEF FileReadyInv, FileInv, ReturnNil, Return, Idle
  <2>4. CASE Goto("setReady")
    BY <1>0, <1>2, <2>1, <2>2, <2>4 DEF FileReadyInv, FileInv
  <2> QED BY <1>8, <2>3, <2>4 DEF VerifyMatch
<1> QED BY <1>4, <1>5, <1>6, <1>7, <1>8

\* The download itself, up to the directory sync.
LEMMA FileDownload ==
    ASSUME TypeInv, VersionInv, OwnNames, FileReadyInv,
           Mkdir \/ Get \/ Copy \/ SyncTmp \/ Rename \/ SyncDir
    PROVE  FileReadyInv'
<1>0. TypeOK /\ w \in Reconciling /\ w.pc # "idle" /\ w.filePath \in Paths
      /\ w.filePath = FilePath(w.key, HeldSpec)
  BY HeldType DEF TypeInv, Mkdir, Get, Copy, SyncTmp, Rename, SyncDir, Reconciling,
     FileReadyInv, FileInv
<1>1. UNCHANGED <<api, readyGen>>
  BY DEF Mkdir, Get, Copy, SyncTmp, Rename, SyncDir, apiVars
<1>2. ASSUME NEW s \in {"rename", "syncDir", "setReady", "setFailure", "copy"}, Goto(s)
      PROVE  /\ w'.pc = s /\ w'.key = w.key /\ w'.artifact = w.artifact
             /\ w'.filePath = w.filePath /\ HeldSpec' = HeldSpec
  BY <1>0, <1>2 DEF Goto, Reconciling, HeldSpec
<1>3. ASSUME UNCHANGED <<disk, disturbed>>
      PROVE  ReadyVerified'
  BY <1>1, <1>3, ReadyFrame DEF FileReadyInv
<1>4. ASSUME Goto("setFailure"), ReadyVerified'
      PROVE  FileReadyInv'
  BY <1>0, <1>2, <1>4 DEF FileReadyInv, FileInv
<1>5. CASE Mkdir
  <2>1. ReadyVerified'
    BY <1>3, <1>5 DEF Mkdir, diskVars
  <2>2. CASE w' = [w EXCEPT !.pc = "get", !.cleanup = TRUE]
    <3>1. w'.pc = "get" /\ w'.key = w.key /\ w'.filePath = w.filePath /\ HeldSpec' = HeldSpec
      BY <1>0, <2>2 DEF Reconciling, HeldSpec
    <3> QED BY <1>0, <2>1, <3>1 DEF FileReadyInv, FileInv
  <2> QED BY <1>4, <1>5, <2>1, <2>2 DEF Mkdir
<1>6. CASE Get
  <2>1. ReadyVerified'
    BY <1>3, <1>6 DEF Get
  <2>2. CASE Goto("copy")
    BY <1>0, <1>2, <2>1, <2>2 DEF FileReadyInv, FileInv
  <2> QED BY <1>4, <1>6, <2>1, <2>2 DEF Get
<1>7. CASE Copy
  <2>1. ReadyVerified'
    BY <1>3, <1>7 DEF Copy
  <2>2. ASSUME NEW c \in Contents,
               tmp' = [tmp EXCEPT ![w.filePath] = [data |-> c, synced |-> FALSE]],
               w' = [w EXCEPT !.pc = "sync", !.sum = Digest(UseSHA256(HeldSpec), c)]
        PROVE  FileReadyInv'
    <3>1. tmp'[w.filePath].data = c
      BY <1>0, <2>2 DEF TypeOK
    <3>2. /\ w'.pc = "sync" /\ w'.key = w.key /\ w'.filePath = w.filePath
          /\ HeldSpec' = HeldSpec /\ w'.sum = Digest(UseSHA256(HeldSpec), c)
      BY <1>0, <2>2 DEF Reconciling, HeldSpec
    <3>3. w'.sum = Digest(UseSHA256(HeldSpec'), tmp'[w'.filePath].data)
      BY <3>1, <3>2
    <3> QED BY <1>0, <2>1, <3>2, <3>3 DEF FileReadyInv, FileInv
  <2> QED BY <1>4, <1>7, <2>1, <2>2 DEF Copy
<1>8. CASE SyncTmp
  <2>1. ReadyVerified'
    BY <1>3, <1>8 DEF SyncTmp
  <2>2. CASE /\ w.sum = ExpectedHash(HeldSpec)
             /\ Goto("rename")
             /\ tmp' = [tmp EXCEPT ![w.filePath].synced = TRUE]
    <3>1. /\ w.sum = Digest(UseSHA256(HeldSpec), tmp[w.filePath].data)
          /\ tmp[w.filePath] \in TmpFile
      BY <1>8 DEF SyncTmp, FileReadyInv, FileInv, TypeInv, TmpInv
    <3>2. tmp'[w.filePath].data = tmp[w.filePath].data
      BY <1>0, <2>2, <3>1 DEF TypeOK, TmpFile
    <3>3. Matches(tmp'[w.filePath].data, HeldSpec)
      BY <2>2, <3>1, <3>2 DEF Matches
    <3> QED BY <1>0, <1>2, <2>1, <2>2, <3>3 DEF FileReadyInv, FileInv
  <2> QED BY <1>4, <1>8, <2>1, <2>2 DEF SyncTmp
<1>9. CASE Rename
  <2>1. CASE Goto("setFailure") /\ UNCHANGED diskVars
    BY <1>3, <1>4, <2>1 DEF diskVars
  <2>2. CASE /\ disk' = [disk EXCEPT ![w.filePath] = tmp[w.filePath].data]
             /\ disturbed' = disturbed \ {w.filePath}
             /\ Goto("syncDir")
    <3>1. /\ disk'[w.filePath] = tmp[w.filePath].data
          /\ \A p \in Paths : p # w.filePath =>
                disk'[p] = disk[p] /\ (p \in disturbed => p \in disturbed')
      BY <1>0, <2>2 DEF TypeOK
    <3>2. Matches(disk'[w.filePath], HeldSpec)
      BY <1>9, <3>1 DEF Rename, FileReadyInv, FileInv
    <3>3. ReadyVerified'
      BY <1>0, <1>1, <3>1, <3>2, ReadyOwnFile
    <3> QED BY <1>0, <1>2, <2>2, <3>2, <3>3 DEF FileReadyInv, FileInv
  <2> QED BY <1>9, <2>1, <2>2 DEF Rename
<1>10. CASE SyncDir
  <2>1. ReadyVerified' /\ disk' = disk /\ disturbed' = disturbed
    BY <1>3, <1>10 DEF SyncDir
  <2>2. CASE Goto("setReady")
    <3>1. w.filePath \in disturbed \/ Matches(disk[w.filePath], HeldSpec)
      BY <1>10 DEF SyncDir, FileReadyInv, FileInv
    <3> QED BY <1>0, <1>2, <2>1, <2>2, <3>1 DEF FileReadyInv, FileInv
  <2> QED BY <1>4, <1>10, <2>1, <2>2 DEF SyncDir
<1> QED BY <1>5, <1>6, <1>7, <1>8, <1>9, <1>10

\* A write to one object: the others keep their files, and the object is
\* not Ready, or Ready for a file that is verified or disturbed.
LEMMA ReadyPublish ==
    ASSUME TypeOK, ReadyVerified, NEW k \in Artifacts,
           NEW obj \in BootArtifactObject \cup {Absent}, Publish(k, obj),
           \A a \in Artifacts : a # k => readyGen'[a] = readyGen[a],
           UNCHANGED <<disk, disturbed>>,
           \/ obj = Absent
           \/ obj.phase # "Ready"
           \/ obj.gen # readyGen'[k]
           \/ FilePath(k, obj.spec) \in disturbed
           \/ Matches(disk[FilePath(k, obj.spec)], obj.spec)
    PROVE  ReadyVerified'
<1>1. api'[k].obj = obj /\ \A a \in Artifacts : a # k => api'[a] = api[a]
  BY DEF Publish, TypeOK
<1> SUFFICES ASSUME NEW a \in Artifacts, ReadyNow(a)'
             PROVE  Matches(disk[FilePath(a, api'[a].obj.spec)], api'[a].obj.spec)
  BY DEF ReadyVerified
<1>2. CASE a = k
  BY <1>1, <1>2 DEF ReadyNow
<1>3. CASE a # k
  BY <1>1, <1>3 DEF ReadyNow, ReadyVerified
<1> QED BY <1>2, <1>3

LEMMA FileReport ==
    ASSUME TypeInv, VersionInv, StableFilename, FileReadyInv,
           SetDownloading \/ Refetch \/ SetReady \/ SetFailure
    PROVE  FileReadyInv'
<1>0. TypeOK /\ w \in Reconciling /\ w.pc # "idle" /\ w.key \in Artifacts
      /\ w.artifact.obj \in BootArtifactObject
      /\ w.filePath = FilePath(w.key, HeldSpec)
  BY HeldType DEF TypeInv, SetDownloading, Refetch, SetReady, SetFailure, Reconciling,
     FileReadyInv, FileInv
<1>1. UNCHANGED <<disk, disturbed>>
  BY DEF SetDownloading, Refetch, SetReady, SetFailure
<1>2. ASSUME NEW obj \in BootArtifactObject, UpdateOK(obj) \/ UpdateErr(obj),
             \/ obj.phase # "Ready"
             \/ FilePath(w.key, obj.spec) \in disturbed
             \/ Matches(disk[FilePath(w.key, obj.spec)], obj.spec)
      PROVE  ReadyVerified'
  <2>1. CASE UNCHANGED <<api, readyGen>>
    BY <1>1, <2>1, ReadyFrame DEF FileReadyInv
  <2>2. CASE Accept(obj)
    <3>1. \A a \in Artifacts : a # w.key => readyGen'[a] = readyGen[a]
      BY <1>0, <2>2 DEF Accept, TypeOK
    <3> QED BY <1>0, <1>1, <1>2, <2>2, <3>1, ReadyPublish DEF Accept, FileReadyInv
  <2> QED BY <1>2, <2>1, <2>2 DEF UpdateOK, UpdateErr
<1>3. w' = Idle /\ ReadyVerified' => FileReadyInv'
  BY DEF FileReadyInv, FileInv, Idle
<1>4. CASE SetDownloading
  <2> DEFINE o == [w.artifact.obj EXCEPT !.phase = "Downloading"]
  <2>1. o \in BootArtifactObject /\ o.phase # "Ready" /\ o.spec = HeldSpec /\ o # Absent
    BY <1>0, ConstantsAssumption DEF BootArtifactObject, Phases, HeldSpec
  <2>2. \/ UpdateOK(o) /\ w' = [w EXCEPT !.pc = "refetch", !.artifact = api'[w.key]]
        \/ UpdateErr(o) /\ w' = Idle
    BY <1>4 DEF SetDownloading, ReturnErr, Return
  <2> HIDE DEF o
  <2>3. ReadyVerified'
    BY <1>2, <2>1, <2>2
  <2>4. CASE UpdateOK(o) /\ w' = [w EXCEPT !.pc = "refetch", !.artifact = api'[w.key]]
    <3>1. api'[w.key].obj = o
      BY <1>0, <2>4 DEF UpdateOK, Accept, Publish, TypeOK
    <3>2. w'.pc = "refetch" /\ w'.key = w.key /\ w'.filePath = w.filePath
          /\ w'.artifact = api'[w.key]
      BY <1>0, <2>4 DEF Reconciling
    <3>3. HeldSpec' = HeldSpec
      BY <2>1, <3>1, <3>2 DEF HeldSpec
    <3> QED BY <1>0, <2>3, <3>2, <3>3 DEF FileReadyInv, FileInv
  <2> QED BY <1>3, <2>2, <2>3, <2>4
<1>5. CASE Refetch
  <2>1. ReadyVerified'
    BY <1>1, <1>5, ReadyFrame DEF Refetch, apiVars, FileReadyInv
  <2>2. CASE cache[w.key].obj = Absent
    BY <1>3, <1>5, <2>1, <2>2 DEF Refetch, ReturnErr, Return
  <2>3. CASE cache[w.key].obj # Absent
    <3>1. w'.pc = "mkdir" /\ w'.key = w.key /\ w'.filePath = w.filePath
          /\ HeldSpec' = cache[w.key].obj.spec
      BY <1>0, <1>5, <2>3 DEF Refetch, Reconciling, HeldSpec
    <3>2. HeldSpec \in Specs /\ cache[w.key].obj.spec \in Specs
      BY <1>0, <2>3 DEF TypeOK, Version, BootArtifactObject, HeldSpec
    <3>3. FilePath(w.key, cache[w.key].obj.spec) = FilePath(w.key, HeldSpec)
      BY <3>2 DEF StableFilename, FilePath
    <3>4. w'.filePath = FilePath(w'.key, HeldSpec')
      BY <1>0, <3>1, <3>3
    <3> QED BY <2>1, <3>1, <3>4 DEF FileReadyInv, FileInv
  <2> QED BY <2>2, <2>3
<1>6. CASE SetReady
  <2> DEFINE o == [w.artifact.obj EXCEPT !.phase = "Ready", !.failureCount = 0]
  <2>1. o \in BootArtifactObject /\ o.spec = HeldSpec
    BY <1>0 DEF BootArtifactObject, Phases, HeldSpec
  <2>2. (UpdateOK(o) \/ UpdateErr(o)) /\ w' = Idle
    BY <1>6 DEF SetReady, ReturnNil, ReturnErr, Return
  <2>3. w.filePath \in disturbed \/ Matches(disk[w.filePath], HeldSpec)
    BY <1>6 DEF SetReady, FileReadyInv, FileInv
  <2> HIDE DEF o
  <2> QED BY <1>0, <1>2, <1>3, <2>1, <2>2, <2>3
<1>7. CASE SetFailure
  <2> DEFINE o == [w.artifact.obj EXCEPT !.phase = "Error", !.failureCount = @ + 1]
  <2>0. w.artifact.obj.failureCount + 1 \in Nat
    BY <1>0 DEF BootArtifactObject
  <2>1. o \in BootArtifactObject /\ o.phase # "Ready"
    BY <1>0, <2>0 DEF BootArtifactObject, Phases
  <2>2. (UpdateOK(o) \/ UpdateErr(o)) /\ w' = Idle
    BY <1>7 DEF SetFailure, ReturnRequeueAfter, ReturnErr, Return
  <2> HIDE DEF o
  <2> QED BY <1>2, <1>3, <2>1, <2>2
<1> QED BY <1>4, <1>5, <1>6, <1>7

\* A user's request makes the copy the worker holds of that object stale,
\* and a new spec has a generation that was never reported Ready.
LEMMA FileSubmit ==
    ASSUME TypeInv, VersionInv, FileReadyInv, NEW a \in Artifacts,
           NEW obj \in BootArtifactObject \cup {Absent}, Submit(a, obj), obj # api[a].obj,
           obj # Absent => obj.gen = api[a].rv + 1
    PROVE  FileReadyInv'
<1>0. TypeOK /\ Publish(a, obj) /\ UNCHANGED <<w, disk, tmp, disturbed, readyGen>>
  BY DEF TypeInv, Submit, diskVars
<1>1. api[a].rv \in Nat /\ readyGen[a] \in Nat /\ readyGen[a] <= api[a].rv
  BY <1>0 DEF TypeOK, Version, VersionInv, LogInv
<1>2. /\ api'[a].rv = api[a].rv + 1
      /\ \A b \in Artifacts : b # a => api'[b] = api[b]
  BY <1>0 DEF Publish, TypeOK
<1>3. ReadyVerified'
  BY <1>0, <1>1, ReadyPublish DEF FileReadyInv
<1>4. ASSUME w.pc = "setDownloading", Current'
      PROVE  ~ReadyNow(w.key)'
  <2>1. w.key \in Artifacts /\ w.artifact.rv \in Nat
    BY <1>0, <1>4, HeldType DEF Reconciling
  <2>2. w.artifact.rv <= api[w.key].rv
    BY <1>4 DEF VersionInv, HeldInv, KnownIn
  <2>3. w.key # a
    BY <1>0, <1>1, <1>2, <1>4, <2>1, <2>2 DEF Current
  <2> QED BY <1>0, <1>2, <1>4, <2>1, <2>3 DEF Current, ReadyNow, FileReadyInv, FileInv
<1> QED BY <1>0, <1>3, <1>4 DEF FileReadyInv, FileInv, HeldSpec

LEMMA FileStep ==
    ASSUME OwnNames, StableFilename
    PROVE  TypeInv /\ VersionInv /\ FileReadyInv /\ [Next]_vars => FileReadyInv'
<1> SUFFICES ASSUME TypeInv, VersionInv, FileReadyInv, [Next]_vars
             PROVE  FileReadyInv'
  OBVIOUS
<1> USE ConstantsAssumption
<1>0. TypeOK
  BY DEF TypeInv
<1>1. ASSUME NEW a \in Artifacts, Reconcile(a)
      PROVE  FileReadyInv'
  <2>1. ReadyVerified'
    BY <1>1, ReadyFrame DEF Reconcile, apiVars, diskVars, FileReadyInv
  <2>2. CASE cache[a].obj = Absent
    BY <1>1, <2>1, <2>2 DEF Reconcile, FileReadyInv, FileInv
  <2>3. CASE cache[a].obj # Absent
    <3>1. w'.pc = "stat" /\ w'.filePath = FilePath(w'.key, HeldSpec')
      BY <1>1, <2>3 DEF Reconcile, HeldSpec
    <3> QED BY <2>1, <3>1 DEF FileReadyInv, FileInv
  <2> QED BY <2>2, <2>3
<1>2. ASSUME UNCHANGED <<api, readyGen, w, disk, tmp, disturbed>>
      PROVE  FileReadyInv'
  BY <1>2, ReadyFrame DEF FileReadyInv, FileInv, HeldSpec, Current, ReadyNow
<1>3. ASSUME NEW a \in Artifacts, Deliver(a) \/ Elapse(a)
      PROVE  FileReadyInv'
  BY <1>2, <1>3 DEF Deliver, Elapse, apiVars, diskVars
<1>4. ASSUME NEW a \in Artifacts, Delete(a)
      PROVE  FileReadyInv'
  BY <1>4, FileSubmit DEF Delete
<1>5. ASSUME NEW a \in Artifacts, NEW s \in Specs, Create(a, s)
      PROVE  FileReadyInv'
  <2> DEFINE o == [spec |-> s, gen |-> api[a].rv + 1, phase |-> "", failureCount |-> 0]
  <2>0. api[a].rv + 1 \in Nat
    BY <1>0 DEF TypeOK, Version
  <2>1. o \in BootArtifactObject /\ o.gen = api[a].rv + 1 /\ Submit(a, o)
    BY <1>5, <2>0 DEF BootArtifactObject, Phases, Create
  <2>2. o # api[a].obj
    BY <1>5, <2>1 DEF Create
  <2> HIDE DEF o
  <2> QED BY <2>1, <2>2, FileSubmit
<1>6. ASSUME NEW a \in Artifacts, NEW s \in Specs, Edit(a, s)
      PROVE  FileReadyInv'
  <2> DEFINE g == api[a].rv + 1
             o == [api[a].obj EXCEPT !.spec = s, !.gen = g]
  <2>0. g \in Nat /\ api[a].obj \in BootArtifactObject
    BY <1>0, <1>6 DEF Edit, TypeOK, Version
  <2>1. Submit(a, o) /\ s # api[a].obj.spec
    BY <1>6 DEF Edit
  <2> HIDE DEF g
  <2>2. o \in BootArtifactObject /\ o.gen = g /\ o.spec = s
    BY <2>0 DEF BootArtifactObject
  <2> HIDE DEF o
  <2> QED BY <2>1, <2>2, FileSubmit DEF g
<1>7. ASSUME NEW p \in Exposed, Disturb(p)
      PROVE  FileReadyInv'
  <2>1. /\ UNCHANGED <<api, readyGen, w, tmp>>
        /\ disturbed' = disturbed \cup {p} /\ p \in Paths
        /\ \A q \in Paths : q # p => disk'[q] = disk[q]
    BY <1>0, <1>7 DEF Disturb, apiVars, TypeOK
  <2>2. w.pc # "idle" => w.filePath \in Paths
    BY <1>0, HeldType DEF Reconciling
  <2>3. FileInv'
    BY <2>1, <2>2 DEF FileReadyInv, FileInv, HeldSpec, Current, ReadyNow
  <2>4. \A a \in Artifacts : api[a].obj # Absent => FilePath(a, api[a].obj.spec) \in Paths
    BY <1>0, PathType DEF TypeOK, Version, BootArtifactObject
  <2>5. ReadyVerified'
    BY <2>1, <2>4 DEF FileReadyInv, ReadyVerified, ReadyNow
  <2> QED BY <2>3, <2>5 DEF FileReadyInv
<1>8. CASE Crash
  <2>1. ReadyVerified' /\ w' = Idle
    BY <1>8, ReadyFrame DEF Crash, Restart, diskVars, FileReadyInv
  <2> QED BY <2>1 DEF FileReadyInv, FileInv, Idle
<1>9. CASE PowerLoss
  <2>1. /\ UNCHANGED <<api, readyGen>> /\ w' = Idle
        /\ \A p \in Paths : p \in disturbed' \/ (disk'[p] = disk[p] /\ p \notin disturbed)
    BY <1>9 DEF PowerLoss, Restart
  <2>2. \A a \in Artifacts : api[a].obj # Absent => FilePath(a, api[a].obj.spec) \in Paths
    BY <1>0, PathType DEF TypeOK, Version, BootArtifactObject
  <2>3. ReadyVerified'
    BY <2>1, <2>2 DEF FileReadyInv, ReadyVerified, ReadyNow
  <2> QED BY <2>1, <2>3 DEF FileReadyInv, FileInv, Idle
<1>10. CASE UNCHANGED vars
  BY <1>2, <1>10 DEF vars
<1> QED
  BY <1>1, <1>3, <1>4, <1>5, <1>6, <1>7, <1>8, <1>9, <1>10, FileCheck, FileDownload, FileReport
  DEF Next, WorkerStep

\* An artifact reported Ready for its present spec has the file that spec
\* asks for, for any number of artifacts, specs, edits, faults and crashes,
\* provided that no two artifacts share a name and that edits keep the file
\* name of the URL (verifyExisting, download and setReady under a stale cache).
THEOREM ReadyVerifiedTheorem ==
    ASSUME OwnNames, StableFilename
    PROVE  Spec => []ReadyVerified
<1>1. Init => FileReadyInv
  BY ConstantsAssumption DEF Init, FileReadyInv, FileInv, ReadyVerified, ReadyNow, Idle
<1>2. TypeInv /\ VersionInv /\ FileReadyInv /\ [Next]_vars => FileReadyInv'
  BY FileStep
<1>3. Spec => [](TypeInv /\ VersionInv /\ FileReadyInv)
  BY <1>1, <1>2, TypeInit, TypeStep, VersionInit, VersionStep, PTL DEF Spec
<1>4. FileReadyInv => ReadyVerified
  BY DEF FileReadyInv
<1> QED BY <1>3, <1>4, PTL

\* Nor is such an artifact taken back to Downloading by a reconcile that
\* works from a stale copy (Status().Update in download).
THEOREM NoNeedlessDownloadTheorem ==
    ASSUME OwnNames, StableFilename
    PROVE  Spec => NoNeedlessDownload
<1> DEFINE Kept == \A a \in Artifacts :
        ReadyNow(a) /\ api'[a].obj # Absent =>
            \/ api'[a].obj.gen # api[a].obj.gen
            \/ api'[a].obj.phase # "Downloading"
<1>1. ASSUME TypeInv, VersionInv, FileReadyInv, [Next]_vars
      PROVE  Kept
  <2> SUFFICES ASSUME NEW a \in Artifacts, ReadyNow(a), api'[a].obj # Absent,
                      api'[a].obj.gen = api[a].obj.gen
               PROVE  api'[a].obj.phase # "Downloading"
    OBVIOUS
  <2>0. TypeOK /\ api[a].obj # Absent /\ api[a].obj.phase = "Ready"
        /\ api[a].obj.gen <= api[a].rv /\ api[a].obj.gen \in Nat /\ api[a].rv \in Nat
    BY <1>1 DEF TypeInv, ReadyNow, VersionInv, LogInv, KnownIn, TypeOK, Version,
       BootArtifactObject
  <2>1. CASE api'[a] = api[a]
    BY <2>0, <2>1
  <2>2. ASSUME NEW b \in Artifacts, NEW o, Submit(b, o),
               o # Absent => o.gen = api[b].rv + 1
        PROVE  api'[a].obj.phase # "Downloading"
    <3>1. (b = a /\ api'[a].obj = o) \/ api'[a] = api[a]
      BY <2>0, <2>2 DEF Submit, Publish, TypeOK
    <3> QED BY <2>0, <2>1, <2>2, <3>1
  <2>3. ASSUME w.pc # "idle", NEW o, UpdateOK(o) \/ UpdateErr(o)
        PROVE  api'[a] = api[a] \/ (a = w.key /\ Current /\ api'[a].obj = o)
    BY <2>0, <2>3, HeldType DEF UpdateOK, UpdateErr, Accept, Publish, TypeOK, Reconciling
  <2>4. CASE SetDownloading
    <3>1. ~(a = w.key /\ Current)
      BY <1>1, <2>4 DEF SetDownloading, FileReadyInv, FileInv
    <3> QED BY <2>1, <2>3, <2>4, <3>1 DEF SetDownloading
  <2>5. CASE SetReady \/ SetFailure
    <3>1. w.pc # "idle" /\ w.artifact.obj \in BootArtifactObject
      BY <2>0, <2>5, HeldType DEF SetReady, SetFailure, Reconciling
    <3>2. PICK o : o.phase # "Downloading" /\ (UpdateOK(o) \/ UpdateErr(o))
      <4>1. [w.artifact.obj EXCEPT !.phase = "Ready", !.failureCount = 0].phase # "Downloading"
        BY <3>1 DEF BootArtifactObject
      <4>2. [w.artifact.obj EXCEPT !.phase = "Error", !.failureCount = @ + 1].phase # "Downloading"
        BY <3>1 DEF BootArtifactObject
      <4> QED BY <2>5, <4>1, <4>2 DEF SetReady, SetFailure
    <3> QED BY <2>1, <2>3, <3>1, <3>2
  <2>6. ASSUME NEW b \in Artifacts, Delete(b)
        PROVE  api'[a].obj.phase # "Downloading"
    BY <2>2, <2>6 DEF Delete
  <2>7. ASSUME NEW b \in Artifacts, NEW s \in Specs, Create(b, s)
        PROVE  api'[a].obj.phase # "Downloading"
    BY <2>2, <2>7 DEF Create
  <2>8. ASSUME NEW b \in Artifacts, NEW s \in Specs, Edit(b, s)
        PROVE  api'[a].obj.phase # "Downloading"
    <3> DEFINE o == [api[b].obj EXCEPT !.spec = s, !.gen = api[b].rv + 1]
    <3>1. api[b].obj \in BootArtifactObject /\ Submit(b, o)
      BY <2>0, <2>8 DEF Edit, TypeOK, Version
    <3>2. o.gen = api[b].rv + 1
      BY <3>1 DEF BootArtifactObject
    <3> HIDE DEF o
    <3> QED BY <2>2, <3>1, <3>2
  <2>9. ASSUME NEW b \in Artifacts, Reconcile(b) \/ Deliver(b) \/ Elapse(b)
        PROVE  UNCHANGED api
    BY <2>9 DEF Reconcile, Deliver, Elapse, apiVars
  <2>10. ASSUME NEW p \in Exposed, Disturb(p)
         PROVE  UNCHANGED api
    BY <2>10 DEF Disturb, apiVars
  <2>11. Crash \/ PowerLoss \/ UNCHANGED vars => UNCHANGED api
    BY DEF Crash, PowerLoss, Restart, vars
  <2>12. WorkerStep /\ ~SetDownloading /\ ~SetReady /\ ~SetFailure => UNCHANGED api
    BY DEF WorkerStep, Stat, VerifyGone, VerifyUnreadable, VerifyMismatch, VerifyMatch, Refetch,
       Mkdir, Get, Copy, SyncTmp, Rename, SyncDir, apiVars
  <2> QED
    BY <1>1, <2>1, <2>4, <2>5, <2>6, <2>7, <2>8, <2>9, <2>10, <2>11, <2>12 DEF Next
<1>2. Init => FileReadyInv
  BY ConstantsAssumption DEF Init, FileReadyInv, FileInv, ReadyVerified, ReadyNow, Idle
<1>3. TypeInv /\ VersionInv /\ FileReadyInv /\ [Next]_vars => FileReadyInv'
  BY FileStep
<1>4. TypeInv /\ VersionInv /\ FileReadyInv /\ [Next]_vars => [Kept]_vars
  BY <1>1
<1> QED
  BY <1>2, <1>3, <1>4, TypeInit, TypeStep, VersionInit, VersionStep, PTL
  DEF Spec, NoNeedlessDownload
=============================================================================
