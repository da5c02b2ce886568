------------------------ MODULE BootConfigRestProofs ------------------------
(***************************************************************************)
(* What module BootConfig guarantees of a directory once everything has    *)
(* come to rest, in both modes: the informer's cache is what the API       *)
(* server has, and a concatenation that was found or made up to date is    *)
(* newer than the sources it would be made from. The second decides that   *)
(* the next reconcile leaves it alone.                                     *)
(***************************************************************************)
EXTENDS BootConfigProofs

-----------------------------------------------------------------------------
(* The invariant *)

\* The newest version is the last to be delivered.
Caught(c) == IF events[c] = {} THEN cache[c] = api[c] ELSE api[c] \in events[c]
ArtifactCaught(a) ==
    /\ IF artEvents[a] = {} THEN artCache[a] = arts[a] ELSE arts[a] \in artEvents[a]
    /\ \A u \in artEvents[a] : u.rv <= arts[a].rv /\ (u.rv = arts[a].rv => u = arts[a])
CaughtInv == (\A c \in Configs : Caught(c)) /\ \A a \in Artifacts : ArtifactCaught(a)

\* No download is under way for an artifact that is Ready.
BusyInv == job.pc \in {"get", "write", "rename", "finish"} => arts[job.key].phase # "Ready"

\* No file is newer than the last time stamp.
Stamped(x) == x # NoFile => x.mtime <= now
StampedInv ==
    /\ job.pc # "idle" => Stamped(job.file)
    /\ \A a \in Artifacts, f \in Files : Stamped(file[a][f])

\* What the worker read is still so as long as its key is not queued again.
Held ==
    /\ w.bc = cache[w.key]
    /\ w.pc \in DOMAIN Doing => \A a \in Refs(spec) : w.name[a] = Filename[a][artCache[a].rev]
HeldInv == w.key \in Configs /\ queue[w.key] = "idle" => Held

\* The file of an artifact that is Ready with the right file is older than t.
Older(a, t) == arts[a].phase = "Ready" /\ Matching(a) => Present(a).mtime < t

NoEvents(s) == \A a \in Refs(s) : artEvents[a] = {}

\* The concatenation in directory d that the next reconcile finds outlasts it.
Outlasts(d, s) ==
    d.initrd \in Directory =>
        LET e == d.initrd.entry[Path(s.initrd)]
        IN  e \in Combined => Older(s.initrd, e.mtime) /\ Older(s.firmware, e.mtime)

WithFirmware(s) == s.mode = "netboot" /\ s.firmware # None

CombiningInv ==
    w.key \in Configs /\ WithFirmware(spec) /\ queue[w.key] = "idle" /\ NoEvents(spec) =>
        /\ w.pc = "copyFirmware" => Older(spec.initrd, now + 1)
        /\ w.pc = "write" => Older(spec.initrd, now + 1) /\ Older(spec.firmware, now + 1)
        /\ w.pc = "install" => Older(spec.initrd, w.stamp) /\ Older(spec.firmware, w.stamp)
        /\ w.pc = "setReady" => Outlasts(dir, spec)

Resting(c) == ReadyNow(c) /\ events[c] = {} /\ NoEvents(api[c].obj.spec)

Rested(c) ==
    Resting(c) /\ WithFirmware(api[c].obj.spec) => Outlasts(boot[c], api[c].obj.spec)
RestedInv == \A c \in Configs : Rested(c)

\* ensureFileSymlink leaves one link of a name.
OneLink(c) == \A l, n \in boot[c].iso : l.to[2] = n.to[2] => l = n
LinksInv == \A c \in Configs : OneLink(c)

FreshInv == CaughtInv /\ BusyInv /\ StampedInv /\ HeldInv /\ CombiningInv /\ RestedInv

-----------------------------------------------------------------------------
(* The caches *)

LEMMA CaughtInit == Init => CaughtInv
BY DEF Init, CaughtInv, Caught, ArtifactCaught

LEMMA CaughtPublished ==
    ASSUME TypeOK, CaughtInv, NEW c \in Configs, NEW obj, Publish(c, obj), UNCHANGED cache
    PROVE  \A d \in Configs : Caught(d)'
<1>1. PICK v : v = [rv |-> api[c].rv + 1, obj |-> obj]
  OBVIOUS
<1>2. api' = [api EXCEPT ![c] = v] /\ events' = [events EXCEPT ![c] = @ \cup {v}]
  BY <1>1 DEF Publish
<1>3. api'[c] = v /\ events'[c] = events[c] \cup {v}
  BY <1>2 DEF TypeOK
<1>4. \A d \in Configs : d # c => api'[d] = api[d] /\ events'[d] = events[d]
  BY <1>2 DEF TypeOK
<1> QED BY <1>3, <1>4 DEF Caught, CaughtInv

LEMMA CaughtDelivered ==
    ASSUME TypeOK, VersionsInv, CaughtInv, NEW c \in Configs, Deliver(c)
    PROVE  \A d \in Configs : Caught(d)'
<1>1. PICK v \in events[c] :
        /\ Oldest(events[c], v)
        /\ cache' = [cache EXCEPT ![c] = v] /\ events' = [events EXCEPT ![c] = @ \ {v}]
  BY DEF Deliver
<1>2. UNCHANGED api
  BY DEF Deliver
<1>3. ASSUME NEW d \in Configs, d # c
      PROVE  Caught(d)'
  <2>1. cache'[d] = cache[d] /\ events'[d] = events[d]
    BY <1>1, <1>3 DEF TypeOK
  <2> QED BY <1>2, <2>1 DEF Caught, CaughtInv
<1>4. Caught(c)'
  <2>1. cache'[c] = v /\ events'[c] = events[c] \ {v}
    BY <1>1 DEF TypeOK
  <2>2. api[c] \in events[c]
    BY DEF Caught, CaughtInv
  <2>3. ASSUME v = api[c], NEW u \in events[c]
        PROVE  u = v
    <3>1. u.rv <= v.rv /\ v.rv <= u.rv /\ u.rv \in Nat /\ v.rv \in Nat
      <4>1. VersionsOf(c) /\ u \in Known(c)
        BY DEF VersionsInv, Known
      <4>2. u \in Version /\ v \in Version
        BY DEF TypeOK
      <4> QED BY <1>1, <2>3, <4>1, <4>2 DEF VersionsOf, Oldest, Version
    <3>2. Follows(u, v)
      BY <2>3, <3>1 DEF VersionsInv, VersionsOf, Known, Consistent
    <3> QED BY <3>1, <3>2 DEF Follows
  <2> QED BY <1>2, <2>1, <2>2, <2>3 DEF Caught
<1> QED BY <1>3, <1>4

\* The same for artifacts.
LEMMA ArtifactPublished ==
    ASSUME TypeOK, NEW a \in Artifacts, ArtifactCaught(a), NEW rev, NEW phase,
           PublishArtifact(a, rev, phase), UNCHANGED artCache
    PROVE  /\ ArtifactCaught(a)' /\ artEvents'[a] # {}
           /\ \A b \in Artifacts : b # a => arts'[b] = arts[b] /\ artEvents'[b] = artEvents[b]
<1>1. PICK v : v = [rv |-> arts[a].rv + 1, rev |-> rev, phase |-> phase]
  OBVIOUS
<1>2. arts' = [arts EXCEPT ![a] = v] /\ artEvents' = [artEvents EXCEPT ![a] = @ \cup {v}]
  BY <1>1 DEF PublishArtifact
<1>3. /\ arts'[a] = v /\ artEvents'[a] = artEvents[a] \cup {v}
      /\ \A b \in Artifacts : b # a => arts'[b] = arts[b] /\ artEvents'[b] = artEvents[b]
  BY <1>2 DEF TypeOK
<1>4. arts[a].rv \in Nat /\ v.rv = arts[a].rv + 1
  BY <1>1 DEF TypeOK, ArtifactVersion
<1>5. \A u \in artEvents[a] : u.rv \in Nat /\ u.rv <= arts[a].rv
  <2>1. \A u \in artEvents[a] : u \in ArtifactVersion
    BY DEF TypeOK
  <2> QED BY <2>1 DEF ArtifactCaught, ArtifactVersion
<1> QED BY <1>3, <1>4, <1>5 DEF ArtifactCaught

LEMMA ArtifactDelivered ==
    ASSUME TypeOK, NEW a \in Artifacts, ArtifactCaught(a), DeliverArtifact(a)
    PROVE  /\ ArtifactCaught(a)'
           /\ \A b \in Artifacts : b # a => artEvents'[b] = artEvents[b] /\ artCache'[b] = artCache[b]
<1>1. PICK v \in artEvents[a] :
        /\ Oldest(artEvents[a], v)
        /\ artCache' = [artCache EXCEPT ![a] = v] /\ artEvents' = [artEvents EXCEPT ![a] = @ \ {v}]
  BY DEF DeliverArtifact
<1>2. UNCHANGED arts
  BY DEF DeliverArtifact
<1>3. artCache'[a] = v /\ artEvents'[a] = artEvents[a] \ {v}
  BY <1>1 DEF TypeOK
<1>4. arts[a] \in artEvents[a]
  BY DEF ArtifactCaught
<1>5. ASSUME v = arts[a], NEW u \in artEvents[a]
      PROVE  u = v
  <2>1. u \in ArtifactVersion /\ v \in ArtifactVersion
    BY DEF TypeOK
  <2>2. u.rv \in Nat /\ v.rv \in Nat
    BY <2>1 DEF ArtifactVersion
  <2> QED BY <1>1, <1>5, <2>2 DEF ArtifactCaught, Oldest
<1>6. ArtifactCaught(a)'
  BY <1>2, <1>3, <1>4, <1>5 DEF ArtifactCaught
<1>7. \A b \in Artifacts : b # a => artEvents'[b] = artEvents[b] /\ artCache'[b] = artCache[b]
  BY <1>1 DEF TypeOK
<1> QED BY <1>6, <1>7

\* The steps of artifacts: their controller's and their users'.
ChangeArtifact ==
    \/ ArtifactAction
    \/ \E a \in Artifacts, r \in Revisions : \E phase \in {"none", "", arts[a].phase} :
            SubmitArtifact(a, r, phase)

LEMMA ChangeEffect ==
    ASSUME TypeOK, ChangeArtifact
    PROVE  /\ UNCHANGED <<configVars, cache, artCache, queue, w, boot, crashes>>
           /\ \/ UNCHANGED artVars
              \/ \E a \in Artifacts : \E rev, phase : PublishArtifact(a, rev, phase)
<1>1. CASE ArtifactAction
  <2>1. UNCHANGED artifactStepVars
    BY <1>1, ArtifactEffect
  <2>2. UNCHANGED artVars \/ \E a \in Artifacts : \E rev, phase : PublishArtifact(a, rev, phase)
    BY <1>1, ArtifactEffect DEF SetPhase
  <2> QED BY <2>1, <2>2 DEF artifactStepVars
<1>2. ASSUME NEW a \in Artifacts, NEW r, NEW phase, SubmitArtifact(a, r, phase)
      PROVE  /\ UNCHANGED <<configVars, cache, artCache, queue, w, boot, crashes>>
             /\ PublishArtifact(a, r, phase)
  BY <1>2 DEF SubmitArtifact
<1> QED BY <1>1, <1>2 DEF ChangeArtifact

\* The steps that touch neither versions nor caches.
LEMMA FinishVersions ==
    ASSUME NEW step, NEW phase, Finish(step, phase)
    PROVE  /\ UNCHANGED <<cache, artVars, artCache, fileVars, boot, now, edits, crashes>>
           /\ w.pc = step /\ w' = Idle
           /\ \/ UNCHANGED <<api, events>>
              \/ \E obj : Publish(w.key, obj)
BY DEF Finish, UpdateErr, Accept, configVars

LEMMA NextCases ==
    ASSUME [Next]_vars
    PROVE  \/ AssemblingStep
           \/ SetReady \/ SetPending \/ SetError
           \/ \E c \in Configs : Reconcile(c) \/ Deliver(c) \/ Elapse(c)
           \/ \E c \in Configs : Delete(c) \/ \E s \in Specs : Create(c, s) \/ Edit(c, s)
           \/ ChangeArtifact \/ \E a \in Artifacts : DeliverArtifact(a)
           \/ Restart /\ (UNCHANGED <<boot, file>> \/ PowerLoss)
           \/ UNCHANGED vars
<1>1. Editable \subseteq Artifacts
  BY ConstantsAssumption
<1> QED BY <1>1 DEF Next, WorkerStep, AssemblingStep, ChangeArtifact, ArtifactAction, Crash, PowerLoss

LEMMA CaughtStep == TypeInv /\ VersionsInv /\ CaughtInv /\ [Next]_vars => CaughtInv'
<1> SUFFICES ASSUME TypeInv, VersionsInv, CaughtInv, [Next]_vars
             PROVE  CaughtInv'
  OBVIOUS
<1>0. TypeOK
  BY DEF TypeInv
<1>1. (\A d \in Configs : Caught(d)) /\ \A b \in Artifacts : ArtifactCaught(b)
  BY DEF CaughtInv
<1>2. UNCHANGED <<api, events, cache>> => \A d \in Configs : Caught(d)'
  BY <1>1 DEF Caught
<1>3. UNCHANGED <<artVars, artCache>> => \A b \in Artifacts : ArtifactCaught(b)'
  BY <1>1 DEF ArtifactCaught, artVars
<1>4. CASE AssemblingStep
  BY <1>2, <1>3, <1>4, AssemblingFrame DEF CaughtInv, configVars
<1>5. CASE SetReady \/ SetPending \/ SetError
  <2>1. PICK step, phase : Finish(step, phase) /\ step # "idle"
    BY <1>5 DEF SetReady, SetPending, SetError
  <2>2. UNCHANGED <<cache, artVars, artCache>> /\ w.pc # "idle"
    BY <2>1, FinishVersions
  <2>3. CASE \E obj : Publish(w.key, obj)
    <3>1. w.key \in Configs
      BY <1>0, <2>2, Working
    <3> QED BY <1>0, <1>3, <2>2, <2>3, <3>1, CaughtPublished DEF CaughtInv
  <2> QED BY <1>2, <1>3, <2>1, <2>2, <2>3, FinishVersions DEF CaughtInv
<1>6. ASSUME NEW c \in Configs, Reconcile(c) \/ Elapse(c)
      PROVE  CaughtInv'
  BY <1>2, <1>3, <1>6 DEF CaughtInv, Reconcile, Elapse, configVars
<1>7. ASSUME NEW c \in Configs, Deliver(c)
      PROVE  CaughtInv'
  <2>1. UNCHANGED <<artVars, artCache>>
    BY <1>7 DEF Deliver
  <2> QED BY <1>0, <1>3, <1>7, <2>1, CaughtDelivered DEF CaughtInv
<1>8. ASSUME NEW c \in Configs, Delete(c) \/ \E s \in Specs : Create(c, s) \/ Edit(c, s)
      PROVE  CaughtInv'
  <2>1. PICK obj : Submit(c, obj)
    BY <1>8 DEF Delete, Create, Edit
  <2>2. Publish(c, obj) /\ UNCHANGED <<cache, artVars, artCache>>
    BY <2>1 DEF Submit
  <2> QED BY <1>0, <1>3, <2>2, CaughtPublished DEF CaughtInv
<1>9. ASSUME NEW a \in Artifacts, DeliverArtifact(a)
      PROVE  CaughtInv'
  <2>1. UNCHANGED <<api, events, cache, arts>>
    BY <1>9 DEF DeliverArtifact, configVars
  <2>2. \A b \in Artifacts : ArtifactCaught(b)'
    BY <1>0, <1>1, <1>9, <2>1, ArtifactDelivered DEF ArtifactCaught
  <2> QED BY <1>2, <2>1, <2>2 DEF CaughtInv
<1>10. ASSUME ChangeArtifact
       PROVE  CaughtInv'
  <2>1. UNCHANGED <<api, events, cache, artCache>>
    BY <1>0, <1>10, ChangeEffect DEF configVars
  <2>2. ASSUME NEW a \in Artifacts, NEW rev, NEW phase, PublishArtifact(a, rev, phase)
        PROVE  \A b \in Artifacts : ArtifactCaught(b)'
    BY <1>0, <1>1, <2>1, <2>2, ArtifactPublished DEF ArtifactCaught
  <2> QED BY <1>0, <1>2, <1>3, <1>10, <2>1, <2>2, ChangeEffect DEF CaughtInv
<1>11. CASE Restart
  BY <1>11 DEF Restart, CaughtInv, Caught, ArtifactCaught
<1>12. CASE UNCHANGED vars
  BY <1>2, <1>3, <1>12 DEF vars, artVars, CaughtInv
<1> QED BY <1>4, <1>5, <1>6, <1>7, <1>8, <1>9, <1>10, <1>11, <1>12, NextCases

-----------------------------------------------------------------------------
(* The files of the artifacts *)

\* Time goes on, and only a new temporary file is from now.
LEMMA TimePasses ==
    ASSUME TypeInv, [Next]_vars
    PROVE  now \in Nat /\ now' \in Nat /\ now <= now'
<1>0. TypeOK /\ now \in Nat
  BY DEF TypeInv, TypeOK
<1>1. UNCHANGED now \/ Stamp
  <2>1. CASE AssemblingStep
    BY <2>1 DEF AssemblingStep, Mkdir, KernelLink, LinkKernel, InitrdLink, LinkInitrd, Concat,
           CopyInitrd, CopyFirmware, CopySource, WriteCombined, Install, Extract, ExtractKernel,
           ExtractInitrd, LinkISO, SymlinkISO, CallFails, EnsureSymlink, Symlink
  <2>2. CASE SetReady \/ SetPending \/ SetError
    BY <2>2 DEF SetReady, SetPending, SetError, Finish
  <2>3. CASE \E c \in Configs : Reconcile(c) \/ Deliver(c) \/ Elapse(c)
    BY <2>3 DEF Reconcile, Deliver, Elapse
  <2>4. CASE \E c \in Configs : Delete(c) \/ \E s \in Specs : Create(c, s) \/ Edit(c, s)
    BY <2>4 DEF Delete, Create, Edit, Submit
  <2>5. CASE ChangeArtifact \/ \E a \in Artifacts : DeliverArtifact(a)
    BY <2>5 DEF DeliverArtifact, ChangeArtifact, ArtifactAction, ArtifactStep, Verify, Discard,
           VerifyMatch, StartDownload, Refetch, WriteTmp, RenameTmp, EndDownload, FailDownload,
           FailStat, SubmitArtifact
  <2>6. CASE Restart \/ UNCHANGED vars
    BY <2>6 DEF Restart, vars
  <2> QED BY <2>1, <2>2, <2>3, <2>4, <2>5, <2>6, NextCases
<1> QED BY <1>0, <1>1, StampType

\* What a step may do to the files of artifacts.
LEMMA FileEffect ==
    ASSUME TypeInv, [Next]_vars
    PROVE  \/ UNCHANGED fileVars
           \/ Restart /\ UNCHANGED file
           \/ PowerLoss
           \/ ArtifactAction
<1>1. CASE AssemblingStep
  BY <1>1, AssemblingFrame
<1>2. CASE SetReady \/ SetPending \/ SetError
  BY <1>2 DEF SetReady, SetPending, SetError, Finish
<1>3. CASE \E c \in Configs : Reconcile(c) \/ Deliver(c) \/ Elapse(c)
  BY <1>3 DEF Reconcile, Deliver, Elapse
<1>4. CASE \E c \in Configs : Delete(c) \/ \E s \in Specs : Create(c, s) \/ Edit(c, s)
  BY <1>4 DEF Delete, Create, Edit, Submit
<1>5. CASE \E a \in Artifacts : DeliverArtifact(a)
  BY <1>5 DEF DeliverArtifact
<1>6. CASE \E a \in Artifacts, r \in Revisions : \E phase \in {"none", "", arts[a].phase} :
                SubmitArtifact(a, r, phase)
  BY <1>6 DEF SubmitArtifact
<1>7. CASE UNCHANGED vars
  BY <1>7 DEF vars, fileVars
<1> QED BY <1>1, <1>2, <1>3, <1>4, <1>5, <1>6, <1>7, NextCases DEF ChangeArtifact

\* Only the rename of a download puts a file in place.
LEMMA FileKept ==
    ASSUME TypeInv, [Next]_vars, NEW a \in Artifacts, NEW f \in Files
    PROVE  \/ file'[a][f] \in {file[a][f], NoFile}
           \/ job.pc = "rename" /\ job.key = a /\ file'[a][f] = job.file
<1>0. TypeOK /\ file \in [Artifacts -> [Files -> File \cup {NoFile}]]
  BY DEF TypeInv, TypeOK
<1>1. CASE UNCHANGED file
  BY <1>1
<1>2. CASE PowerLoss
  BY <1>2, PowerLossEffect
<1>3. CASE ArtifactAction
  <2>1. ASSUME NEW x, job.pc # "idle", file' = [file EXCEPT ![job.key][job.name] = x]
        PROVE  file'[a][f] = IF a = job.key /\ f = job.name THEN x ELSE file[a][f]
    <3>1. job.key \in Artifacts /\ job.name \in Files
      BY <1>0, <2>1, JobType
    <3> QED BY <1>0, <2>1, <3>1
  <2>2. CASE Discard
    BY <2>1, <2>2 DEF Discard
  <2>3. CASE RenameTmp
    BY <2>1, <2>3 DEF RenameTmp
  <2>4. UNCHANGED file \/ Discard \/ RenameTmp
    BY <1>3 DEF ArtifactAction, ArtifactStep, Verify, VerifyMatch, StartDownload, Refetch, WriteTmp,
           EndDownload, FailDownload, FailStat, fileVars
  <2> QED BY <1>1, <2>2, <2>3, <2>4
<1> QED BY <1>1, <1>2, <1>3, FileEffect DEF fileVars

LEMMA BusyStep == TypeInv /\ BusyInv /\ [Next]_vars => BusyInv'
<1> SUFFICES ASSUME TypeInv, BusyInv, [Next]_vars
             PROVE  BusyInv'
  OBVIOUS
<1>0. TypeOK /\ arts \in [Artifacts -> ArtifactVersion]
  BY DEF TypeInv, TypeOK
<1>1. CASE UNCHANGED <<arts, job>>
  BY <1>1 DEF BusyInv
<1>2. CASE job' = NoJob
  BY <1>2 DEF BusyInv, NoJob
<1>3. CASE ArtifactAction
  <2>1. ASSUME NEW a \in Artifacts, Verify(a)
        PROVE  BusyInv'
    BY <2>1, BeginType, ArtifactState, <1>0 DEF Verify, BusyInv
  <2>2. ASSUME NEW a \in Artifacts, StartDownload(a)
        PROVE  BusyInv'
    <3>1. job'.key = a
      BY <1>0, <2>2, BeginType, ArtifactState DEF StartDownload
    <3>2. arts'[a].phase = "Downloading"
      <4>1. CASE UNCHANGED artVars /\ arts[a].phase = "Downloading"
        BY <4>1 DEF artVars
      <4>2. CASE SetPhase(a, "Downloading")
        <5>1. PICK v : /\ v = [rv |-> arts[a].rv + 1, rev |-> arts[a].rev, phase |-> "Downloading"]
                       /\ arts' = [arts EXCEPT ![a] = v]
          BY <4>2 DEF SetPhase, PublishArtifact
        <5> QED BY <1>0, <5>1
      <4> QED BY <2>2, <4>1, <4>2 DEF StartDownload, SetDownloading
    <3> QED BY <3>1, <3>2 DEF BusyInv
  <2>3. CASE Refetch \/ WriteTmp \/ RenameTmp
    <3>1. UNCHANGED arts
      BY <2>3 DEF Refetch, WriteTmp, RenameTmp, artVars
    <3>2. job.pc \in {"get", "write", "rename"} /\ job \in Jobs
      BY <1>0, <2>3, JobType DEF Refetch, WriteTmp, RenameTmp
    <3>3. job' = NoJob \/ job'.key = job.key
      BY <2>3, <3>2 DEF Refetch, WriteTmp, RenameTmp, Jobs
    <3> QED BY <1>2, <3>1, <3>2, <3>3 DEF BusyInv
  <2>4. CASE Discard \/ EndDownload \/ FailDownload
    BY <1>2, <2>4 DEF Discard, EndDownload, FailDownload
  <2>5. ASSUME NEW a \in Artifacts, VerifyMatch(a) \/ FailStat(a)
        PROVE  BusyInv'
    BY <1>2, <2>5 DEF VerifyMatch, FailStat, fileVars
  <2> QED BY <1>3, <2>1, <2>2, <2>3, <2>4, <2>5 DEF ArtifactAction, ArtifactStep
<1>4. ASSUME NEW a \in Artifacts, NEW r, NEW phase \in {"none", "", arts[a].phase},
             SubmitArtifact(a, r, phase)
      PROVE  BusyInv'
  <2>1. UNCHANGED job
    BY <1>4 DEF SubmitArtifact, fileVars
  <2>2. PICK v : /\ v = [rv |-> arts[a].rv + 1, rev |-> r, phase |-> phase]
                 /\ arts' = [arts EXCEPT ![a] = v]
    BY <1>4 DEF SubmitArtifact, PublishArtifact
  <2>3. \A b \in Artifacts : arts[b].phase # "Ready" => arts'[b].phase # "Ready"
    BY <1>0, <2>2
  <2>4. job.pc # "idle" => job.key \in Artifacts
    BY <1>0, JobType
  <2> QED BY <2>1, <2>3, <2>4 DEF BusyInv
<1>5. CASE AssemblingStep
  BY <1>1, <1>5, AssemblingFrame DEF artVars, fileVars
<1>6. CASE \/ SetReady \/ SetPending \/ SetError \/ UNCHANGED vars
           \/ \E c \in Configs : Reconcile(c) \/ Deliver(c) \/ Elapse(c)
           \/ \E c \in Configs : Delete(c) \/ \E s \in Specs : Create(c, s) \/ Edit(c, s)
           \/ \E a \in Artifacts : DeliverArtifact(a)
  <2>1. UNCHANGED <<arts, job>>
    BY <1>6 DEF SetReady, SetPending, SetError, Finish, vars, artVars, fileVars, Reconcile, Deliver,
           Elapse, Delete, Create, Edit, Submit, DeliverArtifact
  <2> QED BY <1>1, <2>1
<1>7. CASE Restart
  BY <1>2, <1>7 DEF Restart
<1> QED BY <1>3, <1>4, <1>5, <1>6, <1>7, NextCases DEF ChangeArtifact

LEMMA StampedStep == TypeInv /\ StampedInv /\ [Next]_vars => StampedInv'
<1> SUFFICES ASSUME TypeInv, StampedInv, [Next]_vars
             PROVE  StampedInv'
  OBVIOUS
<1>0. TypeOK /\ now \in Nat /\ now' \in Nat /\ now <= now'
  BY TimePasses DEF TypeInv
<1>1. ASSUME NEW x \in File \cup {NoFile}, Stamped(x)
      PROVE  x # NoFile => x.mtime <= now'
  <2>1. x # NoFile => x.mtime \in Nat
    BY DEF File
  <2> QED BY <1>0, <1>1, <2>1 DEF Stamped
<1>2. ASSUME NEW a \in Artifacts, NEW f \in Files
      PROVE  Stamped(file[a][f])'
  <2>1. file[a][f] \in File \cup {NoFile} /\ Stamped(file[a][f])
    BY <1>0 DEF TypeOK, StampedInv
  <2>2. job.pc # "idle" => job.file \in File \cup {NoFile} /\ Stamped(job.file)
    BY <1>0, JobType DEF StampedInv
  <2>3. file'[a][f] \in {file[a][f], NoFile} \/ (job.pc # "idle" /\ file'[a][f] = job.file)
    BY FileKept
  <2> QED BY <1>1, <2>1, <2>2, <2>3 DEF Stamped
<1>3. ASSUME job'.pc # "idle"
      PROVE  Stamped(job.file)'
  <2>1. CASE UNCHANGED job
    BY <1>0, <1>1, <1>3, <2>1, JobType DEF StampedInv, Stamped
  <2>2. job' # NoJob
    BY <1>3 DEF NoJob
  <2>3. CASE ArtifactAction
    <3>1. CASE job'.file = NoFile
      BY <3>1 DEF Stamped
    <3>2. CASE job.pc # "idle" /\ job'.file = job.file
      BY <1>0, <1>1, <3>2, JobType DEF StampedInv, Stamped
    <3>3. CASE WriteTmp
      <4>1. job \in Jobs /\ Stamp
        BY <1>0, <3>3, JobType DEF WriteTmp
      <4>2. PICK x : x = [data |-> <<job.key, job.read.rev>>, mtime |-> now']
        OBVIOUS
      <4>3. job' = [job EXCEPT !.pc = "rename", !.file = x] /\ x.mtime = now'
        BY <3>3, <4>2 DEF WriteTmp
      <4>4. job'.file = x
        BY <4>1, <4>3 DEF Jobs
      <4> QED BY <1>0, <4>3, <4>4 DEF Stamped
    <3>4. ASSUME NEW a \in Artifacts, Verify(a) \/ StartDownload(a)
          PROVE  job'.file = NoFile
      BY <1>0, <3>4, ArtifactState, BeginType DEF Verify, StartDownload
    <3>5. CASE Refetch \/ RenameTmp
      <4>1. job.pc \in {"get", "rename"} /\ job \in Jobs
        BY <1>0, <3>5, JobType DEF Refetch, RenameTmp
      <4>2. job'.file = job.file
        BY <2>2, <3>5, <4>1 DEF Refetch, RenameTmp, Jobs
      <4> QED BY <3>2, <4>1, <4>2
    <3>6. CASE \/ Discard \/ EndDownload \/ FailDownload
               \/ \E a \in Artifacts : VerifyMatch(a) \/ FailStat(a)
      BY <2>1, <2>2, <3>6 DEF Discard, EndDownload, FailDownload, VerifyMatch, FailStat, fileVars
    <3> QED BY <2>3, <3>1, <3>3, <3>4, <3>5, <3>6 DEF ArtifactAction, ArtifactStep
  <2> QED BY <2>1, <2>2, <2>3, FileEffect DEF fileVars, Restart, PowerLoss
<1> QED BY <1>2, <1>3 DEF StampedInv

LEMMA ArtifactFilesInit == Init => BusyInv /\ StampedInv
<1> SUFFICES ASSUME Init
             PROVE  BusyInv /\ StampedInv
  OBVIOUS
<1>1. job.pc = "idle"
  BY DEF Init, NoJob
<1>2. ASSUME NEW a \in Artifacts, NEW f \in Files
      PROVE  file[a][f] = NoFile \/ file[a][f].mtime = 0
  BY DEF Init
<1>3. now = 0
  BY DEF Init
<1> QED BY <1>1, <1>2, <1>3 DEF BusyInv, StampedInv, Stamped

\* An artifact for which no further event comes stays as old as it is.
LEMMA OlderKept ==
    ASSUME TypeInv, BusyInv, [Next]_vars, NEW a \in Artifacts, NEW t,
           arts'[a] = arts[a], Older(a, t)
    PROVE  Older(a, t)'
<1>0. TypeOK /\ Path(a)' = Path(a) /\ Path(a) \in Files
  BY ArtifactState DEF Path, PathOf, TypeInv
<1> SUFFICES ASSUME arts[a].phase = "Ready", Matching(a)'
             PROVE  Present(a)'.mtime < t
  BY DEF Older
<1>1. Present(a)' = Present(a)
  <2>1. Present(a)' # NoFile
    BY DEF Matching, Matches, Present, Path
  <2> QED BY <1>0, <2>1, FileKept DEF Present, BusyInv
<1>2. Matching(a)
  BY <1>0, <1>1 DEF Matching, Matches, Present, Path
<1> QED BY <1>1, <1>2 DEF Older

\* A file that is there is older than the next time stamp.
LEMMA PresentOlder ==
    ASSUME TypeOK, StampedInv, NEW a \in Artifacts, Present(a) # NoFile
    PROVE  Older(a, now + 1) /\ \A t : (Present(a).mtime < t => Older(a, t))
<1>1. Path(a) \in Files /\ Present(a) \in File /\ now \in Nat
  <2>1. Path(a) \in Files
    BY ArtifactState
  <2> QED BY <2>1 DEF TypeOK, Present
<1>2. Present(a).mtime \in Nat /\ Present(a).mtime <= now
  BY <1>1 DEF StampedInv, Stamped, Present, File
<1> QED BY <1>1, <1>2 DEF Older

LEMMA OlderMore ==
    ASSUME TypeOK, NEW a \in Artifacts, NEW t \in Nat, NEW u \in Nat, t <= u, Older(a, t)
    PROVE  Older(a, u)
<1>1. Matching(a) => Present(a).mtime \in Nat
  <2>1. Path(a) \in Files
    BY ArtifactState
  <2>2. Present(a) \in File \cup {NoFile}
    BY <2>1 DEF Present, TypeOK
  <2> QED BY <2>2 DEF Matching, Matches, Present, Path, File
<1> QED BY <1>1 DEF Older

-----------------------------------------------------------------------------
(* What the worker holds *)

LEMMA NoKey ==
    ASSUME TypeOK
    PROVE  /\ None \notin Configs /\ Idle.key = None /\ Idle.pc = "idle"
           /\ w.pc = "idle" => w = Idle
           /\ w.key \in Configs => w.pc # "idle" /\ w.bc.obj # Absent
<1>1. None \notin Configs /\ Absent \notin BootConfigObject
  <2>1. None \notin Configs
    BY ConstantsAssumption
  <2>2. Absent \notin BootConfigObject
    BY ConstantsAssumption
  <2> QED BY <2>1, <2>2
<1>2. w \in Reconciling => w.pc # "idle" /\ w.bc.obj # Absent
  BY <1>1, DoingSteps DEF Reconciling, Steps, NetbootSteps, ISOSteps
<1> QED BY <1>1, <1>2 DEF TypeOK, Idle

\* A reconcile in progress that is not an assembling step, as it begins.
LEMMA ReconcileEffect ==
    ASSUME TypeInv, NEW c \in Configs, Reconcile(c)
    PROVE  /\ w = Idle /\ UNCHANGED <<configVars, cache, artVars, artCache, fileVars, now>>
           /\ \A d \in Configs : d # c => queue'[d] = queue[d] /\ boot'[d] = boot[d]
           /\ \/ cache[c].obj = Absent /\ UNCHANGED w
              \/ /\ cache[c].obj # Absent /\ UNCHANGED boot
                 /\ w'.key = c /\ w'.bc = cache[c] /\ w'.pc \in {"mkdir", "setPending", "setError"}
                 /\ w'.pc = "mkdir" => \A a \in Refs(cache[c].obj.spec) :
                                            w'.name[a] = Filename[a][artCache[a].rev]
<1>1. TypeOK /\ w = Idle /\ UNCHANGED <<configVars, cache, artVars, artCache, fileVars, now>>
  BY NoKey DEF Reconcile, TypeInv
<1>2. \A d \in Configs : d # c => queue'[d] = queue[d] /\ boot'[d] = boot[d]
  BY <1>1 DEF Reconcile, TypeOK
<1>3. CASE cache[c].obj # Absent
  <2>1. Enter(c) /\ UNCHANGED boot
    BY <1>3 DEF Reconcile
  <2>2. /\ w'.key = c /\ w'.bc = cache[c] /\ w'.pc \in {"mkdir", "setPending", "setError"}
        /\ w'.pc = "mkdir" =>
                w'.name = [a \in Refs(cache[c].obj.spec) |-> Filename[a][artCache[a].rev]]
    BY <1>1, <1>3, <2>1, EnterType
  <2> QED BY <1>1, <1>2, <1>3, <2>1, <2>2
<1>4. CASE cache[c].obj = Absent
  BY <1>1, <1>2, <1>4 DEF Reconcile
<1> QED BY <1>3, <1>4

\* Only a reconcile takes a key from the queue.
LEMMA QueueKept ==
    ASSUME TypeInv, [Next]_vars, NEW c \in Configs, queue'[c] = "idle"
    PROVE  \/ queue[c] = "idle" /\ ~Deliver(c) /\ ~Elapse(c)
                /\ \A a \in Artifacts : DeliverArtifact(a) => c \notin FindBootConfigs(a)
           \/ Reconcile(c)
           \/ Restart
<1>0. TypeOK /\ queue \in [Configs -> {"idle", "delayed", "ready"}]
  BY DEF TypeInv, TypeOK
<1>1. ~Deliver(c) /\ ~Elapse(c) /\ \A a \in Artifacts : DeliverArtifact(a) => c \notin FindBootConfigs(a)
  BY <1>0 DEF Deliver, Elapse, DeliverArtifact
<1>2. CASE AssemblingStep
  BY <1>1, <1>2, AssemblingFrame
<1>3. CASE SetReady \/ SetPending \/ SetError
  <2>1. /\ UNCHANGED queue \/ AddAfter(w.key)
        /\ w.pc # "idle"
    BY <1>3 DEF SetReady, SetPending, SetError, Finish
  <2>2. w.key \in Configs
    BY <1>0, <2>1, Working
  <2> QED BY <1>0, <1>1, <2>1, <2>2, AddAfterType
<1>4. ASSUME NEW d \in Configs, Deliver(d) \/ Elapse(d)
      PROVE  queue[c] = "idle"
  BY <1>0, <1>4 DEF Deliver, Elapse
<1>5. ASSUME NEW d \in Configs, d # c, Reconcile(d)
      PROVE  queue[c] = "idle"
  BY <1>5, ReconcileEffect
<1>6. ASSUME NEW d \in Configs, Delete(d) \/ \E s \in Specs : Create(d, s) \/ Edit(d, s)
      PROVE  queue[c] = "idle"
  BY <1>6 DEF Delete, Create, Edit, Submit
<1>7. ASSUME NEW a \in Artifacts, DeliverArtifact(a)
      PROVE  queue[c] = "idle"
  BY <1>0, <1>7 DEF DeliverArtifact
<1>8. CASE ChangeArtifact
  BY <1>0, <1>8, ChangeEffect, <1>1
<1>9. CASE UNCHANGED vars
  BY <1>1, <1>9 DEF vars
<1> QED BY <1>1, <1>2, <1>3, <1>4, <1>5, <1>6, <1>7, <1>8, <1>9, NextCases

\* The steps in which the worker does not take part.
OtherStep ==
    \/ \E c \in Configs : Deliver(c) \/ Elapse(c)
    \/ \E c \in Configs : Delete(c) \/ \E s \in Specs : Create(c, s) \/ Edit(c, s)
    \/ ChangeArtifact \/ \E a \in Artifacts : DeliverArtifact(a)
    \/ UNCHANGED vars

LEMMA OtherEffect ==
    ASSUME TypeOK, OtherStep
    PROVE  /\ UNCHANGED <<w, boot>>
           /\ UNCHANGED cache \/ \E c \in Configs : Deliver(c)
           /\ UNCHANGED artCache \/ \E a \in Artifacts : DeliverArtifact(a)
           /\ UNCHANGED arts \/ ChangeArtifact
           /\ UNCHANGED confirmed
           /\ UNCHANGED <<api, events>>
              \/ \E c \in Configs : Deliver(c) \/ Delete(c) \/ \E s \in Specs : Create(c, s) \/ Edit(c, s)
<1>1. CASE \E c \in Configs : Deliver(c) \/ Elapse(c)
  BY <1>1 DEF Deliver, Elapse, configVars, artVars
<1>2. CASE \E c \in Configs : Delete(c) \/ \E s \in Specs : Create(c, s) \/ Edit(c, s)
  BY <1>2 DEF Delete, Create, Edit, Submit, artVars
<1>3. CASE \E a \in Artifacts : DeliverArtifact(a)
  BY <1>3 DEF DeliverArtifact, configVars
<1>4. CASE ChangeArtifact
  BY <1>4, ChangeEffect DEF configVars
<1>5. CASE UNCHANGED vars
  BY <1>5 DEF vars
<1> QED BY <1>1, <1>2, <1>3, <1>4, <1>5 DEF OtherStep

LEMMA HeldStep == TypeInv /\ HeldInv /\ [Next]_vars => HeldInv'
<1> SUFFICES ASSUME TypeInv, HeldInv, [Next]_vars, w'.key \in Configs, queue'[w'.key] = "idle"
             PROVE  Held'
  BY DEF HeldInv
<1>0. TypeOK
  BY DEF TypeInv
<1>1. CASE AssemblingStep
  <2>1. /\ w'.key = w.key /\ w'.bc = w.bc /\ w'.name = w.name /\ w.pc \in DOMAIN Doing
        /\ UNCHANGED <<cache, artCache, queue>>
    BY <1>1, AssemblingFrame
  <2> QED BY <2>1 DEF HeldInv, Held, spec
<1>2. CASE SetReady \/ SetPending \/ SetError \/ Restart
  <2>1. w' = Idle
    BY <1>2 DEF SetReady, SetPending, SetError, Finish, Restart
  <2> QED BY <1>0, <2>1, NoKey
<1>3. ASSUME NEW c \in Configs, Reconcile(c)
      PROVE  Held'
  <2>1. /\ w'.key = c /\ w'.bc = cache[c] /\ w'.pc \in {"mkdir", "setPending", "setError"}
        /\ w'.pc = "mkdir" => \A a \in Refs(cache[c].obj.spec) :
                                    w'.name[a] = Filename[a][artCache[a].rev]
        /\ UNCHANGED <<cache, artCache>>
    BY <1>0, <1>3, ReconcileEffect, NoKey
  <2>2. w'.pc \in DOMAIN Doing => w'.pc = "mkdir"
    BY <2>1, DoingSteps DEF NetbootSteps, ISOSteps
  <2> QED BY <2>1, <2>2 DEF Held, spec
<1>4. CASE OtherStep
  <2>1. UNCHANGED w /\ w.key \in Configs
    BY <1>0, <1>4, OtherEffect
  <2>2. \/ queue[w.key] = "idle" /\ ~Deliver(w.key)
            /\ \A a \in Artifacts : DeliverArtifact(a) => w.key \notin FindBootConfigs(a)
        \/ \E c \in Configs : Reconcile(c)
        \/ Restart
    BY <2>1, QueueKept
  <2>3. CASE queue[w.key] = "idle" /\ ~Deliver(w.key)
                /\ \A a \in Artifacts : DeliverArtifact(a) => w.key \notin FindBootConfigs(a)
    <3>1. Held
      BY <2>1, <2>3 DEF HeldInv
    <3>2. cache'[w.key] = cache[w.key]
      <4>1. ASSUME NEW c \in Configs, Deliver(c)
            PROVE  cache'[w.key] = cache[w.key]
        BY <1>0, <2>1, <2>3, <4>1 DEF Deliver, TypeOK
      <4> QED BY <1>0, <1>4, <4>1, OtherEffect
    <3>3. ASSUME NEW b \in Refs(spec)
          PROVE  artCache'[b] = artCache[b]
      <4>1. ASSUME NEW a \in Artifacts, DeliverArtifact(a)
            PROVE  artCache'[b] = artCache[b]
        <5>1. w.key \in FindBootConfigs(b)
          BY <1>0, <2>1, <3>1, NoKey DEF FindBootConfigs, Held, spec
        <5>2. a # b
          BY <2>3, <4>1, <5>1
        <5> QED BY <1>0, <4>1, <5>2 DEF DeliverArtifact, TypeOK
      <4> QED BY <1>0, <1>4, <4>1, OtherEffect
    <3> QED BY <2>1, <3>1, <3>2, <3>3 DEF Held, spec
  <2> QED BY <1>2, <1>3, <2>2, <2>3
<1> QED BY <1>1, <1>2, <1>3, <1>4, NextCases DEF OtherStep

-----------------------------------------------------------------------------
(* What a concatenation is newer than *)

\* The artifacts of a cached BootConfig that no event has queued are as they
\* were before the step.
LEMMA QuietBefore ==
    ASSUME TypeInv, CaughtInv, [Next]_vars, OtherStep, NEW c \in Configs, NEW s \in Specs,
           cache[c].obj # Absent, cache[c].obj.spec = s, queue'[c] = "idle", NoEvents(s)'
    PROVE  /\ queue[c] = "idle" \/ Reconcile(c) \/ Restart
           /\ queue[c] = "idle" /\ ~Reconcile(c) /\ ~Restart =>
                NoEvents(s) /\ \A a \in Refs(s) : arts'[a] = arts[a]
<1>0. TypeOK /\ Refs(s) \subseteq Artifacts
  BY RefsType DEF TypeInv
<1>1. queue[c] = "idle" \/ Reconcile(c) \/ Restart
  BY QueueKept
<1>2. ASSUME ~Reconcile(c), ~Restart, NEW a \in Refs(s)
      PROVE  artEvents[a] = {} /\ arts'[a] = arts[a]
  <2>1. ~DeliverArtifact(a)
    <3>1. c \in FindBootConfigs(a)
      BY DEF FindBootConfigs
    <3>2. \A b \in Artifacts : DeliverArtifact(b) => c \notin FindBootConfigs(b)
      BY <1>2, QueueKept
    <3> QED BY <1>0, <3>1, <3>2
  <2>2. artEvents'[a] = {}
    BY DEF NoEvents
  <2>3. ASSUME NEW b \in Artifacts, DeliverArtifact(b)
        PROVE  artEvents'[a] = artEvents[a] /\ arts'[a] = arts[a]
    BY <1>0, <2>1, <2>3 DEF DeliverArtifact, TypeOK
  <2>4. CASE ChangeArtifact
    <3>1. CASE UNCHANGED artVars
      BY <2>2, <3>1 DEF artVars
    <3>2. ASSUME NEW b \in Artifacts, NEW rev, NEW phase, PublishArtifact(b, rev, phase)
          PROVE  artEvents'[a] = artEvents[a] /\ arts'[a] = arts[a]
      <4>1. ArtifactCaught(b) /\ UNCHANGED artCache
        BY <1>0, <2>4, ChangeEffect DEF CaughtInv
      <4> QED BY <1>0, <2>2, <3>2, <4>1, ArtifactPublished
    <3> QED BY <1>0, <2>2, <2>4, <3>1, <3>2, ChangeEffect
  <2>5. CASE \E d \in Configs : Deliver(d) \/ Elapse(d)
    BY <2>2, <2>5 DEF Deliver, Elapse, artVars
  <2>6. CASE \E d \in Configs : Delete(d) \/ \E t \in Specs : Create(d, t) \/ Edit(d, t)
    BY <2>2, <2>6 DEF Delete, Create, Edit, Submit, artVars
  <2>7. CASE UNCHANGED vars
    BY <2>2, <2>7 DEF vars
  <2> QED BY <2>2, <2>3, <2>4, <2>5, <2>6, <2>7 DEF OtherStep
<1> QED BY <1>1, <1>2 DEF NoEvents

\* While all is quiet the worker reads the paths of the present revisions.
LEMMA PresentPath ==
    ASSUME TypeInv, CaughtInv, HeldInv, w.key \in Configs, queue[w.key] = "idle",
           w.pc \in DOMAIN Doing, NEW a \in Refs(spec), artEvents[a] = {}
    PROVE  w.name[a] = Path(a) /\ FileOf(a) = Present(a) /\ a \in Artifacts
<1>1. a \in Artifacts
  BY NameType
<1>2. artCache[a] = arts[a]
  BY <1>1 DEF CaughtInv, ArtifactCaught
<1> QED BY <1>1, <1>2 DEF HeldInv, Held, Path, PathOf, Present, FileOf

LEMMA OutlastsKept ==
    ASSUME TypeInv, BusyInv, [Next]_vars, NEW c \in Configs, NEW s \in Specs,
           WithFirmware(s), boot'[c] = boot[c], \A a \in Refs(s) : arts'[a] = arts[a],
           Outlasts(boot[c], s)
    PROVE  Outlasts(boot[c], s)'
<1>1. s.initrd \in Refs(s) /\ s.firmware \in Refs(s) /\ Refs(s) \subseteq Artifacts
  BY RefsType DEF WithFirmware
<1>2. Path(s.initrd)' = Path(s.initrd)
  BY <1>1 DEF Path, PathOf
<1>3. PICK e, t : e = boot[c].initrd.entry[Path(s.initrd)] /\ t = e.mtime
  OBVIOUS
<1>4. e = boot'[c].initrd.entry[Path(s.initrd)']
  BY <1>2, <1>3
<1>5. CASE boot[c].initrd \in Directory /\ e \in Combined
  <2>1. Older(s.initrd, t) /\ Older(s.firmware, t)
    BY <1>3, <1>5 DEF Outlasts
  <2>2. Older(s.initrd, t)' /\ Older(s.firmware, t)'
    BY <1>1, <2>1, OlderKept
  <2> QED BY <1>3, <1>4, <2>2 DEF Outlasts
<1>6. CASE ~(boot[c].initrd \in Directory /\ e \in Combined)
  BY <1>4, <1>6 DEF Outlasts
<1> QED BY <1>5, <1>6

\* The steps of netboot mode up to the concatenation.
LEMMA CombiningAssembling ==
    ASSUME TypeInv, FreshInv, AssemblingStep,
           WithFirmware(spec), queue[w.key] = "idle", NoEvents(spec)
    PROVE  /\ w'.pc = "copyFirmware" => Older(spec.initrd, now' + 1)
           /\ w'.pc = "write" => Older(spec.initrd, now' + 1) /\ Older(spec.firmware, now' + 1)
           /\ w'.pc = "install" => Older(spec.initrd, w'.stamp) /\ Older(spec.firmware, w'.stamp)
           /\ w'.pc = "setReady" => Outlasts(boot'[w.key], spec)
<1> DEFINE Goal == /\ w'.pc = "copyFirmware" => Older(spec.initrd, now' + 1)
                   /\ w'.pc = "write" => Older(spec.initrd, now' + 1) /\ Older(spec.firmware, now' + 1)
                   /\ w'.pc = "install" => Older(spec.initrd, w'.stamp) /\ Older(spec.firmware, w'.stamp)
                   /\ w'.pc = "setReady" => Outlasts(boot'[w.key], spec)
<1>0. /\ TypeOK /\ w.pc \in DOMAIN Doing /\ w.pc # "idle" /\ w.key \in Configs
      /\ w \in Reconciling /\ spec \in Specs /\ now \in Nat
      /\ StampedInv /\ CaughtInv /\ HeldInv
  <2>1. TypeOK /\ w.pc \in DOMAIN Doing /\ w.pc # "idle"
    BY AssemblingFrame DEF TypeInv
  <2>2. w.key \in Configs /\ w \in Reconciling /\ spec \in Specs
    BY <2>1, Working
  <2>3. now \in Nat
    BY <2>1 DEF TypeOK
  <2> QED BY <2>1, <2>2, <2>3 DEF FreshInv
<1>1. /\ spec.initrd \in Refs(spec) /\ spec.firmware \in Refs(spec) /\ Refs(spec) \subseteq Artifacts
      /\ spec.mode = "netboot" /\ spec.firmware # None
  BY <1>0, RefsType DEF WithFirmware
<1>2. \A a \in {spec.initrd, spec.firmware} : FileOf(a) = Present(a) /\ w.name[a] = Path(a)
  BY <1>0, <1>1, PresentPath DEF NoEvents
<1>3. ASSUME w'.pc \notin {"copyFirmware", "write", "install", "setReady"}
      PROVE  Goal
  BY <1>3
<1>4. CASE Fail
  BY <1>0, <1>4, FailType, <1>3
<1>15. \A pc \in Steps : Goto(pc) => w'.pc = pc
  BY <1>0 DEF Goto, Reconciling
<1>16. {"kernel", "linkKernel", "linkInitrd", "concat", "copyInitrd", "setReady"} \subseteq Steps
  BY DoingSteps DEF Steps, NetbootSteps
<1>17. ASSUME NEW b, b = boot'[w.key], b.initrd.entry[w.name[spec.initrd]] \notin Combined
       PROVE  Outlasts(boot'[w.key], spec)
  BY <1>2, <1>17 DEF Outlasts
<1>18. LinkTo(spec.initrd) \notin Combined
  BY DEF LinkTo, Link, Combined
<1>5. CASE Mkdir
  <2>1. Goto("kernel") \/ Fail
    BY <1>1, <1>5 DEF Mkdir
  <2> QED BY <1>3, <1>4, <1>15, <1>16, <2>1
<1>6. CASE KernelLink \/ LinkKernel
  <2>1. Goto("concat") \/ Goto("linkKernel") \/ Fail
    BY <1>1, <1>6 DEF KernelLink, LinkKernel, EnsureSymlink, Symlink, InitrdStep
  <2> QED BY <1>3, <1>4, <1>15, <1>16, <2>1
<1>7. CASE InitrdLink
  <2>1. \/ Goto("setReady") /\ UNCHANGED boot /\ Linked("initrd")
        \/ Goto("linkInitrd")
    BY <1>7 DEF InitrdLink, EnsureSymlink
  <2>2. CASE Goto("linkInitrd")
    BY <1>3, <1>15, <1>16, <2>2
  <2>3. CASE Goto("setReady") /\ UNCHANGED boot /\ Linked("initrd")
    <3>1. boot'[w.key].initrd.entry[w.name[spec.initrd]] = LinkTo(spec.initrd)
      BY <2>3 DEF Linked, dir
    <3> QED BY <1>15, <1>16, <1>17, <1>18, <2>3, <3>1
  <2> QED BY <2>1, <2>2, <2>3
<1>8. CASE LinkInitrd
  <2>1. \/ Goto("setReady") /\ boot'[w.key].initrd.entry[w.name[spec.initrd]] = LinkTo(spec.initrd)
        \/ Fail
    BY <1>8, SymlinkEffect DEF LinkInitrd, NetbootSteps
  <2> QED BY <1>4, <1>15, <1>16, <1>17, <1>18, <2>1
<1>9. CASE Concat
  <2>1. CASE Goto("copyInitrd")
    BY <1>3, <1>15, <1>16, <2>1
  <2>2. CASE /\ NoFile \notin Sources
             /\ \E f \in Dst : \A src \in Sources : f.mtime > src.mtime
             /\ Goto("setReady") /\ UNCHANGED boot
    <3>1. PICK f \in Dst : \A src \in Sources : f.mtime > src.mtime
      BY <2>2
    <3>2. w'.pc = "setReady"
      BY <1>15, <1>16, <2>2
    <3>3. PICK e : e = dir.initrd.entry[w.name[spec.initrd]]
      OBVIOUS
    <3>4. ASSUME e \in Combined
          PROVE  f = e
      <4>1. e # NoFile /\ e \notin Links
        BY <3>4, Kinds
      <4> QED BY <3>3, <4>1 DEF Dst, Resolve
    <3>5. ASSUME e \in Combined, NEW a \in {spec.initrd, spec.firmware}
          PROVE  Older(a, e.mtime)
      <4>1. FileOf(a) \in Sources /\ FileOf(a) # NoFile /\ FileOf(a) = Present(a)
        BY <1>2, <2>2 DEF Sources
      <4>2. a \in Artifacts /\ f.mtime > Present(a).mtime
        BY <1>1, <3>1, <4>1
      <4>3. f.mtime \in Nat /\ Present(a).mtime \in Nat
        <5>1. f \in Combined
          BY <3>4, <3>5
        <5>2. FileOf(a) \in File
          BY <1>0, <1>1, <4>1, NameType
        <5> QED BY <4>1, <5>1, <5>2 DEF Combined, File
      <4>4. Present(a).mtime < f.mtime
        BY <4>2, <4>3
      <4> QED BY <1>0, <3>4, <3>5, <4>1, <4>2, <4>4, PresentOlder
    <3>6. e = boot'[w.key].initrd.entry[Path(spec.initrd)]
      BY <1>2, <2>2, <3>3 DEF dir
    <3>7. Outlasts(boot'[w.key], spec)
      BY <3>5, <3>6 DEF Outlasts
    <3> QED BY <3>2, <3>7
  <2> QED BY <1>4, <1>9, <2>1, <2>2 DEF Concat
<1>10. CASE CopyInitrd
  <2>1. w.pc = "copyInitrd" /\ CopySource(spec.initrd, "copyFirmware")
    BY <1>10 DEF CopyInitrd, Assembling
  <2>2. CASE FileOf(spec.initrd) # NoFile
            /\ w' = [w EXCEPT !.pc = "copyFirmware", !.copied = Append(@, FileOf(spec.initrd).data)]
    <3>1. w'.pc = "copyFirmware" /\ now' = now
      BY <1>0, <2>1, <2>2 DEF Reconciling, CopySource
    <3>2. Older(spec.initrd, now + 1)
      BY <1>0, <1>1, <1>2, <2>2, PresentOlder
    <3> QED BY <3>1, <3>2
  <2> QED BY <1>4, <2>1, <2>2 DEF CopySource
<1>11. CASE CopyFirmware
  <2>1. w.pc = "copyFirmware" /\ CopySource(spec.firmware, "write")
    BY <1>11 DEF CopyFirmware, Assembling
  <2>2. CASE FileOf(spec.firmware) # NoFile
            /\ w' = [w EXCEPT !.pc = "write", !.copied = Append(@, FileOf(spec.firmware).data)]
    <3>1. w'.pc = "write" /\ now' = now
      BY <1>0, <2>1, <2>2 DEF Reconciling, CopySource
    <3>2. Older(spec.firmware, now + 1)
      BY <1>0, <1>1, <1>2, <2>2, PresentOlder
    <3>3. Older(spec.initrd, now + 1)
      BY <1>0, <2>1 DEF FreshInv, CombiningInv
    <3> QED BY <3>1, <3>2, <3>3
  <2> QED BY <1>4, <2>1, <2>2 DEF CopySource
<1>19. CASE WriteCombined
  <2>1. /\ w.pc = "write" /\ Stamp /\ w' = [w EXCEPT !.pc = "install", !.stamp = now']
    BY <1>19 DEF WriteCombined, Assembling
  <2>2. PICK u : u = now' /\ u = now + 1
    BY <2>1 DEF Stamp
  <2>3. w'.pc = "install" /\ w'.stamp = u
    BY <1>0, <2>1, <2>2 DEF Reconciling
  <2>4. Older(spec.initrd, now + 1) /\ Older(spec.firmware, now + 1)
    BY <1>0, <2>1 DEF FreshInv, CombiningInv
  <2> QED BY <2>2, <2>3, <2>4
<1>12. CASE Install
  <2>1. w.pc = "install" /\ Goto("setReady")
    BY <1>12, InstallEffect
  <2>2. boot'[w.key].initrd.entry[w.name[spec.initrd]].mtime = w.stamp
    BY <1>12, InstallEffect
  <2>3. Older(spec.initrd, w.stamp) /\ Older(spec.firmware, w.stamp)
    BY <1>0, <2>1 DEF FreshInv, CombiningInv
  <2>4. Outlasts(boot'[w.key], spec)
    <3>1. PICK e, u : e = boot'[w.key].initrd.entry[Path(spec.initrd)] /\ u = w.stamp /\ e.mtime = u
      BY <1>2, <2>2
    <3> QED BY <2>3, <3>1 DEF Outlasts
  <2> QED BY <1>15, <1>16, <2>1, <2>4
<1>13. CASE Extract \/ ExtractKernel \/ ExtractInitrd \/ LinkISO \/ SymlinkISO
  <2>1. w.pc \in ISOSteps
    BY <1>13 DEF Extract, ExtractKernel, ExtractInitrd, LinkISO, SymlinkISO, Assembling, ISOSteps
  <2> QED BY <1>1, <2>1, ISOState
<1>14. CASE CallFails
  BY <1>4, <1>14 DEF CallFails
<1> QED BY <1>5, <1>6, <1>7, <1>8, <1>9, <1>10, <1>11, <1>19, <1>12, <1>13, <1>14 DEF AssemblingStep

LEMMA CombiningStep ==
    ASSUME TypeInv, FreshInv, [Next]_vars
    PROVE  CombiningInv'
<1> SUFFICES ASSUME w'.key \in Configs, WithFirmware(spec)', queue'[w'.key] = "idle", NoEvents(spec)'
             PROVE  /\ w'.pc = "copyFirmware" => Older(spec.initrd, now + 1)'
                    /\ w'.pc = "write" => Older(spec.initrd, now + 1)' /\ Older(spec.firmware, now + 1)'
                    /\ w'.pc = "install" => Older(spec.initrd, w.stamp)' /\ Older(spec.firmware, w.stamp)'
                    /\ w'.pc = "setReady" => Outlasts(dir, spec)'
  BY DEF CombiningInv
<1>0. TypeOK /\ CaughtInv /\ HeldInv /\ BusyInv /\ StampedInv
  BY DEF TypeInv, FreshInv
<1>1. CASE AssemblingStep
  <2>1. /\ w'.key = w.key /\ w'.bc = w.bc
        /\ UNCHANGED <<configVars, cache, artVars, artCache, queue, fileVars>>
    BY <1>1, AssemblingFrame
  <2>2. spec' = spec /\ dir' = boot'[w.key]
    BY <2>1 DEF spec, dir
  <2>3. WithFirmware(spec) /\ queue[w.key] = "idle" /\ NoEvents(spec)
    BY <2>1, <2>2 DEF WithFirmware, NoEvents, artVars
  <2>4. /\ \A a, t : Older(a, t) <=> Older(a, t)'
        /\ \A a : Path(a)' = Path(a)
    BY <2>1 DEF Older, Matching, Matches, Present, Path, PathOf, artVars, fileVars
  <2>5. /\ w'.pc = "copyFirmware" => Older(spec.initrd, now' + 1)
        /\ w'.pc = "write" => Older(spec.initrd, now' + 1) /\ Older(spec.firmware, now' + 1)
        /\ w'.pc = "install" => Older(spec.initrd, w'.stamp) /\ Older(spec.firmware, w'.stamp)
        /\ w'.pc = "setReady" => Outlasts(boot'[w.key], spec)
    BY <1>1, <2>3, CombiningAssembling
  <2>6. Outlasts(boot'[w.key], spec) => Outlasts(dir, spec)'
    <3>1. ASSUME NEW d, d = boot'[w.key], Outlasts(d, spec)
          PROVE  Outlasts(dir, spec)'
      BY <2>2, <2>4, <3>1 DEF Outlasts
    <3> QED BY <3>1
  <2>7. ASSUME NEW t, NEW a, a \in {spec.initrd, spec.firmware}, Older(a, t)
        PROVE  Older(a, t)'
    BY <2>4, <2>7
  <2> QED BY <2>2, <2>5, <2>6, <2>7
<1>2. CASE SetReady \/ SetPending \/ SetError \/ Restart
  <2>1. w' = Idle
    BY <1>2 DEF SetReady, SetPending, SetError, Finish, Restart
  <2> QED BY <1>0, <2>1, NoKey
<1>3. ASSUME NEW c \in Configs, Reconcile(c)
      PROVE  w'.pc \notin {"copyFirmware", "write", "install", "setReady"}
  BY <1>0, <1>3, ReconcileEffect, NoKey
<1>4. CASE OtherStep
  <2>1. UNCHANGED <<w, boot>> /\ w.key \in Configs /\ spec' = spec /\ dir' = dir
    BY <1>0, <1>4, OtherEffect DEF spec, dir
  <2>2. w.pc # "idle" /\ spec \in Specs /\ w.bc.obj # Absent
    BY <1>0, <2>1, NoKey, Working
  <2>3. CASE queue[w.key] = "idle" /\ ~Reconcile(w.key) /\ ~Restart
    <3>1. w.bc = cache[w.key]
      BY <2>1, <2>3 DEF HeldInv, Held, FreshInv
    <3>2. NoEvents(spec) /\ \A a \in Refs(spec) : arts'[a] = arts[a]
      <4>1. PICK s \in Specs : s = spec
        BY <2>2
      <4>2. NoEvents(s)' /\ cache[w.key].obj.spec = s
        BY <2>1, <3>1, <4>1 DEF spec
      <4> QED BY <1>0, <1>4, <2>1, <2>2, <2>3, <3>1, <4>1, <4>2, QuietBefore
    <3>3. WithFirmware(spec)
      BY <2>1 DEF WithFirmware
    <3>4. /\ w.pc = "copyFirmware" => Older(spec.initrd, now + 1)
          /\ w.pc = "write" => Older(spec.initrd, now + 1) /\ Older(spec.firmware, now + 1)
          /\ w.pc = "install" => Older(spec.initrd, w.stamp) /\ Older(spec.firmware, w.stamp)
          /\ w.pc = "setReady" => Outlasts(dir, spec)
      BY <2>1, <2>3, <3>2, <3>3 DEF FreshInv, CombiningInv
    <3>5. PICK a \in Artifacts, b \in Artifacts :
            a = spec.initrd /\ b = spec.firmware /\ arts'[a] = arts[a] /\ arts'[b] = arts[b]
      BY <2>2, <3>2, <3>3, RefsType DEF WithFirmware
    <3>6. \A x \in {a, b} : Older(x, now + 1) => Older(x, now + 1)'
      <4>1. PICK t \in Nat : t = now + 1
        BY TimePasses
      <4>2. PICK u \in Nat : u = now' + 1 /\ t <= u
        BY <4>1, TimePasses
      <4>3. ASSUME NEW x \in {a, b}, Older(x, t)
            PROVE  Older(x, u)'
        <5>1. Older(x, u)
          BY <1>0, <3>5, <4>2, <4>3, OlderMore
        <5> QED BY <1>0, <3>5, <5>1, OlderKept
      <4> QED BY <4>1, <4>2, <4>3
    <3>7. w'.pc = "install" => Older(spec.initrd, w.stamp)' /\ Older(spec.firmware, w.stamp)'
      <4>1. PICK t : t = w.stamp
        OBVIOUS
      <4>2. \A x \in {a, b} : Older(x, t) => Older(x, t)'
        BY <1>0, <3>5, OlderKept
      <4>3. w'.stamp = t
        BY <2>1, <4>1
      <4> QED BY <2>1, <3>4, <3>5, <4>1, <4>2, <4>3
    <3>8. w'.pc = "setReady" => Outlasts(dir, spec)'
      <4>1. PICK c \in Configs, s \in Specs : c = w.key /\ s = spec
        BY <2>1, <2>2
      <4>2. Outlasts(boot[c], s) => Outlasts(boot[c], s)'
        BY <1>0, <2>1, <3>2, <3>3, <4>1, OutlastsKept
      <4> QED BY <2>1, <3>4, <4>1, <4>2 DEF dir
    <3>9. /\ w'.pc = "copyFirmware" => Older(spec.initrd, now + 1)'
          /\ w'.pc = "write" => Older(spec.initrd, now + 1)' /\ Older(spec.firmware, now + 1)'
      BY <2>1, <3>4, <3>5, <3>6
    <3> QED BY <3>7, <3>8, <3>9
  <2>4. queue[w.key] = "idle" \/ Reconcile(w.key) \/ Restart
    BY <2>1, QueueKept
  <2> QED BY <1>2, <1>3, <2>1, <2>3, <2>4
<1> QED BY <1>1, <1>2, <1>3, <1>4, NextCases DEF OtherStep

LEMMA RestedKept ==
    ASSUME TypeInv, BusyInv, [Next]_vars, NEW c \in Configs, Rested(c),
           Resting(c)' => Resting(c), api'[c] = api[c], boot'[c] = boot[c],
           Resting(c)' => \A a \in Refs(api[c].obj.spec) : arts'[a] = arts[a]
    PROVE  Rested(c)'
<1> SUFFICES ASSUME Resting(c)', WithFirmware(api[c].obj.spec)'
             PROVE  Outlasts(boot[c], api[c].obj.spec)'
  BY DEF Rested
<1>1. PICK s \in Specs : s = api[c].obj.spec
  <2>1. api[c] \in Version /\ api[c].obj # Absent
    BY DEF Resting, ReadyNow, TypeInv, TypeOK
  <2> QED BY <2>1 DEF Version, BootConfigObject
<1>2. WithFirmware(s) /\ Outlasts(boot[c], s)
  BY <1>1 DEF Rested, WithFirmware
<1>3. Outlasts(boot[c], s)'
  BY <1>1, <1>2, OutlastsKept
<1> QED BY <1>1, <1>3

LEMMA FinishRested ==
    ASSUME TypeInv, VersionsInv, FreshInv, [Next]_vars,
           NEW step \in {"setReady", "setPending", "setError"},
           NEW phase \in {"Ready", "Pending", "Error"}, (step = "setReady") <=> (phase = "Ready"),
           Finish(step, phase), NEW c \in Configs
    PROVE  Rested(c)'
<1>0. /\ TypeOK /\ w.pc # "idle" /\ w.key \in Configs /\ w.pc = step /\ w' = Idle
      /\ UNCHANGED <<cache, artVars, artCache, fileVars, boot, now>>
  <2>1. TypeOK /\ w.pc # "idle" /\ w.pc = step /\ w' = Idle
        /\ UNCHANGED <<cache, artVars, artCache, fileVars, boot, now>>
    BY FinishVersions DEF TypeInv
  <2> QED BY <2>1, Working
<1>1. UNCHANGED queue \/ AddAfter(w.key)
  BY DEF Finish
<1>2. \/ UNCHANGED <<api, events>> /\ (UNCHANGED confirmed \/ Confirm(phase))
      \/ Accept(phase)
  BY DEF Finish, UpdateErr, configVars
<1>3. CASE c # w.key
  <2>1. api'[c] = api[c] /\ events'[c] = events[c] /\ confirmed'[c] = confirmed[c]
    BY <1>0, <1>2, <1>3 DEF Accept, Publish, Confirm, TypeOK
  <2>2. queue'[c] = queue[c]
    BY <1>0, <1>1, <1>3, AddAfterType
  <2>3. Resting(c)' => Resting(c)
    BY <1>0, <1>3, <2>1, <2>2 DEF Resting, ReadyNow, NoEvents, artVars
  <2>4. Rested(c) /\ BusyInv
    BY DEF FreshInv, RestedInv
  <2> QED BY <1>0, <2>1, <2>3, <2>4, RestedKept DEF artVars
<1>4. CASE c = w.key
  <2> SUFFICES ASSUME Resting(c)', WithFirmware(api[c].obj.spec)'
               PROVE  Outlasts(boot[c], api[c].obj.spec)'
    BY DEF Rested
  <2>1. queue'[c] = "idle" /\ events'[c] = {} /\ NoEvents(api[c].obj.spec)'
    BY DEF Resting, ReadyNow
  <2>2. ~AddAfter(w.key) /\ UNCHANGED queue
    BY <1>0, <1>1, <1>4, <2>1, AddAfterType
  <2>3. ~Accept(phase)
    BY <1>0, <1>4, <2>1 DEF Accept, Publish, TypeOK
  <2>4. step = "setReady" /\ UNCHANGED <<api, events>>
    BY <2>2, <2>3 DEF Finish
  <2>5. w.bc = cache[c] /\ cache[c] = api[c]
    BY <1>0, <1>4, <2>1, <2>2, <2>4 DEF FreshInv, HeldInv, Held, CaughtInv, Caught
  <2>6. NoEvents(spec) /\ WithFirmware(spec) /\ queue[w.key] = "idle"
    BY <1>0, <1>4, <2>1, <2>2, <2>4, <2>5 DEF NoEvents, WithFirmware, spec, artVars
  <2>7. Outlasts(dir, spec)
    BY <1>0, <2>4, <2>6 DEF FreshInv, CombiningInv
  <2>8. PICK d, s : d = boot[c] /\ s = api[c].obj.spec /\ boot'[c] = d /\ api'[c].obj.spec = s
    BY <1>0, <2>4
  <2>9. Outlasts(d, s)
    BY <1>4, <2>5, <2>7, <2>8 DEF dir, spec
  <2>10. Outlasts(d, s)'
    BY <1>0, <2>9 DEF Outlasts, Older, Matching, Matches, Present, Path, PathOf, artVars, fileVars
  <2> QED BY <2>8, <2>10
<1> QED BY <1>3, <1>4

LEMMA RestedStep ==
    ASSUME TypeInv, VersionsInv, FreshInv, [Next]_vars
    PROVE  RestedInv'
<1> SUFFICES ASSUME NEW c \in Configs
             PROVE  Rested(c)'
  BY DEF RestedInv
<1>0. TypeOK /\ Rested(c) /\ CaughtInv /\ BusyInv
  BY DEF TypeInv, FreshInv, RestedInv
<1>1. CASE AssemblingStep
  <2>1. /\ w'.key = w.key /\ UNCHANGED <<configVars, cache, artVars, artCache, queue, fileVars>>
        /\ c # w.key => boot'[c] = boot[c]
    BY <1>1, AssemblingFrame
  <2>2. CASE c = w.key
    BY <2>1, <2>2 DEF Rested, Resting, ReadyNow
  <2>3. CASE c # w.key
    <3>1. Resting(c)' => Resting(c)
      BY <2>1, <2>3 DEF Resting, ReadyNow, NoEvents, configVars, artVars
    <3> QED BY <1>0, <2>1, <2>3, <3>1, RestedKept DEF configVars, artVars
  <2> QED BY <2>2, <2>3
<1>2. CASE SetReady \/ SetPending \/ SetError
  BY <1>2, FinishRested DEF SetReady, SetPending, SetError
<1>3. ASSUME NEW d \in Configs, Reconcile(d)
      PROVE  Rested(c)'
  <2>1. UNCHANGED <<configVars, cache, artVars, artCache, fileVars>> /\ w = Idle
    BY <1>3, ReconcileEffect
  <2>2. CASE d # c
    <3>1. queue'[c] = queue[c] /\ boot'[c] = boot[c]
      BY <1>3, <2>2, ReconcileEffect
    <3>2. Resting(c)' => Resting(c)
      BY <1>0, <2>1, <3>1, NoKey DEF Resting, ReadyNow, NoEvents, configVars, artVars
    <3> QED BY <1>0, <2>1, <3>1, <3>2, RestedKept DEF configVars, artVars
  <2>3. CASE d = c
    <3>1. Resting(c)' => cache[c].obj # Absent
      BY <1>0, <2>1 DEF Resting, ReadyNow, CaughtInv, Caught, configVars
    <3>2. cache[c].obj # Absent => w'.key = c
      BY <1>3, <2>3, ReconcileEffect
    <3> QED BY <3>1, <3>2 DEF Rested, Resting, ReadyNow
  <2> QED BY <2>2, <2>3
<1>4. CASE Restart
  <2>1. queue'[c] = IF api[c].obj = Absent THEN "idle" ELSE "ready"
    BY <1>4 DEF Restart
  <2>2. UNCHANGED api
    BY <1>4 DEF Restart
  <2> QED BY <2>1, <2>2 DEF Rested, Resting, ReadyNow
<1>5. CASE OtherStep /\ ~Restart /\ ~Reconcile(c)
  <2> SUFFICES ASSUME Resting(c)'
               PROVE  /\ Resting(c) /\ api'[c] = api[c] /\ boot'[c] = boot[c]
                      /\ \A a \in Refs(api[c].obj.spec) : arts'[a] = arts[a]
    <3>1. CASE ~Resting(c)'
      BY <3>1 DEF Rested
    <3> QED BY <1>0, <3>1, RestedKept
  <2>1. UNCHANGED <<w, boot, confirmed>> /\ queue'[c] = "idle" /\ events'[c] = {}
    BY <1>0, <1>5, OtherEffect DEF Resting, ReadyNow
  <2>2. queue[c] = "idle" /\ ~Deliver(c)
    BY <1>5, <2>1, QueueKept
  <2>3. api'[c] = api[c] /\ events'[c] = events[c]
    <3>1. ASSUME NEW d \in Configs, Deliver(d)
          PROVE  api'[c] = api[c] /\ events'[c] = events[c]
      BY <1>0, <2>2, <3>1 DEF Deliver, TypeOK
    <3>2. ASSUME NEW d \in Configs, Delete(d) \/ \E s \in Specs : Create(d, s) \/ Edit(d, s)
          PROVE  api'[c] = api[c] /\ events'[c] = events[c]
      <4>1. PICK obj : Publish(d, obj)
        BY <3>2 DEF Delete, Create, Edit, Submit
      <4>2. d # c
        BY <1>0, <2>1, <4>1 DEF Publish, TypeOK
      <4> QED BY <1>0, <4>1, <4>2 DEF Publish, TypeOK
    <3> QED BY <1>0, <1>5, <3>1, <3>2, OtherEffect
  <2>4. api[c].obj # Absent /\ cache[c] = api[c]
    BY <1>0, <2>1, <2>3 DEF Resting, ReadyNow, CaughtInv, Caught
  <2>5. PICK s \in Specs : s = api[c].obj.spec
    BY <1>0, <2>4 DEF TypeOK, Version, BootConfigObject
  <2>6. NoEvents(s)'
    BY <2>3, <2>5 DEF Resting, NoEvents
  <2>7. NoEvents(s) /\ \A a \in Refs(s) : arts'[a] = arts[a]
    BY <1>0, <1>5, <2>1, <2>2, <2>4, <2>5, <2>6, QuietBefore
  <2>8. Resting(c)
    BY <2>1, <2>2, <2>3, <2>5, <2>7 DEF Resting, ReadyNow
  <2> QED BY <2>1, <2>3, <2>5, <2>7, <2>8
<1> QED BY <1>1, <1>2, <1>3, <1>4, <1>5, NextCases DEF OtherStep

LEMMA FreshInit == Init => FreshInv
<1> SUFFICES ASSUME Init
             PROVE  FreshInv
  OBVIOUS
<1>1. w.key \notin Configs
  <2>1. None \notin Configs
    BY ConstantsAssumption
  <2> QED BY <2>1 DEF Init, Idle
<1>2. \A c \in Configs : ~Resting(c)
  BY DEF Init, Resting, ReadyNow
<1> QED BY <1>1, <1>2, CaughtInit, ArtifactFilesInit
        DEF FreshInv, HeldInv, CombiningInv, RestedInv, Rested

LEMMA FreshStep == TypeInv /\ VersionsInv /\ FreshInv /\ [Next]_vars => FreshInv'
BY CaughtStep, BusyStep, StampedStep, HeldStep, CombiningStep, RestedStep DEF FreshInv

-----------------------------------------------------------------------------
(* The links to images *)

LEMMA LinksInit == Init => LinksInv
BY DEF Init, Empty, LinksInv, OneLink

LEMMA DirSet ==
    ASSUME TypeOK, w.pc # "idle", NEW d, d.iso \subseteq dir.iso, SetDir(d)
    PROVE  \A c \in Configs : boot'[c].iso \subseteq boot[c].iso
<1>1. boot'[w.key] = d /\ \A c \in Configs : c # w.key => boot'[c] = boot[c]
  BY BootSet
<1> QED BY <1>1 DEF dir

\* What the steps of the worker set, but for the link itself.
LEMMA PartSet ==
    ASSUME NEW old \in BootDir, NEW x
    PROVE  /\ [old EXCEPT !.kernel = x].iso = old.iso
           /\ [old EXCEPT !.initrd = x].iso = old.iso
           /\ [old EXCEPT !.vmlinuz = x].iso = old.iso
           /\ [old EXCEPT !.iso = x].iso = x
BY DEF BootDir

LEMMA EntriesLinks ==
    ASSUME NEW old \in BootDir, NEW d \in {"kernel", "initrd"}, NEW x, NEW f
    PROVE  [old EXCEPT ![d].entry = x].iso = old.iso /\ [old EXCEPT ![d].entry[f] = x].iso = old.iso
<1>1. PICK y, z : y = [old[d] EXCEPT !.entry = x] /\ z = [old[d] EXCEPT !.entry[f] = x]
  OBVIOUS
<1>2. [old EXCEPT ![d].entry = x] = [old EXCEPT ![d] = y]
  BY <1>1
<1>3. [old EXCEPT ![d].entry[f] = x] = [old EXCEPT ![d] = z]
  BY <1>1
<1>4. [old EXCEPT ![d] = y].iso = old.iso /\ [old EXCEPT ![d] = z].iso = old.iso
  BY DEF BootDir
<1> QED BY <1>2, <1>3, <1>4

\* Only SymlinkISO makes a link to an image.
LEMMA LinksKept ==
    ASSUME TypeInv, AssemblingStep, ~SymlinkISO
    PROVE  \A c \in Configs : boot'[c].iso \subseteq boot[c].iso
<1>0. TypeOK /\ w.pc # "idle" /\ dir \in BootDir
  <2>1. TypeOK /\ w.pc # "idle"
    BY AssemblingFrame DEF TypeInv
  <2> QED BY <2>1, Working
<1> DEFINE Fewer == \E d : d.iso \subseteq dir.iso /\ SetDir(d)
<1>1. CASE UNCHANGED boot
  BY <1>1
<1>2. CASE Fewer
  BY <1>0, <1>2, DirSet
<1>3. CASE Mkdir
  <2>1. CASE SetDir([dir EXCEPT !.kernel = NewDirectory(@),
                                !.initrd = IF @ \in Extracted THEN @ ELSE NewDirectory(@)])
    <3>1. PICK k, i : /\ k = NewDirectory(dir.kernel)
                      /\ i = IF dir.initrd \in Extracted THEN dir.initrd ELSE NewDirectory(dir.initrd)
      OBVIOUS
    <3>2. PICK d : d = [dir EXCEPT !.kernel = k, !.initrd = i]
      OBVIOUS
    <3>3. d.iso = dir.iso
      BY <1>0, <3>2 DEF BootDir
    <3>4. SetDir(d)
      BY <1>0, <2>1, <3>1, <3>2
    <3> QED BY <1>2, <3>3, <3>4
  <2> QED BY <1>1, <1>3, <2>1 DEF Mkdir
<1>4. CASE KernelLink \/ LinkKernel \/ InitrdLink \/ LinkInitrd \/ Concat \/ Install
  <2>1. \/ UNCHANGED boot
        \/ \E d \in {"kernel", "initrd"} : \E f, e : SetEntry(d, f, e)
        \/ \E d \in {"kernel", "initrd"} : \E names : Keep(d, names)
    BY <1>4 DEF KernelLink, LinkKernel, InitrdLink, LinkInitrd, Concat, Install,
           EnsureSymlink, Symlink, Clean
  <2>2. ASSUME NEW d \in {"kernel", "initrd"}, NEW f, NEW e, SetEntry(d, f, e)
        PROVE  Fewer
    <3>1. [dir EXCEPT ![d].entry[f] = e].iso = dir.iso
      BY <1>0, EntriesLinks
    <3> QED BY <2>2, <3>1 DEF SetEntry
  <2>3. ASSUME NEW d \in {"kernel", "initrd"}, NEW names, Keep(d, names)
        PROVE  Fewer
    <3>1. PICK es : es = [f \in Files |-> IF f \in names THEN dir[d].entry[f] ELSE NoFile]
      OBVIOUS
    <3>2. [dir EXCEPT ![d].entry = es].iso = dir.iso
      BY <1>0, EntriesLinks
    <3>3. SetDir([dir EXCEPT ![d].entry = es])
      BY <1>0, <2>3, <3>1 DEF Keep, BootDir
    <3> QED BY <3>2, <3>3
  <2> QED BY <1>1, <1>2, <2>1, <2>2, <2>3
<1>5. CASE CopyInitrd \/ CopyFirmware \/ WriteCombined \/ Extract \/ CallFails
  BY <1>1, <1>5 DEF CopyInitrd, CopyFirmware, CopySource, WriteCombined, Extract, CallFails
<1>6. CASE ExtractKernel \/ ExtractInitrd
  <2>1. \/ UNCHANGED boot
        \/ \E o : SetDir([dir EXCEPT !.vmlinuz = o])
        \/ \E o : SetDir([dir EXCEPT !.initrd = o])
    BY <1>6 DEF ExtractKernel, ExtractInitrd
  <2>2. ASSUME NEW o
        PROVE  [dir EXCEPT !.vmlinuz = o].iso = dir.iso /\ [dir EXCEPT !.initrd = o].iso = dir.iso
    BY <1>0, PartSet
  <2> QED BY <1>1, <1>2, <2>1, <2>2
<1>7. CASE LinkISO
  <2>1. CASE SetDir([dir EXCEPT !.iso = OtherLinks])
    <3>1. [dir EXCEPT !.iso = OtherLinks].iso = OtherLinks
      BY <1>0, PartSet
    <3> QED BY <1>2, <2>1, <3>1 DEF OtherLinks
  <2> QED BY <1>1, <1>7, <2>1 DEF LinkISO
<1> QED BY <1>3, <1>4, <1>5, <1>6, <1>7 DEF AssemblingStep

LEMMA LinksStep == TypeInv /\ LinksInv /\ [Next]_vars => LinksInv'
<1> SUFFICES ASSUME TypeInv, LinksInv, [Next]_vars
             PROVE  LinksInv'
  OBVIOUS
<1>0. TypeOK
  BY DEF TypeInv
<1>1. ASSUME \A c \in Configs : boot'[c].iso \subseteq boot[c].iso
      PROVE  LinksInv'
  BY <1>1 DEF LinksInv, OneLink
<1>2. CASE AssemblingStep /\ ~SymlinkISO
  BY <1>1, <1>2, LinksKept
<1>3. CASE SymlinkISO
  <2>0. w.pc \in ISOSteps
    BY <1>3 DEF SymlinkISO, Assembling, ISOSteps
  <2>1. dir \in BootDir /\ w.key \in Configs /\ w.pc # "idle"
    BY <2>0, ISOState
  <2>2. CASE UNCHANGED boot
    BY <1>1, <2>2
  <2>3. CASE dir.iso = OtherLinks /\ SetDir([dir EXCEPT !.iso = @ \cup {LinkTo(spec.iso)}])
    <3>1. PICK name, link, S : /\ name = w.name[spec.iso] /\ link = LinkTo(spec.iso)
                               /\ S = dir.iso \cup {link}
      OBVIOUS
    <3>2. SetDir([dir EXCEPT !.iso = S]) /\ [dir EXCEPT !.iso = S].iso = S
      BY <2>1, <2>3, <3>1, PartSet
    <3>3. boot'[w.key].iso = S /\ \A c \in Configs : c # w.key => boot'[c] = boot[c]
      BY <1>0, <2>1, <3>2, BootSet
    <3>4. link.to[2] = name /\ \A l \in dir.iso : l.to[2] # name
      BY <2>3, <3>1 DEF LinkTo, Link, OtherLinks, Named
    <3>5. \A c \in Configs : OneLink(c)'
      BY <3>1, <3>3, <3>4 DEF LinksInv, OneLink, dir
    <3> QED BY <3>5 DEF LinksInv
  <2> QED BY <1>3, <2>2, <2>3 DEF SymlinkISO
<1>4. CASE SetReady \/ SetPending \/ SetError
  BY <1>1, <1>4 DEF SetReady, SetPending, SetError, Finish
<1>5. ASSUME NEW c \in Configs, Reconcile(c)
      PROVE  LinksInv'
  <2>1. \/ boot' = boot
        \/ boot' = [boot EXCEPT ![c] = Empty]
        \/ \E left \in LeftOf(boot[c], FALSE) : boot' = [boot EXCEPT ![c] = left]
    BY <1>5 DEF Reconcile
  <2>2. \A left \in LeftOf(boot[c], FALSE) : left.iso \subseteq boot[c].iso
    BY DEF LeftOf
  <2>3. Empty.iso = {}
    BY DEF Empty
  <2>4. \A d \in Configs : boot'[d].iso \subseteq boot[d].iso
    BY <1>0, <2>1, <2>2, <2>3 DEF TypeOK
  <2> QED BY <1>1, <2>4
<1>6. CASE Restart /\ (UNCHANGED <<boot, file>> \/ PowerLoss)
  <2>1. ASSUME PowerLoss
        PROVE  \A d \in Configs : boot'[d].iso \subseteq boot[d].iso
    BY <2>1, PowerLossEffect DEF LeftOf
  <2> QED BY <1>1, <1>6, <2>1
<1>7. CASE OtherStep
  BY <1>0, <1>1, <1>7, OtherEffect
<1> QED BY <1>2, <1>3, <1>4, <1>5, <1>6, <1>7, NextCases DEF OtherStep, AssemblingStep

-----------------------------------------------------------------------------

\* A concatenation in the directory of a BootConfig that is Ready, at rest and
\* waits for no event is newer than the right files of those of its artifacts
\* that are Ready: the next reconcile keeps it (the comparison of modification
\* times in concatenateFiles).
THEOREM ConcatenationsOutlast == Spec => []RestedInv
<1> DEFINE Inv == TypeInv /\ VersionsInv /\ FreshInv
<1>1. Init => Inv
  BY TypeInit, VersionsInit, FreshInit
<1>2. Inv /\ [Next]_vars => Inv'
  BY TypeStep, VersionsStep, FreshStep
<1>3. Inv => RestedInv
  BY DEF FreshInv
<1> QED BY <1>1, <1>2, <1>3, PTL DEF Spec

=============================================================================
