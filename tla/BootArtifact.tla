---------------------------- MODULE BootArtifact ----------------------------
(***************************************************************************)
(* The BootArtifact controller (internal/controller/                       *)
(* bootartifact_controller.go): one worker that takes artifact keys from a *)
(* work queue, reads the object from an informer cache that may lag behind *)
(* the API server, checks the file on disk, downloads it through a         *)
(* temporary file when it is missing or wrong, and records the outcome in  *)
(* the object's status with optimistic locking.                            *)
(*                                                                         *)
(* Around the worker: users who create, edit and delete objects, the watch *)
(* that feeds the cache, queue timers, an outside actor that damages       *)
(* files, crashes of the manager and power losses of its node.             *)
(***************************************************************************)
EXTENDS Integers

CONSTANTS
    Artifacts,    \* BootArtifact objects (namespace and name)
    Names,        \* metadata.name values
    Name,         \* Artifacts -> Names; the namespace is not part of a path
    URLs,         \* spec.url values
    Files,        \* file names
    Filename,     \* urlutil.FilenameFromURL, URLs -> Files
    Contents,     \* file contents the model tells apart
    Specs,        \* the specs users may submit
    None,         \* a nil pointer
    Absent,       \* an object that does not exist
    NoFile,       \* a path with no directory entry
    Torn,         \* data that was written but never reached the disk whole
    MaxEdits,     \* bound on the users' creations, edits and deletions
    MaxFaults,    \* bound on failing calls and damaged files
    MaxCrashes,   \* bound on manager crashes and power losses
    Exposed       \* the paths that somebody else may remove or replace

VARIABLES
    api,          \* API server: latest version of each object
    events,       \* watch events not yet delivered to the informer
    cache,        \* informer cache the reconciler reads
    queue,        \* work queue: "idle", "delayed" or "ready" per key
    backoff,      \* artifacts whose RequeueAfter interval has not elapsed
    w,            \* the worker: the reconcile in progress and its locals
    disk,         \* what each path under artifacts/ shows
    survivors,    \* what each path may show after a power loss
    tmp,          \* the <path>.tmp files
    edits, faults, crashes,
    readyGen,     \* history: generation for which Ready was last written
    disturbed     \* history: paths changed by others since last verified

apiVars    == <<api, events>>
diskVars   == <<disk, survivors, tmp, disturbed>>
userVars   == <<edits, crashes>>
vars == <<api, events, cache, queue, backoff, w, disk, survivors, tmp,
          edits, faults, crashes, readyGen, disturbed>>

-----------------------------------------------------------------------------
(* Objects, files and paths *)

Phases == {"", "Downloading", "Ready", "Error"}

\* hex.EncodeToString(h.Sum(nil)) with sha256.New() or sha512.New(): two
\* digests are equal only for the same algorithm and the same content.
Digest(useSHA256, c) == <<IF useSHA256 THEN "sha256" ELSE "sha512", c>>
Digests == {"sha256", "sha512"} \X (Contents \cup {Torn})

\* The API server admits a spec with exactly one of the two digests.
BootArtifactSpec ==
    {s \in [url    : URLs,
            sha256 : ({"sha256"} \X Contents) \cup {None},
            sha512 : ({"sha512"} \X Contents) \cup {None}] :
        (s.sha256 = None) # (s.sha512 = None)}

\* gen stands for (uid, generation): it changes exactly when the spec does.
BootArtifactObject ==
    [spec : Specs, gen : Nat, phase : Phases, failureCount : Nat]

Version == [rv : Nat, obj : BootArtifactObject \cup {Absent}]

UseSHA256(spec) == spec.sha256 # None

ExpectedHash(spec) == IF spec.sha256 # None THEN spec.sha256 ELSE spec.sha512

\* The comparison made both for an existing file and for a download.
Matches(c, spec) == Digest(UseSHA256(spec), c) = ExpectedHash(spec)

Paths == Names \X Files

\* DataDir/artifacts/<name>/<file name of the URL>
FilePath(a, spec) == <<Name[a], Filename[spec.url]>>

SameDir(p) == {q \in Paths : q[1] = p[1]}

TmpFile == [data : Contents \cup {Torn}, synced : BOOLEAN]

ASSUME ConstantsAssumption ==
    /\ Name \in [Artifacts -> Names]
    /\ Filename \in [URLs -> Files]
    /\ Specs \subseteq BootArtifactSpec
    /\ Absent \notin BootArtifactObject
    /\ None \notin Artifacts \cup Paths \cup Digests
    /\ NoFile \notin Contents \cup {Torn} \cup TmpFile
    /\ Torn \notin Contents
    /\ Exposed \subseteq Paths

ASSUME BoundsAssumption ==
    MaxEdits \in Nat /\ MaxFaults \in Nat /\ MaxCrashes \in Nat

-----------------------------------------------------------------------------
(* The worker *)

DownloadSteps == {"setDownloading", "refetch", "mkdir", "get", "copy", "sync",
                  "rename", "syncDir"}
Steps == DownloadSteps \cup {"stat", "verify", "setReady", "setFailure"}

Idle == [pc |-> "idle", key |-> None, artifact |-> Absent, filePath |-> None,
         sum |-> None, cleanup |-> FALSE]

\* artifact, filePath and sum are the locals of Reconcile and download;
\* cleanup says whether the deferred os.Remove(tmpPath) is registered.
Reconciling ==
    [pc : Steps, key : Artifacts, artifact : [rv : Nat, obj : BootArtifactObject],
     filePath : Paths, sum : Digests \cup {None}, cleanup : BOOLEAN]

\* The spec of the copy the worker holds.
HeldSpec == w.artifact.obj.spec

Init ==
    /\ api = [a \in Artifacts |-> [rv |-> 0, obj |-> Absent]]
    /\ events = [a \in Artifacts |-> {}]
    /\ cache = api
    /\ queue = [a \in Artifacts |-> "idle"]
    /\ backoff = {}
    /\ w = Idle
    /\ disk = [p \in Paths |-> NoFile]
    /\ survivors = [p \in Paths |-> {NoFile}]
    /\ tmp = [p \in Paths |-> NoFile]
    /\ edits = 0 /\ faults = 0 /\ crashes = 0
    /\ readyGen = [a \in Artifacts |-> 0]
    /\ disturbed = {}

\* A call that the environment makes fail.
Fault == faults < MaxFaults /\ faults' = faults + 1

-----------------------------------------------------------------------------
(* Writes to the API server. Every accepted change gets a new resource     *)
(* version and becomes a watch event; an update that changes nothing does  *)
(* neither.                                                                *)

Publish(a, obj) ==
    LET v == IF obj = api[a].obj THEN api[a]
                                 ELSE [rv |-> api[a].rv + 1, obj |-> obj]
    IN  /\ api' = [api EXCEPT ![a] = v]
        /\ events' = [events EXCEPT ![a] = IF v = api[a] THEN @ ELSE @ \cup {v}]

\* The update is accepted only for the version the caller holds.
Current == api[w.key].obj # Absent /\ w.artifact.rv = api[w.key].rv

Accept(obj) ==
    /\ Current
    /\ Publish(w.key, obj)
    /\ readyGen' = [readyGen EXCEPT ![w.key] =
                        IF obj.phase = "Ready" THEN obj.gen ELSE @]

\* r.Status().Update: ok, refused (conflict or not found), or an error that
\* leaves it open whether the server applied the update.
UpdateOK(obj) == Accept(obj) /\ UNCHANGED faults
UpdateErr(obj) ==
    \/ ~Current /\ UNCHANGED <<api, events, readyGen, faults>>
    \/ Fault /\ UNCHANGED <<api, events, readyGen>>
    \/ Fault /\ Accept(obj)

-----------------------------------------------------------------------------
(* Returning from Reconcile *)

\* Adding a key after a delay does not displace a key that is ready.
AddAfter(a) == queue' = [queue EXCEPT ![a] = IF @ = "idle" THEN "delayed" ELSE @]

\* The deferred removal of the temporary file runs on every way out.
Return ==
    /\ w' = Idle
    /\ tmp' = IF w.cleanup THEN [tmp EXCEPT ![w.filePath] = NoFile] ELSE tmp

ReturnNil == Return /\ UNCHANGED <<queue, backoff>>
\* Variant: the error is logged and nil returned.
ReturnErrSwallowed == Return /\ UNCHANGED <<queue, backoff>>

ReturnErr == Return /\ AddAfter(w.key) /\ UNCHANGED backoff
ReturnRequeueAfter == Return /\ AddAfter(w.key) /\ backoff' = backoff \cup {w.key}

Goto(step) == w' = [w EXCEPT !.pc = step]

-----------------------------------------------------------------------------
(* Reconcile *)

\* The worker takes a ready key and reads the object from the cache; a
\* deleted object ends the reconcile and leaves its files alone.
Reconcile(a) ==
    /\ w.pc = "idle"
    /\ queue[a] = "ready"
    /\ queue' = [queue EXCEPT ![a] = "idle"]
    /\ w' = IF cache[a].obj = Absent THEN w
            ELSE [pc |-> "stat", key |-> a, artifact |-> cache[a],
                  filePath |-> FilePath(a, cache[a].obj.spec),
                  sum |-> None, cleanup |-> FALSE]
    /\ UNCHANGED <<apiVars, cache, backoff, diskVars, userVars, faults, readyGen>>

Stat ==
    /\ w.pc = "stat"
    /\ \/ disk[w.filePath] # NoFile /\ Goto("verify") /\ UNCHANGED faults
       \/ disk[w.filePath] = NoFile /\ Goto("setDownloading") /\ UNCHANGED faults
       \/ Fault /\ Goto("setFailure")
    /\ UNCHANGED <<apiVars, cache, queue, backoff, diskVars, userVars, readyGen>>

\* verifyExisting, file gone between Stat and Open.
VerifyGone ==
    /\ w.pc = "verify"
    /\ disk[w.filePath] = NoFile
    /\ Goto("setDownloading")
    /\ UNCHANGED <<apiVars, cache, queue, backoff, diskVars, userVars, faults, readyGen>>

\* verifyExisting, the file cannot be read.
VerifyUnreadable ==
    /\ w.pc = "verify"
    /\ disk[w.filePath] # NoFile
    /\ Fault
    /\ ReturnErr
    /\ UNCHANGED <<apiVars, cache, disk, survivors, disturbed, userVars, readyGen>>

\* Variant: digests compared with == instead of EqualFold, so that a digest
\* written in the other case never matches.
VerifyMismatchCaseSensitive ==
    /\ w.pc = "verify"
    /\ disk[w.filePath] # NoFile
    /\ disk' = [disk EXCEPT ![w.filePath] = NoFile]
    /\ survivors' = [survivors EXCEPT ![w.filePath] = @ \cup {NoFile}]
    /\ Goto("setDownloading")
    /\ UNCHANGED <<apiVars, cache, queue, backoff, tmp, disturbed, userVars, faults, readyGen>>

\* verifyExisting, wrong digest: the file is removed; a failing removal is
\* ignored. The removal is not synced, so a power loss may undo it.
VerifyMismatch ==
    /\ w.pc = "verify"
    /\ disk[w.filePath] # NoFile
    /\ ~Matches(disk[w.filePath], HeldSpec)
    /\ \/ /\ disk' = [disk EXCEPT ![w.filePath] = NoFile]
          /\ survivors' = [survivors EXCEPT ![w.filePath] = @ \cup {NoFile}]
          /\ UNCHANGED faults
       \/ Fault /\ UNCHANGED <<disk, survivors>>
    /\ Goto("setDownloading")
    /\ UNCHANGED <<apiVars, cache, queue, backoff, tmp, disturbed, userVars, readyGen>>

\* verifyExisting, right digest: the status is written unless the copy in
\* hand already says Ready.
VerifyMatch ==
    /\ w.pc = "verify"
    /\ disk[w.filePath] # NoFile
    /\ Matches(disk[w.filePath], HeldSpec)
    /\ disturbed' = disturbed \ {w.filePath}
    /\ IF w.artifact.obj.phase = "Ready"
       THEN ReturnNil
       ELSE Goto("setReady") /\ UNCHANGED <<tmp, queue, backoff>>
    /\ UNCHANGED <<apiVars, cache, disk, survivors, userVars, faults, readyGen>>

-----------------------------------------------------------------------------
(* download *)

SetDownloading ==
    /\ w.pc = "setDownloading"
    /\ LET obj == [w.artifact.obj EXCEPT !.phase = "Downloading"]
       IN  \/ /\ UpdateOK(obj)
              /\ w' = [w EXCEPT !.pc = "refetch", !.artifact = api'[w.key]]
              /\ UNCHANGED <<tmp, queue, backoff>>
           \/ UpdateErr(obj) /\ ReturnErr
    /\ UNCHANGED <<cache, disk, survivors, disturbed, userVars>>

\* Variant: the error of the second Get is not checked.
RefetchUnchecked ==
    /\ w.pc = "refetch"
    /\ w' = [w EXCEPT !.pc = "mkdir", !.artifact = cache[w.key]]
    /\ UNCHANGED <<apiVars, cache, queue, backoff, diskVars, userVars, faults, readyGen>>

\* The second Get reads the cache too: it may return an older version than
\* the one just written, or a newer one with another spec. filePath stays.
Refetch ==
    /\ w.pc = "refetch"
    /\ IF cache[w.key].obj = Absent
       THEN ReturnErr
       ELSE /\ w' = [w EXCEPT !.pc = "mkdir", !.artifact = cache[w.key]]
            /\ UNCHANGED <<tmp, queue, backoff>>
    /\ UNCHANGED <<apiVars, cache, disk, survivors, disturbed, userVars, faults, readyGen>>

Mkdir ==
    /\ w.pc = "mkdir"
    /\ \/ w' = [w EXCEPT !.pc = "get", !.cleanup = TRUE] /\ UNCHANGED faults
       \/ Fault /\ Goto("setFailure")
    /\ UNCHANGED <<apiVars, cache, queue, backoff, diskVars, userVars, readyGen>>

\* The request, its status code and os.Create, which truncates a left-over.
Get ==
    /\ w.pc = "get"
    /\ \/ /\ tmp' = [tmp EXCEPT ![w.filePath] = [data |-> Torn, synced |-> FALSE]]
          /\ Goto("copy")
          /\ UNCHANGED faults
       \/ Fault /\ Goto("setFailure") /\ UNCHANGED tmp
    /\ UNCHANGED <<apiVars, cache, queue, backoff, disk, survivors, disturbed, userVars, readyGen>>

\* io.Copy through the TeeReader, and the Content-Length check. The origin
\* may send content the spec does not expect: a fault of the environment.
Copy ==
    /\ w.pc = "copy"
    /\ \/ \E c \in Contents :
            /\ \/ Matches(c, HeldSpec) /\ UNCHANGED faults
               \/ ~Matches(c, HeldSpec) /\ Fault
            /\ tmp' = [tmp EXCEPT ![w.filePath] = [data |-> c, synced |-> FALSE]]
            /\ w' = [w EXCEPT !.pc = "sync", !.sum = Digest(UseSHA256(HeldSpec), c)]
       \/ Fault /\ Goto("setFailure") /\ UNCHANGED tmp
    /\ UNCHANGED <<apiVars, cache, queue, backoff, disk, survivors, disturbed, userVars, readyGen>>

\* Variant: the digest of the download is not compared.
SyncTmpUnverified ==
    /\ w.pc = "sync"
    /\ tmp' = [tmp EXCEPT ![w.filePath].synced = TRUE]
    /\ Goto("rename")
    /\ UNCHANGED <<apiVars, cache, queue, backoff, disk, survivors, disturbed, userVars, faults, readyGen>>

\* Variant: the temporary file is closed without Sync.
SyncTmpSkipped ==
    /\ w.pc = "sync"
    /\ Goto(IF w.sum = ExpectedHash(HeldSpec) THEN "rename" ELSE "setFailure")
    /\ UNCHANGED <<apiVars, cache, queue, backoff, diskVars, userVars, faults, readyGen>>

\* tmpFile.Sync, Close and the comparison of the digests.
SyncTmp ==
    /\ w.pc = "sync"
    /\ \/ /\ tmp' = [tmp EXCEPT ![w.filePath].synced = TRUE]
          /\ Goto(IF w.sum = ExpectedHash(HeldSpec) THEN "rename" ELSE "setFailure")
          /\ UNCHANGED faults
       \/ Fault /\ Goto("setFailure") /\ UNCHANGED tmp
    /\ UNCHANGED <<apiVars, cache, queue, backoff, disk, survivors, disturbed, userVars, readyGen>>

\* Until the directory is synced a power loss may show the old entry or the
\* new one, and the new one only whole if its data was synced.
Rename ==
    /\ w.pc = "rename"
    /\ LET f == tmp[w.filePath]
       IN  \/ /\ disk' = [disk EXCEPT ![w.filePath] = f.data]
              /\ survivors' = [survivors EXCEPT ![w.filePath] =
                    @ \cup {f.data} \cup (IF f.synced THEN {} ELSE {Torn})]
              /\ tmp' = [tmp EXCEPT ![w.filePath] = NoFile]
              /\ disturbed' = disturbed \ {w.filePath}
              /\ Goto("syncDir")
              /\ UNCHANGED faults
           \/ Fault /\ Goto("setFailure") /\ UNCHANGED diskVars
    /\ UNCHANGED <<apiVars, cache, queue, backoff, userVars, readyGen>>

SyncDir ==
    /\ w.pc = "syncDir"
    /\ \/ /\ survivors' = [p \in Paths |-> IF p \in SameDir(w.filePath)
                                           THEN {disk[p]} ELSE survivors[p]]
          /\ Goto("setReady")
          /\ UNCHANGED faults
       \/ Fault /\ Goto("setFailure") /\ UNCHANGED survivors
    /\ UNCHANGED <<apiVars, cache, queue, backoff, disk, tmp, disturbed, userVars, readyGen>>

SetReady ==
    /\ w.pc = "setReady"
    /\ LET obj == [w.artifact.obj EXCEPT !.phase = "Ready", !.failureCount = 0]
       IN  \/ UpdateOK(obj) /\ ReturnNil
           \/ UpdateErr(obj) /\ ReturnErr
    /\ UNCHANGED <<cache, disk, survivors, disturbed, userVars>>

SetFailure ==
    /\ w.pc = "setFailure"
    /\ LET obj == [w.artifact.obj EXCEPT !.phase = "Error", !.failureCount = @ + 1]
       IN  \/ UpdateOK(obj) /\ ReturnRequeueAfter
           \/ UpdateErr(obj) /\ ReturnErr
    /\ UNCHANGED <<cache, disk, survivors, disturbed, userVars>>

WorkerStep ==
    \/ Stat \/ VerifyGone \/ VerifyUnreadable \/ VerifyMismatch \/ VerifyMatch
    \/ SetDownloading \/ Refetch \/ Mkdir \/ Get \/ Copy \/ SyncTmp \/ Rename
    \/ SyncDir \/ SetReady \/ SetFailure

-----------------------------------------------------------------------------
(* The runtime around the reconciler (controller-runtime, external) *)

\* The informer applies the oldest undelivered version and its handler adds
\* the key. No predicate filters the controller's own status updates.
Deliver(a) ==
    /\ \E v \in events[a] :
        /\ \A u \in events[a] : v.rv <= u.rv
        /\ cache' = [cache EXCEPT ![a] = v]
        /\ events' = [events EXCEPT ![a] = @ \ {v}]
    /\ queue' = [queue EXCEPT ![a] = "ready"]
    /\ UNCHANGED <<api, backoff, w, diskVars, userVars, faults, readyGen>>

\* A delay runs out.
Elapse(a) ==
    /\ queue[a] = "delayed" \/ a \in backoff
    /\ queue' = [queue EXCEPT ![a] = IF @ = "delayed" THEN "ready" ELSE @]
    /\ backoff' = backoff \ {a}
    /\ UNCHANGED <<apiVars, cache, w, diskVars, userVars, faults, readyGen>>

\* The manager starts again: the informer lists the objects, every one of
\* them is queued, timers and the reconcile in progress are gone.
Restart ==
    /\ crashes < MaxCrashes
    /\ crashes' = crashes + 1
    /\ cache' = api
    /\ events' = [a \in Artifacts |-> {}]
    /\ queue' = [a \in Artifacts |-> IF api[a].obj = Absent THEN "idle" ELSE "ready"]
    /\ backoff' = {}
    /\ w' = Idle
    /\ UNCHANGED <<api, edits, faults, readyGen>>

Crash == Restart /\ UNCHANGED diskVars

\* The node loses power: each path shows one of the entries that may have
\* reached the disk; temporary files may be gone.
PowerLoss ==
    /\ Restart
    /\ \E d \in [Paths -> UNION {survivors[p] : p \in Paths}] :
        /\ \A p \in Paths : d[p] \in survivors[p]
        /\ disk' = d
        /\ survivors' = [p \in Paths |-> {d[p]}]
        /\ disturbed' = disturbed \cup {p \in Paths : d[p] # disk[p]}
    /\ tmp' \in {tmp, [p \in Paths |-> NoFile]}

-----------------------------------------------------------------------------
(* Users and the outside world *)

Submit(a, obj) ==
    /\ edits < MaxEdits
    /\ edits' = edits + 1
    /\ Publish(a, obj)
    /\ UNCHANGED <<cache, queue, backoff, w, diskVars, faults, crashes, readyGen>>

Create(a, s) ==
    /\ api[a].obj = Absent
    /\ Submit(a, [spec |-> s, gen |-> api[a].rv + 1, phase |-> "", failureCount |-> 0])

\* A spec edit keeps the status.
Edit(a, s) ==
    /\ api[a].obj # Absent
    /\ s # api[a].obj.spec
    /\ Submit(a, [api[a].obj EXCEPT !.spec = s, !.gen = api[a].rv + 1])

Delete(a) ==
    /\ api[a].obj # Absent
    /\ Submit(a, Absent)

\* Somebody else removes or replaces a file.
Disturb(p) ==
    /\ Fault
    /\ \E x \in (Contents \cup {NoFile}) \ {disk[p]} :
        /\ disk' = [disk EXCEPT ![p] = x]
        /\ survivors' = [survivors EXCEPT ![p] = @ \cup {x}]
    /\ disturbed' = disturbed \cup {p}
    /\ UNCHANGED <<apiVars, cache, queue, backoff, w, tmp, userVars, readyGen>>

Next ==
    \/ \E a \in Artifacts : Reconcile(a) \/ Deliver(a) \/ Elapse(a) \/ Delete(a)
    \/ WorkerStep
    \/ \E a \in Artifacts, s \in Specs : Create(a, s) \/ Edit(a, s)
    \/ \E p \in Exposed : Disturb(p)
    \/ Crash
    \/ PowerLoss

Spec == Init /\ [][Next]_vars

\* The worker, the watch and the timers keep going; every call of a
\* reconcile ends because the HTTP client has a timeout.
Fairness ==
    /\ WF_vars(WorkerStep)
    /\ \A a \in Artifacts :
        WF_vars(Reconcile(a)) /\ WF_vars(Deliver(a)) /\ WF_vars(Elapse(a))

FairSpec == Spec /\ Fairness
-----------------------------------------------------------------------------
(* Properties *)

TypeOK ==
    /\ api \in [Artifacts -> Version]
    /\ events \in [Artifacts -> SUBSET Version]
    /\ cache \in [Artifacts -> Version]
    /\ queue \in [Artifacts -> {"idle", "delayed", "ready"}]
    /\ backoff \subseteq Artifacts
    /\ w \in {Idle} \cup Reconciling
    /\ disk \in [Paths -> Contents \cup {Torn, NoFile}]
    /\ survivors \in [Paths -> SUBSET (Contents \cup {Torn, NoFile})]
    /\ tmp \in [Paths -> TmpFile \cup {NoFile}]
    /\ edits \in 0..MaxEdits /\ faults \in 0..MaxFaults /\ crashes \in 0..MaxCrashes
    /\ readyGen \in [Artifacts -> Nat]
    /\ disturbed \subseteq Paths

\* Ready was reported for the spec the object has now, and nobody else has
\* changed the file of that spec since it was last verified.
ReadyNow(a) ==
    /\ api[a].obj # Absent
    /\ api[a].obj.phase = "Ready"
    /\ api[a].obj.gen = readyGen[a]
    /\ FilePath(a, api[a].obj.spec) \notin disturbed

\* An artifact that was reported Ready for its present spec has, at the path
\* consumers compute from that spec, a file with the digest the spec asks
\* for: whatever versions the cache served, however edits, crashes and
\* failing calls interleave with the verification, the rename and the status
\* write (verifyExisting, download, setReady).
ReadyVerified ==
    \A a \in Artifacts :
        ReadyNow(a) => Matches(disk[FilePath(a, api[a].obj.spec)], api[a].obj.spec)

\* No final path ever shows a half-written file, not even after a power loss
\* at the worst moment (Sync before Rename in download).
NeverTorn == \A p \in Paths : disk[p] # Torn

\* A verified artifact is not taken back to Downloading: a reconcile that
\* works from a stale copy must not undo a Ready it has not seen (the
\* resourceVersion check behind Status().Update in download).
NoNeedlessDownload ==
    [][\A a \in Artifacts :
        ReadyNow(a) /\ api'[a].obj # Absent =>
            \/ api'[a].obj.gen # api[a].obj.gen
            \/ api'[a].obj.phase # "Downloading"]_vars

\* Once users, faults and crashes stop, every artifact ends up Ready for good
\* with the right file: no lost update, conflict, stale read or crash between
\* two steps leaves an artifact stuck (Reconcile and its requeues).
Converges ==
    <>[](\A a \in Artifacts :
            \/ api[a].obj = Absent
            \/ /\ api[a].obj.phase = "Ready"
               /\ Matches(disk[FilePath(a, api[a].obj.spec)], api[a].obj.spec))

\* Comment in setFailure: a failed artifact is retried after "10s, 20s, 40s,
\* ..."; a new download must not start before that interval is over.
BackoffHonoured == w.pc = "get" => w.key \notin backoff
=============================================================================
