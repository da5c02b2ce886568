----------------------------- MODULE BootConfig -----------------------------
(***************************************************************************)
(* The BootConfig controller (internal/controller/                         *)
(* bootconfig_controller.go): one worker that assembles the directory      *)
(* boot/<name> from BootArtifacts that are Ready, in one of two modes:     *)
(*   netboot  kernel/<file> and initrd/<file> are symbolic links into      *)
(*            artifacts/, or initrd/<file> is the concatenation of initrd  *)
(*            and firmware;                                                *)
(*   iso      vmlinuz and initrd are extracted from an ISO image, which is *)
(*            itself linked under its file name.                           *)
(* Whether a copy is up to date is decided by modification times. The      *)
(* BootArtifact controller changes artifacts and their files meanwhile; it *)
(* appears here by the effects module BootArtifact gives it.               *)
(***************************************************************************)
EXTENDS Integers, Sequences

CONSTANTS
    Configs,      \* BootConfig objects
    Artifacts,    \* BootArtifact objects, each with a directory of its own
    Revisions,    \* specs of an artifact: a URL and a digest
    Original,     \* the one that artifacts begin with
    Files,        \* file names
    Filename,     \* urlutil.FilenameFromURL of the URL of an artifact's revision
    ISOPaths,     \* paths within an ISO image
    SafePaths,    \* those that isSafeISOPath accepts
    Specs,        \* the BootConfig specs users may submit
    Initial,      \* artifacts that are downloaded and Ready from the start
    Editable,     \* artifacts that users create, edit and delete
    None, Absent, NoFile, Torn,
    MaxEdits,     \* bound on the users' creations, edits and deletions
    MaxFaults,    \* bound on failing calls
    MaxCrashes,   \* bound on manager crashes and power losses
    MaxTime       \* bound on the number of time stamps

VARIABLES
    api,          \* API server: latest version of each BootConfig
    events,       \* BootConfig versions not yet delivered to the informer
    cache,        \* BootConfigs as the informer has them
    arts,         \* API server: latest version of each BootArtifact
    artEvents,    \* BootArtifact versions not yet delivered
    artCache,     \* BootArtifacts as the informer has them
    queue,        \* work queue: "idle", "delayed" or "ready" per BootConfig
    w,            \* the worker: the reconcile in progress and its locals
    file,         \* the files of artifacts/<name>
    job,          \* the worker of the BootArtifact controller
    boot,         \* boot/<name>
    now,          \* last time stamp given to a file
    edits, faults, crashes,
    confirmed     \* history: generation last found or made Ready

configVars == <<api, events, confirmed>>
artVars    == <<arts, artEvents>>
fileVars   == <<file, job>>
vars == <<api, events, cache, arts, artEvents, artCache, queue, w, file, job,
          boot, now, edits, faults, crashes, confirmed>>

-----------------------------------------------------------------------------
(* Objects *)

\* Exactly one of the modes; the firmware is optional.
NetbootSpec == [mode : {"netboot"}, kernel : Artifacts, initrd : Artifacts,
                firmware : Artifacts \cup {None}]
ISOSpec == [mode : {"iso"}, iso : Artifacts, kernelPath : ISOPaths,
            initrdPath : ISOPaths]

Phases == {"", "Pending", "Ready", "Error"}

\* What a status message says: the check that failed, or the failing call.
Checks == {"safe", "found", "ready"} \X (Artifacts \cup ISOPaths)
Calls  == {"mkdir", "kernel symlink", "initrd symlink", "concatenate",
           "extract", "iso symlink"}
Messages == {<<>>} \cup Checks \cup {<<call>> : call \in Calls}

\* gen stands for (uid, generation): it changes exactly when the spec does.
BootConfigObject == [spec : Specs, gen : Nat, phase : Phases, message : Messages]
Version == [rv : Nat, obj : BootConfigObject \cup {Absent}]

\* Of a BootArtifact this controller reads only that it exists and its phase;
\* "none" stands for no object. rev is what its spec asks for: a content, and
\* through the URL a file name.
ArtifactVersion == [rv : Nat, rev : Revisions,
                    phase : {"none", "", "Downloading", "Ready", "Error"}]

Refs(s) == IF s.mode = "iso" THEN {s.iso}
           ELSE {s.kernel, s.initrd} \cup ({s.firmware} \ {None})

-----------------------------------------------------------------------------
(* Files *)

Data == Artifacts \X Revisions
File == [data : Data, mtime : Nat]

\* The entries of boot/<name>: kernel is a directory, initrd a directory or
\* an extracted file; iso holds the links to images, which have the file
\* names of their targets. A directory maps file names to entries; temporary
\* files are left out.
Link(a, f) == [type |-> "link", to |-> <<a, f>>]
Links == [type : {"link"}, to : Artifacts \X Files]
Named(l) == l.to[2]
Combined == [type : {"combined"}, mtime : Nat, data : (Data \X Data) \cup {Torn}]
Entries == [Files -> Links \cup Combined \cup {NoFile}]
NoEntries == [f \in Files |-> NoFile]
Directory == [type : {"dir"}, entry : Entries]
Extracted == [type : {"file"}, mtime : Nat, data : (Data \X ISOPaths) \cup {Torn}]

Empty == [kernel |-> NoFile, initrd |-> NoFile, vmlinuz |-> NoFile, iso |-> {}]
BootDir == [kernel : Directory \cup {NoFile}, initrd : Directory \cup Extracted \cup {NoFile},
            vmlinuz : Extracted \cup {NoFile}, iso : SUBSET Links]

\* What may be left of an entry when entries are lost, by a removal that
\* fails half-way or, together with data that was never synced, by a power
\* loss.
Left(e, torn) ==
    {e, NoFile} \cup {[x EXCEPT !.data = Torn] : x \in {y \in {e} \cap (Combined \cup Extracted) : torn}}

LeftEntries(es, torn) ==
    LET names == {f \in Files : es[f] # NoFile}
    IN  {[f \in Files |-> IF f \in names THEN left[f] ELSE NoFile] :
            left \in {l \in [names -> UNION {Left(es[f], torn) : f \in names}] :
                        \A f \in names : l[f] \in Left(es[f], torn)}}

LeftDir(d, torn) ==
    Left(d, torn) \cup UNION {{[x EXCEPT !.entry = es] : es \in LeftEntries(x.entry, torn)} :
                                 x \in {d} \cap Directory}

LeftOf(b, torn) == [kernel : LeftDir(b.kernel, torn), initrd : LeftDir(b.initrd, torn),
                    vmlinuz : Left(b.vmlinuz, torn), iso : SUBSET b.iso]

ASSUME ConstantsAssumption ==
    /\ Filename \in [Artifacts -> [Revisions -> Files]]
    /\ Specs \subseteq NetbootSpec \cup ISOSpec
    /\ SafePaths \subseteq ISOPaths
    /\ Original \in Revisions
    /\ Initial \subseteq Artifacts /\ Editable \subseteq Artifacts
    /\ Absent \notin BootConfigObject
    /\ None \notin Configs \cup Artifacts
    /\ NoFile \notin File \cup Links \cup Combined \cup Extracted \cup Directory
    /\ Torn \notin (Data \X Data) \cup (Data \X ISOPaths)

ASSUME BoundsAssumption ==
    /\ MaxEdits \in Nat /\ MaxFaults \in Nat /\ MaxCrashes \in Nat /\ MaxTime \in Nat

-----------------------------------------------------------------------------
(* The worker *)

\* The steps that assemble the directory, and what each is doing when a call
\* fails.
Doing == [mkdir |-> "mkdir", kernel |-> "kernel symlink", linkKernel |-> "kernel symlink",
          initrd |-> "initrd symlink", linkInitrd |-> "initrd symlink",
          concat |-> "concatenate", copyInitrd |-> "concatenate",
          copyFirmware |-> "concatenate", write |-> "concatenate", install |-> "concatenate",
          extract |-> "extract", extractKernel |-> "extract", extractInitrd |-> "extract",
          linkISO |-> "iso symlink", symlinkISO |-> "iso symlink"]
Steps == DOMAIN Doing \cup {"setReady", "setPending", "setError"}

\* name: the file names of the artifacts as they were read; copied: what was
\* read from the sources so far; stamp: the modification time of the
\* temporary file.
Idle == [pc |-> "idle", key |-> None, bc |-> Absent, message |-> <<>>,
         name |-> <<>>, copied |-> <<>>, stamp |-> 0]
Reconciling == [pc : Steps, key : Configs, bc : [rv : Nat, obj : BootConfigObject],
                message : Messages, name : UNION {[S -> Files] : S \in SUBSET Artifacts},
                copied : Seq(Data), stamp : Nat]

spec == w.bc.obj.spec
dir  == boot[w.key]

\* The reconcile of a BootArtifact in progress: the version it read last, the
\* name its file gets, and the temporary file once it is complete.
NoJob == [pc |-> "idle"]
Jobs == [pc : {"remove", "get", "write", "rename", "finish"}, key : Artifacts,
         read : ArtifactVersion, name : Files, file : File \cup {NoFile}]

\* The link to an artifact of the spec, and the file it leads to.
LinkTo(a) == Link(a, w.name[a])
FileOf(a) == file[a][w.name[a]]

Init ==
    /\ api = [c \in Configs |-> [rv |-> 0, obj |-> Absent]]
    /\ events = [c \in Configs |-> {}]
    /\ cache = api
    /\ arts = [a \in Artifacts |->
                [rv |-> 0, rev |-> Original, phase |-> IF a \in Initial THEN "Ready" ELSE "none"]]
    /\ file = [a \in Artifacts |-> [f \in Files |->
                IF a \in Initial /\ f = Filename[a][Original]
                THEN [data |-> <<a, Original>>, mtime |-> 0] ELSE NoFile]]
    /\ artEvents = [a \in Artifacts |-> {}]
    /\ artCache = arts
    /\ queue = [c \in Configs |-> "idle"]
    /\ w = Idle
    /\ job = NoJob
    /\ boot = [c \in Configs |-> Empty]
    /\ now = 0 /\ edits = 0 /\ faults = 0 /\ crashes = 0
    /\ confirmed = [c \in Configs |-> 0]

Fault == faults < MaxFaults /\ faults' = faults + 1

\* The time stamp of a file written now. No two writes share one.
Stamp == now < MaxTime /\ now' = now + 1

-----------------------------------------------------------------------------
(* Writes of BootConfigs to the API server *)

Publish(c, obj) ==
    LET v == [rv |-> api[c].rv + 1, obj |-> obj]
    IN  /\ api' = [api EXCEPT ![c] = v]
        /\ events' = [events EXCEPT ![c] = @ \cup {v}]

Current == api[w.key].obj # Absent /\ w.bc.rv = api[w.key].rv

Confirm(phase) ==
    confirmed' = [confirmed EXCEPT ![w.key] = IF phase = "Ready" THEN w.bc.obj.gen ELSE @]

Accept(phase) ==
    /\ Current
    /\ Publish(w.key, [w.bc.obj EXCEPT !.phase = phase, !.message = w.message])
    /\ Confirm(phase)

UpdateErr(phase) ==
    \/ ~Current /\ UNCHANGED <<configVars, faults>>
    \/ Fault /\ UNCHANGED configVars
    \/ Fault /\ Accept(phase)

AddAfter(c) == queue' = [queue EXCEPT ![c] = IF @ = "idle" THEN "delayed" ELSE @]
-----------------------------------------------------------------------------
(* Reconcile *)

\* The checks that come before any file is touched, in the code's order.
CheckList(s) ==
    IF s.mode = "iso"
    THEN <<<<"safe", s.kernelPath>>, <<"safe", s.initrdPath>>,
           <<"found", s.iso>>, <<"ready", s.iso>>>>
    ELSE <<<<"found", s.kernel>>, <<"found", s.initrd>>,
           <<"ready", s.kernel>>, <<"ready", s.initrd>>>>
         \o (IF s.firmware = None THEN <<>>
             ELSE <<<<"found", s.firmware>>, <<"ready", s.firmware>>>>)

Fails(check) ==
    \/ check[1] = "safe"  /\ check[2] \notin SafePaths
    \/ check[1] = "found" /\ artCache[check[2]].phase = "none"
    \/ check[1] = "ready" /\ artCache[check[2]].phase # "Ready"

\* The first failing check decides: an artifact that is not Ready makes the
\* BootConfig Pending, everything else is an Error. The artifacts are read
\* one after the other from a cache whose entries change independently.
Enter(c) ==
    LET s      == cache[c].obj.spec
        checks == CheckList(s)
        failed == {n \in DOMAIN checks : Fails(checks[n])}
    IN  \/ /\ failed = {}
           /\ w' = [Idle EXCEPT !.pc = "mkdir", !.key = c, !.bc = cache[c],
                                !.name = [a \in Refs(s) |-> Filename[a][artCache[a].rev]]]
        \/ \E n \in failed :
            /\ \A m \in failed : n <= m
            /\ w' = [Idle EXCEPT !.pc = IF checks[n][1] = "ready" THEN "setPending" ELSE "setError",
                                 !.key = c, !.bc = cache[c], !.message = checks[n]]

\* Variant: NotFound is not told from success and the empty object goes on.
ReconcileUnchecked(c) ==
    /\ w.pc = "idle"
    /\ queue[c] = "ready"
    /\ queue' = [queue EXCEPT ![c] = "idle"]
    /\ w' = [Idle EXCEPT !.pc = "mkdir", !.key = c, !.bc = cache[c],
                         !.name = [a \in Artifacts |-> Filename[a][artCache[a].rev]]]
    /\ UNCHANGED <<configVars, cache, artVars, artCache, fileVars, boot, now, edits, faults, crashes>>

\* A deleted BootConfig takes its directory with it; a removal that fails
\* half-way is logged and not tried again.
Reconcile(c) ==
    /\ w.pc = "idle"
    /\ queue[c] = "ready"
    /\ queue' = [queue EXCEPT ![c] = "idle"]
    /\ \/ /\ cache[c].obj = Absent
          /\ \/ boot' = [boot EXCEPT ![c] = Empty] /\ UNCHANGED faults
             \/ Fault /\ \E left \in LeftOf(boot[c], FALSE) : boot' = [boot EXCEPT ![c] = left]
          /\ UNCHANGED w
       \/ /\ cache[c].obj # Absent
          /\ Enter(c)
          /\ UNCHANGED <<boot, faults>>
    /\ UNCHANGED <<configVars, cache, artVars, artCache, fileVars, now, edits, crashes>>

Goto(step) == w' = [w EXCEPT !.pc = step]

\* The error path of every assembling step.
Fail == w' = [w EXCEPT !.pc = "setError", !.message = <<Doing[w.pc]>>]

\* What an assembling step leaves alone.
Assembling(step) ==
    /\ w.pc = step
    /\ UNCHANGED <<configVars, cache, artVars, artCache, queue, fileVars, edits, crashes>>

\* A system call of the step fails before it changes anything.
CallFails ==
    /\ w.pc \in DOMAIN Doing
    /\ Assembling(w.pc)
    /\ Fault
    /\ Fail
    /\ UNCHANGED <<boot, now>>

SetDir(d) == boot' = [boot EXCEPT ![w.key] = d]

NewDirectory(d) == IF d = NoFile THEN [type |-> "dir", entry |-> NoEntries] ELSE d

\* MkdirAll of kernel/ and initrd/, or of the boot directory. It fails where
\* initrd is a file that an earlier ISO mode extracted.
Mkdir ==
    /\ Assembling("mkdir")
    /\ \/ spec.mode = "iso" /\ Goto("extract") /\ UNCHANGED boot
       \/ /\ spec.mode = "netboot"
          /\ SetDir([dir EXCEPT !.kernel = NewDirectory(@),
                                !.initrd = IF @ \in Extracted THEN @ ELSE NewDirectory(@)])
          /\ IF dir.initrd \in Extracted THEN Fail ELSE Goto("kernel")
    /\ UNCHANGED <<now, faults>>

-----------------------------------------------------------------------------
(* netboot: ensureSymlink and concatenateFiles *)

SetEntry(d, f, e) == SetDir([dir EXCEPT ![d].entry[f] = e])

Keep(d, names) ==
    SetDir([dir EXCEPT ![d].entry = [f \in Files |-> IF f \in names THEN @[f] ELSE NoFile]])

\* A failing Readlink or Stat of an output is taken for a missing output.
TakenFor(missing) == (missing /\ UNCHANGED faults) \/ Fault

\* If the output is missing, every entry is removed. An entry whose removal
\* fails stays, unnoticed.
Clean(d, missing) ==
    \/ TakenFor(missing) /\ Keep(d, {})
    \/ Fault /\ \E names \in SUBSET {f \in Files : dir[d].entry[f] # NoFile} : Keep(d, names)

\* Variant: any entry is taken for the right link.
EnsureSymlinkAnyTarget(d, link, next) ==
    /\ Assembling(d)
    /\ \/ dir[d].entry # NoEntries /\ Goto(next)
       \/ dir[d].entry = NoEntries /\ Goto(link)
    /\ UNCHANGED <<boot, now, faults>>

\* Variant: the link is made anew every time.
EnsureSymlinkAlways(d, link, next) ==
    Assembling(d) /\ Clean(d, TRUE) /\ Goto(link) /\ UNCHANGED now

Linked(d) == dir[d].entry[w.name[spec[d]]] = LinkTo(spec[d])

\* A link to the right target stays; anything else is cleaned away first.
EnsureSymlink(d, link, next) ==
    /\ Assembling(d)
    /\ \/ Linked(d) /\ Goto(next) /\ UNCHANGED <<boot, faults>>
       \/ Clean(d, ~Linked(d)) /\ Goto(link)
    /\ UNCHANGED now

\* It fails if the name is still taken.
Symlink(d, link, next) ==
    /\ Assembling(link)
    /\ IF dir[d].entry[w.name[spec[d]]] = NoFile
       THEN SetEntry(d, w.name[spec[d]], LinkTo(spec[d])) /\ Goto(next)
       ELSE Fail /\ UNCHANGED boot
    /\ UNCHANGED <<now, faults>>

InitrdStep == IF spec.firmware = None THEN "initrd" ELSE "concat"

KernelLink == EnsureSymlink("kernel", "linkKernel", InitrdStep)
LinkKernel == Symlink("kernel", "linkKernel", InitrdStep)
InitrdLink == EnsureSymlink("initrd", "linkInitrd", "setReady")
LinkInitrd == Symlink("initrd", "linkInitrd", "setReady")

\* The files a name leads to: os.Stat follows a link.
Resolve(e) == CASE e = NoFile -> {}
                [] e \in Links -> {file[e.to[1]][e.to[2]]} \ {NoFile}
                [] OTHER -> {e}

\* initrd/<file>, if it exists.
Dst == Resolve(dir.initrd.entry[w.name[spec.initrd]])

Sources == {FileOf(spec.initrd), FileOf(spec.firmware)}

\* The concatenation is kept if it is newer than both sources; otherwise the
\* directory is cleaned and the sources are read again.
Concat ==
    /\ Assembling("concat")
    /\ \/ Dst # {} /\ NoFile \in Sources /\ Fail /\ UNCHANGED <<boot, faults>>
       \/ /\ NoFile \notin Sources
          /\ \E f \in Dst : \A src \in Sources : f.mtime > src.mtime
          /\ Goto("setReady")
          /\ UNCHANGED <<boot, faults>>
       \/ /\ Clean("initrd", \A f \in Dst : NoFile \notin Sources
                                          /\ \E src \in Sources : f.mtime <= src.mtime)
          /\ Goto("copyInitrd")
    /\ UNCHANGED now

\* A source is opened; what is copied from it is the content it has now,
\* even if it is replaced meanwhile.
CopySource(a, next) ==
    /\ \/ /\ FileOf(a) # NoFile
          /\ w' = [w EXCEPT !.pc = next, !.copied = Append(@, FileOf(a).data)]
       \/ FileOf(a) = NoFile /\ Fail
    /\ UNCHANGED <<boot, now, faults>>

CopyInitrd == Assembling("copyInitrd") /\ CopySource(spec.initrd, "copyFirmware")
CopyFirmware == Assembling("copyFirmware") /\ CopySource(spec.firmware, "write")

\* The last write into the temporary file.
WriteCombined ==
    /\ Assembling("write")
    /\ Stamp
    /\ w' = [w EXCEPT !.pc = "install", !.stamp = now']
    /\ UNCHANGED <<boot, faults>>

\* Close, Chmod and Rename, which replaces an entry that Clean could not
\* remove. Nothing is synced.
Install ==
    /\ Assembling("install")
    /\ SetEntry("initrd", w.name[spec.initrd],
                [type |-> "combined", mtime |-> w.stamp, data |-> <<w.copied[1], w.copied[2]>>])
    /\ Goto("setReady")
    /\ UNCHANGED <<now, faults>>

-----------------------------------------------------------------------------
(* iso: extractFromISO and ensureFileSymlink *)

\* upToDate. os.Stat does not tell a file from a directory, whose time is
\* left open (newer).
UpToDate(e, newer) == IF e \in Extracted THEN e.mtime > FileOf(spec.iso).mtime
                      ELSE e # NoFile /\ newer

\* Variant: only the first output is looked at.
ExtractChecksKernelOnly ==
    /\ Assembling("extract")
    /\ FileOf(spec.iso) # NoFile
    /\ w' = [w EXCEPT !.pc = IF UpToDate(dir.vmlinuz, TRUE) THEN "linkISO" ELSE "extractKernel",
                      !.copied = <<FileOf(spec.iso).data>>]
    /\ UNCHANGED <<boot, now, faults>>

\* Both outputs are kept if both are newer than the image; otherwise the
\* image is opened once and both are extracted from it.
Extract ==
    /\ Assembling("extract")
    /\ \E newer \in BOOLEAN :
        LET current == UpToDate(dir.vmlinuz, newer) /\ UpToDate(dir.initrd, newer)
        IN  \/ FileOf(spec.iso) = NoFile /\ Fail /\ UNCHANGED faults
            \/ FileOf(spec.iso) # NoFile /\ current /\ Goto("linkISO") /\ UNCHANGED faults
            \/ /\ FileOf(spec.iso) # NoFile /\ TakenFor(~current)
               /\ w' = [w EXCEPT !.pc = "extractKernel", !.copied = <<FileOf(spec.iso).data>>]
    /\ UNCHANGED <<boot, now>>

\* extractFile: the file is copied to a temporary file and renamed.
Output(path) == [type |-> "file", mtime |-> now', data |-> <<w.copied[1], path>>]

ExtractKernel ==
    /\ Assembling("extractKernel")
    /\ Stamp
    /\ SetDir([dir EXCEPT !.vmlinuz = Output(spec.kernelPath)])
    /\ Goto("extractInitrd")
    /\ UNCHANGED faults

\* A file cannot be renamed over the directory that netboot mode made.
ExtractInitrd ==
    /\ Assembling("extractInitrd")
    /\ \/ /\ dir.initrd \notin Directory
          /\ Stamp
          /\ SetDir([dir EXCEPT !.initrd = Output(spec.initrdPath)])
          /\ Goto("linkISO")
       \/ dir.initrd \in Directory /\ Fail /\ UNCHANGED <<boot, now>>
    /\ UNCHANGED faults

\* Variant: the link is made anew every time.
LinkISOAlways ==
    /\ Assembling("linkISO")
    /\ SetDir([dir EXCEPT !.iso = {l \in @ : Named(l) # w.name[spec.iso]}])
    /\ Goto("symlinkISO")
    /\ UNCHANGED <<now, faults>>

OtherLinks == {l \in dir.iso : Named(l) # w.name[spec.iso]}

\* ensureFileSymlink: the right link stays, another one of the same name is
\* removed first, if that does not fail. Links with other names stay in any
\* case.
LinkISO ==
    /\ Assembling("linkISO")
    /\ LET linked == LinkTo(spec.iso) \in dir.iso
       IN  \/ linked /\ Goto("setReady") /\ UNCHANGED <<boot, faults>>
           \/ TakenFor(~linked) /\ SetDir([dir EXCEPT !.iso = OtherLinks]) /\ Goto("symlinkISO")
           \/ Fault /\ UNCHANGED boot /\ Goto("symlinkISO")
    /\ UNCHANGED now

SymlinkISO ==
    /\ Assembling("symlinkISO")
    /\ IF dir.iso = OtherLinks
       THEN SetDir([dir EXCEPT !.iso = @ \cup {LinkTo(spec.iso)}]) /\ Goto("setReady")
       ELSE Fail /\ UNCHANGED boot
    /\ UNCHANGED <<now, faults>>

-----------------------------------------------------------------------------
(* setReady, setPending and setError *)

\* Variant: a failed status update is logged and not retried.
FinishSwallowed(step, phase) ==
    /\ w.pc = step
    /\ w' = Idle
    /\ \/ Accept(phase) /\ UNCHANGED faults
       \/ UpdateErr(phase)
    /\ UNCHANGED <<queue, cache, artVars, artCache, fileVars, boot, now, edits, crashes>>

\* A status that already says so is not written. Ready ends the reconcile;
\* Pending and Error come back after a delay, as does a failed update.
Finish(step, phase) ==
    /\ w.pc = step
    /\ w' = Idle
    /\ LET written == w.bc.obj.phase = phase
                      /\ (phase = "Ready" \/ w.bc.obj.message = w.message)
           again   == IF phase = "Ready" THEN UNCHANGED queue ELSE AddAfter(w.key)
       IN  \/ written /\ again /\ Confirm(phase) /\ UNCHANGED <<api, events, faults>>
           \/ ~written /\ Accept(phase) /\ again /\ UNCHANGED faults
           \/ ~written /\ UpdateErr(phase) /\ AddAfter(w.key)
    /\ UNCHANGED <<cache, artVars, artCache, fileVars, boot, now, edits, crashes>>

SetReady == Finish("setReady", "Ready")
SetPending == Finish("setPending", "Pending")
SetError == Finish("setError", "Error")

WorkerStep ==
    \/ Mkdir \/ KernelLink \/ LinkKernel \/ InitrdLink \/ LinkInitrd
    \/ Concat \/ CopyInitrd \/ CopyFirmware \/ WriteCombined \/ Install
    \/ Extract \/ ExtractKernel \/ ExtractInitrd \/ LinkISO \/ SymlinkISO
    \/ CallFails \/ SetReady \/ SetPending \/ SetError

-----------------------------------------------------------------------------
(* The runtime around the reconciler (controller-runtime, external) *)

Oldest(versions, v) == v \in versions /\ \A u \in versions : v.rv <= u.rv

Deliver(c) ==
    /\ \E v \in events[c] :
        /\ Oldest(events[c], v)
        /\ cache' = [cache EXCEPT ![c] = v]
        /\ events' = [events EXCEPT ![c] = @ \ {v}]
    /\ queue' = [queue EXCEPT ![c] = "ready"]
    /\ UNCHANGED <<api, artVars, artCache, w, fileVars, boot, now, edits, faults,
                   crashes, confirmed>>

\* findBootConfigsForArtifact: the cached BootConfigs that name the artifact.
FindBootConfigs(a) ==
    {c \in Configs : cache[c].obj # Absent /\ a \in Refs(cache[c].obj.spec)}

\* A BootArtifact event queues the BootConfigs that refer to it.
DeliverArtifact(a) ==
    /\ \E v \in artEvents[a] :
        /\ Oldest(artEvents[a], v)
        /\ artCache' = [artCache EXCEPT ![a] = v]
        /\ artEvents' = [artEvents EXCEPT ![a] = @ \ {v}]
    /\ queue' = [c \in Configs |-> IF c \in FindBootConfigs(a) THEN "ready" ELSE queue[c]]
    /\ UNCHANGED <<configVars, cache, arts, w, fileVars, boot, now, edits, faults, crashes>>

Elapse(c) ==
    /\ queue[c] = "delayed"
    /\ queue' = [queue EXCEPT ![c] = "ready"]
    /\ UNCHANGED <<configVars, cache, artVars, artCache, w, fileVars, boot, now, edits,
                   faults, crashes>>

\* The manager holds both controllers: a download in progress ends as well.
Restart ==
    /\ crashes < MaxCrashes
    /\ crashes' = crashes + 1
    /\ cache' = api /\ events' = [c \in Configs |-> {}]
    /\ artCache' = arts /\ artEvents' = [a \in Artifacts |-> {}]
    /\ queue' = [c \in Configs |-> IF api[c].obj = Absent THEN "idle" ELSE "ready"]
    /\ w' = Idle
    /\ job' = NoJob
    /\ UNCHANGED <<api, arts, now, edits, faults, confirmed>>

Crash == Restart /\ UNCHANGED <<file, boot>>

\* Nothing in a boot directory is synced, and a download is not before its
\* reconcile has come to the end: entries may be lost, and data. What was
\* removed or replaced does not come back.
PowerLoss ==
    /\ Restart
    /\ \E c \in Configs : \E left \in LeftOf(boot[c], TRUE) : boot' = [boot EXCEPT ![c] = left]
    /\ \/ UNCHANGED file
       \/ job.pc = "finish" /\ file' = [file EXCEPT ![job.key][job.name] = NoFile]

-----------------------------------------------------------------------------
(* The BootArtifact controller, by its effects on objects and files. Both   *)
(* controllers read the objects from the one cache of the manager.          *)

artifactStepVars == <<configVars, cache, artCache, queue, w, boot, edits, crashes>>

PublishArtifact(a, rev, phase) ==
    LET v == [rv |-> arts[a].rv + 1, rev |-> rev, phase |-> phase]
    IN  /\ arts' = [arts EXCEPT ![a] = v]
        /\ artEvents' = [artEvents EXCEPT ![a] = @ \cup {v}]

SetPhase(a, phase) == PublishArtifact(a, arts[a].rev, phase)

\* The path of a version's file, what is there, and whether that is right.
\* Files under earlier names stay on disk.
PathOf(a, v) == Filename[a][v.rev]
Matches(a, v) == file[a][PathOf(a, v)] # NoFile /\ file[a][PathOf(a, v)].data = <<a, v.rev>>

Path(a) == PathOf(a, arts[a])
Present(a) == file[a][Path(a)]
Matching(a) == Matches(a, arts[a])

\* A status update that starts from version v is accepted.
Latest(a, v) == arts[a].phase # "none" /\ v.rv = arts[a].rv

Begin(a, v, pc) == job' = [pc |-> pc, key |-> a, read |-> v, name |-> PathOf(a, v), file |-> NoFile]

\* verifyExisting finds a file with the wrong digest and is about to remove
\* it. The version it read may be old.
Verify(a) ==
    /\ job = NoJob
    /\ LET v == artCache[a]
       IN  /\ v.phase # "none"
           /\ file[a][PathOf(a, v)] # NoFile /\ ~Matches(a, v)
           /\ Begin(a, v, "remove")
    /\ UNCHANGED <<artifactStepVars, artVars, file, now, faults>>

Discard ==
    /\ job.pc = "remove"
    /\ file' = [file EXCEPT ![job.key][job.name] = NoFile]
    /\ job' = NoJob
    /\ UNCHANGED <<artifactStepVars, artVars, now, faults>>

\* verifyExisting finds the right file, and the object does not say so yet.
VerifyMatch(a) ==
    /\ job = NoJob
    /\ Latest(a, artCache[a]) /\ arts[a].phase # "Ready"
    /\ Matching(a)
    /\ SetPhase(a, "Ready")
    /\ UNCHANGED <<artifactStepVars, fileVars, now, faults>>

\* The status update at the beginning of download. One that changes nothing,
\* after a download that was cut off, makes no version.
SetDownloading(a) ==
    IF arts[a].phase = "Downloading" THEN UNCHANGED artVars ELSE SetPhase(a, "Downloading")

\* There is no file, or one that could not be removed.
StartDownload(a) ==
    /\ \/ job = NoJob /\ Latest(a, artCache[a]) /\ Present(a) = NoFile /\ UNCHANGED faults
       \/ job.pc = "remove" /\ job.key = a /\ Latest(a, job.read) /\ Fault
    /\ SetDownloading(a)
    /\ Begin(a, arts[a], "get")
    /\ UNCHANGED <<artifactStepVars, file, now>>

\* The second Get, after which only the name of the file is kept.
Refetch ==
    /\ job.pc = "get"
    /\ job' = IF artCache[job.key].phase = "none" THEN NoJob
              ELSE [job EXCEPT !.pc = "write", !.read = artCache[job.key]]
    /\ UNCHANGED <<artifactStepVars, artVars, file, now, faults>>

\* The temporary file is complete; its modification time is that of the
\* last write, not of the rename.
WriteTmp ==
    /\ job.pc = "write"
    /\ Stamp
    /\ job' = [job EXCEPT !.pc = "rename",
                          !.file = [data |-> <<job.key, job.read.rev>>, mtime |-> now']]
    /\ UNCHANGED <<artifactStepVars, artVars, file, faults>>

RenameTmp ==
    /\ job.pc = "rename"
    /\ file' = [file EXCEPT ![job.key][job.name] = job.file]
    /\ job' = [job EXCEPT !.pc = "finish"]
    /\ UNCHANGED <<artifactStepVars, artVars, now, faults>>

\* The last status update may meet a newer version.
EndDownload ==
    /\ job.pc = "finish"
    /\ IF Latest(job.key, job.read) THEN SetPhase(job.key, "Ready") ELSE UNCHANGED artVars
    /\ job' = NoJob
    /\ UNCHANGED <<artifactStepVars, file, now, faults>>

\* A call of a download fails, at the end the sync of a file already in
\* place; so may the status update that says so.
FailDownload ==
    /\ job.pc \in {"get", "write", "rename", "finish"}
    /\ Fault
    /\ \/ UNCHANGED artVars
       \/ job.pc # "get" /\ Latest(job.key, job.read) /\ SetPhase(job.key, "Error")
    /\ job' = NoJob
    /\ UNCHANGED <<artifactStepVars, file, now>>

\* A failing Stat, whatever phase the artifact is in.
FailStat(a) ==
    /\ job = NoJob
    /\ Latest(a, artCache[a])
    /\ Fault
    /\ SetPhase(a, "Error")
    /\ UNCHANGED <<artifactStepVars, fileVars, now>>

\* One worker for all artifacts.
ArtifactStep ==
    \/ \E a \in Artifacts : Verify(a) \/ VerifyMatch(a) \/ StartDownload(a)
    \/ Discard \/ Refetch \/ WriteTmp \/ RenameTmp \/ EndDownload

-----------------------------------------------------------------------------
(* Users *)

UserEdit == edits < MaxEdits /\ edits' = edits + 1

Submit(c, obj) ==
    /\ UserEdit
    /\ Publish(c, obj)
    /\ UNCHANGED <<cache, artVars, artCache, queue, w, fileVars, boot, now, faults, crashes, confirmed>>

Create(c, s) ==
    /\ api[c].obj = Absent
    /\ Submit(c, [spec |-> s, gen |-> api[c].rv + 1, phase |-> "", message |-> <<>>])

\* A spec edit keeps the status.
Edit(c, s) ==
    /\ api[c].obj # Absent
    /\ s # api[c].obj.spec
    /\ Submit(c, [api[c].obj EXCEPT !.spec = s, !.gen = api[c].rv + 1])

Delete(c) == api[c].obj # Absent /\ Submit(c, Absent)

\* Creation, a new digest with the status kept, or deletion of an artifact,
\* whose files stay.
SubmitArtifact(a, rev, phase) ==
    /\ UserEdit
    /\ \/ arts[a].phase = "none" /\ phase = ""
       \/ arts[a].phase # "none" /\ phase = "none" /\ rev = arts[a].rev
       \/ arts[a].phase # "none" /\ phase = arts[a].phase /\ rev # arts[a].rev
    /\ PublishArtifact(a, rev, phase)
    /\ UNCHANGED <<configVars, cache, artCache, queue, w, fileVars, boot, now, faults, crashes>>

Next ==
    \/ \E c \in Configs : Reconcile(c) \/ Deliver(c) \/ Elapse(c) \/ Delete(c)
    \/ WorkerStep
    \/ \E c \in Configs, s \in Specs : Create(c, s) \/ Edit(c, s)
    \/ \E a \in Artifacts : DeliverArtifact(a) \/ FailStat(a)
    \/ ArtifactStep \/ FailDownload
    \/ \E a \in Editable, r \in Revisions :
            \E phase \in {"none", "", arts[a].phase} : SubmitArtifact(a, r, phase)
    \/ Crash
    \/ PowerLoss

Spec == Init /\ [][Next]_vars

\* Both controllers, the watches and the timers keep going.
Fairness ==
    /\ WF_vars(WorkerStep) /\ WF_vars(ArtifactStep)
    /\ \A c \in Configs : WF_vars(Reconcile(c)) /\ WF_vars(Deliver(c)) /\ WF_vars(Elapse(c))
    /\ \A a \in Artifacts : WF_vars(DeliverArtifact(a))

FairSpec == Spec /\ Fairness

-----------------------------------------------------------------------------
(* Properties *)

TypeOK ==
    /\ api \in [Configs -> Version]
    /\ events \in [Configs -> SUBSET Version]
    /\ cache \in [Configs -> Version]
    /\ arts \in [Artifacts -> ArtifactVersion]
    /\ artEvents \in [Artifacts -> SUBSET ArtifactVersion]
    /\ artCache \in [Artifacts -> ArtifactVersion]
    /\ queue \in [Configs -> {"idle", "delayed", "ready"}]
    /\ w \in {Idle} \cup Reconciling
    /\ file \in [Artifacts -> [Files -> File \cup {NoFile}]]
    /\ job \in {NoJob} \cup Jobs
    /\ boot \in [Configs -> BootDir]
    /\ now \in 0..MaxTime
    /\ edits \in 0..MaxEdits /\ faults \in 0..MaxFaults /\ crashes \in 0..MaxCrashes
    /\ confirmed \in [Configs -> Nat]

\* Ready, the controller has come to that conclusion for the spec the object
\* has now, and no reconcile is at work on the directory or waiting to be.
ReadyNow(c) ==
    /\ api[c].obj # Absent
    /\ api[c].obj.phase = "Ready"
    /\ api[c].obj.gen = confirmed[c]
    /\ w.key # c /\ queue[c] = "idle"

\* What BootDirectiveForMAC sends a machine to: files of boot/<name> at the
\* paths it computes, made from the artifacts of the spec at revisions R.
HasLink(d, a, R(_)) == \E r \in R(a) : d.entry[Filename[a][r]] = Link(a, Filename[a][r])

HasCombined(d, s, R(_)) ==
    \E r \in R(s.initrd) :
        LET e == d.entry[Filename[s.initrd][r]]
        IN  /\ e \in Combined
            /\ e.data # Torn => e.data \in ({s.initrd} \X R(s.initrd)) \X ({s.firmware} \X R(s.firmware))

ServesNetboot(d, s, R(_)) ==
    /\ d.kernel \in Directory /\ HasLink(d.kernel, s.kernel, R)
    /\ d.initrd \in Directory
    /\ IF s.firmware = None THEN HasLink(d.initrd, s.initrd, R) ELSE HasCombined(d.initrd, s, R)

ServesISO(d, s, R(_)) ==
    /\ \E r \in R(s.iso) : Link(s.iso, Filename[s.iso][r]) \in d.iso
    /\ d.vmlinuz \in Extracted /\ d.initrd \in Extracted
    /\ \E r \in R(s.iso) : /\ d.vmlinuz.data \in {Torn, <<<<s.iso, r>>, s.kernelPath>>}
                           /\ d.initrd.data \in {Torn, <<<<s.iso, r>>, s.initrdPath>>}

Serves(c, R(_)) ==
    LET s == api[c].obj.spec
    IN  IF s.mode = "iso" THEN ServesISO(boot[c], s, R) ELSE ServesNetboot(boot[c], s, R)

AnyRevision(a) == Revisions
WantedRevision(a) == {arts[a].rev}

\* A BootConfig found Ready for its present spec serves exactly what that spec
\* names: kernel and initrd of its own artifacts and not of those an earlier
\* spec named (ensureSymlink, concatenateFiles, extractFromISO).
ReadyServes == \A c \in Configs : ReadyNow(c) => Serves(c, AnyRevision)

Satisfiable(s) ==
    /\ \A a \in Refs(s) : arts[a].phase # "none"
    /\ s.mode = "iso" => {s.kernelPath, s.initrdPath} \subseteq SafePaths

\* Once users, faults and crashes stop, a BootConfig whose artifacts exist is
\* Ready for good and serves their present content: no lost event, conflict,
\* failing call or crash half-way leaves it stuck (Reconcile, its requeues and
\* findBootConfigsForArtifact).
Settles ==
    <>[](\A c \in Configs :
            api[c].obj # Absent /\ Satisfiable(api[c].obj.spec) =>
                /\ api[c].obj.phase = "Ready"
                /\ \A a \in Refs(api[c].obj.spec) : Matching(a)
                /\ Serves(c, WantedRevision))

\* Nothing is on its way for the BootConfig or the artifacts it refers to,
\* and no reconcile of those artifacts is in progress.
Quiet(c) ==
    /\ events[c] = {}
    /\ \A a \in Refs(api[c].obj.spec) :
            /\ arts[a].phase = "Ready" /\ Matching(a) /\ artEvents[a] = {}
            /\ job.pc = "idle" \/ job.key # a

\* Comments on outputs that are newer than their sources: "already extracted
\* and current" in extractFromISO, "already up to date" in concatenateFiles.
\* When everything has come to rest a Ready BootConfig must serve the present
\* content of its artifacts.
ServesCurrent ==
    \A c \in Configs : ReadyNow(c) /\ Quiet(c) => Serves(c, WantedRevision)
=============================================================================
