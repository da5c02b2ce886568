# A verification project for isoboot

isoboot turns Kubernetes objects into network boots: `BootArtifact`s are files
to download and verify, `BootConfig`s assemble them into a directory that nginx
serves, `Provision`s say which machine is to be installed from which
`BootConfig`, and `ProvisionAutomation`s are templates of the files an installer
asks for. This directory holds TLA+ models of that code, the TLC
configurations that check them and proofs that TLAPS checks. `src/` paths below
are those of the repository; `PROJECT.json` maps every definition to the lines it
stands for.

## 1. Inventory

| component | source | state it keeps | operations |
|---|---|---|---|
| BootArtifact controller | `internal/controller/bootartifact_controller.go` | status of the object, `artifacts/<name>/<file>`, `<file>.tmp` | `Reconcile`, `verifyExisting`, `download`, `setReady`, `setFailure` |
| BootConfig controller | `internal/controller/bootconfig_controller.go` | status of the object, `boot/<name>/` (links, a concatenation, extracted files) | `Reconcile`, `reconcileISO`, `ensureSymlink`, `ensureFileSymlink`, `concatenateFiles`, `extractFromISO`, `setReady`/`setPending`/`setError`, `findBootConfigsForArtifact` |
| Provision controller | `internal/controller/provision_controller.go` | `status.phase` of a new Provision | `Reconcile` |
| httpd | `cmd/httpd/main.go`, `internal/httpd/*.go` | `status.phase` of a Provision; its own informer cache of Machines and Provisions | `GET /conditional-boot`, `POST /status`, `GET /automation/...`, `/healthz` |
| indexes, URL helper | `internal/controller/indexers.go`, `internal/urlutil` | none | index functions, `FilenameFromURL` |
| manager | `cmd/main.go` | none of its own | starts the three controllers in one process |
| deployment | `charts/`, `config/` | configuration of nginx, dnsmasq, squid | not modelled, except that nginx serves `boot/` |

How they interact. The controllers never call each other. They share the
Kubernetes API (objects with optimistic locking on `resourceVersion`), an
informer cache that lags behind it, and the data directory. The BootConfig
controller watches BootArtifacts and reads the files the BootArtifact controller
writes. httpd and the manager are different processes with a cache each; both
write the phase of a Provision. Machines call httpd for a boot script, load the files
it names from nginx, fetch automation files during the installation and report
`InProgress` and `Complete`. Neither httpd nor nginx waits for the controllers: a script
is made from specs, a file is served as it is found.

What is hard here, and what the properties are about:

* every decision is taken on a cached copy that may be old, and the copy and the
  decision are used several steps later;
* a reconcile is a long sequence of file system and API calls, each of which may
  fail, after which the key is tried again from the start with what is left on disk;
* the process may die between any two steps, and the node may lose what was not
  synced;
* a status update may be applied and reported as failed;
* whether a copy of a file is up to date is decided by modification times, while
  the sources are replaced by another controller;
* a boot directory is read by machines while it is assembled again;
* requests to httpd overlap and are repeated, and one request reads several objects
  one after the other while users change them.

The complete list, each hazard at its line, is `hazards` in `PROJECT.json`.

What makes each component correct:

* BootArtifact: `Ready` means that the file of the present spec is on disk with the
  expected digest; no half-written file becomes visible; verified files are not
  downloaded again; every artifact gets there in the end.
* BootConfig: `Ready` means that the directory serves what the spec names; it
  gets there in the end, with the present content of the artifacts; assembling a
  directory that is right already disturbs no machine that boots from it.
* Provision: the phase moves through Pending, InProgress, Complete without
  skipping or going back, one request wins each transition, and a boot script goes
  to the machine it is meant for.
* Automation: a rendered value comes from the object that the merge order says, a file
  with a missing strict key is never sent, and 404 is answered only if something was missing.

## 2. Modules

| module | what it is |
|---|---|
| `BootArtifact` | the BootArtifact controller with API server, cache, work queue, disk |
| `MCBootArtifact` | its instances for TLC |
| `BootArtifactProofs` | its theorems |
| `ProvisionLifecycle` | abstract specification of the phase of a Provision |
| `Provision` | Provision controller and httpd (`POST /status`, `GET /conditional-boot`) around one API server, with Machines that change |
| `MCProvision` | its instances for TLC |
| `ProvisionProofs` | type correctness, and that `Provision` implements `ProvisionLifecycle` |
| `ProvisionAnswerProofs` | what a client was told: extends `ProvisionProofs` with the theorems about requests |
| `BootConfig` | the BootConfig controller, its boot directories and time stamps, the artifacts that change under it |
| `MCBootConfig` | its instances for TLC |
| `BootConfigProofs` | its theorems |
| `BootConfigRestProofs` | what is left once everything has come to rest: extends `BootConfigProofs` |
| `NetworkBoot` | composes `BootConfig` with `BootDirectiveForMAC`, nginx and a machine that boots; uses `ProvisionLifecycle` for the Provision |
| `MCNetworkBoot` | its instances for TLC |
| `NetworkBootProofs` | its theorems, on top of `BootConfigRestProofs` |
| `Automation` | `GET /automation`: `RenderAutomationFile` and `buildTemplateData` |
| `MCAutomation` | its instance for TLC |
| `AutomationProofs` | its theorems |

Definitions whose names begin like another one and end in a fault
(`SyncTmpSkipped`, `FinishSwallowed`, ...), marked "Variant" in their comments, are
plausible mistakes in the code. No specification uses them; `mutants` in
`PROJECT.json` says which property finds which one.

### The part the controller models share: Kubernetes and controller-runtime (external)

* `api[x]` is the newest version of an object, a resource version with the object
  or `Absent`. `Publish` adds one and makes it a watch event. `Current` is the test
  the server makes on `Status().Update`: it accepts only the version the caller
  holds. An update that changes nothing creates no version.
* An error of an update leaves it open whether the update was applied: `UpdateErr`
  has both cases.
* `cache[x]` is the informer's copy; `Deliver` applies the oldest event not yet
  seen. A cache is late but never goes back.
* `queue[x]` is `idle`, `delayed` or `ready`. Every event makes a key ready at once,
  whatever delay it had; a returned error or `RequeueAfter` makes it delayed. A key
  is never worked on twice at the same time, and there is one worker per controller
  (`MaxConcurrentReconciles` is not set).
* `Restart` lists all objects, queues those that exist, and forgets timers and the
  reconcile in progress. One manager runs at a time: the charts have one replica.
* `gen` (in BootArtifact and BootConfig) stands for uid and generation: it
  changes exactly when the spec does. A spec edit keeps the status.

### BootArtifact

`w` is the reconcile in progress: `pc` is the next step, `artifact`, `filePath` and
`sum` are the locals of `Reconcile` and `download`, `cleanup` says that the deferred
removal of the temporary file is registered. Each action is one call that
others can interleave with: `Stat`, the four outcomes of `verifyExisting`, the status
write and the second `Get` of `download`, `Mkdir`, `Get` (the HTTP request and
`os.Create`), `Copy`, `SyncTmp`, `Rename`, `SyncDir`, `SetReady`, `SetFailure`. Note that
`Refetch` replaces the object and not `filePath`, as in the code.

Files are abstracted to one of a few contents, or `Torn` for data that is not whole.
`survivors[p]` is the set of directory entries path `p` may show after a power loss: a
rename adds the new one, `SyncDir` leaves only the present one; renaming a file whose data was
not synced adds `Torn`. `PowerLoss` picks one per path. `Disturb` is somebody else
removing or replacing a file. A digest is a pair of algorithm and content, so that
equal digests mean equal contents and the same algorithm. The URL's file name is
the constant function `Filename`.

### Provision

`req[r]` is an HTTP request. `POST /status` is `PostStatus` (validation passed),
`UpdateGet` (cache read and check) and `UpdateWrite`; `GET /conditional-boot` is
`GetBoot`, the two lists of `PendingProvisionForMAC` (`ListMachines`, `ListProvisions`) and
`LookupBootConfig`. `BadRequest` stands for every request refused before anything is
read. The reconciler is `ReconcileGet` and `ReconcileUpdate`. `watch` and `cache`
exist once per process. `uid` tells a Provision from a later one of the same name;
`machine` is its `machineRef`, which users may edit.

`machines[m]` is the sequence of versions of a Machine from httpd's copy (its head) to
the latest. `ChangeMachine` appends (creation, a new MAC, deletion) and `DeliverMachine`
drops the head; the two watches are not ordered with each other. The field `arrived`
of a request is a history variable: the Machines when it came.

`ProvisionLifecycle` is what both processes promise together. `PhaseOf` is the
refinement mapping.

### BootConfig

`CheckList` is the sequence of checks before any file is touched; the first that
fails decides between Pending and Error (`Enter`). A reconcile that passes them reads
the file names of its artifacts then (`w.name`) and keeps them to its end, while an edited URL
may already have given an artifact another path. The steps that follow are those of the
two modes. `boot[c]` records what is in `boot/<name>`: `kernel` and `initrd` as directories
that map file names to entries (links and concatenations), `vmlinuz` and `initrd` as
extracted files, and the links to images. Every file written gets the next value of
a logical clock, `now`; a rename keeps the time of the last write. The time of a
directory is left open (`UpToDate`). `concatenateFiles`
is split where others can act: the check (`Concat`), the opening of each source
(`CopyInitrd`, `CopyFirmware`: what is read is the file that was opened, even if it is replaced
during the copy), the last write, which sets the time (`WriteCombined`), and the
rename (`Install`). Extraction opens the image once, so both outputs come from one
content. `ensureFileSymlink` is `LinkISO` (look, remove) and `SymlinkISO`.

The code ignores a removal that fails in `ensureSymlink`, `concatenateFiles` and
`ensureFileSymlink`; `Clean` and `LinkISO` then leave any of the old entries, and `Symlink` and
`SymlinkISO` fail where the name is still taken. What a failing `RemoveAll` leaves of a deleted
BootConfig's directory is `LeftOf`. A `Readlink` or `Stat` that fails is taken for a missing
output (`TakenFor`).

The BootArtifact controller appears by its effects on objects and files. `job` is its one
worker: the artifact, the version it read last, the file name it keeps from the first `Get`, and the
temporary file. Its steps are those `BootArtifact` gives it: `Verify` finds a file with the
wrong digest, `Discard` removes it or the removal fails and the download replaces it
(`StartDownload`), `Refetch` reads the object again, `WriteTmp` completes the temporary file (this
sets the modification time), `RenameTmp`, `EndDownload` with phase Ready, `FailDownload` with Error;
`VerifyMatch` and `FailStat` end a reconcile without a download, the latter in Error whatever the
phase was. It reads the same cache as the BootConfig controller, so it may work from an old
version, and the content of a new URL may get the old name. A download of the wrong content
is one of the calls that fail. Left out are steps that change nothing and are tried again: a failing hash,
a conflict at the first write.
Files of earlier names stay on disk, as in the code.

Nothing of a boot directory is synced, so `PowerLoss` may take entries of one, and the data of a concatenated
or extracted file while its time stays; it may also take a download that was renamed and whose
directory was not synced yet. Not modelled is that something removed or replaced comes back.

### NetworkBoot

`m[p]` is the machine of a Provision. `GetBootConfig` and `GetArtifact` are the uncached
reads of `BootDirectiveForMAC`, one at a time; `Load` is nginx following the path of the
script's next file; a 404 or 500 ends the attempt and `Retry` begins another. Every other step is one of
`BootConfig` (`Next /\ Meanwhile`). The field `settled` is history: the directory was
Ready, current and quiet when the machine asked, and since then no user acted, no
call failed and no power loss took anything (a restart of the manager is allowed). After `booted` the installer reports
`InProgress`, a step of `ProvisionLifecycle`.

### Automation

A request reads the Provision from httpd's cache (`GetProvision`; the cache may hold any
version between its last and the latest), then live the ProvisionAutomation
(`GetAutomation`) and each ConfigMap and Secret in the order of the references (`GetData`, which
merges by copying keys). `Render` evaluates the template: strict references are fields,
lenient ones `index`. A template is what it refers to and whether it parses.
`during` is history: everything each object has been, or that it was absent, since the request
came. Requests only read, so one at a time shows
everything; httpd's restart would only cut a request off.

## 3. Runs

All runs set `CHECK_DEADLOCK FALSE`: users, faults and crashes are bounded, and a
system with nothing to do stops.

### Passing

| run | instance | shows |
|---|---|---|
| `artifact_safety` | 1 artifact, 2 specs (URL, content and algorithm differ), 3 user requests, 2 faults, 1 crash or power loss, file damage; 2 214 834 states | `TypeOK`, `ReadyVerified`, `NeverTorn`, `NoNeedlessDownload` |
| `artifact_liveness` | 2 artifacts and one worker, 2 specs with different file names, 2 user requests, 1 fault, 1 crash or power loss; 316 734 states | `Converges` |
| `provision_lifecycle` | 1 Provision, 2 requests, 3 user requests (creation, deletion, re-creation), 1 failing write, 1 restart of either process; 62 363 states | `TypeOK`, `OneAccepted`, `AcceptedSticks`, `FollowsLifecycleFairly` |
| `provision_machines` | 2 Provisions, 2 Machines, 2 MACs, 3 user requests in any mixture (Provisions created, pointed at the other Machine, deleted; MACs set, changed, taken away), 1 request; 654 999 states up to symmetry (it also holds with 4 user requests, in 8 236 628 states) | `DirectiveForOwnMachine` |
| `config_netboot` | 2 specs: one initrd concatenated with firmware, another linked; the linked artifact gets a new digest or is deleted; 2 user requests, 1 fault, 1 crash or power loss; 590 410 states | `TypeOK`, `ReadyServes`, `Settles` |
| `config_iso` | 1 image, a safe and an unsafe path, artifact deleted and created again, 3 user requests, 1 fault, 1 crash or power loss; 354 320 states | `ReadyServes`, `Settles` |
| `boot_netboot` | the specs of `config_netboot` and one machine; the linked artifact gets a new content and file name; 2 user requests, no fault, 1 crash or power loss; 163 382 states | `MachineTypeOK`, `BootsAsSpecified`, `Boots` |
| `boot_iso` | one image and one machine, 2 user requests, 1 fault, 1 crash or power loss; 394 250 states | `BootsAsSpecified`, `Boots` |
| `automation` | 1 Provision, 1 ProvisionAutomation, 2 ConfigMaps in either order and 2 Secrets, strict and lenient references, 2 user requests (every object may change at any moment of a request), 1 failing read; 5 233 856 states | `TypeOK`, `LastWins`, `NotFoundJustified`, `StrictKeys` |

The bounds. Each known problem of this kind of system needs two user requests (a
creation and an edit, or a deletion and a re-creation), one fault or one crash, and
two contents to tell old from new. The bounds allow one more user request than that
where TLC can finish, so that an edit and its reversal, or deletion and re-creation
around a fault, occur. A second artifact is needed only for the shared worker and
for paths; two requests are enough for any pair that overlaps. The clock bound
`MaxTime` is never reached in the liveness runs, which would otherwise fail.
`failureCount` and resource versions are bounded by the other bounds.

### Violations

Each states what a comment or `PLAN.md` says and shows an execution of the code that
does not comply; `findings` in `PROJECT.json` quotes the line.

| run | property | what happens |
|---|---|---|
| `artifact_backoff` | `BackoffHonoured` | the controller's own status write re-queues a failed artifact at once |
| `artifact_newname` | `ReadyVerified` | URL edited between the two `Get`s: new content under the old name, Ready |
| `config_stale` | `ServesCurrent` | an image's URL is edited during the extraction: kernel and initrd of the old image are newer than the new one and stay for good |

### What the passing runs leave out on purpose

The instances above keep clear of the following, which the same models show when a
constant of a configuration is changed (together with `Artifacts`, `Initial` and `Files`, so that all
artifacts of the specs and their file names are there):

* `Name <- SharedName` in `BootArtifact_liveness.cfg`, with two artifacts and
  `ReadyVerified`: `filePath` has no namespace, so artifacts of one name in two namespaces
  replace each other's file while both are Ready.
* `Specs <- FirmwareSpecs` in `BootConfig_netboot.cfg` (with `gw`): when
  `firmwareRef` is switched to an artifact downloaded earlier, the old
  concatenation is newer than both sources and `ReadyServes` fails.
* `Specs <- FirmwareSpec` with `Editable = {i}`: the source of a concatenation is replaced
  during the copy, the result is newer than the new content and stays (`Settles`).
* `Specs <- PathSpecs` in `BootConfig_iso.cfg`: an edited `kernelPath` is not
  noticed, because the outputs are newer than the image; `ReadyServes` fails.
* `Specs <- ImageSpecs` (with `jmg`): a switch to another image downloaded earlier is not noticed
  for the same reason; `ReadyServes` fails.
* `Revisions = {v1, v2}` in `BootConfig_iso.cfg`: an image that is replaced has
  the problem `config_stale` shows, under the same or another file name (`Settles`). If the extraction of the
  old image ends after the new one was written and the manager crashes between the two renames of
  the next extraction, kernel and initrd of different images stay, both newer than the image
  (`ReadyServes`).
* `Specs <- ModeSpecs` (with `k`, `i` and `img`): from iso to netboot the extracted
  file `initrd` is where a directory is needed, and every retry fails (`Settles`). From
  netboot to iso the extraction of `initrd` fails once; on the retry `upToDate` takes the
  directory for an extracted file and the BootConfig becomes Ready without an initrd
  (`ReadyServes`).
* After a power loss a combined or extracted file may be empty and is kept because of its
  time; `ReadyServes` and `BootsAsSpecified` allow `Torn` for that reason.

More follow from single actions, so no property is kept for them:

* `Refetch` reads the cache, which may be older than the status update before it;
  the final write then conflicts although nobody else wrote.
* When `SyncDir` fails, the retry takes `VerifyMatch`, which syncs nothing, and
  the file of a Ready artifact may still be lost to a power loss.
* `Reconcile` of a deleted BootConfig is the only place that removes its directory:
  a failing removal is not retried, and a deletion while the manager is down is not
  seen after `Restart`.
* `CheckList` asks only for Ready, so an artifact in Error makes a BootConfig Pending
  where `PLAN.md:80` says Error. In the same way `UpdateGet` refuses a transition that the
  Provision allows when httpd's cache is old.
* `ListProvisions` reads httpd's cache: a machine that asks right after it reported
  `InProgress` may get the script once more. While Machines are changed, a script may go out for a
  Provision whose Machine no longer has the MAC; `DirectiveForOwnMachine` therefore speaks of
  settled Machines.
* `GetData` answers 404 (`NotFound`) for a missing ConfigMap or Secret too, which the comment of
  `IsAutomationNotFound` (`automation.go:46-47`) does not list; `NotFoundJustified` allows it. A file may mix values of different moments; a malformed
  template is noticed only after all data was read.

`ReadyVerified` passes in `artifact_safety` and fails in `artifact_newname` and
with `SharedName`: the difference is `StableFilename` and `OwnNames`, and the
proof shows that these two conditions are what the code needs. In the same
way `ReadyServes` passes in `config_netboot` and `config_iso`, where no edit changes
the firmware alone or the path within an image and no image gets a new content; `Compatible`, the
condition under which `ReadyServesCompatible` is proved, says the same of any specs: two netboot specs of a
BootConfig may have initrds under one file name only if both make the same file there (`OwnInitrds`), two
iso specs with safe paths must be equal (`OneImage`), and the mode stays.

### Fairness

Weak fairness of the worker's steps, of taking a ready key, of event delivery and of
queue timers. The code justifies each: a worker goroutine runs as long as the
manager does; every call in a reconcile ends (the HTTP client has a timeout of 30
minutes, file and API calls return); informers re-establish broken watches; timers
fire. A handler of httpd that has started ends. Requests, users, faults and crashes
are not fair. `NetworkBoot` adds that a machine whose boot failed asks again, which is what the
firmware of a machine that finds no boot medium does. In `BootConfig` the worker of the BootArtifact
controller is fair as a whole (`ArtifactStep`), because one goroutine takes all its steps. A step that can fail is fair as a
whole, and the number of faults is bounded, so "eventually" means: once faults stop.

## 4. Proofs

`BootArtifactProofs` proves, for any sets of artifacts, specs, contents and paths
and for any bounds, from the assumptions named in `BootArtifact`
(`ConstantsAssumption`, `BoundsAssumption`):

* `TypeCorrect`: `Spec => []TypeOK`. Inductive invariant `TypeInv`: `TypeOK` and
  `TmpInv`, which says that the worker has a temporary file whenever a step needs one.
* `NeverTornTheorem`: `Spec => []NeverTorn`. `IntactInv` adds that no survivor is
  torn, and that the temporary file is whole from `Copy` on and synced when it is renamed.
* `ReadyVerifiedTheorem`: `Spec => []ReadyVerified`, assuming `OwnNames` (no two
  artifacts share a name) and `StableFilename` (edits keep the file name); the
  run `artifact_newname` and the instance with `SharedName` show that neither can be
  dropped. The argument has two parts.
  `VersionInv` relates everything that holds a version (API server, events, cache,
  worker) by `KnownIn`: no copy is newer than the API server's, equal resource
  versions mean equal objects, a generation determines the spec, and no copy is
  older than the last generation reported Ready. The last part is what keeps a
  stale reconcile from removing a verified file: the worker read its copy from a
  cache that had already reached that generation. `FileReadyInv` then says at each step
  what the worker knows about its file: the digest computed is that of the temporary
  file, the file to be renamed matches, the file about to be reported matches unless
  somebody disturbed it.
* `NoNeedlessDownloadTheorem`: `Spec => NoNeedlessDownload` from the same invariants:
  at the step that writes Downloading, if that write can succeed then the artifact
  is not Ready.

`ProvisionProofs` proves, from the assumptions named in `Provision`:

* `TypeCorrect`: `Spec => []TypeOK`.
* `ImplementsLifecycle`: `Spec => FollowsLifecycle`, step simulation under
  `PhaseOf`. The inductive invariant `CopyInv` says that every copy (event, cache,
  reconcile, request) with the API server's resource version equals the API
  server's object, and that the phase a reconcile or request holds is the one its
  next write requires; so a write that is accepted starts from the phase it was
  checked against, however old the cache was.

`ProvisionAnswerProofs` proves, for any number of requests, Provisions and Machines:

* `OneAcceptedHolds` and `AcceptedSticksHolds`. `KnownInv` says that no copy is ahead of the
  API server: a copy with the same uid has no later phase (`Rank` numbers the phases) and
  an older resource version. `ClaimInv` says the same of what a request was told: once it has
  a 200 for a phase, the Provision of that uid has that phase or a later one, so a second request
  that holds the required earlier phase holds an old version and its write is refused.
* `DirectiveHolds`. `AskInv` follows a boot request through its two lists: as long as the
  Machines are those of its arrival (`Aged`, `SettledBefore`), the Machine it found is the one with
  the MAC, and the Provision it found was Pending in a version the API server had.

`AutomationProofs` proves, for any sets of objects, keys and values and any order of
references: `TypeCorrect`, `LastWinsHolds`, `NotFoundHolds`, `StrictKeysHolds`. The inductive
invariants `LastInv`, `FoundInv` and `StrictInv` relate what was merged so far to the objects
read so far, and every answer to what was missing at some moment.

`BootConfigProofs` proves, for any sets of BootConfigs, artifacts and files and any bounds, from the
assumptions named in `BootConfig`:

* `TypeCorrect`: `Spec => []TypeOK`. `Prepared` adds what a reconcile relies on at each step: the
  directories exist, the spec is of the mode of the step, and as many sources were read
  as the step uses.
* `ReadyServesCompatible`: `Spec /\ []Submitted(A) /\ []Unreplaced(R) => []ReadyServes`, for any sets `A[c]` of
  specs that are `Compatible`. Each BootConfig is given specs of its `A[c]` only, which are either all
  netboot specs with initrds of their own (`OwnInitrds`) or all iso specs, of which those with safe paths
  are one and the same (`OneImage`: an edit to an unsafe path and back is covered, one to another image
  or path is not); and the images that specs name keep the content `R`. Section 3 shows an instance for
  each condition in which `ReadyServes` fails without it. The invariant `SetUpInv` has eight parts:
  * `TypeInv` is type correctness with `Prepared`.
  * `VersionsInv` says of all the versions of a BootConfig that anybody holds
    (`Known`: API server, events, cache, worker) that equal resource versions are equal objects and that a
    spec changes only together with its generation, so that Ready is confirmed for the
    spec that was worked on or for none.
  * `SubmittedInv` says that all those versions have a spec of `A[c]`.
  * `FilesInv`: the files of an artifact hold that artifact's content, which carries over to what a
    concatenation copied. `ImagesInv`: those of an image hold `R`, which carries over to what is extracted.
  * `DirectoriesInv`: each entry of `initrd/` was made for one of the specs (`MadeFor`), or `vmlinuz` and `initrd` were
    extracted for one (`Unpacked`). With the conditions this shows that an output that is kept for its
    time was made for this spec; a link of the same name leads to the source itself, which is not
    newer than itself.
  * `ProgressInv` says what is right in the directory at each step of a reconcile.
  * `ServedInv` is the theorem for BootConfigs whose confirmed generation is the present one
    while no reconcile is at work or waiting. Crashes are covered by the queue: after a restart every
    BootConfig is waiting.
* `ReadyServesNetboot`: `Spec => []ReadyServes`, where all specs are netboot specs and `OwnInitrds(Specs)`. The same
  invariant with `A[c] = Specs` and no images, so nothing is left to ask of users or of contents.

`BootConfigRestProofs` proves, in both modes and for any specs, what the next reconcile of a directory
will find:

* `ConcatenationsOutlast`: `Spec => []RestedInv`. Once a Ready BootConfig has no event, no timer and no
  reconcile left, and no event of its artifacts is on its way, a concatenation in its directory is newer than
  the files it would be made from, where those artifacts are Ready with their right file (`Older`).
  The decision is made while the reconcile is at work, from modification times that may change under it, so the invariant has to
  say what the worker knows: `CaughtInv`, that an empty event queue means that the cache is the API server's
  copy; `HeldInv`, that what the worker read is still so as long as its key is not queued again;
  `StampedInv` and `BusyInv`, that no file is newer than the last time stamp and that an artifact is not Ready
  while its download is in progress, so that the file of a Ready artifact is not replaced; and
  `CombiningInv`, that the sources copied so far are older than the result. `LinksInv` adds that
  `ensureFileSymlink` leaves one link of a name.

`NetworkBootProofs` proves, in both modes and for any specs:

* `MachineTypeCorrect`: `BootSpec => []MachineTypeOK`. `Asking` relates the step of a machine to how many
  names and files it has.
* `MachineBootsAsSpecified`: `BootSpec => []BootsAsSpecified`. That a machine has got the right files so far is not
  inductive: a reconcile may come between two of its requests, also one that a restart of the
  manager starts over from the list. `SettledInv` therefore says, while nothing disturbs the machine: every version of the
  BootConfig that anybody holds has the spec the machine was sent to and the artifacts are Ready with
  their present file (`Undisturbed`); the directory has what the spec names, made from the present files and
  newer than they are (`Intact`); a reconcile of it, at whatever step, holds the present names, is
  at no step that replaces anything but an extracted file, and extracts from the present
  image (`Harmless`); and the machine has the present paths (`OnTrack`). `ConcatenationsOutlast` gives `Intact` at the moment the
  machine asks, and `LinksInv` that a name leads to one image.

Only model-checked: everything under fairness (`Converges`, `Settles`, `Boots`,
`FollowsLifecycleFairly` beyond its safety part), because liveness is out of the prover's
reach. Every invariant that a passing run checks is stated by a theorem; `ReadyServes` is proved under the
conditions above.

## 5. Not modelled

* The text of boot scripts, kernel arguments, `resolveHost`: functions of one request. The
  string handling of `FilenameFromURL` and `isSafeISOPath` (`Filename` and `SafePaths` are constants).
* The ISO 9660 reader: an image has a file for each path. The cap of 1 GiB is one of the calls
  that fail.
* Names of temporary files in boot directories (random, emptied with the
  directory) and left-overs of a crash among them.
* Overflow of `FailureCount` (int32), which takes 2^31 failures.
* More than one manager (leader election is off and there is one replica).
* Flags, metrics, health checks and shutdown of the two processes; dnsmasq, squid, the charts.
* Caches of the API server itself: an uncached `Get` returns the latest version.

## 6. Plan

In the order of what they would add:

1. The string helpers `FilenameFromURL` and `isSafeISOPath` as functions over short sequences of
   characters, checked against what their tests say.
2. `BootConfig` over the actions of `BootArtifact` themselves instead of their effects, if the state
   space can be kept small enough.
