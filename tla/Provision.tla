------------------------------ MODULE Provision ------------------------------
(***************************************************************************)
(* The life of Provision objects, shared by two processes that know of     *)
(* each other only through the API server:                                 *)
(*   - the manager's ProvisionReconciler sets the phase of a new Provision *)
(*     to Pending (internal/controller/provision_controller.go);           *)
(*   - httpd answers GET /conditional-boot from the pending Provision of a *)
(*     MAC and moves phases on POST /status (cmd/httpd/main.go,            *)
(*     internal/httpd/provision.go, internal/httpd/boot.go).               *)
(* Both read Provisions, and httpd Machines, from their own informer       *)
(* caches. httpd handles requests concurrently; a request reads and writes *)
(* in separate steps.                                                      *)
(***************************************************************************)
EXTENDS Integers, FiniteSets, Sequences

CONSTANTS
    Provisions,   \* metadata.name of Provision objects, in httpd's namespace
    Machines,     \* metadata.name of Machine objects
    MACs,         \* MAC addresses that ask for a boot script
    Requests,     \* HTTP requests that reach httpd
    Absent,       \* an object that does not exist
    None,         \* a nil value
    MaxEdits,     \* bound on what users create, edit and delete
    MaxFaults,    \* bound on failing API calls
    MaxRestarts   \* bound on restarts of the manager and of httpd

VARIABLES
    api,          \* API server: latest version of each Provision
    watch,        \* per process, versions not yet delivered to its informer
    cache,        \* per process, what its informer has stored
    queue,        \* the manager's work queue: "idle", "delayed" or "ready"
    w,            \* the manager's reconcile in progress
    req,          \* the requests
    machines,     \* versions of each Machine, from httpd's copy to the latest
    edits, faults, restarts

vars == <<api, watch, cache, queue, w, req, machines, edits, faults, restarts>>
others == <<machines, edits, faults, restarts>>

Processes == {"manager", "httpd"}

Phases == {"", "Pending", "InProgress", "Complete"}
Targets == {"InProgress", "Complete"}

\* uid tells a Provision from an earlier one of the same name; machine is its
\* spec.machineRef, which users may change.
ProvisionObject == [uid : Nat, machine : Machines, phase : Phases]
Version == [rv : Nat, obj : ProvisionObject \cup {Absent}]
Held == [rv : Nat, obj : ProvisionObject]
MachineVersion == [rv : Nat, mac : MACs \cup {Absent}]

ASSUME BoundsAssumption ==
    MaxEdits \in Nat /\ MaxFaults \in Nat /\ MaxRestarts \in Nat

Unused == [pc |-> "unused", provision |-> None, target |-> None, mac |-> None,
           machine |-> None, held |-> None, answer |-> None, arrived |-> None]

Answers == {"ok", "bad request", "not found", "phase error", "conflict",
            "internal error", "no provision", "duplicate", "directive", "dropped"}

ASSUME ConstantsAssumption ==
    /\ Absent \notin ProvisionObject \cup MACs
    /\ None \notin Provisions \cup Machines \cup MACs \cup Held \cup Targets
                    \cup Answers

\* arrived is a history field: the Machines when the request came.
Arrival == [Machines -> Seq(MachineVersion)]
Request == [pc : {"unused", "get", "update", "list", "provisions", "lookup", "done"},
            provision : Provisions \cup {None}, target : Targets \cup {None},
            mac : MACs \cup {None}, machine : Machines \cup {None},
            held : Held \cup {None}, answer : Answers \cup {None},
            arrived : Arrival \cup {None}]

Idle == [key |-> None, held |-> None]
Reconciling == [key : Provisions, held : Held]

Init ==
    /\ api = [p \in Provisions |-> [rv |-> 0, obj |-> Absent]]
    /\ watch = [i \in Processes |-> [p \in Provisions |-> {}]]
    /\ cache = [i \in Processes |-> api]
    /\ queue = [p \in Provisions |-> "idle"]
    /\ w = Idle
    /\ req = [r \in Requests |-> Unused]
    /\ machines \in [Machines -> {<<[rv |-> 0, mac |-> a]>> : a \in MACs \cup {Absent}}]
    /\ edits = 0 /\ faults = 0 /\ restarts = 0

Fault == faults < MaxFaults /\ faults' = faults + 1 /\ UNCHANGED <<machines, edits, restarts>>

-----------------------------------------------------------------------------
(* The API server *)

Publish(p, obj) ==
    LET v == [rv |-> api[p].rv + 1, obj |-> obj]
    IN  /\ api' = [api EXCEPT ![p] = v]
        /\ watch' = [i \in Processes |-> [watch[i] EXCEPT ![p] = @ \cup {v}]]

\* Variant: a status write that does not carry the resource version.
CurrentUnchecked(p, held) == api[p].obj # Absent

\* Status().Update is accepted for the version the caller read, and only for
\* that one.
Current(p, held) == api[p].obj # Absent /\ held.rv = api[p].rv

WriteStatus(p, held, phase) ==
    /\ Current(p, held)
    /\ Publish(p, [held.obj EXCEPT !.phase = phase])

-----------------------------------------------------------------------------
(* The manager: ProvisionReconciler *)

AddAfter(p) == queue' = [queue EXCEPT ![p] = IF @ = "idle" THEN "delayed" ELSE @]

\* Variant: NotFound is not handled and the empty object is initialised.
ReconcileGetUnchecked(p) ==
    /\ w = Idle
    /\ queue[p] = "ready"
    /\ queue' = [queue EXCEPT ![p] = "idle"]
    /\ LET v == cache["manager"][p]
       IN  w' = IF v.obj = Absent \/ v.obj.phase = ""
                THEN [key |-> p, held |-> v] ELSE Idle
    /\ UNCHANGED <<api, watch, cache, req, others>>

\* Get; nothing to do for a deleted Provision or one that has a phase.
ReconcileGet(p) ==
    /\ w = Idle
    /\ queue[p] = "ready"
    /\ queue' = [queue EXCEPT ![p] = "idle"]
    /\ LET v == cache["manager"][p]
       IN  w' = IF v.obj # Absent /\ v.obj.phase = ""
                THEN [key |-> p, held |-> v] ELSE Idle
    /\ UNCHANGED <<api, watch, cache, req, others>>

\* Status().Update; any error sends the key back to the queue.
ReconcileUpdate ==
    /\ w # Idle
    /\ w' = Idle
    /\ \/ WriteStatus(w.key, w.held, "Pending") /\ UNCHANGED <<queue, others>>
       \/ ~Current(w.key, w.held) /\ AddAfter(w.key) /\ UNCHANGED <<api, watch, others>>
       \/ Fault /\ AddAfter(w.key) /\ UNCHANGED <<api, watch>>
       \/ Fault /\ AddAfter(w.key) /\ WriteStatus(w.key, w.held, "Pending")
    /\ UNCHANGED <<cache, req>>

-----------------------------------------------------------------------------
(* httpd: POST /status *)

\* The handler returns; of a request that was told something about a
\* Provision the details are kept for the properties.
Answer(r, a) ==
    req' = [req EXCEPT ![r] =
        IF a \in {"ok", "directive"} THEN [@ EXCEPT !.pc = "done", !.answer = a]
                                     ELSE [Unused EXCEPT !.pc = "done", !.answer = a]]

Arrive(r, request) ==
    /\ req[r].pc = "unused"
    /\ req' = [req EXCEPT ![r] = [request EXCEPT !.arrived = machines]]
    /\ UNCHANGED <<api, watch, cache, queue, w, others>>

\* updateStatusHandler and conditionalBootHandler refuse missing or malformed
\* parameters and phases that are not in allowedPhases.
BadRequest(r) ==
    /\ req[r].pc = "unused"
    /\ Answer(r, "bad request")
    /\ UNCHANGED <<api, watch, cache, queue, w, others>>

PostStatus(r, p, target) ==
    Arrive(r, [Unused EXCEPT !.pc = "get", !.provision = p, !.target = target])

\* validTransitions: the phase a target may be reached from.
RequiredSource(target) == IF target = "InProgress" THEN "Pending" ELSE "InProgress"

\* UpdateProvisionPhase up to its write: Get from the cache, then the check.
UpdateGet(r) ==
    /\ req[r].pc = "get"
    /\ LET v == cache["httpd"][req[r].provision]
       IN  \/ v.obj = Absent /\ Answer(r, "not found")
           \/ /\ v.obj # Absent
              /\ v.obj.phase # RequiredSource(req[r].target)
              /\ Answer(r, "phase error")
           \/ /\ v.obj # Absent
              /\ v.obj.phase = RequiredSource(req[r].target)
              /\ req' = [req EXCEPT ![r].pc = "update", ![r].held = v]
    /\ UNCHANGED <<api, watch, cache, queue, w, others>>

\* Variant: a conflict is taken for success.
UpdateWriteIgnoresConflict(r) ==
    /\ req[r].pc = "update"
    /\ Answer(r, "ok")
    /\ \/ WriteStatus(req[r].provision, req[r].held, req[r].target)
       \/ ~Current(req[r].provision, req[r].held) /\ UNCHANGED <<api, watch>>
    /\ UNCHANGED <<cache, queue, w, others>>

\* Its Status().Update: a conflict is a phase error for the client (409), a
\* deleted Provision is 404, everything else 500.
UpdateWrite(r) ==
    /\ req[r].pc = "update"
    /\ LET p == req[r].provision
       IN  \/ /\ WriteStatus(p, req[r].held, req[r].target)
              /\ Answer(r, "ok")
              /\ UNCHANGED others
           \/ /\ ~Current(p, req[r].held)
              /\ Answer(r, IF api[p].obj = Absent THEN "not found" ELSE "conflict")
              /\ UNCHANGED <<api, watch, others>>
           \/ Fault /\ Answer(r, "internal error") /\ UNCHANGED <<api, watch>>
           \/ /\ Fault
              /\ Answer(r, "internal error")
              /\ WriteStatus(p, req[r].held, req[r].target)
    /\ UNCHANGED <<cache, queue, w>>

-----------------------------------------------------------------------------
(* httpd: GET /conditional-boot *)

GetBoot(r, mac) == Arrive(r, [Unused EXCEPT !.pc = "list", !.mac = mac])

\* The Machine index over httpd's cache.
MachinesWith(mac) == {m \in Machines : Head(machines[m]).mac = mac}

\* Variant: of several Machines with the MAC one is taken.
ListMachinesAny(r) ==
    /\ req[r].pc = "list"
    /\ LET ms == MachinesWith(req[r].mac)
       IN  \/ ms = {} /\ Answer(r, "no provision")
           \/ \E m \in ms : req' = [req EXCEPT ![r].pc = "provisions", ![r].machine = m]
    /\ UNCHANGED <<api, watch, cache, queue, w, others>>

\* PendingProvisionForMAC up to its second List.
ListMachines(r) ==
    /\ req[r].pc = "list"
    /\ LET ms == MachinesWith(req[r].mac)
       IN  \/ Cardinality(ms) > 1 /\ Answer(r, "duplicate")
           \/ ms = {} /\ Answer(r, "no provision")
           \/ \E m \in ms :
                  /\ ms = {m}
                  /\ req' = [req EXCEPT ![r].pc = "provisions", ![r].machine = m]
    /\ UNCHANGED <<api, watch, cache, queue, w, others>>

\* Variant: the index of phases alone.
PendingForAny(m) ==
    {p \in Provisions : /\ cache["httpd"][p].obj # Absent
                        /\ cache["httpd"][p].obj.phase = "Pending"}

\* The Provision indexes over httpd's cache.
PendingFor(m) ==
    {p \in Provisions : /\ cache["httpd"][p].obj # Absent
                        /\ cache["httpd"][p].obj.machine = m
                        /\ cache["httpd"][p].obj.phase = "Pending"}

\* The second List, with the name of the Machine found by the first.
ListProvisions(r) ==
    /\ req[r].pc = "provisions"
    /\ LET ps == PendingFor(req[r].machine)
       IN  \/ ps = {} /\ Answer(r, "no provision")
           \/ Cardinality(ps) > 1 /\ Answer(r, "duplicate")
           \/ \E p \in ps :
                  /\ ps = {p}
                  /\ req' = [req EXCEPT ![r].pc = "lookup", ![r].provision = p,
                                        ![r].held = cache["httpd"][p]]
    /\ UNCHANGED <<api, watch, cache, queue, w, others>>

\* The rest of BootDirectiveForMAC and the rendering of the script: the
\* BootConfig and its artifacts are read from the API server; a missing one
\* or a bad kernel-args template is a 500.
LookupBootConfig(r) ==
    /\ req[r].pc = "lookup"
    /\ Answer(r, "directive") \/ Answer(r, "internal error")
    /\ UNCHANGED <<api, watch, cache, queue, w, others>>

-----------------------------------------------------------------------------
(* Informers, timers and restarts (external) *)

Deliver(i, p) ==
    /\ \E v \in watch[i][p] :
        /\ \A u \in watch[i][p] : v.rv <= u.rv
        /\ cache' = [cache EXCEPT ![i][p] = v]
        /\ watch' = [watch EXCEPT ![i][p] = @ \ {v}]
    /\ queue' = IF i = "manager" THEN [queue EXCEPT ![p] = "ready"] ELSE queue
    /\ UNCHANGED <<api, w, req, others>>

\* A watch of its own: nothing orders it with the deliveries of Provisions.
DeliverMachine(m) ==
    /\ Len(machines[m]) > 1
    /\ machines' = [machines EXCEPT ![m] = Tail(@)]
    /\ UNCHANGED <<api, watch, cache, queue, w, req, edits, faults, restarts>>

Elapse(p) ==
    /\ queue[p] = "delayed"
    /\ queue' = [queue EXCEPT ![p] = "ready"]
    /\ UNCHANGED <<api, watch, cache, w, req, others>>

Newest(m) == machines[m][Len(machines[m])]

Relist(i) ==
    /\ restarts < MaxRestarts
    /\ restarts' = restarts + 1
    /\ cache' = [cache EXCEPT ![i] = api]
    /\ watch' = [watch EXCEPT ![i] = [p \in Provisions |-> {}]]
    /\ UNCHANGED <<api, edits, faults>>

RestartManager ==
    /\ Relist("manager")
    /\ UNCHANGED machines
    /\ queue' = [p \in Provisions |-> IF api[p].obj = Absent THEN "idle" ELSE "ready"]
    /\ w' = Idle
    /\ UNCHANGED req

\* Requests in progress are cut off.
RestartHttpd ==
    /\ Relist("httpd")
    /\ machines' = [m \in Machines |-> <<Newest(m)>>]
    /\ req' = [r \in Requests |-> IF req[r].pc \in {"unused", "done"} THEN req[r]
                                  ELSE [Unused EXCEPT !.pc = "done", !.answer = "dropped"]]
    /\ UNCHANGED <<queue, w>>

-----------------------------------------------------------------------------
(* Users *)

Change == edits < MaxEdits /\ edits' = edits + 1 /\ UNCHANGED <<faults, restarts>>

Submit(p, obj) ==
    /\ Change
    /\ Publish(p, obj)
    /\ UNCHANGED <<cache, queue, w, req, machines>>

Create(p, m) ==
    /\ api[p].obj = Absent
    /\ Submit(p, [uid |-> api[p].rv + 1, machine |-> m, phase |-> ""])

\* spec.machineRef is set to another Machine.
Edit(p, m) ==
    /\ api[p].obj # Absent /\ api[p].obj.machine # m
    /\ Submit(p, [api[p].obj EXCEPT !.machine = m])

Delete(p) == api[p].obj # Absent /\ Submit(p, Absent)

\* A Machine is created, gets another MAC, or is deleted.
ChangeMachine(m, mac) ==
    /\ Newest(m).mac # mac
    /\ Change
    /\ machines' = [machines EXCEPT ![m] = Append(@, [rv |-> Newest(m).rv + 1, mac |-> mac])]
    /\ UNCHANGED <<api, watch, cache, queue, w, req>>

RequestStep(r) ==
    \/ UpdateGet(r) \/ UpdateWrite(r)
    \/ ListMachines(r) \/ ListProvisions(r) \/ LookupBootConfig(r)

Next ==
    \/ \E p \in Provisions : ReconcileGet(p) \/ Elapse(p) \/ Delete(p)
    \/ \E p \in Provisions, m \in Machines : Create(p, m) \/ Edit(p, m)
    \/ \E m \in Machines, mac \in MACs \cup {Absent} : ChangeMachine(m, mac)
    \/ \E m \in Machines : DeliverMachine(m)
    \/ ReconcileUpdate
    \/ \E r \in Requests : RequestStep(r) \/ BadRequest(r)
    \/ \E r \in Requests, p \in Provisions, t \in Targets : PostStatus(r, p, t)
    \/ \E r \in Requests, mac \in MACs : GetBoot(r, mac)
    \/ \E i \in Processes, p \in Provisions : Deliver(i, p)
    \/ RestartManager
    \/ RestartHttpd

Spec == Init /\ [][Next]_vars

\* The manager's worker, its timers and the watches keep going; a handler that
\* has started ends. Requests themselves may never come.
Fairness ==
    /\ WF_vars(ReconcileUpdate)
    /\ \A p \in Provisions : WF_vars(ReconcileGet(p)) /\ WF_vars(Elapse(p))
    /\ \A i \in Processes, p \in Provisions : WF_vars(Deliver(i, p))
    /\ \A m \in Machines : WF_vars(DeliverMachine(m))
    /\ \A r \in Requests : WF_vars(RequestStep(r))

FairSpec == Spec /\ Fairness

-----------------------------------------------------------------------------
(* Properties *)

TypeOK ==
    /\ api \in [Provisions -> Version]
    /\ watch \in [Processes -> [Provisions -> SUBSET Version]]
    /\ cache \in [Processes -> [Provisions -> Version]]
    /\ queue \in [Provisions -> {"idle", "delayed", "ready"}]
    /\ w \in {Idle} \cup Reconciling
    /\ req \in [Requests -> Request]
    /\ machines \in [Machines -> Seq(MachineVersion)]
    /\ \A m \in Machines : Len(machines[m]) > 0
    /\ edits \in 0..MaxEdits /\ faults \in 0..MaxFaults /\ restarts \in 0..MaxRestarts

\* The phase an abstract Provision has.
PhaseOf(p) == IF api[p].obj = Absent THEN "none" ELSE api[p].obj.phase

Lifecycle == INSTANCE ProvisionLifecycle WITH phase <- [p \in Provisions |-> PhaseOf(p)]

\* Manager and httpd, each with a stale cache, concurrent and duplicated
\* requests, failing writes and restarts, together implement the lifecycle:
\* no phase is skipped, repeated or taken back (ProvisionReconciler.Reconcile
\* and UpdateProvisionPhase).
FollowsLifecycle == Lifecycle!Spec

\* The same with its progress: a created Provision becomes Pending.
FollowsLifecycleFairly == Lifecycle!FairSpec

\* Of all the requests that ask for the same transition of the same
\* Provision, at most one is told that it made it, however they overlap
\* (the resource version behind Status().Update in UpdateProvisionPhase).
OneAccepted ==
    \A r, s \in Requests :
        req[r].answer = "ok" /\ req[s].answer = "ok"
        /\ req[r].provision = req[s].provision /\ req[r].target = req[s].target
        /\ req[r].held.obj.uid = req[s].held.obj.uid => r = s

\* What a client was told stays true: after a 200 for a phase, the Provision
\* is in that phase or a later one until it is deleted, whatever reconcile or
\* request was working from an older copy.
Reached(phase) ==
    CASE phase = "InProgress" -> {"InProgress", "Complete"}
      [] phase = "Complete" -> {"Complete"}

AcceptedSticks ==
    \A r \in Requests :
        req[r].answer = "ok" =>
            LET obj == api[req[r].provision].obj
            IN  obj # Absent /\ obj.uid = req[r].held.obj.uid
                    => obj.phase \in Reached(req[r].target)

\* A boot script is for the one Machine that has the MAC of the request, and
\* for a Provision that refers to it and that the manager has initialised,
\* whatever is done to Provisions meanwhile, when httpd's copies of the Machines
\* were current on arrival and the Machines have not changed since
\* (PendingProvisionForMAC with its two Lists, and the three indexes).
Settled(r) ==
    /\ machines = req[r].arrived
    /\ \A m \in Machines : Len(machines[m]) = 1

DirectiveForOwnMachine ==
    \A r \in Requests :
        req[r].answer = "directive" /\ Settled(r) =>
            LET obj == api[req[r].provision].obj
            IN  /\ {m \in Machines : Newest(m).mac = req[r].mac} = {req[r].held.obj.machine}
                /\ obj # Absent /\ obj.uid = req[r].held.obj.uid => obj.phase # ""
=============================================================================
