--------------------------- MODULE ProvisionProofs ---------------------------
(***************************************************************************)
(* Theorems about module Provision, for any sets of Provisions, machines   *)
(* and requests and any others: type correctness, and that the manager and *)
(* httpd together implement the lifecycle of module ProvisionLifecycle.    *)
(***************************************************************************)
EXTENDS Provision, TLAPS

-----------------------------------------------------------------------------
(* Type correctness *)

\* What a request carries from one step to the next.
RequestInv ==
    \A r \in Requests :
        /\ req[r].pc \in {"get", "update"} =>
            req[r].provision \in Provisions /\ req[r].target \in Targets
        /\ req[r].pc = "update" => req[r].held \in Held

TypeInv == TypeOK /\ RequestInv

LEMMA PublishType ==
    ASSUME TypeOK, NEW p \in Provisions, NEW obj \in ProvisionObject \cup {Absent},
           Publish(p, obj)
    PROVE  /\ api' \in [Provisions -> Version]
           /\ watch' \in [Processes -> [Provisions -> SUBSET Version]]
<1> DEFINE v == [rv |-> api[p].rv + 1, obj |-> obj]
<1>1. v \in Version
  BY DEF TypeOK, Version
<1>2. api' = [api EXCEPT ![p] = v]
      /\ watch' = [i \in Processes |-> [watch[i] EXCEPT ![p] = @ \cup {v}]]
  BY DEF Publish
<1> HIDE DEF v
<1> QED BY <1>1, <1>2 DEF TypeOK

LEMMA WriteStatusType ==
    ASSUME TypeOK, NEW p \in Provisions, NEW held \in Held, NEW phase \in Phases,
           WriteStatus(p, held, phase)
    PROVE  /\ api' \in [Provisions -> Version]
           /\ watch' \in [Processes -> [Provisions -> SUBSET Version]]
<1>1. [held.obj EXCEPT !.phase = phase] \in ProvisionObject
  BY DEF Held, ProvisionObject
<1> QED BY <1>1, PublishType DEF WriteStatus

LEMMA UnusedType == Unused \in Request
BY DEF Unused, Request

LEMMA AnswerType ==
    ASSUME TypeInv, NEW r \in Requests, NEW a \in Answers, Answer(r, a)
    PROVE  req' \in [Requests -> Request] /\ RequestInv'
<1>1. req[r] \in Request
  BY DEF TypeInv, TypeOK
<1> DEFINE new == IF a \in {"ok", "directive"} THEN [req[r] EXCEPT !.pc = "done", !.answer = a]
                  ELSE [Unused EXCEPT !.pc = "done", !.answer = a]
<1>2. new \in Request /\ new.pc = "done"
  <2>1. ASSUME NEW old \in Request
        PROVE  [old EXCEPT !.pc = "done", !.answer = a] \in Request
    BY DEF Request
  <2>2. ASSUME NEW old \in Request
        PROVE  [old EXCEPT !.pc = "done", !.answer = a].pc = "done"
    BY DEF Request
  <2> QED BY <1>1, <2>1, <2>2, UnusedType
<1>3. req' = [req EXCEPT ![r] = new]
  BY DEF Answer
<1> HIDE DEF new
<1> QED BY <1>2, <1>3 DEF TypeInv, TypeOK, RequestInv

LEMMA ArriveType ==
    ASSUME TypeInv, NEW r \in Requests, NEW request \in Request, Arrive(r, request),
           request.pc \in {"get", "list"},
           request.pc = "get" => request.provision \in Provisions /\ request.target \in Targets
    PROVE  TypeInv'
<1> DEFINE new == [request EXCEPT !.arrived = machines]
<1>1. machines \in Arrival
  BY DEF TypeInv, TypeOK, Arrival
<1>2. req' = [req EXCEPT ![r] = new]
  BY DEF Arrive
<1>3. /\ new \in Request /\ new.pc = request.pc
      /\ new.provision = request.provision /\ new.target = request.target
  BY <1>1 DEF Request
<1> HIDE DEF new
<1>4. req' \in [Requests -> Request] /\ RequestInv'
  BY <1>2, <1>3 DEF TypeInv, TypeOK, RequestInv
<1> QED BY <1>4 DEF Arrive, TypeInv, TypeOK, others

LEMMA TypeInit == Init => TypeInv
<1> SUFFICES ASSUME Init
             PROVE  TypeInv
  OBVIOUS
<1>1. ASSUME NEW m \in Machines
      PROVE  machines[m] \in Seq(MachineVersion) /\ Len(machines[m]) > 0
  <2>1. PICK a \in MACs \cup {Absent} : machines[m] = <<[rv |-> 0, mac |-> a]>>
    BY DEF Init
  <2>2. [rv |-> 0, mac |-> a] \in MachineVersion
    BY DEF MachineVersion
  <2> QED BY <2>1, <2>2
<1>2. machines \in [Machines -> Seq(MachineVersion)]
  BY <1>1 DEF Init
<1> QED
  BY <1>1, <1>2, UnusedType, BoundsAssumption
  DEF Init, TypeInv, TypeOK, RequestInv, Version, Unused, Processes

\* The reconciler.
LEMMA ReconcileType ==
    ASSUME TypeInv, (\E p \in Provisions : ReconcileGet(p)) \/ ReconcileUpdate
    PROVE  TypeInv'
<1> USE DEF TypeInv, TypeOK
<1>1. ASSUME NEW p \in Provisions, ReconcileGet(p)
      PROVE  TypeInv'
  <2>1. w' \in {Idle} \cup Reconciling
    <3> DEFINE v == cache["manager"][p]
    <3>1. v \in Version
      BY DEF Processes
    <3>2. v.obj # Absent => [key |-> p, held |-> v] \in Reconciling
      BY <3>1 DEF Version, Held, Reconciling
    <3>3. w' = IF v.obj # Absent /\ v.obj.phase = "" THEN [key |-> p, held |-> v] ELSE Idle
      BY <1>1 DEF ReconcileGet
    <3> HIDE DEF v
    <3> QED BY <3>2, <3>3
  <2> QED BY <1>1, <2>1 DEF ReconcileGet, others, RequestInv
<1>2. CASE ReconcileUpdate
  <2>1. w \in Reconciling /\ w.key \in Provisions /\ w.held \in Held
    BY <1>2 DEF ReconcileUpdate, Reconciling
  <2>2. /\ api' \in [Provisions -> Version]
        /\ watch' \in [Processes -> [Provisions -> SUBSET Version]]
    BY <1>2, <2>1, WriteStatusType DEF ReconcileUpdate, Phases
  <2>3. queue' \in [Provisions -> {"idle", "delayed", "ready"}]
    BY <1>2, <2>1 DEF ReconcileUpdate, AddAfter
  <2>4. /\ edits' \in 0..MaxEdits /\ faults' \in 0..MaxFaults
        /\ restarts' \in 0..MaxRestarts /\ UNCHANGED machines
    BY <1>2, BoundsAssumption DEF ReconcileUpdate, Fault, others
  <2> QED BY <1>2, <2>2, <2>3, <2>4 DEF ReconcileUpdate, RequestInv
<1> QED BY <1>1, <1>2

\* The handlers of httpd.
LEMMA RequestType ==
    ASSUME TypeInv, NEW r \in Requests, RequestStep(r) \/ BadRequest(r)
    PROVE  TypeInv'
<1> USE DEF TypeInv, TypeOK
<1>0. req[r] \in Request
  OBVIOUS
<1>1. CASE UpdateGet(r)
  <2> DEFINE v == cache["httpd"][req[r].provision]
  <2>1. req[r].provision \in Provisions /\ req[r].target \in Targets /\ v \in Version
    BY <1>1 DEF UpdateGet, RequestInv, Processes
  <2>2. CASE \E a \in Answers : Answer(r, a)
    BY <1>1, <2>2, AnswerType DEF UpdateGet, others
  <2>3. CASE v.obj # Absent /\ req' = [req EXCEPT ![r].pc = "update", ![r].held = v]
    <3>1. v \in Held
      BY <2>1, <2>3 DEF Version, Held
    <3> DEFINE new == [req[r] EXCEPT !.pc = "update", !.held = v]
    <3>2. new \in Request /\ new.pc = "update" /\ new.held = v
          /\ new.provision = req[r].provision /\ new.target = req[r].target
      BY <1>0, <3>1 DEF Request
    <3>3. req' = [req EXCEPT ![r] = new]
      BY <2>3
    <3> HIDE DEF new, v
    <3>4. req' \in [Requests -> Request] /\ RequestInv'
      BY <2>1, <3>1, <3>2, <3>3 DEF RequestInv
    <3> QED BY <1>1, <3>4 DEF UpdateGet, others
  <2> QED BY <1>1, <2>2, <2>3 DEF UpdateGet, Answers
<1>2. CASE UpdateWrite(r)
  <2>1. req[r].provision \in Provisions /\ req[r].target \in Phases /\ req[r].held \in Held
    BY <1>2 DEF UpdateWrite, RequestInv, Targets, Phases
  <2>2. /\ api' \in [Provisions -> Version]
        /\ watch' \in [Processes -> [Provisions -> SUBSET Version]]
    BY <1>2, <2>1, WriteStatusType DEF UpdateWrite
  <2>3. \E a \in Answers : Answer(r, a)
    BY <1>2 DEF UpdateWrite, Answers
  <2>4. req' \in [Requests -> Request] /\ RequestInv'
    BY <2>3, AnswerType
  <2>5. /\ edits' \in 0..MaxEdits /\ faults' \in 0..MaxFaults
        /\ restarts' \in 0..MaxRestarts /\ UNCHANGED machines
    <3>1. UNCHANGED others \/ Fault
      BY <1>2 DEF UpdateWrite
    <3> QED BY <3>1, BoundsAssumption DEF Fault, others
  <2> QED BY <1>2, <2>2, <2>4, <2>5 DEF UpdateWrite
<1>3. CASE ListMachines(r)
  <2>1. CASE \E a \in Answers : Answer(r, a)
    BY <1>3, <2>1, AnswerType DEF ListMachines, others
  <2>2. ASSUME NEW m \in Machines,
               req' = [req EXCEPT ![r].pc = "provisions", ![r].machine = m]
        PROVE  TypeInv'
    <3> DEFINE new == [req[r] EXCEPT !.pc = "provisions", !.machine = m]
    <3>1. new \in Request /\ new.pc = "provisions"
      BY <1>0 DEF Request
    <3>2. req' = [req EXCEPT ![r] = new]
      BY <2>2
    <3> HIDE DEF new
    <3>3. req' \in [Requests -> Request] /\ RequestInv'
      BY <3>1, <3>2 DEF RequestInv
    <3> QED BY <1>3, <3>3 DEF ListMachines, others
  <2>3. \/ \E a \in Answers : Answer(r, a)
        \/ \E m \in Machines :
              req' = [req EXCEPT ![r].pc = "provisions", ![r].machine = m]
    <3>1. MachinesWith(req[r].mac) \subseteq Machines
      BY DEF MachinesWith
    <3>2. {"duplicate", "no provision"} \subseteq Answers
      BY DEF Answers
    <3> HIDE DEF TypeInv, TypeOK
    <3> QED BY <1>3, <3>1, <3>2 DEF ListMachines
  <2> QED BY <2>1, <2>2, <2>3
<1>6. CASE ListProvisions(r)
  <2>1. CASE \E a \in Answers : Answer(r, a)
    BY <1>6, <2>1, AnswerType DEF ListProvisions, others
  <2>2. ASSUME NEW p \in PendingFor(req[r].machine),
               req' = [req EXCEPT ![r].pc = "lookup", ![r].provision = p,
                                  ![r].held = cache["httpd"][p]]
        PROVE  TypeInv'
    <3>1. p \in Provisions /\ cache["httpd"][p] \in Held
      BY <2>2 DEF PendingFor, Version, Held, Processes
    <3> DEFINE new == [req[r] EXCEPT !.pc = "lookup", !.provision = p,
                                     !.held = cache["httpd"][p]]
    <3>2. new \in Request /\ new.pc = "lookup"
      BY <1>0, <3>1 DEF Request
    <3>3. req' = [req EXCEPT ![r] = new]
      BY <2>2
    <3> HIDE DEF new
    <3>4. req' \in [Requests -> Request] /\ RequestInv'
      BY <3>2, <3>3 DEF RequestInv
    <3> QED BY <1>6, <3>4 DEF ListProvisions, others
  <2>3. \/ \E a \in Answers : Answer(r, a)
        \/ \E p \in PendingFor(req[r].machine) :
              req' = [req EXCEPT ![r].pc = "lookup", ![r].provision = p,
                                 ![r].held = cache["httpd"][p]]
    <3>1. {"duplicate", "no provision"} \subseteq Answers
      BY DEF Answers
    <3> HIDE DEF TypeInv, TypeOK
    <3> QED BY <1>6, <3>1 DEF ListProvisions
  <2> QED BY <2>1, <2>2, <2>3
<1>4. CASE LookupBootConfig(r)
  <2>1. \E a \in Answers : Answer(r, a)
    BY <1>4 DEF LookupBootConfig, Answers
  <2> QED BY <1>4, <2>1, AnswerType DEF LookupBootConfig, others
<1>5. CASE BadRequest(r)
  <2>1. \E a \in Answers : Answer(r, a)
    BY <1>5 DEF BadRequest, Answers
  <2> QED BY <1>5, <2>1, AnswerType DEF BadRequest, others
<1> QED BY <1>1, <1>2, <1>3, <1>4, <1>5, <1>6 DEF RequestStep

\* A user's object for a Provision.
LEMMA SubmittedType ==
    ASSUME TypeInv, NEW p \in Provisions,
           Delete(p) \/ \E m \in Machines : Create(p, m) \/ Edit(p, m)
    PROVE  \E obj \in ProvisionObject \cup {Absent} : Submit(p, obj)
<1>1. CASE Delete(p)
  BY <1>1 DEF Delete
<1>2. ASSUME NEW m \in Machines, Create(p, m)
      PROVE  \E obj \in ProvisionObject : Submit(p, obj)
  <2>1. api[p].rv \in Nat
    BY DEF TypeInv, TypeOK, Version
  <2>2. [uid |-> api[p].rv + 1, machine |-> m, phase |-> ""] \in ProvisionObject
    BY <2>1 DEF ProvisionObject, Phases
  <2> QED BY <1>2, <2>2 DEF Create
<1>3. ASSUME NEW m \in Machines, Edit(p, m)
      PROVE  \E obj \in ProvisionObject : Submit(p, obj)
  <2>1. api[p].obj \in ProvisionObject
    BY <1>3 DEF Edit, TypeInv, TypeOK, Version
  <2>2. [api[p].obj EXCEPT !.machine = m] \in ProvisionObject
    BY <2>1 DEF ProvisionObject
  <2> QED BY <1>3, <2>2 DEF Edit
<1> QED BY <1>1, <1>2, <1>3

\* Machines: every one has a version in httpd's copy.
LEMMA MachineType ==
    ASSUME TypeInv, NEW m \in Machines
    PROVE  /\ DeliverMachine(m) => TypeInv'
           /\ \A mac \in MACs \cup {Absent} : ChangeMachine(m, mac) => TypeInv'
           /\ Newest(m) \in MachineVersion
<1>1. machines \in [Machines -> Seq(MachineVersion)]
      /\ \A n \in Machines : Len(machines[n]) > 0
  BY DEF TypeInv, TypeOK
<1>2. Newest(m) \in MachineVersion
  <2>1. Len(machines[m]) \in 1..Len(machines[m])
    BY <1>1
  <2> QED BY <1>1, <2>1 DEF Newest
<1>3. ASSUME NEW vs \in Seq(MachineVersion), Len(vs) > 0,
             machines' = [machines EXCEPT ![m] = vs]
      PROVE  /\ machines' \in [Machines -> Seq(MachineVersion)]
             /\ \A n \in Machines : Len(machines'[n]) > 0
  BY <1>1, <1>3
<1>4. ASSUME DeliverMachine(m)
      PROVE  TypeInv'
  <2>1. Tail(machines[m]) \in Seq(MachineVersion) /\ Len(Tail(machines[m])) > 0
    BY <1>1, <1>4 DEF DeliverMachine
  <2>2. machines' = [machines EXCEPT ![m] = Tail(machines[m])]
    BY <1>4 DEF DeliverMachine
  <2> QED BY <1>3, <1>4, <2>1, <2>2 DEF DeliverMachine, TypeInv, TypeOK, RequestInv
<1>5. ASSUME NEW mac \in MACs \cup {Absent}, ChangeMachine(m, mac)
      PROVE  TypeInv'
  <2> DEFINE new == [rv |-> Newest(m).rv + 1, mac |-> mac]
  <2>1. new \in MachineVersion
    BY <1>2 DEF MachineVersion
  <2>2. machines' = [machines EXCEPT ![m] = Append(machines[m], new)]
    BY <1>5 DEF ChangeMachine
  <2> HIDE DEF new
  <2>3. Append(machines[m], new) \in Seq(MachineVersion) /\ Len(Append(machines[m], new)) > 0
    BY <1>1, <2>1
  <2>4. /\ machines' \in [Machines -> Seq(MachineVersion)]
        /\ \A n \in Machines : Len(machines'[n]) > 0
    BY <1>3, <2>2, <2>3
  <2> QED BY <1>5, <2>4, BoundsAssumption DEF ChangeMachine, Change, TypeInv, TypeOK, RequestInv
<1> QED BY <1>2, <1>4, <1>5

LEMMA TypeStep == TypeInv /\ [Next]_vars => TypeInv'
<1> SUFFICES ASSUME TypeInv, [Next]_vars
             PROVE  TypeInv'
  OBVIOUS
<1>1. ASSUME NEW r \in Requests, NEW p \in Provisions, NEW t \in Targets, PostStatus(r, p, t)
      PROVE  TypeInv'
  <2> DEFINE request == [Unused EXCEPT !.pc = "get", !.provision = p, !.target = t]
  <2>1. request \in Request /\ request.pc = "get" /\ request.provision = p /\ request.target = t
    BY <1>1 DEF Unused, Request
  <2>2. Arrive(r, request)
    BY <1>1 DEF PostStatus
  <2> HIDE DEF request
  <2> QED BY <1>1, <2>1, <2>2, ArriveType
<1>2. ASSUME NEW r \in Requests, NEW mac \in MACs, GetBoot(r, mac)
      PROVE  TypeInv'
  <2> DEFINE request == [Unused EXCEPT !.pc = "list", !.mac = mac]
  <2>1. request \in Request /\ request.pc = "list"
    BY <1>2 DEF Unused, Request
  <2>2. Arrive(r, request)
    BY <1>2 DEF GetBoot
  <2> HIDE DEF request
  <2> QED BY <2>1, <2>2, ArriveType
<1>3. ASSUME NEW i \in Processes, NEW p \in Provisions, Deliver(i, p)
      PROVE  TypeInv'
  BY <1>3 DEF Deliver, TypeInv, TypeOK, RequestInv, others
<1>4. ASSUME NEW p \in Provisions, Elapse(p)
      PROVE  TypeInv'
  BY <1>4 DEF Elapse, TypeInv, TypeOK, RequestInv, others
<1>5. ASSUME NEW i \in Processes, Relist(i)
      PROVE  /\ cache' \in [Processes -> [Provisions -> Version]]
             /\ watch' \in [Processes -> [Provisions -> SUBSET Version]]
             /\ api' \in [Provisions -> Version]
             /\ edits' \in 0..MaxEdits /\ faults' \in 0..MaxFaults
             /\ restarts' \in 0..MaxRestarts
  BY <1>5, BoundsAssumption DEF Relist, TypeInv, TypeOK
<1>6. CASE RestartManager
  BY <1>5, <1>6 DEF RestartManager, Processes, TypeInv, TypeOK, RequestInv
<1>7. CASE RestartHttpd
  <2> DEFINE dropped == [Unused EXCEPT !.pc = "done", !.answer = "dropped"]
  <2>1. dropped \in Request /\ dropped.pc = "done"
    BY UnusedType DEF Request, Answers, Unused
  <2>2. req' = [r \in Requests |-> IF req[r].pc \in {"unused", "done"} THEN req[r] ELSE dropped]
    BY <1>7 DEF RestartHttpd
  <2> HIDE DEF dropped
  <2>3. req' \in [Requests -> Request] /\ RequestInv'
    BY <2>1, <2>2 DEF TypeInv, TypeOK, RequestInv
  <2>4. ASSUME NEW m \in Machines
        PROVE  <<Newest(m)>> \in Seq(MachineVersion) /\ Len(<<Newest(m)>>) > 0
    BY MachineType
  <2>5. machines' = [m \in Machines |-> <<Newest(m)>>]
    BY <1>7 DEF RestartHttpd
  <2>6. /\ machines' \in [Machines -> Seq(MachineVersion)]
        /\ \A m \in Machines : Len(machines'[m]) > 0
    BY <2>4, <2>5
  <2> QED BY <1>5, <1>7, <2>3, <2>6 DEF RestartHttpd, Processes, TypeInv, TypeOK
<1>8. ASSUME NEW p \in Provisions, Delete(p) \/ \E m \in Machines : Create(p, m) \/ Edit(p, m)
      PROVE  TypeInv'
  <2>1. PICK obj \in ProvisionObject \cup {Absent} : Submit(p, obj)
    BY <1>8, SubmittedType
  <2>2. /\ api' \in [Provisions -> Version]
        /\ watch' \in [Processes -> [Provisions -> SUBSET Version]]
    BY <2>1, PublishType DEF Submit, TypeInv
  <2> QED BY <2>1, <2>2, BoundsAssumption DEF Submit, Change, TypeInv, TypeOK, RequestInv
<1>9. CASE UNCHANGED vars
  BY <1>9 DEF vars, TypeInv, TypeOK, RequestInv
<1> QED
  BY <1>1, <1>2, <1>3, <1>4, <1>6, <1>7, <1>8, <1>9, ReconcileType, RequestType, MachineType
  DEF Next

\* Every reachable state is well typed; in particular no reconcile and no
\* handler writes the status of a Provision it did not find (Reconcile,
\* UpdateProvisionPhase).
THEOREM TypeCorrect == Spec => []TypeOK
<1>1. TypeInv => TypeOK
  BY DEF TypeInv
<1> QED BY <1>1, TypeInit, TypeStep, PTL DEF Spec

-----------------------------------------------------------------------------
(* The lifecycle. A copy of a Provision is either the current version or an *)
(* older one, which the API server refuses to update; and a step that has   *)
(* passed its check on a copy still holds a copy that passes it.            *)

Seen(p, v) == v.rv <= api[p].rv /\ (v.rv = api[p].rv => v = api[p])

CopyInv ==
    /\ \A i \in Processes, p \in Provisions :
        /\ Seen(p, cache[i][p])
        /\ \A v \in watch[i][p] : Seen(p, v)
    /\ w # Idle => Seen(w.key, w.held) /\ w.held.obj.phase = ""
    /\ \A r \in Requests :
        req[r].pc = "update" =>
            /\ Seen(req[r].provision, req[r].held)
            /\ req[r].held.obj.phase = RequiredSource(req[r].target)

LEMMA CopyInit == Init => CopyInv
BY DEF Init, CopyInv, Seen, Unused, Processes

\* Publishing a version leaves every copy seen.
LEMMA PublishSeen ==
    ASSUME TypeOK, NEW p \in Provisions, NEW obj, Publish(p, obj),
           NEW q \in Provisions, NEW v, v.rv \in Nat, Seen(q, v)
    PROVE  Seen(q, v)'
<1>1. api[q].rv \in Nat
  BY DEF TypeOK, Version
<1>2. api' = [api EXCEPT ![p] = [rv |-> api[p].rv + 1, obj |-> obj]]
  BY DEF Publish
<1>3. CASE q = p
  <2>1. api'[q].rv = api[q].rv + 1
    BY <1>2, <1>3 DEF TypeOK
  <2> QED BY <1>1, <2>1 DEF Seen
<1>4. CASE q # p
  BY <1>2, <1>4 DEF Seen, TypeOK
<1> QED BY <1>3, <1>4

\* Publishing keeps the caches and the watches within what has been published.
LEMMA PublishCopies ==
    ASSUME TypeInv, CopyInv, NEW p \in Provisions, NEW obj, Publish(p, obj), UNCHANGED cache
    PROVE  \A i \in Processes, q \in Provisions :
               Seen(q, cache[i][q])' /\ \A v \in watch'[i][q] : Seen(q, v)'
<1> SUFFICES ASSUME NEW i \in Processes, NEW q \in Provisions
             PROVE  Seen(q, cache[i][q])' /\ \A v \in watch'[i][q] : Seen(q, v)'
  OBVIOUS
<1>1. cache[i][q] \in Version /\ watch[i][q] \in SUBSET Version
  BY DEF TypeInv, TypeOK
<1>2. Seen(q, cache[i][q])'
  <2>1. Seen(q, cache[i][q])
    BY DEF CopyInv
  <2>2. cache[i][q].rv \in Nat /\ TypeOK
    BY <1>1 DEF Version, TypeInv
  <2>3. \A v : v.rv \in Nat /\ Seen(q, v) => Seen(q, v)'
    BY <2>2, PublishSeen
  <2> QED BY <2>1, <2>2, <2>3 DEF Seen
<1>3. ASSUME NEW v \in watch'[i][q]
      PROVE  Seen(q, v)'
  <2> DEFINE new == [rv |-> api[p].rv + 1, obj |-> obj]
  <2>1. v \in watch[i][q] \/ (q = p /\ v = new)
    BY DEF Publish, TypeInv, TypeOK
  <2>2. CASE v \in watch[i][q]
    <3>1. v.rv \in Nat /\ TypeOK /\ Seen(q, v)
      BY <1>1, <2>2 DEF Version, TypeInv, CopyInv
    <3> QED BY <3>1, PublishSeen
  <2>3. CASE q = p /\ v = new
    <3>1. api'[q] = v
      BY <2>3 DEF Publish, TypeInv, TypeOK
    <3>2. v.rv \in Nat
      <4>1. api[p].rv \in Nat
        BY DEF TypeInv, TypeOK, Version
      <4> QED BY <2>3, <4>1
    <3> QED BY <3>1, <3>2 DEF Seen
  <2> QED BY <2>1, <2>2, <2>3
<1> QED BY <1>2, <1>3

\* A step that takes no new copy, and publishes at most one version, keeps
\* the invariant.
LEMMA QuietCopies ==
    ASSUME TypeInv, CopyInv,
           \/ UNCHANGED <<api, watch, cache>>
           \/ \E p \in Provisions, obj \in ProvisionObject \cup {Absent} :
                  Publish(p, obj) /\ UNCHANGED cache,
           w' \in {w, Idle},
           \A r \in Requests : req'[r].pc = "update" => req'[r] = req[r]
    PROVE  CopyInv'
<1> DEFINE CopiesSeen == \A i \in Processes, p \in Provisions :
                             Seen(p, cache[i][p]) /\ \A v \in watch[i][p] : Seen(p, v)
<1>1. /\ CopiesSeen'
      /\ \A p \in Provisions, v \in Held : Seen(p, v) => Seen(p, v)'
  <2>1. CASE UNCHANGED <<api, watch, cache>>
    BY <2>1 DEF CopyInv, Seen
  <2>2. ASSUME NEW p \in Provisions, NEW obj \in ProvisionObject \cup {Absent},
               Publish(p, obj), UNCHANGED cache
        PROVE  /\ CopiesSeen'
               /\ \A q \in Provisions, v \in Held : Seen(q, v) => Seen(q, v)'
    <3>1. CopiesSeen'
      BY <2>2, PublishCopies
    <3>2. ASSUME NEW q \in Provisions, NEW v \in Held, Seen(q, v)
          PROVE  Seen(q, v)'
      BY <2>2, <3>2, PublishSeen DEF Held, TypeInv
    <3> QED BY <3>1, <3>2
  <2> QED BY <2>1, <2>2
<1>2. w' # Idle => Seen(w.key, w.held)' /\ w'.held.obj.phase = ""
  <2> SUFFICES ASSUME w' # Idle
               PROVE  Seen(w.key, w.held)' /\ w'.held.obj.phase = ""
    OBVIOUS
  <2>1. w' = w /\ w.key \in Provisions /\ w.held \in Held
    BY DEF TypeInv, TypeOK, Reconciling
  <2>2. Seen(w.key, w.held) /\ w.held.obj.phase = ""
    BY <2>1 DEF CopyInv
  <2>3. \A p \in Provisions, v \in Held : v.rv <= api[p].rv /\ (v.rv = api[p].rv => v = api[p])
            => v.rv <= api'[p].rv /\ (v.rv = api'[p].rv => v = api'[p])
    BY <1>1 DEF Seen
  <2> QED BY <2>1, <2>2, <2>3 DEF Seen
<1>3. ASSUME NEW r \in Requests, req'[r].pc = "update"
      PROVE  /\ Seen(req[r].provision, req[r].held)'
             /\ req'[r].held.obj.phase = RequiredSource(req'[r].target)
  <2>1. /\ req'[r] = req[r] /\ req[r].provision \in Provisions /\ req[r].held \in Held
        /\ Seen(req[r].provision, req[r].held)
        /\ req[r].held.obj.phase = RequiredSource(req[r].target)
    BY <1>3 DEF TypeInv, RequestInv, CopyInv
  <2>2. \A p \in Provisions, v \in Held : v.rv <= api[p].rv /\ (v.rv = api[p].rv => v = api[p])
            => v.rv <= api'[p].rv /\ (v.rv = api'[p].rv => v = api'[p])
    BY <1>1 DEF Seen
  <2> QED BY <2>1, <2>2 DEF Seen
<1> QED BY <1>1, <1>2, <1>3 DEF CopyInv, RequiredSource

LEMMA AnswerQuiet ==
    ASSUME TypeInv, NEW r \in Requests, NEW a, Answer(r, a)
    PROVE  \A s \in Requests : req'[s].pc = "update" => req'[s] = req[s]
<1>1. req'[r].pc = "done"
  BY DEF Answer, TypeInv, TypeOK, Request, Unused
<1>2. \A s \in Requests : s # r => req'[s] = req[s]
  BY DEF Answer, TypeInv, TypeOK
<1> QED BY <1>1, <1>2

\* What a write publishes.
LEMMA WriteStatusPublishes ==
    ASSUME NEW p \in Provisions, NEW held \in Held, NEW phase \in Phases,
           WriteStatus(p, held, phase)
    PROVE  \E obj \in ProvisionObject : Publish(p, obj)
<1>1. [held.obj EXCEPT !.phase = phase] \in ProvisionObject
  BY DEF Held, ProvisionObject
<1> QED BY <1>1 DEF WriteStatus

\* What the two writers hold.
LEMMA Holders ==
    ASSUME TypeInv
    PROVE  /\ w # Idle => w.key \in Provisions /\ w.held \in Held
           /\ \A r \in Requests : req[r].pc = "update" =>
                  req[r].provision \in Provisions /\ req[r].held \in Held
                  /\ req[r].target \in Targets
BY DEF TypeInv, TypeOK, Reconciling, RequestInv

LEMMA ReconcileCopies ==
    ASSUME TypeInv, CopyInv, (\E p \in Provisions : ReconcileGet(p)) \/ ReconcileUpdate
    PROVE  CopyInv'
<1>1. ASSUME NEW p \in Provisions, ReconcileGet(p)
      PROVE  CopyInv'
  <2> DEFINE v == cache["manager"][p]
  <2>1. Seen(p, v)
    BY DEF CopyInv, Processes
  <2>2. w' = IF v.obj # Absent /\ v.obj.phase = "" THEN [key |-> p, held |-> v] ELSE Idle
    BY <1>1 DEF ReconcileGet
  <2>3. UNCHANGED <<api, watch, cache, req>>
    BY <1>1 DEF ReconcileGet
  <2> HIDE DEF v
  <2>4. w' # Idle => w'.key = p /\ w'.held = v /\ v.obj.phase = ""
    BY <2>2
  <2> QED BY <2>1, <2>3, <2>4 DEF CopyInv, Seen
<1>2. CASE ReconcileUpdate
  <2>1. w.key \in Provisions /\ w.held \in Held /\ w' = Idle /\ UNCHANGED <<cache, req>>
    BY <1>2, Holders DEF ReconcileUpdate
  <2>2. UNCHANGED <<api, watch>> \/ WriteStatus(w.key, w.held, "Pending")
    BY <1>2 DEF ReconcileUpdate
  <2> QED BY <2>1, <2>2, QuietCopies, WriteStatusPublishes DEF Phases
<1> QED BY <1>1, <1>2

LEMMA RequestCopies ==
    ASSUME TypeInv, CopyInv, NEW r \in Requests, RequestStep(r) \/ BadRequest(r)
    PROVE  CopyInv'
<1>1. CASE UNCHANGED <<api, watch, cache, w>> /\ \E a : Answer(r, a)
  BY <1>1, AnswerQuiet, QuietCopies
<1>2. CASE UpdateGet(r)
  <2> DEFINE v == cache["httpd"][req[r].provision]
  <2>1. req[r] \in Request /\ req[r].provision \in Provisions /\ Seen(req[r].provision, v)
    BY <1>2 DEF UpdateGet, TypeInv, TypeOK, RequestInv, CopyInv, Processes
  <2>2. CASE /\ v.obj.phase = RequiredSource(req[r].target)
             /\ req' = [req EXCEPT ![r].pc = "update", ![r].held = v]
    <3>1. UNCHANGED <<api, watch, cache, w>>
      BY <1>2 DEF UpdateGet
    <3>2. /\ req'[r].provision = req[r].provision /\ req'[r].target = req[r].target
          /\ req'[r].held = v
      BY <2>1, <2>2 DEF TypeInv, TypeOK, Request
    <3>3. \A s \in Requests : s # r => req'[s] = req[s]
      BY <2>2 DEF TypeInv, TypeOK
    <3> HIDE DEF v
    <3>4. ASSUME NEW s \in Requests, req'[s].pc = "update"
          PROVE  /\ Seen(req[s].provision, req[s].held)'
                 /\ req'[s].held.obj.phase = RequiredSource(req'[s].target)
      <4>1. CASE s = r
        BY <2>1, <2>2, <3>1, <3>2, <4>1 DEF Seen
      <4>2. CASE s # r
        BY <3>1, <3>3, <3>4, <4>2 DEF Seen, CopyInv
      <4> QED BY <4>1, <4>2
    <3> QED BY <3>1, <3>4 DEF CopyInv, Seen
  <2> QED BY <1>1, <1>2, <2>2 DEF UpdateGet
<1>3. CASE UpdateWrite(r)
  <2>1. req[r].provision \in Provisions /\ req[r].held \in Held /\ req[r].target \in Phases
    BY <1>3, Holders DEF UpdateWrite, Targets, Phases
  <2>2. UNCHANGED <<api, watch>> \/ WriteStatus(req[r].provision, req[r].held, req[r].target)
    BY <1>3 DEF UpdateWrite
  <2>3. UNCHANGED <<cache, w>> /\ \E a : Answer(r, a)
    BY <1>3 DEF UpdateWrite
  <2>4. \A s \in Requests : req'[s].pc = "update" => req'[s] = req[s]
    BY <2>3, AnswerQuiet
  <2> QED BY <2>1, <2>2, <2>3, <2>4, QuietCopies, WriteStatusPublishes
<1>4. CASE ListMachines(r) \/ ListProvisions(r)
  <2>1. UNCHANGED <<api, watch, cache, w>>
    BY <1>4 DEF ListMachines, ListProvisions
  <2>2. CASE \/ \E m : req' = [req EXCEPT ![r].pc = "provisions", ![r].machine = m]
             \/ \E p : req' = [req EXCEPT ![r].pc = "lookup", ![r].provision = p,
                                          ![r].held = cache["httpd"][p]]
    <3>1. req[r] \in Request /\ req \in [Requests -> Request]
      BY DEF TypeInv, TypeOK
    <3>2. PICK new : req' = [req EXCEPT ![r] = new] /\ new.pc # "update"
      <4>1. CASE \E m : req' = [req EXCEPT ![r].pc = "provisions", ![r].machine = m]
        <5>1. PICK m : req' = [req EXCEPT ![r] = [@ EXCEPT !.pc = "provisions", !.machine = m]]
          BY <3>1, <4>1
        <5>2. [req[r] EXCEPT !.pc = "provisions", !.machine = m].pc = "provisions"
          BY <3>1 DEF Request
        <5> QED BY <5>1, <5>2
      <4>2. CASE \E p : req' = [req EXCEPT ![r].pc = "lookup", ![r].provision = p,
                                           ![r].held = cache["httpd"][p]]
        <5>1. PICK p : req' = [req EXCEPT ![r] = [@ EXCEPT !.pc = "lookup", !.provision = p,
                                                           !.held = cache["httpd"][p]]]
          BY <3>1, <4>2
        <5>2. [req[r] EXCEPT !.pc = "lookup", !.provision = p, !.held = cache["httpd"][p]].pc = "lookup"
          BY <3>1 DEF Request
        <5> QED BY <5>1, <5>2
      <4> QED BY <2>2, <4>1, <4>2
    <3>3. req'[r].pc # "update" /\ \A s \in Requests : s # r => req'[s] = req[s]
      BY <3>1, <3>2
    <3>4. \A s \in Requests : req'[s].pc = "update" => req'[s] = req[s]
      BY <3>3
    <3> QED BY <2>1, <3>4, QuietCopies
  <2> QED BY <1>1, <1>4, <2>1, <2>2 DEF ListMachines, ListProvisions
<1>5. CASE LookupBootConfig(r) \/ BadRequest(r)
  BY <1>1, <1>5 DEF LookupBootConfig, BadRequest
<1> QED BY <1>2, <1>3, <1>4, <1>5 DEF RequestStep

LEMMA CopyStep == TypeInv /\ CopyInv /\ [Next]_vars => CopyInv'
<1> SUFFICES ASSUME TypeInv, CopyInv, [Next]_vars
             PROVE  CopyInv'
  OBVIOUS
<1>1. ASSUME NEW r \in Requests, NEW request \in Request, Arrive(r, request),
             request.pc # "update"
      PROVE  CopyInv'
  <2>1. req'[r].pc # "update" /\ \A s \in Requests : s # r => req'[s] = req[s]
    BY <1>1 DEF Arrive, TypeInv, TypeOK, Request
  <2>2. UNCHANGED <<api, watch, cache, w>>
    BY <1>1 DEF Arrive
  <2> QED BY <2>1, <2>2, QuietCopies
<1>2. ASSUME NEW r \in Requests, NEW p \in Provisions, NEW t \in Targets, PostStatus(r, p, t)
      PROVE  CopyInv'
  <2> DEFINE request == [Unused EXCEPT !.pc = "get", !.provision = p, !.target = t]
  <2>1. request \in Request /\ request.pc = "get" /\ Arrive(r, request)
    BY <1>2 DEF Unused, Request, PostStatus
  <2> HIDE DEF request
  <2> QED BY <1>1, <2>1
<1>3. ASSUME NEW r \in Requests, NEW mac \in MACs, GetBoot(r, mac)
      PROVE  CopyInv'
  <2> DEFINE request == [Unused EXCEPT !.pc = "list", !.mac = mac]
  <2>1. request \in Request /\ request.pc = "list" /\ Arrive(r, request)
    BY <1>3 DEF Unused, Request, GetBoot
  <2> HIDE DEF request
  <2> QED BY <1>1, <2>1
<1>4. ASSUME NEW i \in Processes, NEW p \in Provisions, Deliver(i, p)
      PROVE  CopyInv'
  <2>1. PICK v \in watch[i][p] : /\ cache' = [cache EXCEPT ![i][p] = v]
                                 /\ watch' = [watch EXCEPT ![i][p] = @ \ {v}]
    BY <1>4 DEF Deliver
  <2>2. UNCHANGED <<api, w, req>>
    BY <1>4 DEF Deliver
  <2>3. \A j \in Processes, q \in Provisions :
            /\ cache'[j][q] \in {cache[j][q]} \cup watch[j][q]
            /\ watch'[j][q] \subseteq watch[j][q]
    BY <2>1 DEF TypeInv, TypeOK
  <2>4. ASSUME NEW j \in Processes, NEW q \in Provisions, NEW u \in {cache'[j][q]} \cup watch'[j][q]
        PROVE  Seen(q, u)'
    <3>1. u \in {cache[j][q]} \cup watch[j][q] /\ api' = api
      BY <2>2, <2>3
    <3>2. Seen(q, u)
      BY <3>1 DEF CopyInv
    <3> QED BY <3>1, <3>2 DEF Seen
  <2>5. w' # Idle => Seen(w.key, w.held)' /\ w'.held.obj.phase = ""
    BY <2>2 DEF CopyInv, Seen
  <2>6. \A r \in Requests : req'[r].pc = "update" =>
            /\ Seen(req[r].provision, req[r].held)'
            /\ req'[r].held.obj.phase = RequiredSource(req'[r].target)
    BY <2>2 DEF CopyInv, Seen
  <2>7. \A j \in Processes, q \in Provisions :
            Seen(q, cache[j][q])' /\ \A u \in watch'[j][q] : Seen(q, u)'
    BY <2>4 DEF Seen
  <2> QED BY <2>5, <2>6, <2>7 DEF CopyInv
<1>5. ASSUME NEW i \in Processes, Relist(i),
             w' \in {w, Idle},
             \A r \in Requests : req'[r].pc = "update" => req'[r] = req[r]
      PROVE  CopyInv'
  <2>1. api' = api /\ \A j \in Processes, q \in Provisions :
            /\ cache'[j][q] \in {cache[j][q], api[q]}
            /\ watch'[j][q] \subseteq watch[j][q]
    <3>1. /\ api' = api
          /\ cache' = [cache EXCEPT ![i] = api]
          /\ watch' = [watch EXCEPT ![i] = [p \in Provisions |-> {}]]
      BY <1>5 DEF Relist
    <3>2. ASSUME NEW j \in Processes, NEW q \in Provisions
          PROVE  cache'[j][q] \in {cache[j][q], api[q]} /\ watch'[j][q] \subseteq watch[j][q]
      <4>1. CASE j = i
        <5>1. cache'[j] = api /\ watch'[j] = [p \in Provisions |-> {}]
          BY <3>1, <4>1 DEF TypeInv, TypeOK
        <5> QED BY <5>1
      <4>2. CASE j # i
        <5>1. cache'[j] = cache[j] /\ watch'[j] = watch[j]
          BY <3>1, <4>2 DEF TypeInv, TypeOK
        <5> QED BY <5>1
      <4> QED BY <4>1, <4>2
    <3> QED BY <3>1, <3>2
  <2>2. \A q \in Provisions : Seen(q, api[q])
    BY DEF Seen, TypeInv, TypeOK, Version
  <2>3. \A j \in Processes, q \in Provisions :
            Seen(q, cache[j][q])' /\ \A v \in watch'[j][q] : Seen(q, v)'
    <3>1. ASSUME NEW j \in Processes, NEW q \in Provisions,
                 NEW u \in {cache'[j][q]} \cup watch'[j][q]
          PROVE  Seen(q, u)'
      <4>1. u \in {cache[j][q], api[q]} \cup watch[j][q] /\ api' = api
        BY <2>1
      <4>2. Seen(q, u)
        BY <2>2, <4>1 DEF CopyInv
      <4> QED BY <4>1, <4>2 DEF Seen
    <3> QED BY <3>1 DEF Seen
  <2>4. w' # Idle => Seen(w.key, w.held)' /\ w'.held.obj.phase = ""
    <3>1. api' = api
      BY <2>1
    <3>2. w' # Idle => w' = w
      BY <1>5
    <3> QED BY <3>1, <3>2 DEF CopyInv, Seen
  <2>5. \A r \in Requests : req'[r].pc = "update" =>
            /\ Seen(req[r].provision, req[r].held)'
            /\ req'[r].held.obj.phase = RequiredSource(req'[r].target)
    BY <1>5, <2>1 DEF CopyInv, Seen
  <2> QED BY <2>3, <2>4, <2>5 DEF CopyInv
<1>6. CASE RestartManager
  BY <1>5, <1>6 DEF RestartManager, Processes
<1>7. CASE RestartHttpd
  <2> DEFINE dropped == [Unused EXCEPT !.pc = "done", !.answer = "dropped"]
  <2>a. dropped.pc = "done"
    BY DEF Unused
  <2>b. req' = [r \in Requests |-> IF req[r].pc \in {"unused", "done"} THEN req[r] ELSE dropped]
    BY <1>7 DEF RestartHttpd
  <2> HIDE DEF dropped
  <2>1. \A r \in Requests : req'[r].pc = "update" => req'[r] = req[r]
    BY <2>a, <2>b
  <2> QED BY <1>5, <1>7, <2>1 DEF RestartHttpd, Processes
<1>8. ASSUME NEW p \in Provisions, Delete(p) \/ \E m \in Machines : Create(p, m) \/ Edit(p, m)
      PROVE  CopyInv'
  <2>1. PICK obj \in ProvisionObject \cup {Absent} : Submit(p, obj)
    BY <1>8, SubmittedType
  <2> QED BY <2>1, QuietCopies DEF Submit
<1>9. CASE UNCHANGED <<api, watch, cache, w, req>>
  BY <1>9, QuietCopies
<1>10. ASSUME NEW p \in Provisions, Elapse(p)
       PROVE  CopyInv'
  BY <1>9, <1>10 DEF Elapse
<1>11. ASSUME NEW m \in Machines,
              DeliverMachine(m) \/ \E mac \in MACs \cup {Absent} : ChangeMachine(m, mac)
       PROVE  CopyInv'
  BY <1>9, <1>11 DEF DeliverMachine, ChangeMachine
<1> QED
  BY <1>2, <1>3, <1>4, <1>6, <1>7, <1>8, <1>9, <1>10, <1>11, ReconcileCopies, RequestCopies
  DEF Next, vars

-----------------------------------------------------------------------------
(* Every step is a step of the lifecycle, or changes no phase *)

AbstractPhase == [p \in Provisions |-> PhaseOf(p)]

LEMMA PhaseValues ==
    ASSUME TypeInv, NEW p \in Provisions, api[p].obj # Absent
    PROVE  PhaseOf(p) = api[p].obj.phase /\ PhaseOf(p) # "none"
BY DEF TypeInv, TypeOK, Version, ProvisionObject, Phases, PhaseOf

\* A published object is a move of its Provision alone.
LEMMA PublishMoves ==
    ASSUME TypeInv, NEW p \in Provisions, NEW obj, Publish(p, obj)
    PROVE  AbstractPhase' = [AbstractPhase EXCEPT ![p] = IF obj = Absent THEN "none" ELSE obj.phase]
<1>1. api'[p].obj = obj /\ \A q \in Provisions : q # p => api'[q] = api[q]
  BY DEF Publish, TypeInv, TypeOK
<1> QED BY <1>1 DEF AbstractPhase, PhaseOf

\* An accepted status write starts from the phase the writer checked.
LEMMA WriteStatusMoves ==
    ASSUME TypeInv, NEW p \in Provisions, NEW held \in Held, Seen(p, held),
           NEW phase \in Phases, WriteStatus(p, held, phase)
    PROVE  Lifecycle!Move(p, held.obj.phase, phase)
<1> DEFINE obj == [held.obj EXCEPT !.phase = phase]
<1>1. api[p].obj # Absent /\ held = api[p] /\ Publish(p, obj)
  BY DEF WriteStatus, Current, Seen
<1>2. PhaseOf(p) = held.obj.phase
  BY <1>1, PhaseValues
<1>3. obj \in ProvisionObject /\ obj.phase = phase
  BY DEF Held, ProvisionObject
<1> HIDE DEF obj
<1>4. obj # Absent
  BY <1>3, ConstantsAssumption
<1>5. AbstractPhase' = [AbstractPhase EXCEPT ![p] = phase]
  BY <1>1, <1>3, <1>4, PublishMoves
<1> QED BY <1>2, <1>5 DEF Lifecycle!Move, AbstractPhase

LEMMA LifecycleInit == Init => Lifecycle!Init
BY DEF Init, Lifecycle!Init, PhaseOf

\* Who writes to the API server.
LEMMA ApiWrites ==
    ASSUME [Next]_vars
    PROVE  \/ UNCHANGED api
           \/ ReconcileUpdate
           \/ \E r \in Requests : UpdateWrite(r)
           \/ \E p \in Provisions : Delete(p) \/ \E m \in Machines : Create(p, m) \/ Edit(p, m)
<1>1. ASSUME NEW r \in Requests, RequestStep(r) \/ BadRequest(r)
      PROVE  UNCHANGED api \/ UpdateWrite(r)
  BY <1>1 DEF RequestStep, UpdateGet, ListMachines, ListProvisions, LookupBootConfig, BadRequest
<1>2. ASSUME NEW p \in Provisions, ReconcileGet(p) \/ Elapse(p)
      PROVE  UNCHANGED api
  BY <1>2 DEF ReconcileGet, Elapse
<1>3. ASSUME NEW r \in Requests, NEW request, Arrive(r, request)
      PROVE  UNCHANGED api
  BY <1>3 DEF Arrive
<1>4. ASSUME NEW i \in Processes, NEW p \in Provisions, Deliver(i, p)
      PROVE  UNCHANGED api
  BY <1>4 DEF Deliver
<1>5. ASSUME RestartManager \/ RestartHttpd
      PROVE  UNCHANGED api
  BY <1>5 DEF RestartManager, RestartHttpd, Relist
<1>6. ASSUME NEW r \in Requests, (\E p \in Provisions, t \in Targets : PostStatus(r, p, t))
                                  \/ \E mac \in MACs : GetBoot(r, mac)
      PROVE  UNCHANGED api
  BY <1>3, <1>6 DEF PostStatus, GetBoot
<1>7. ASSUME NEW m \in Machines,
             DeliverMachine(m) \/ \E mac \in MACs \cup {Absent} : ChangeMachine(m, mac)
      PROVE  UNCHANGED api
  BY <1>7 DEF DeliverMachine, ChangeMachine
<1> QED BY <1>1, <1>2, <1>4, <1>5, <1>6, <1>7 DEF Next, vars

LEMMA LifecycleStep ==
    TypeInv /\ CopyInv /\ [Next]_vars => [Lifecycle!Next]_[p \in Provisions |-> PhaseOf(p)]
<1> SUFFICES ASSUME TypeInv, CopyInv, [Next]_vars
             PROVE  Lifecycle!Next \/ UNCHANGED AbstractPhase
  BY DEF AbstractPhase
<1>1. CASE UNCHANGED api
  BY <1>1 DEF AbstractPhase, PhaseOf
<1>2. CASE ReconcileUpdate
  <2>1. w # Idle /\ w.key \in Provisions /\ w.held \in Held
    BY <1>2, Holders DEF ReconcileUpdate
  <2>2. Seen(w.key, w.held) /\ w.held.obj.phase = ""
    BY <2>1 DEF CopyInv
  <2>3. CASE WriteStatus(w.key, w.held, "Pending")
    <3>1. Lifecycle!Move(w.key, "", "Pending")
      BY <2>1, <2>2, <2>3, WriteStatusMoves DEF Phases
    <3> QED BY <2>1, <3>1 DEF Lifecycle!Next, Lifecycle!Initialise
  <2> QED BY <1>1, <1>2, <2>3 DEF ReconcileUpdate
<1>3. ASSUME NEW r \in Requests, UpdateWrite(r)
      PROVE  Lifecycle!Next \/ UNCHANGED AbstractPhase
  <2> DEFINE p == req[r].provision
             held == req[r].held
             target == req[r].target
  <2>1. p \in Provisions /\ held \in Held /\ target \in Targets
    BY <1>3, Holders DEF UpdateWrite
  <2>2. Seen(p, held) /\ held.obj.phase = RequiredSource(target)
    BY <1>3 DEF UpdateWrite, CopyInv
  <2>3. UNCHANGED api \/ WriteStatus(p, held, target)
    BY <1>3 DEF UpdateWrite
  <2> HIDE DEF p, held, target
  <2>4. CASE WriteStatus(p, held, target)
    <3>1. Lifecycle!Move(p, RequiredSource(target), target)
      BY <2>1, <2>2, <2>4, WriteStatusMoves DEF Targets, Phases
    <3> QED BY <2>1, <3>1 DEF Lifecycle!Next, Lifecycle!Start, Lifecycle!Finish,
                              RequiredSource, Targets
  <2> QED BY <1>1, <2>3, <2>4
<1>4. ASSUME NEW p \in Provisions, NEW m \in Machines, Create(p, m)
      PROVE  Lifecycle!Next
  <2> DEFINE obj == [uid |-> api[p].rv + 1, machine |-> m, phase |-> ""]
  <2>1. obj \in ProvisionObject /\ obj.phase = ""
    <3>1. api[p].rv \in Nat
      BY DEF TypeInv, TypeOK, Version
    <3> QED BY <3>1 DEF ProvisionObject, Phases
  <2>2. api[p].obj = Absent /\ Publish(p, obj)
    BY <1>4 DEF Create, Submit
  <2> HIDE DEF obj
  <2>3. obj # Absent
    BY <2>1, ConstantsAssumption
  <2>4. AbstractPhase' = [AbstractPhase EXCEPT ![p] = ""]
    BY <2>1, <2>2, <2>3, PublishMoves
  <2> QED BY <2>2, <2>4 DEF Lifecycle!Next, Lifecycle!Create, Lifecycle!Move,
                            AbstractPhase, PhaseOf
<1>5. ASSUME NEW p \in Provisions, Delete(p)
      PROVE  Lifecycle!Next
  <2>1. api[p].obj # Absent /\ Publish(p, Absent)
    BY <1>5 DEF Delete, Submit
  <2>2. AbstractPhase' = [AbstractPhase EXCEPT ![p] = "none"]
    BY <2>1, PublishMoves
  <2>3. PhaseOf(p) # "none"
    BY <2>1, PhaseValues
  <2> QED BY <2>2, <2>3 DEF Lifecycle!Next, Lifecycle!Delete, AbstractPhase
<1>7. ASSUME NEW p \in Provisions, NEW m \in Machines, Edit(p, m)
      PROVE  UNCHANGED AbstractPhase
  <2> DEFINE obj == [api[p].obj EXCEPT !.machine = m]
  <2>1. api[p].obj \in ProvisionObject
    BY <1>7 DEF Edit, TypeInv, TypeOK, Version
  <2>2. obj \in ProvisionObject /\ obj.phase = api[p].obj.phase
    BY <2>1 DEF ProvisionObject
  <2>3. Publish(p, obj)
    BY <1>7 DEF Edit, Submit
  <2> HIDE DEF obj
  <2>4. obj # Absent
    BY <2>2, ConstantsAssumption
  <2>5. AbstractPhase' = [AbstractPhase EXCEPT ![p] = api[p].obj.phase]
    BY <2>2, <2>3, <2>4, PublishMoves
  <2>6. AbstractPhase[p] = api[p].obj.phase
    BY <1>7, PhaseValues DEF Edit, AbstractPhase
  <2> QED BY <2>5, <2>6 DEF AbstractPhase
<1>6. \/ UNCHANGED api
      \/ ReconcileUpdate
      \/ \E r \in Requests : UpdateWrite(r)
      \/ \E p \in Provisions : Delete(p) \/ \E m \in Machines : Create(p, m) \/ Edit(p, m)
  BY ApiWrites
<1> QED BY <1>1, <1>2, <1>3, <1>4, <1>5, <1>6, <1>7

\* The manager and httpd, each working from a stale cache, with any number of
\* concurrent requests, failing writes and restarts, implement the lifecycle:
\* no phase of a Provision is skipped, repeated or taken back
\* (ProvisionReconciler.Reconcile and UpdateProvisionPhase).
THEOREM ImplementsLifecycle == Spec => FollowsLifecycle
<1>1. Init => TypeInv /\ CopyInv
  BY TypeInit, CopyInit
<1>2. TypeInv /\ CopyInv /\ [Next]_vars => (TypeInv /\ CopyInv)'
  BY TypeStep, CopyStep
<1>3. TypeInv /\ CopyInv /\ [Next]_vars => [Lifecycle!Next]_[p \in Provisions |-> PhaseOf(p)]
  BY LifecycleStep
<1> QED BY <1>1, <1>2, <1>3, LifecycleInit, PTL DEF Spec, FollowsLifecycle, Lifecycle!Spec
=============================================================================
