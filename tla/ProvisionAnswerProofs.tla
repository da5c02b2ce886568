------------------------ MODULE ProvisionAnswerProofs ------------------------
(***************************************************************************)
(* Theorems about what httpd tells its clients, for any sets of            *)
(* Provisions, Machines and requests and any bounds: at most one request   *)
(* wins a transition, what was acknowledged is never taken back, and a     *)
(* boot script is for the Machine that asked.                              *)
(***************************************************************************)
EXTENDS ProvisionProofs

-----------------------------------------------------------------------------
(* No copy is ahead of the API server *)

Rank(phase) == IF phase = "" THEN 0 ELSE IF phase = "Pending" THEN 1
               ELSE IF phase = "InProgress" THEN 2 ELSE 3

LEMMA RankType == \A phase : Rank(phase) \in 0..3
BY DEF Rank

\* A request moves a Provision forward.
LEMMA RankOrder ==
    ASSUME NEW target \in Targets
    PROVE  Rank(RequiredSource(target)) < Rank(target)
<1>1. CASE target = "InProgress"
  <2>1. RequiredSource(target) = "Pending"
    BY <1>1 DEF RequiredSource
  <2>2. Rank("Pending") = 1 /\ Rank("InProgress") = 2
    BY DEF Rank
  <2> QED BY <1>1, <2>1, <2>2
<1>2. CASE target = "Complete"
  <2>1. RequiredSource(target) = "InProgress"
    BY <1>2 DEF RequiredSource
  <2>2. Rank("InProgress") = 2 /\ Rank("Complete") = 3
    BY DEF Rank
  <2> QED BY <1>2, <2>1, <2>2
<1> QED BY <1>1, <1>2 DEF Targets

\* The Provision with this uid has had this phase: if it still exists, it is in
\* that phase or a later one.
Known(p, uid, phase) ==
    /\ uid <= api[p].rv
    /\ api[p].obj # Absent /\ api[p].obj.uid = uid => Rank(phase) <= Rank(api[p].obj.phase)

\* What may be published: a deletion, a new Provision, or a phase that is not
\* an earlier one.
Forward(p, obj) ==
    \/ obj = Absent
    \/ obj.uid = api[p].rv + 1
    \/ /\ api[p].obj # Absent /\ obj.uid = api[p].obj.uid
       /\ Rank(api[p].obj.phase) <= Rank(obj.phase)

LEMMA ApiType ==
    ASSUME TypeInv, NEW p \in Provisions
    PROVE  /\ api[p].rv \in Nat
           /\ api[p].obj # Absent => api[p].obj \in ProvisionObject
BY DEF TypeInv, TypeOK, Version

LEMMA KnownStays ==
    ASSUME TypeInv, NEW p \in Provisions, NEW obj \in ProvisionObject \cup {Absent},
           Publish(p, obj), Forward(p, obj),
           NEW q \in Provisions, NEW uid \in Nat, NEW phase, Known(q, uid, phase)
    PROVE  Known(q, uid, phase)'
<1>1. api' = [api EXCEPT ![p] = [rv |-> api[p].rv + 1, obj |-> obj]]
  BY DEF Publish
<1>2. CASE q # p
  <2>1. api'[q] = api[q]
    BY <1>1, <1>2 DEF TypeInv, TypeOK
  <2> QED BY <2>1 DEF Known
<1>3. CASE q = p
  <2>1. api'[q].rv = api[q].rv + 1 /\ api'[q].obj = obj
    BY <1>1, <1>3 DEF TypeInv, TypeOK
  <2>2. api[q].rv \in Nat
    BY ApiType
  <2>3. uid <= api'[q].rv
    BY <2>1, <2>2 DEF Known
  <2>4. ASSUME obj # Absent, obj.uid = uid
        PROVE  Rank(phase) <= Rank(obj.phase)
    <3>1. obj.uid # api[q].rv + 1
      BY <2>2, <2>4 DEF Known
    <3>2. /\ api[q].obj # Absent /\ api[q].obj.uid = uid
          /\ Rank(api[q].obj.phase) <= Rank(obj.phase)
      BY <1>3, <2>4, <3>1 DEF Forward
    <3>3. Rank(phase) <= Rank(api[q].obj.phase)
      BY <3>2 DEF Known
    <3>4. Rank(phase) \in 0..3 /\ Rank(obj.phase) \in 0..3 /\ Rank(api[q].obj.phase) \in 0..3
      BY RankType
    <3> QED BY <3>2, <3>3, <3>4
  <2> QED BY <2>1, <2>3, <2>4 DEF Known
<1> QED BY <1>2, <1>3

\* An accepted status write is forward if the phase it starts from is.
LEMMA WriteStatusForward ==
    ASSUME TypeInv, NEW p \in Provisions, NEW held \in Held, NEW phase \in Phases,
           Seen(p, held), Rank(held.obj.phase) <= Rank(phase), WriteStatus(p, held, phase)
    PROVE  \E obj \in ProvisionObject : Publish(p, obj) /\ Forward(p, obj)
<1> DEFINE obj == [held.obj EXCEPT !.phase = phase]
<1>1. obj \in ProvisionObject /\ obj.uid = held.obj.uid /\ obj.phase = phase
  BY DEF Held, ProvisionObject
<1>2. Publish(p, obj) /\ api[p].obj # Absent /\ held = api[p]
  BY DEF WriteStatus, Current, Seen
<1> HIDE DEF obj
<1>3. Forward(p, obj)
  BY <1>1, <1>2 DEF Forward
<1> QED BY <1>1, <1>2, <1>3

LEMMA ApiForward ==
    ASSUME TypeInv, CopyInv, [Next]_vars
    PROVE  \/ UNCHANGED api
           \/ \E p \in Provisions : \E obj \in ProvisionObject \cup {Absent} :
                Publish(p, obj) /\ Forward(p, obj)
<1>1. CASE ReconcileUpdate
  <2>1. w # Idle /\ w.key \in Provisions /\ w.held \in Held
    BY <1>1, Holders DEF ReconcileUpdate
  <2>2. Seen(w.key, w.held) /\ w.held.obj.phase = ""
    BY <2>1 DEF CopyInv
  <2>3. UNCHANGED api \/ WriteStatus(w.key, w.held, "Pending")
    BY <1>1 DEF ReconcileUpdate
  <2>4. Rank("") <= Rank("Pending") /\ "Pending" \in Phases
    BY DEF Rank, Phases
  <2> QED BY <2>1, <2>2, <2>3, <2>4, WriteStatusForward
<1>2. ASSUME NEW r \in Requests, UpdateWrite(r)
      PROVE  \/ UNCHANGED api
             \/ \E p \in Provisions : \E obj \in ProvisionObject : Publish(p, obj) /\ Forward(p, obj)
  <2> DEFINE p == req[r].provision
             held == req[r].held
             target == req[r].target
  <2>1. p \in Provisions /\ held \in Held /\ target \in Targets
    BY <1>2, Holders DEF UpdateWrite
  <2>2. Seen(p, held) /\ held.obj.phase = RequiredSource(target)
    BY <1>2 DEF UpdateWrite, CopyInv
  <2>3. UNCHANGED api \/ WriteStatus(p, held, target)
    BY <1>2 DEF UpdateWrite
  <2> HIDE DEF p, held, target
  <2>4. target \in Phases
    BY <2>1 DEF Targets, Phases
  <2>5. Rank(held.obj.phase) <= Rank(target)
    <3>1. Rank(RequiredSource(target)) < Rank(target)
      BY <2>1, RankOrder
    <3>2. Rank(RequiredSource(target)) \in 0..3 /\ Rank(target) \in 0..3
      BY RankType
    <3> QED BY <2>2, <3>1, <3>2
  <2> QED BY <2>1, <2>2, <2>3, <2>4, <2>5, WriteStatusForward
<1>3. ASSUME NEW p \in Provisions, Delete(p)
      PROVE  Publish(p, Absent) /\ Forward(p, Absent)
  BY <1>3 DEF Delete, Submit, Forward
<1>4. ASSUME NEW p \in Provisions, NEW m \in Machines, Create(p, m)
      PROVE  \E obj \in ProvisionObject : Publish(p, obj) /\ Forward(p, obj)
  <2> DEFINE obj == [uid |-> api[p].rv + 1, machine |-> m, phase |-> ""]
  <2>1. obj \in ProvisionObject
    <3>1. api[p].rv \in Nat
      BY ApiType
    <3> QED BY <3>1 DEF ProvisionObject, Phases
  <2>2. Publish(p, obj) /\ Forward(p, obj)
    BY <1>4 DEF Create, Submit, Forward
  <2> QED BY <2>1, <2>2
<1>5. ASSUME NEW p \in Provisions, NEW m \in Machines, Edit(p, m)
      PROVE  \E obj \in ProvisionObject : Publish(p, obj) /\ Forward(p, obj)
  <2> DEFINE obj == [api[p].obj EXCEPT !.machine = m]
  <2>1. api[p].obj # Absent /\ api[p].obj \in ProvisionObject /\ Publish(p, obj)
    BY <1>5, ApiType DEF Edit, Submit
  <2>2. obj \in ProvisionObject /\ obj.uid = api[p].obj.uid /\ obj.phase = api[p].obj.phase
    BY <2>1 DEF ProvisionObject
  <2>3. Rank(api[p].obj.phase) <= Rank(api[p].obj.phase)
    BY RankType
  <2> HIDE DEF obj
  <2>4. Forward(p, obj)
    BY <2>1, <2>2, <2>3 DEF Forward
  <2> QED BY <2>1, <2>2, <2>4
<1> QED BY <1>1, <1>2, <1>3, <1>4, <1>5, ApiWrites

\* A new copy in a cache or on its way to one is the API server's newest.
LEMMA NewCopies ==
    ASSUME TypeInv, [Next]_vars, NEW i \in Processes, NEW p \in Provisions
    PROVE  {cache'[i][p]} \cup watch'[i][p] \subseteq {cache[i][p], api'[p]} \cup watch[i][p]
<1> DEFINE Fresh == {cache'[i][p]} \cup watch'[i][p] \subseteq {cache[i][p], api'[p]} \cup watch[i][p]
<1>1. ASSUME NEW q \in Provisions, NEW obj, Publish(q, obj), UNCHANGED cache
      PROVE  Fresh
  <2>1. CASE q = p
    <3>1. watch'[i][p] = watch[i][p] \cup {api'[p]}
      BY <1>1, <2>1 DEF Publish, TypeInv, TypeOK
    <3> QED BY <1>1, <3>1
  <2>2. CASE q # p
    <3>1. watch'[i][p] = watch[i][p]
      BY <1>1, <2>2 DEF Publish, TypeInv, TypeOK
    <3> QED BY <1>1, <3>1
  <2> QED BY <2>1, <2>2
<1>2. CASE UNCHANGED <<watch, cache>>
  BY <1>2
<1>3. ASSUME NEW j \in Processes, NEW q \in Provisions, Deliver(j, q)
      PROVE  Fresh
  <2>1. PICK v \in watch[j][q] : /\ cache' = [cache EXCEPT ![j][q] = v]
                                 /\ watch' = [watch EXCEPT ![j][q] = @ \ {v}]
    BY <1>3 DEF Deliver
  <2> QED BY <2>1 DEF TypeInv, TypeOK
<1>4. ASSUME NEW j \in Processes, Relist(j)
      PROVE  Fresh
  <2>1. /\ cache' = [cache EXCEPT ![j] = api] /\ api' = api
        /\ watch' = [watch EXCEPT ![j] = [q \in Provisions |-> {}]]
    BY <1>4 DEF Relist
  <2>2. CASE j = i
    <3>1. cache'[i] = api /\ watch'[i] = [q \in Provisions |-> {}]
      BY <2>1, <2>2 DEF TypeInv, TypeOK
    <3> QED BY <2>1, <3>1
  <2>3. CASE j # i
    <3>1. cache'[i] = cache[i] /\ watch'[i] = watch[i]
      BY <2>1, <2>3 DEF TypeInv, TypeOK
    <3> QED BY <3>1
  <2> QED BY <2>2, <2>3
<1>5. CASE ReconcileUpdate
  BY <1>1, <1>2, <1>5, Holders DEF ReconcileUpdate, WriteStatus
<1>6. ASSUME NEW r \in Requests, RequestStep(r) \/ BadRequest(r)
      PROVE  Fresh
  <2>1. CASE UpdateWrite(r)
    <3>1. req[r].provision \in Provisions
      BY <2>1, Holders DEF UpdateWrite
    <3> QED BY <1>1, <1>2, <2>1, <3>1 DEF UpdateWrite, WriteStatus
  <2> QED BY <1>2, <1>6, <2>1 DEF RequestStep, UpdateGet, ListMachines, ListProvisions,
                                  LookupBootConfig, BadRequest
<1>7. ASSUME NEW r \in Requests, (\E q \in Provisions, t \in Targets : PostStatus(r, q, t))
                                  \/ \E mac \in MACs : GetBoot(r, mac)
      PROVE  Fresh
  BY <1>2, <1>7 DEF PostStatus, GetBoot, Arrive
<1>8. ASSUME NEW q \in Provisions,
             Delete(q) \/ \E m \in Machines : Create(q, m) \/ Edit(q, m)
      PROVE  Fresh
  BY <1>1, <1>8 DEF Delete, Create, Edit, Submit
<1>9. ASSUME NEW q \in Provisions, ReconcileGet(q) \/ Elapse(q)
      PROVE  Fresh
  BY <1>2, <1>9 DEF ReconcileGet, Elapse
<1>10. ASSUME NEW m \in Machines,
              DeliverMachine(m) \/ \E mac \in MACs \cup {Absent} : ChangeMachine(m, mac)
       PROVE  Fresh
  BY <1>2, <1>10 DEF DeliverMachine, ChangeMachine
<1>11. CASE RestartManager \/ RestartHttpd
  BY <1>4, <1>11 DEF RestartManager, RestartHttpd, Processes
<1> QED
  BY <1>2, <1>3, <1>5, <1>6, <1>7, <1>8, <1>9, <1>10, <1>11 DEF Next, vars

KnownInv ==
    /\ \A p \in Provisions :
        api[p].obj # Absent => Known(p, api[p].obj.uid, api[p].obj.phase)
    /\ \A i \in Processes, p \in Provisions : \A v \in {cache[i][p]} \cup watch[i][p] :
        v.obj # Absent => Known(p, v.obj.uid, v.obj.phase)

LEMMA KnownInit == Init => KnownInv
BY DEF Init, KnownInv, Processes

\* What is known stays known.
LEMMA KnownKept ==
    ASSUME TypeInv, CopyInv, [Next]_vars, NEW p \in Provisions, NEW uid \in Nat, NEW phase,
           Known(p, uid, phase)
    PROVE  Known(p, uid, phase)'
BY ApiForward, KnownStays DEF Known

LEMMA KnownStep == TypeInv /\ CopyInv /\ KnownInv /\ [Next]_vars => KnownInv'
<1> SUFFICES ASSUME TypeInv, CopyInv, KnownInv, [Next]_vars
             PROVE  KnownInv'
  OBVIOUS
<1>1. ASSUME NEW p \in Provisions, api'[p].obj # Absent
      PROVE  Known(p, api[p].obj.uid, api[p].obj.phase)'
  <2>1. CASE api'[p] = api[p]
    BY <1>1, <2>1 DEF KnownInv, Known
  <2>2. ASSUME NEW q \in Provisions, NEW obj \in ProvisionObject \cup {Absent},
               Publish(q, obj), Forward(q, obj), api'[p] # api[p]
        PROVE  Known(p, api[p].obj.uid, api[p].obj.phase)'
    <3>1. q = p /\ api'[p].obj = obj /\ api'[p].rv = api[p].rv + 1
      BY <2>2 DEF Publish, TypeInv, TypeOK
    <3>2. obj # Absent /\ obj \in ProvisionObject /\ obj.uid \in Nat
      BY <1>1, <2>2, <3>1 DEF ProvisionObject
    <3>3. obj.uid = api[p].rv + 1
          \/ (obj.uid = api[p].obj.uid /\ api[p].obj # Absent)
      BY <2>2, <3>1, <3>2 DEF Forward
    <3>4. api[p].rv \in Nat
      BY ApiType
    <3>5. api[p].obj # Absent => api[p].obj.uid <= api[p].rv
      BY DEF KnownInv, Known
    <3>6. obj.uid <= api'[p].rv
      BY <3>1, <3>2, <3>3, <3>4, <3>5
    <3>7. Rank(obj.phase) <= Rank(obj.phase)
      BY RankType
    <3> QED BY <3>1, <3>6, <3>7 DEF Known
  <2> QED BY <2>1, <2>2, ApiForward
<1>2. ASSUME NEW i \in Processes, NEW p \in Provisions, NEW v \in {cache'[i][p]} \cup watch'[i][p],
             v.obj # Absent
      PROVE  Known(p, v.obj.uid, v.obj.phase)'
  <2>1. CASE v = api'[p]
    BY <1>1, <1>2, <2>1
  <2>2. CASE v \in {cache[i][p]} \cup watch[i][p]
    <3>1. v \in Version
      BY <2>2 DEF TypeInv, TypeOK
    <3>2. v.obj.uid \in Nat
      BY <1>2, <3>1 DEF Version, ProvisionObject
    <3>3. Known(p, v.obj.uid, v.obj.phase)
      BY <1>2, <2>2 DEF KnownInv
    <3> DEFINE uid == v.obj.uid
               phase == v.obj.phase
    <3> HIDE DEF uid, phase
    <3>4. Known(p, uid, phase) => Known(p, uid, phase)'
      BY <3>2, KnownKept DEF uid
    <3> QED BY <3>3, <3>4 DEF uid, phase, Known
  <2> QED BY <1>2, <2>1, <2>2, NewCopies
<1> QED BY <1>1, <1>2 DEF KnownInv, Known
-----------------------------------------------------------------------------
(* What a request was told, or is about to be told, is known *)

Claim(r) ==
    /\ req[r].answer \in {"ok", "directive"} => req[r].pc = "done"
    /\ req[r].pc = "lookup" \/ req[r].answer = "directive" =>
        /\ req[r].provision \in Provisions /\ req[r].held \in Held
        /\ Known(req[r].provision, req[r].held.obj.uid, "Pending")
    /\ req[r].answer = "ok" =>
        /\ req[r].provision \in Provisions /\ req[r].held \in Held
        /\ req[r].target \in Targets
        /\ Known(req[r].provision, req[r].held.obj.uid, req[r].target)

ClaimInv == \A r \in Requests : Claim(r)

LEMMA NoneNoAnswer == None # "ok" /\ None # "directive"
BY ConstantsAssumption DEF Answers

LEMMA ClaimInit == Init => ClaimInv
BY NoneNoAnswer DEF Init, ClaimInv, Claim, Unused

\* A request nothing happens to, and one that was told nothing.
LEMMA ClaimKept ==
    ASSUME TypeInv, CopyInv, ClaimInv, [Next]_vars, NEW r \in Requests, req'[r] = req[r]
    PROVE  Claim(r)'
<1>1. PICK old : old = req[r]
  OBVIOUS
<1>2. req'[r] = old
  BY <1>1
<1>3. /\ old.answer \in {"ok", "directive"} => old.pc = "done"
      /\ old.pc = "lookup" \/ old.answer = "directive" =>
          /\ old.provision \in Provisions /\ old.held \in Held
          /\ Known(old.provision, old.held.obj.uid, "Pending")
      /\ old.answer = "ok" =>
          /\ old.provision \in Provisions /\ old.held \in Held /\ old.target \in Targets
          /\ Known(old.provision, old.held.obj.uid, old.target)
  BY <1>1 DEF ClaimInv, Claim
<1>4. ASSUME NEW phase, old.provision \in Provisions, old.held \in Held,
             Known(old.provision, old.held.obj.uid, phase)
      PROVE  Known(old.provision, old.held.obj.uid, phase)'
  <2>1. old.held.obj.uid \in Nat
    BY <1>4 DEF Held, ProvisionObject
  <2>2. PICK uid \in Nat : uid = old.held.obj.uid
    BY <2>1
  <2>3. Known(old.provision, uid, phase)'
    BY <1>4, <2>2, KnownKept
  <2> QED BY <2>2, <2>3 DEF Known
<1> QED BY <1>2, <1>3, <1>4 DEF Claim, Known

LEMMA ClaimNone ==
    ASSUME NEW r \in Requests, req'[r].pc # "lookup", req'[r].answer \notin {"ok", "directive"}
    PROVE  Claim(r)'
BY DEF Claim

LEMMA AnswerClaim ==
    ASSUME TypeInv, NEW r \in Requests, NEW a \in Answers \ {"ok", "directive"}, Answer(r, a)
    PROVE  Claim(r)'
<1>1. req'[r] = [Unused EXCEPT !.pc = "done", !.answer = a]
  BY DEF Answer, TypeInv, TypeOK
<1>2. req'[r].pc = "done" /\ req'[r].answer = a
  BY <1>1 DEF Unused
<1> QED BY <1>2, ClaimNone

LEMMA OthersKept ==
    ASSUME TypeInv, NEW r \in Requests,
           RequestStep(r) \/ BadRequest(r)
           \/ (\E p \in Provisions, t \in Targets : PostStatus(r, p, t))
           \/ \E mac \in MACs : GetBoot(r, mac)
    PROVE  \A s \in Requests \ {r} : req'[s] = req[s]
<1>1. PICK new : req' = [req EXCEPT ![r] = new]
  BY DEF RequestStep, UpdateGet, UpdateWrite, ListMachines, ListProvisions, LookupBootConfig,
         BadRequest, PostStatus, GetBoot, Arrive, Answer
<1> QED BY <1>1 DEF TypeInv, TypeOK

\* The write behind a 200.
LEMMA AcceptedKnown ==
    ASSUME TypeInv, CopyInv, KnownInv, NEW p \in Provisions, NEW held \in Held,
           NEW target \in Phases, Seen(p, held), WriteStatus(p, held, target)
    PROVE  /\ Known(p, held.obj.uid, target)'
           /\ held = api[p] /\ api[p].obj # Absent
<1>1. held = api[p] /\ api[p].obj # Absent
  BY DEF WriteStatus, Current, Seen
<1> DEFINE obj == [held.obj EXCEPT !.phase = target]
<1>2. obj.uid = held.obj.uid /\ obj.phase = target /\ held.obj.uid \in Nat
  BY DEF Held, ProvisionObject
<1>3. api' = [api EXCEPT ![p] = [rv |-> api[p].rv + 1, obj |-> obj]]
  BY DEF WriteStatus, Publish
<1> HIDE DEF obj
<1>4. api'[p].rv = api[p].rv + 1 /\ api'[p].obj = obj /\ api[p].rv \in Nat
  BY <1>3, ApiType DEF TypeInv, TypeOK
<1>5. held.obj.uid <= api[p].rv
  BY <1>1 DEF KnownInv, Known
<1>6. held.obj.uid <= api'[p].rv
  BY <1>2, <1>4, <1>5
<1>7. Rank(target) <= Rank(obj.phase)
  BY <1>2, RankType
<1>8. Known(p, held.obj.uid, target)'
  BY <1>4, <1>6, <1>7 DEF Known
<1> QED BY <1>1, <1>8

\* An answer that keeps what the request carried.
LEMMA AnswerKeeps ==
    ASSUME TypeInv, NEW r \in Requests, NEW a \in {"ok", "directive"}, Answer(r, a)
    PROVE  /\ req'[r].pc = "done" /\ req'[r].answer = a
           /\ req'[r].provision = req[r].provision /\ req'[r].target = req[r].target
           /\ req'[r].held = req[r].held /\ req'[r].mac = req[r].mac
           /\ req'[r].arrived = req[r].arrived
BY DEF Answer, TypeInv, TypeOK, Request

LEMMA OwnClaim ==
    ASSUME TypeInv, CopyInv, KnownInv, ClaimInv, [Next]_vars, NEW r \in Requests,
           RequestStep(r) \/ BadRequest(r)
           \/ (\E p \in Provisions, t \in Targets : PostStatus(r, p, t))
           \/ \E mac \in MACs : GetBoot(r, mac)
    PROVE  Claim(r)'
<1>0. /\ req[r] \in Request
      /\ req[r].answer \in {"ok", "directive"} => req[r].pc = "done"
  BY DEF TypeInv, TypeOK, ClaimInv, Claim
<1>1. ASSUME NEW a \in Answers \ {"ok", "directive"}, Answer(r, a)
      PROVE  Claim(r)'
  BY <1>1, AnswerClaim
<1>2. CASE UpdateGet(r)
  <2>1. CASE req' = [req EXCEPT ![r].pc = "update", ![r].held = cache["httpd"][req[r].provision]]
    <3>1. req'[r].pc = "update" /\ req'[r].answer = req[r].answer
      BY <1>0, <2>1 DEF TypeInv, TypeOK, Request
    <3>2. req[r].pc = "get"
      BY <1>2 DEF UpdateGet
    <3> QED BY <1>0, <3>1, <3>2, ClaimNone
  <2> QED BY <1>1, <1>2, <2>1 DEF UpdateGet, Answers
<1>3. CASE UpdateWrite(r)
  <2>1. CASE WriteStatus(req[r].provision, req[r].held, req[r].target) /\ Answer(r, "ok")
    <3>1. /\ req[r].provision \in Provisions /\ req[r].held \in Held
          /\ req[r].target \in Targets /\ Seen(req[r].provision, req[r].held)
      BY <1>3, Holders DEF UpdateWrite, CopyInv
    <3>2. PICK p \in Provisions, held \in Held, target \in Targets :
            p = req[r].provision /\ held = req[r].held /\ target = req[r].target
      BY <3>1
    <3>3. target \in Phases /\ Seen(p, held) /\ WriteStatus(p, held, target)
      BY <2>1, <3>1, <3>2 DEF Targets, Phases
    <3>4. Known(p, held.obj.uid, target)'
      BY <3>3, AcceptedKnown
    <3>5. /\ req'[r].pc = "done" /\ req'[r].answer = "ok" /\ req'[r].provision = p
          /\ req'[r].held = held /\ req'[r].target = target
      BY <2>1, <3>2, AnswerKeeps
    <3> QED BY <3>4, <3>5 DEF Claim, Known
  <2>2. CASE \E a \in Answers \ {"ok", "directive"} : Answer(r, a)
    BY <1>1, <2>2
  <2>3. {"not found", "conflict", "internal error"} \subseteq Answers \ {"ok", "directive"}
    BY DEF Answers
  <2> QED BY <1>3, <2>1, <2>2, <2>3 DEF UpdateWrite
<1>4. CASE ListMachines(r)
  <2>1. ASSUME NEW m, req' = [req EXCEPT ![r].pc = "provisions", ![r].machine = m]
        PROVE  Claim(r)'
    <3>1. req'[r].pc = "provisions" /\ req'[r].answer = req[r].answer
      BY <1>0, <2>1 DEF TypeInv, TypeOK, Request
    <3>2. req[r].pc = "list"
      BY <1>4 DEF ListMachines
    <3> QED BY <1>0, <3>1, <3>2, ClaimNone
  <2>2. {"duplicate", "no provision"} \subseteq Answers \ {"ok", "directive"}
    BY DEF Answers
  <2> QED BY <1>1, <1>4, <2>1, <2>2 DEF ListMachines
<1>5. CASE ListProvisions(r)
  <2>1. ASSUME NEW p \in PendingFor(req[r].machine),
               req' = [req EXCEPT ![r].pc = "lookup", ![r].provision = p,
                                  ![r].held = cache["httpd"][p]]
        PROVE  Claim(r)'
    <3>1. PICK held : held = cache["httpd"][p]
      OBVIOUS
    <3>2. /\ p \in Provisions /\ held \in Version /\ held.obj # Absent
          /\ held.obj.phase = "Pending"
      BY <2>1, <3>1 DEF PendingFor, TypeInv, TypeOK, Processes
    <3>3. held \in Held /\ held.obj.uid \in Nat
      BY <3>2 DEF Held, Version, ProvisionObject
    <3>4. Known(p, held.obj.uid, "Pending")
      BY <3>1, <3>2 DEF KnownInv, Processes
    <3>5. UNCHANGED api
      BY <1>5 DEF ListProvisions
    <3>6. req'[r] = [req[r] EXCEPT !.pc = "lookup", !.provision = p, !.held = held]
      BY <1>0, <2>1, <3>1 DEF TypeInv, TypeOK
    <3>7. /\ req'[r].pc = "lookup" /\ req'[r].provision = p /\ req'[r].held = held
          /\ req'[r].answer = req[r].answer
      BY <1>0, <3>6 DEF Request
    <3>8. req'[r].answer \notin {"ok", "directive"}
      BY <1>0, <1>5, <3>7 DEF ListProvisions
    <3> QED BY <3>2, <3>3, <3>4, <3>5, <3>7, <3>8 DEF Claim, Known
  <2>2. {"duplicate", "no provision"} \subseteq Answers \ {"ok", "directive"}
    BY DEF Answers
  <2> QED BY <1>1, <1>5, <2>1, <2>2 DEF ListProvisions
<1>6. CASE LookupBootConfig(r)
  <2>1. CASE Answer(r, "directive")
    <3>1. UNCHANGED api /\ req[r].pc = "lookup"
      BY <1>6 DEF LookupBootConfig
    <3>2. /\ req[r].provision \in Provisions /\ req[r].held \in Held
          /\ Known(req[r].provision, req[r].held.obj.uid, "Pending")
      BY <3>1 DEF ClaimInv, Claim
    <3>3. /\ req'[r].pc = "done" /\ req'[r].answer = "directive"
          /\ req'[r].provision = req[r].provision /\ req'[r].held = req[r].held
      BY <2>1, AnswerKeeps
    <3> QED BY <3>1, <3>2, <3>3 DEF Claim, Known
  <2>2. "internal error" \in Answers \ {"ok", "directive"}
    BY DEF Answers
  <2> QED BY <1>1, <1>6, <2>1, <2>2 DEF LookupBootConfig
<1>7. CASE BadRequest(r)
  BY <1>1, <1>7 DEF BadRequest, Answers
<1>8. ASSUME NEW p \in Provisions, NEW t \in Targets, PostStatus(r, p, t)
      PROVE  Claim(r)'
  <2>1. req'[r].pc = "get" /\ req'[r].answer = None
    BY <1>8 DEF PostStatus, Arrive, Unused, TypeInv, TypeOK
  <2> QED BY <2>1, ClaimNone, NoneNoAnswer
<1>9. ASSUME NEW mac \in MACs, GetBoot(r, mac)
      PROVE  Claim(r)'
  <2>1. req'[r].pc = "list" /\ req'[r].answer = None
    BY <1>9 DEF GetBoot, Arrive, Unused, TypeInv, TypeOK
  <2> QED BY <2>1, ClaimNone, NoneNoAnswer
<1> QED BY <1>2, <1>3, <1>4, <1>5, <1>6, <1>7, <1>8, <1>9 DEF RequestStep

\* Every step is a step of one request, a restart of httpd, or leaves the
\* requests alone.
LEMMA RequestSteps ==
    ASSUME [Next]_vars
    PROVE  \/ UNCHANGED req
           \/ RestartHttpd
           \/ \E r \in Requests :
                \/ RequestStep(r) \/ BadRequest(r)
                \/ \E p \in Provisions, t \in Targets : PostStatus(r, p, t)
                \/ \E mac \in MACs : GetBoot(r, mac)
BY DEF Next, vars, ReconcileGet, ReconcileUpdate, Deliver, Elapse, RestartManager, Create, Edit,
       Delete, Submit, DeliverMachine, ChangeMachine, others

LEMMA Dropped ==
    ASSUME TypeInv, RestartHttpd, NEW r \in Requests
    PROVE  \/ req'[r] = req[r]
           \/ req'[r].pc = "done" /\ req'[r].answer = "dropped"
BY DEF RestartHttpd, Unused

LEMMA ClaimStep == TypeInv /\ CopyInv /\ KnownInv /\ ClaimInv /\ [Next]_vars => ClaimInv'
<1> SUFFICES ASSUME TypeInv, CopyInv, KnownInv, ClaimInv, [Next]_vars
             PROVE  ClaimInv'
  OBVIOUS
<1>1. CASE UNCHANGED req
  BY <1>1, ClaimKept DEF ClaimInv
<1>2. CASE RestartHttpd
  BY <1>2, Dropped, ClaimKept, ClaimNone DEF ClaimInv
<1>3. ASSUME NEW r \in Requests,
             \/ RequestStep(r) \/ BadRequest(r)
             \/ \E p \in Provisions, t \in Targets : PostStatus(r, p, t)
             \/ \E mac \in MACs : GetBoot(r, mac)
      PROVE  ClaimInv'
  <2>1. Claim(r)'
    BY <1>3, OwnClaim
  <2>2. ASSUME NEW s \in Requests \ {r}
        PROVE  Claim(s)'
    BY <1>3, OthersKept, ClaimKept
  <2> QED BY <2>1, <2>2 DEF ClaimInv
<1> QED BY <1>1, <1>2, <1>3, RequestSteps

AnswerInv == TypeInv /\ CopyInv /\ KnownInv /\ ClaimInv

LEMMA AnswerInvariant == Spec => []AnswerInv
<1>1. Init => AnswerInv
  BY TypeInit, CopyInit, KnownInit, ClaimInit DEF AnswerInv
<1>2. AnswerInv /\ [Next]_vars => AnswerInv'
  BY TypeStep, CopyStep, KnownStep, ClaimStep DEF AnswerInv
<1> QED BY <1>1, <1>2, PTL DEF Spec

-----------------------------------------------------------------------------
(* What was acknowledged, and by whom *)

\* What a client was told stays true: after a 200 for a phase, the Provision is
\* in that phase or a later one until it is deleted, whatever a reconcile or
\* another request was working from (UpdateProvisionPhase and the resource
\* version behind its Status().Update).
THEOREM AcceptedSticksHolds == Spec => []AcceptedSticks
<1>1. AnswerInv => AcceptedSticks
  <2> SUFFICES ASSUME AnswerInv, NEW r \in Requests, req[r].answer = "ok"
               PROVE  LET obj == api[req[r].provision].obj
                      IN  obj # Absent /\ obj.uid = req[r].held.obj.uid
                            => obj.phase \in Reached(req[r].target)
    BY DEF AcceptedSticks
  <2>1. PICK p \in Provisions, target \in Targets :
          p = req[r].provision /\ target = req[r].target
          /\ Known(p, req[r].held.obj.uid, target)
    BY DEF AnswerInv, ClaimInv, Claim
  <2>2. ASSUME api[p].obj # Absent, api[p].obj.uid = req[r].held.obj.uid
        PROVE  api[p].obj.phase \in Reached(target)
    <3>1. PICK phase \in Phases : phase = api[p].obj.phase
      BY <2>2, ApiType DEF AnswerInv, ProvisionObject
    <3>2. Rank(target) <= Rank(phase)
      BY <2>1, <2>2, <3>1 DEF Known
    <3>3. /\ Rank("") = 0 /\ Rank("Pending") = 1
          /\ Rank("InProgress") = 2 /\ Rank("Complete") = 3
      BY DEF Rank
    <3>4. CASE target = "InProgress"
      <4>1. Reached(target) = {"InProgress", "Complete"}
        BY <3>4 DEF Reached
      <4>2. Rank(target) = 2
        BY <3>3, <3>4
      <4>3. Rank(phase) # 0 /\ Rank(phase) # 1
        BY <3>2, <4>2
      <4> QED BY <3>1, <3>3, <4>1, <4>3 DEF Phases
    <3>5. CASE target = "Complete"
      <4>1. Reached(target) = {"Complete"}
        BY <3>5 DEF Reached
      <4>2. Rank(target) = 3
        BY <3>3, <3>5
      <4>3. Rank(phase) # 0 /\ Rank(phase) # 1 /\ Rank(phase) # 2
        BY <3>2, <4>2
      <4> QED BY <3>1, <3>3, <4>1, <4>3 DEF Phases
    <3> QED BY <3>1, <3>4, <3>5 DEF Targets
  <2> QED BY <2>1, <2>2
<1> QED BY <1>1, AnswerInvariant, PTL

\* No one is told it made a transition that has been made already.
LEMMA NotTwice ==
    ASSUME AnswerInv, NEW r \in Requests, NEW s \in Requests, UpdateWrite(r),
           req'[r].answer = "ok", req[s].answer = "ok",
           req[r].provision = req[s].provision, req[r].target = req[s].target,
           req[r].held.obj.uid = req[s].held.obj.uid
    PROVE  FALSE
<1> USE DEF AnswerInv
<1>1. WriteStatus(req[r].provision, req[r].held, req[r].target)
  <2>1. ~ \E a \in {"not found", "conflict", "internal error"} : Answer(r, a)
    BY DEF Answer, TypeInv, TypeOK, Unused
  <2> QED BY <2>1 DEF UpdateWrite
<1>2. PICK p \in Provisions, held \in Held, target \in Targets :
        p = req[r].provision /\ held = req[r].held /\ target = req[r].target
  BY Holders DEF UpdateWrite
<1>3. Seen(p, held) /\ held.obj.phase = RequiredSource(target)
  BY <1>2 DEF UpdateWrite, CopyInv
<1>4. held = api[p] /\ api[p].obj # Absent
  BY <1>1, <1>2, <1>3 DEF WriteStatus, Current, Seen
<1>5. Known(p, held.obj.uid, target)
  BY <1>2 DEF ClaimInv, Claim
<1>6. Rank(target) <= Rank(RequiredSource(target))
  BY <1>3, <1>4, <1>5 DEF Known
<1>7. Rank(target) \in 0..3 /\ Rank(RequiredSource(target)) \in 0..3
  BY RankType
<1> QED BY <1>6, <1>7, RankOrder

\* An "ok" that was not there before is that of a write.
LEMMA NewOk ==
    ASSUME AnswerInv, [Next]_vars, NEW r \in Requests, req'[r].answer = "ok", req'[r] # req[r]
    PROVE  /\ UpdateWrite(r)
           /\ req'[r].provision = req[r].provision /\ req'[r].target = req[r].target
           /\ req'[r].held = req[r].held
           /\ \A s \in Requests \ {r} : req'[s] = req[s]
<1> USE DEF AnswerInv
<1>1. PICK s \in Requests : \/ RequestStep(s) \/ BadRequest(s)
                            \/ \E p \in Provisions, t \in Targets : PostStatus(s, p, t)
                            \/ \E mac \in MACs : GetBoot(s, mac)
  BY RequestSteps, Dropped
<1>2. s = r
  BY <1>1, OthersKept
<1>3. req[r] \in Request /\ (req[r].answer = "ok" => req[r].pc = "done")
  BY DEF TypeInv, TypeOK, ClaimInv, Claim
<1>4. ~ \E a \in Answers \ {"ok"} : Answer(r, a)
  <2>1. SUFFICES ASSUME NEW a \in Answers \ {"ok"}, Answer(r, a)
                 PROVE  req'[r].answer = a
    OBVIOUS
  <2>2. CASE a = "directive"
    BY <2>1, <2>2, AnswerKeeps
  <2>3. CASE a # "directive"
    BY <2>1, <2>3 DEF Answer, TypeInv, TypeOK, Unused
  <2> QED BY <2>2, <2>3
<1>5. UpdateWrite(r)
  <2>1. ~ BadRequest(r) /\ ~ LookupBootConfig(r)
    BY <1>4 DEF BadRequest, LookupBootConfig, Answers
  <2>2. ~ \E p \in Provisions, t \in Targets : PostStatus(r, p, t)
    BY NoneNoAnswer DEF PostStatus, Arrive, Unused, TypeInv, TypeOK
  <2>3. ~ \E mac \in MACs : GetBoot(r, mac)
    BY NoneNoAnswer DEF GetBoot, Arrive, Unused, TypeInv, TypeOK
  <2>4. ~ UpdateGet(r)
    <3>1. SUFFICES ASSUME UpdateGet(r)
                   PROVE  FALSE
      OBVIOUS
    <3>2. PICK held : req' = [req EXCEPT ![r].pc = "update", ![r].held = held]
      BY <1>4, <3>1 DEF UpdateGet, Answers
    <3>3. req'[r].answer = req[r].answer
      BY <1>3, <3>2 DEF TypeInv, TypeOK, Request
    <3> QED BY <1>3, <3>1, <3>3 DEF UpdateGet
  <2>5. ~ ListMachines(r)
    <3>1. SUFFICES ASSUME ListMachines(r)
                   PROVE  FALSE
      OBVIOUS
    <3>2. PICK m : req' = [req EXCEPT ![r].pc = "provisions", ![r].machine = m]
      BY <1>4, <3>1 DEF ListMachines, Answers
    <3>3. req'[r].answer = req[r].answer
      BY <1>3, <3>2 DEF TypeInv, TypeOK, Request
    <3> QED BY <1>3, <3>1, <3>3 DEF ListMachines
  <2>6. ~ ListProvisions(r)
    <3>1. SUFFICES ASSUME ListProvisions(r)
                   PROVE  FALSE
      OBVIOUS
    <3>2. PICK p, held : req' = [req EXCEPT ![r].pc = "lookup", ![r].provision = p,
                                            ![r].held = held]
      BY <1>4, <3>1 DEF ListProvisions, Answers
    <3>3. req'[r].answer = req[r].answer
      BY <1>3, <3>2 DEF TypeInv, TypeOK, Request
    <3> QED BY <1>3, <3>1, <3>3 DEF ListProvisions
  <2> QED BY <1>1, <1>2, <2>1, <2>2, <2>3, <2>4, <2>5, <2>6 DEF RequestStep
<1>6. Answer(r, "ok")
  BY <1>4, <1>5 DEF UpdateWrite, Answers
<1> QED BY <1>1, <1>2, <1>5, <1>6, AnswerKeeps, OthersKept

\* Of all the requests that ask for the same transition of the same Provision,
\* at most one is told that it made it, however they overlap and whatever was
\* stale, failed or restarted (UpdateProvisionPhase and the resource version
\* behind its Status().Update).
THEOREM OneAcceptedHolds == Spec => []OneAccepted
<1>1. Init => OneAccepted
  BY NoneNoAnswer DEF Init, OneAccepted, Unused
<1>2. AnswerInv /\ OneAccepted /\ [Next]_vars => OneAccepted'
  <2> SUFFICES ASSUME AnswerInv, OneAccepted, [Next]_vars,
                      NEW r \in Requests, NEW s \in Requests, r # s,
                      req'[r].answer = "ok", req'[s].answer = "ok",
                      req'[r].provision = req'[s].provision, req'[r].target = req'[s].target,
                      req'[r].held.obj.uid = req'[s].held.obj.uid
               PROVE  FALSE
    BY DEF OneAccepted
  <2>1. CASE req'[r] = req[r] /\ req'[s] = req[s]
    BY <2>1 DEF OneAccepted
  <2>2. CASE req'[r] # req[r]
    <3>1. /\ UpdateWrite(r) /\ req'[s] = req[s]
          /\ req'[r].provision = req[r].provision /\ req'[r].target = req[r].target
          /\ req'[r].held = req[r].held
      BY <2>2, NewOk
    <3> QED BY <3>1, NotTwice
  <2>3. CASE req'[s] # req[s]
    <3>1. /\ UpdateWrite(s) /\ req'[r] = req[r]
          /\ req'[s].provision = req[s].provision /\ req'[s].target = req[s].target
          /\ req'[s].held = req[s].held
      BY <2>3, NewOk
    <3> QED BY <3>1, NotTwice
  <2> QED BY <2>1, <2>2, <2>3
<1> QED BY <1>1, <1>2, AnswerInvariant, PTL DEF Spec
-----------------------------------------------------------------------------
(* The Machine a script is for *)

LEMMA VersionAt ==
    ASSUME NEW s \in Seq(MachineVersion), NEW k \in 1..Len(s)
    PROVE  s[k] \in MachineVersion /\ s[k].rv \in Nat
<1>1. s[k] \in MachineVersion
  OBVIOUS
<1> QED BY <1>1 DEF MachineVersion

LEMMA NewestType ==
    ASSUME TypeInv, NEW m \in Machines
    PROVE  /\ machines[m] \in Seq(MachineVersion) /\ Len(machines[m]) > 0
           /\ Newest(m) \in MachineVersion /\ Newest(m).rv \in Nat
<1>1. machines[m] \in Seq(MachineVersion) /\ Len(machines[m]) > 0
  BY DEF TypeInv, TypeOK
<1>2. Len(machines[m]) \in 1..Len(machines[m])
  BY <1>1
<1> QED BY <1>1, <1>2, VersionAt DEF Newest

\* How the versions of a Machine move on.
LEMMA MachinesMove ==
    ASSUME TypeInv, [Next]_vars, NEW m \in Machines
    PROVE  \/ machines'[m] = machines[m]
           \/ Newest(m).rv < Newest(m)'.rv
           \/ Len(machines[m]) # 1 /\ Newest(m)' = Newest(m)
<1> DEFINE Moved == \/ machines'[m] = machines[m]
                    \/ Newest(m).rv < Newest(m)'.rv
                    \/ Len(machines[m]) # 1 /\ Newest(m)' = Newest(m)
<1>0. /\ machines[m] \in Seq(MachineVersion) /\ Len(machines[m]) > 0
      /\ Newest(m) \in MachineVersion /\ Newest(m).rv \in Nat
  BY NewestType
<1>1. CASE UNCHANGED machines
  BY <1>1
<1>2. ASSUME NEW n \in Machines, NEW mac \in MACs \cup {Absent}, ChangeMachine(n, mac)
      PROVE  Moved
  <2>1. CASE n # m
    BY <1>2, <2>1 DEF ChangeMachine, TypeInv, TypeOK
  <2>2. CASE n = m
    <3> DEFINE v == [rv |-> Newest(m).rv + 1, mac |-> mac]
    <3>1. machines'[m] = Append(machines[m], v)
      BY <1>2, <2>2 DEF ChangeMachine, TypeInv, TypeOK
    <3>2. v \in MachineVersion /\ v.rv = Newest(m).rv + 1
      BY <1>0 DEF MachineVersion
    <3> HIDE DEF v
    <3>3. Newest(m)' = v
      BY <1>0, <3>1, <3>2 DEF Newest
    <3> QED BY <1>0, <3>2, <3>3
  <2> QED BY <2>1, <2>2
<1>3. ASSUME NEW n \in Machines, DeliverMachine(n)
      PROVE  Moved
  <2>1. CASE n # m
    BY <1>3, <2>1 DEF DeliverMachine, TypeInv, TypeOK
  <2>2. CASE n = m
    <3>1. machines'[m] = Tail(machines[m]) /\ Len(machines[m]) > 1
      BY <1>3, <2>2 DEF DeliverMachine, TypeInv, TypeOK
    <3> QED BY <1>0, <3>1 DEF Newest
  <2> QED BY <2>1, <2>2
<1>4. CASE RestartHttpd
  <2>1. machines'[m] = <<Newest(m)>>
    BY <1>4 DEF RestartHttpd
  <2>2. Newest(m)' = Newest(m)
    BY <2>1 DEF Newest
  <2>3. Len(machines[m]) = 1 => machines'[m] = machines[m]
    BY <1>0, <2>1 DEF Newest
  <2> QED BY <2>2, <2>3
<1>5. \/ UNCHANGED machines
      \/ \E n \in Machines, mac \in MACs \cup {Absent} : ChangeMachine(n, mac)
      \/ \E n \in Machines : DeliverMachine(n)
      \/ RestartHttpd
  BY DEF Next, vars, others, ReconcileGet, ReconcileUpdate, Fault, Elapse, Deliver, Delete,
         Create, Edit, Submit, RequestStep, UpdateGet, UpdateWrite, ListMachines,
         ListProvisions, LookupBootConfig, BadRequest, PostStatus, GetBoot, Arrive,
         RestartManager
<1> QED BY <1>1, <1>2, <1>3, <1>4, <1>5

\* A Machine of which httpd had the latest version has not changed since, or
\* has a later version.
Aged(old, now) == Len(old) = 1 => now = old \/ old[1].rv < now[Len(now)].rv

\* Machines that look settled after a step were settled before it.
LEMMA SettledBefore ==
    ASSUME TypeInv, TypeInv', [Next]_vars, NEW old \in [Machines -> Seq(MachineVersion)],
           \A m \in Machines : Aged(old[m], machines[m])
    PROVE  /\ \A m \in Machines : Aged(old[m], machines'[m])
           /\ machines' = old /\ (\A m \in Machines : Len(machines'[m]) = 1)
                => machines = old
<1>1. ASSUME NEW m \in Machines, Len(old[m]) = 1
      PROVE  /\ machines'[m] = old[m] \/ old[m][1].rv < Newest(m)'.rv
             /\ machines'[m] = old[m] => machines[m] = old[m]
  <2>1. machines[m] = old[m] \/ old[m][1].rv < Newest(m).rv
    BY <1>1 DEF Aged, Newest
  <2>2. /\ old[m][1].rv \in Nat /\ Newest(m).rv \in Nat /\ Newest(m)'.rv \in Nat
    <3>1. old[m] \in Seq(MachineVersion) /\ 1 \in 1..Len(old[m])
      BY <1>1
    <3>2. Newest(m)'.rv \in Nat
      <4>1. machines'[m] \in Seq(MachineVersion) /\ Len(machines'[m]) > 0
        BY DEF TypeInv, TypeOK
      <4>2. Len(machines'[m]) \in 1..Len(machines'[m])
        BY <4>1
      <4> QED BY <4>1, <4>2, VersionAt DEF Newest
    <3> QED BY <3>1, <3>2, NewestType, VersionAt
  <2>3. machines[m] = old[m] => Newest(m) = old[m][1]
    BY <1>1 DEF Newest
  <2>4. machines'[m] = old[m] => Newest(m)' = old[m][1]
    BY <1>1 DEF Newest
  <2>5. PICK a \in Nat, b \in Nat, c \in Nat :
          a = old[m][1].rv /\ b = Newest(m).rv /\ c = Newest(m)'.rv
    BY <2>2
  <2>6. machines'[m] = machines[m] \/ b < c \/ (Len(machines[m]) # 1 /\ c = b)
    BY <2>5, MachinesMove
  <2>7. (machines[m] = old[m] \/ a < b) /\ (machines[m] = old[m] => b = a)
        /\ (machines'[m] = old[m] => c = a)
    BY <2>1, <2>3, <2>4, <2>5
  <2>8. /\ machines'[m] = old[m] \/ a < c
        /\ machines'[m] = old[m] => machines[m] = old[m]
    <3>1. CASE machines'[m] = machines[m]
      <4>1. Newest(m)' = Newest(m)
        BY <3>1 DEF Newest
      <4>2. b = c
        BY <2>5, <4>1
      <4> QED BY <2>7, <3>1, <4>2
    <3>2. CASE b < c
      BY <2>7, <3>2
    <3>3. CASE Len(machines[m]) # 1 /\ c = b
      BY <1>1, <2>7, <3>3
    <3> QED BY <2>6, <3>1, <3>2, <3>3
  <2> QED BY <2>5, <2>8
<1>2. \A m \in Machines : Aged(old[m], machines'[m])
  BY <1>1 DEF Aged, Newest
<1>3. ASSUME machines' = old, \A m \in Machines : Len(machines'[m]) = 1
      PROVE  machines = old
  <2>1. \A m \in Machines : machines[m] = old[m]
    BY <1>1, <1>3
  <2> QED BY <2>1 DEF TypeInv, TypeOK
<1> QED BY <1>2, <1>3

Asking(r) == req[r].pc \in {"list", "provisions", "lookup"} \/ req[r].answer = "directive"

Owners(mac) == {m \in Machines : Newest(m).mac = mac}

\* A request that is looking for its Provision, or was sent to it, remembers
\* the Machines of its arrival; while they are settled, it has the right one.
AskClaim(r) ==
    Asking(r) =>
        /\ req[r].arrived \in Arrival
        /\ \A m \in Machines : Aged(req[r].arrived[m], machines[m])
        /\ Settled(r) =>
            /\ req[r].pc = "provisions" => Owners(req[r].mac) = {req[r].machine}
            /\ req[r].pc = "lookup" \/ req[r].answer = "directive" =>
                    Owners(req[r].mac) = {req[r].held.obj.machine}

AskInv == \A r \in Requests : AskClaim(r)

LEMMA AskInit == Init => AskInv
BY NoneNoAnswer DEF Init, AskInv, AskClaim, Asking, Unused

LEMMA AskNone ==
    ASSUME NEW r \in Requests, req'[r].pc \notin {"list", "provisions", "lookup"},
           req'[r].answer # "directive"
    PROVE  AskClaim(r)'
BY DEF AskClaim, Asking

LEMMA AskKept ==
    ASSUME TypeInv, TypeInv', AskInv, [Next]_vars, NEW r \in Requests, req'[r] = req[r]
    PROVE  AskClaim(r)'
<1>1. SUFFICES ASSUME Asking(r)
               PROVE  AskClaim(r)'
  BY DEF AskClaim, Asking
<1>2. PICK arrived \in Arrival : arrived = req[r].arrived
  BY <1>1 DEF AskInv, AskClaim
<1>3. PICK old \in [Machines -> Seq(MachineVersion)] : old = arrived
  BY DEF Arrival
<1>4. \A m \in Machines : Aged(old[m], machines[m])
  BY <1>1, <1>2, <1>3 DEF AskInv, AskClaim
<1>5. /\ \A m \in Machines : Aged(old[m], machines'[m])
      /\ machines' = old /\ (\A m \in Machines : Len(machines'[m]) = 1) => machines = old
  BY <1>4, SettledBefore
<1>6. Settled(r)' => Settled(r) /\ machines' = machines
  BY <1>2, <1>3, <1>5 DEF Settled
<1>7. ASSUME NEW mac, machines' = machines
      PROVE  Owners(mac)' = Owners(mac)
  BY <1>7 DEF Owners, Newest
<1>8. Settled(r)' =>
        /\ req'[r].pc = "provisions" => Owners(req[r].mac)' = {req'[r].machine}
        /\ req'[r].pc = "lookup" \/ req'[r].answer = "directive" =>
                Owners(req[r].mac)' = {req'[r].held.obj.machine}
  <2>1. PICK mac : mac = req[r].mac
    OBVIOUS
  <2>2. mac = req'[r].mac
    BY <2>1
  <2>3. Settled(r)' => Owners(mac)' = Owners(mac) /\ Settled(r)
    BY <1>6, <1>7
  <2>4. Settled(r) =>
            /\ req[r].pc = "provisions" => Owners(mac) = {req[r].machine}
            /\ req[r].pc = "lookup" \/ req[r].answer = "directive" =>
                    Owners(mac) = {req[r].held.obj.machine}
    BY <1>1, <2>1 DEF AskInv, AskClaim
  <2>5. Owners(req[r].mac)' = Owners(mac)'
    BY <2>2 DEF Owners
  <2> QED BY <2>3, <2>4, <2>5
<1>9. req'[r].arrived \in Arrival /\ \A m \in Machines : Aged(req'[r].arrived[m], machines'[m])
  BY <1>2, <1>3, <1>5
<1> QED BY <1>8, <1>9 DEF AskClaim

LEMMA OwnAsk ==
    ASSUME TypeInv, ClaimInv, AskInv, [Next]_vars, NEW r \in Requests,
           RequestStep(r) \/ BadRequest(r)
           \/ (\E p \in Provisions, t \in Targets : PostStatus(r, p, t))
           \/ \E mac \in MACs : GetBoot(r, mac)
    PROVE  AskClaim(r)'
<1>0. /\ req[r] \in Request
      /\ req[r].answer \in {"ok", "directive"} => req[r].pc = "done"
  BY DEF TypeInv, TypeOK, ClaimInv, Claim
<1>1. ASSUME NEW a \in Answers \ {"directive"}, Answer(r, a)
      PROVE  AskClaim(r)'
  <2>1. req'[r].pc = "done" /\ req'[r].answer = a
    <3>1. CASE a = "ok"
      BY <1>1, <3>1, AnswerKeeps
    <3>2. CASE a # "ok"
      BY <1>1, <3>2 DEF Answer, Unused, TypeInv, TypeOK
    <3> QED BY <3>1, <3>2
  <2> QED BY <2>1, AskNone
<1>2. CASE UpdateGet(r)
  <2>1. CASE req' = [req EXCEPT ![r].pc = "update", ![r].held = cache["httpd"][req[r].provision]]
    <3>1. req'[r].pc = "update" /\ req'[r].answer = req[r].answer
      BY <1>0, <2>1 DEF TypeInv, TypeOK, Request
    <3>2. req[r].pc = "get"
      BY <1>2 DEF UpdateGet
    <3> QED BY <1>0, <3>1, <3>2, AskNone
  <2>2. {"not found", "phase error"} \subseteq Answers \ {"directive"}
    BY DEF Answers
  <2> QED BY <1>1, <1>2, <2>1, <2>2 DEF UpdateGet
<1>3. CASE UpdateWrite(r)
  <2>1. {"ok", "not found", "conflict", "internal error"} \subseteq Answers \ {"directive"}
    BY DEF Answers
  <2> QED BY <1>1, <1>3, <2>1 DEF UpdateWrite
<1>4. CASE ListMachines(r)
  <2>1. ASSUME NEW m \in Machines, MachinesWith(req[r].mac) = {m},
               req' = [req EXCEPT ![r].pc = "provisions", ![r].machine = m]
        PROVE  AskClaim(r)'
    <3>1. /\ req'[r].pc = "provisions" /\ req'[r].answer = req[r].answer
          /\ req'[r].machine = m /\ req'[r].mac = req[r].mac /\ req'[r].arrived = req[r].arrived
      BY <1>0, <2>1 DEF TypeInv, TypeOK, Request
    <3>2. UNCHANGED machines /\ req[r].pc = "list"
      BY <1>4 DEF ListMachines, others
    <3>3. req[r].answer # "directive" /\ Asking(r)
      BY <1>0, <3>2 DEF Asking
    <3>4. /\ req[r].arrived \in Arrival
          /\ \A n \in Machines : Aged(req[r].arrived[n], machines[n])
      BY <3>3 DEF AskInv, AskClaim
    <3>5. Settled(r)' => Settled(r)
      BY <3>1, <3>2 DEF Settled
    <3>6. Settled(r) => Owners(req[r].mac) = {m}
      <4>1. ASSUME Settled(r), NEW n \in Machines
            PROVE  Head(machines[n]) = Newest(n)
        BY <4>1, NewestType DEF Settled, Newest
      <4> QED BY <2>1, <4>1 DEF MachinesWith, Owners
    <3>7. Owners(req[r].mac)' = Owners(req'[r].mac)
      BY <3>1, <3>2 DEF Owners, Newest
    <3>8. PICK mac : mac = req[r].mac
      OBVIOUS
    <3>9. Owners(mac)' = Owners(mac)
      BY <3>2 DEF Owners, Newest
    <3>10. Settled(r)' => Owners(mac)' = {m}
      BY <3>5, <3>6, <3>8, <3>9
    <3> QED BY <3>1, <3>2, <3>3, <3>4, <3>8, <3>10 DEF AskClaim, Owners
  <2>2. {"duplicate", "no provision"} \subseteq Answers \ {"directive"}
    BY DEF Answers
  <2>3. MachinesWith(req[r].mac) \subseteq Machines
    BY DEF MachinesWith
  <2> QED BY <1>1, <1>4, <2>1, <2>2, <2>3 DEF ListMachines
<1>5. CASE ListProvisions(r)
  <2>1. ASSUME NEW p \in PendingFor(req[r].machine),
               req' = [req EXCEPT ![r].pc = "lookup", ![r].provision = p,
                                  ![r].held = cache["httpd"][p]]
        PROVE  AskClaim(r)'
    <3>1. PICK held : held = cache["httpd"][p]
      OBVIOUS
    <3>2. held.obj.machine = req[r].machine
      BY <2>1, <3>1 DEF PendingFor
    <3>3. /\ req'[r].pc = "lookup" /\ req'[r].answer = req[r].answer /\ req'[r].held = held
          /\ req'[r].mac = req[r].mac /\ req'[r].arrived = req[r].arrived
      BY <1>0, <2>1, <3>1 DEF TypeInv, TypeOK, Request
    <3>4. UNCHANGED machines /\ req[r].pc = "provisions"
      BY <1>5 DEF ListProvisions, others
    <3>5. Asking(r)
      BY <3>4 DEF Asking
    <3>6. /\ req[r].arrived \in Arrival
          /\ \A n \in Machines : Aged(req[r].arrived[n], machines[n])
          /\ Settled(r) => Owners(req[r].mac) = {req[r].machine}
      BY <3>4, <3>5 DEF AskInv, AskClaim
    <3>7. Settled(r)' => Settled(r)
      BY <3>3, <3>4 DEF Settled
    <3>8. PICK mac : mac = req[r].mac
      OBVIOUS
    <3>9. Owners(mac)' = Owners(mac)
      BY <3>4 DEF Owners, Newest
    <3>10. Settled(r)' => Owners(mac)' = {held.obj.machine}
      BY <3>2, <3>6, <3>7, <3>8, <3>9
    <3> QED BY <3>3, <3>4, <3>6, <3>8, <3>10 DEF AskClaim, Owners
  <2>2. {"duplicate", "no provision"} \subseteq Answers \ {"directive"}
    BY DEF Answers
  <2> QED BY <1>1, <1>5, <2>1, <2>2 DEF ListProvisions
<1>6. CASE LookupBootConfig(r)
  <2>1. CASE Answer(r, "directive")
    <3>1. UNCHANGED machines /\ req[r].pc = "lookup"
      BY <1>6 DEF LookupBootConfig, others
    <3>2. Asking(r)
      BY <3>1 DEF Asking
    <3>3. /\ req'[r].pc = "done" /\ req'[r].held = req[r].held
          /\ req'[r].mac = req[r].mac /\ req'[r].arrived = req[r].arrived
      BY <2>1, AnswerKeeps
    <3>4. /\ req[r].arrived \in Arrival
          /\ \A n \in Machines : Aged(req[r].arrived[n], machines[n])
          /\ Settled(r) => Owners(req[r].mac) = {req[r].held.obj.machine}
      BY <3>1, <3>2 DEF AskInv, AskClaim
    <3>5. Settled(r)' => Settled(r)
      BY <3>1, <3>3 DEF Settled
    <3>6. PICK mac : mac = req[r].mac
      OBVIOUS
    <3>7. Owners(mac)' = Owners(mac)
      BY <3>1 DEF Owners, Newest
    <3>8. Settled(r)' => Owners(mac)' = {req[r].held.obj.machine}
      BY <3>4, <3>5, <3>6, <3>7
    <3> QED BY <3>1, <3>3, <3>4, <3>6, <3>8 DEF AskClaim, Owners
  <2>2. "internal error" \in Answers \ {"directive"}
    BY DEF Answers
  <2> QED BY <1>1, <1>6, <2>1, <2>2 DEF LookupBootConfig
<1>7. CASE BadRequest(r)
  BY <1>1, <1>7 DEF BadRequest, Answers
<1>8. ASSUME NEW p \in Provisions, NEW t \in Targets, PostStatus(r, p, t)
      PROVE  AskClaim(r)'
  <2>1. req'[r].pc = "get" /\ req'[r].answer = None
    BY <1>8 DEF PostStatus, Arrive, Unused, TypeInv, TypeOK
  <2> QED BY <2>1, AskNone, NoneNoAnswer
<1>9. ASSUME NEW mac \in MACs, GetBoot(r, mac)
      PROVE  AskClaim(r)'
  <2>1. machines \in Arrival
    BY DEF TypeInv, TypeOK, Arrival
  <2>2. req'[r].pc = "list" /\ req'[r].answer = None /\ req'[r].arrived = machines
    BY <1>9 DEF GetBoot, Arrive, Unused, TypeInv, TypeOK
  <2>3. UNCHANGED machines
    BY <1>9 DEF GetBoot, Arrive, others
  <2> QED BY <2>1, <2>2, <2>3, NoneNoAnswer DEF AskClaim, Asking, Aged
<1> QED BY <1>2, <1>3, <1>4, <1>5, <1>6, <1>7, <1>8, <1>9 DEF RequestStep

LEMMA AskStep == TypeInv /\ TypeInv' /\ ClaimInv /\ AskInv /\ [Next]_vars => AskInv'
<1> SUFFICES ASSUME TypeInv, TypeInv', ClaimInv, AskInv, [Next]_vars
             PROVE  AskInv'
  OBVIOUS
<1>1. CASE UNCHANGED req
  BY <1>1, AskKept DEF AskInv
<1>2. CASE RestartHttpd
  <2>1. ASSUME NEW r \in Requests, req'[r].pc = "done", req'[r].answer = "dropped"
        PROVE  AskClaim(r)'
    BY <2>1, AskNone
  <2> QED BY <1>2, <2>1, Dropped, AskKept DEF AskInv
<1>3. ASSUME NEW r \in Requests,
             \/ RequestStep(r) \/ BadRequest(r)
             \/ \E p \in Provisions, t \in Targets : PostStatus(r, p, t)
             \/ \E mac \in MACs : GetBoot(r, mac)
      PROVE  AskInv'
  <2>1. AskClaim(r)'
    BY <1>3, OwnAsk
  <2>2. ASSUME NEW s \in Requests \ {r}
        PROVE  AskClaim(s)'
    BY <1>3, OthersKept, AskKept
  <2> QED BY <2>1, <2>2 DEF AskInv
<1> QED BY <1>1, <1>2, <1>3, RequestSteps

\* A boot script is for the one Machine that has the MAC of the request and
\* for a Provision that refers to it and has left the empty phase, whatever is
\* done to Provisions meanwhile and whatever restarts, when httpd's copies of
\* the Machines were current on arrival and the Machines are still the same
\* (PendingProvisionForMAC with its two Lists, and the three indexes).
THEOREM DirectiveHolds == Spec => []DirectiveForOwnMachine
<1>1. Init => AskInv
  BY AskInit
<1>2. AnswerInv /\ AnswerInv' /\ AskInv /\ [Next]_vars => AskInv'
  BY AskStep DEF AnswerInv
<1>3. AnswerInv /\ AskInv => DirectiveForOwnMachine
  <2> SUFFICES ASSUME AnswerInv, AskInv, NEW r \in Requests,
                      req[r].answer = "directive", Settled(r)
               PROVE  LET obj == api[req[r].provision].obj
                      IN  /\ {m \in Machines : Newest(m).mac = req[r].mac}
                                = {req[r].held.obj.machine}
                          /\ obj # Absent /\ obj.uid = req[r].held.obj.uid => obj.phase # ""
    BY DEF DirectiveForOwnMachine
  <2>1. {m \in Machines : Newest(m).mac = req[r].mac} = {req[r].held.obj.machine}
    BY DEF AskInv, AskClaim, Asking, Owners
  <2>2. PICK p \in Provisions : p = req[r].provision /\ Known(p, req[r].held.obj.uid, "Pending")
    BY DEF AnswerInv, ClaimInv, Claim
  <2>3. ASSUME api[p].obj # Absent, api[p].obj.uid = req[r].held.obj.uid
        PROVE  api[p].obj.phase # ""
    <3>1. PICK phase : phase = api[p].obj.phase
      OBVIOUS
    <3>2. Rank("Pending") <= Rank(phase)
      BY <2>2, <2>3, <3>1 DEF Known
    <3>3. Rank("Pending") = 1 /\ Rank("") = 0
      BY DEF Rank
    <3>4. PICK n \in Nat : n = Rank(phase)
      BY RankType
    <3>5. n # 0
      <4>1. PICK least : least = Rank("Pending")
        OBVIOUS
      <4>2. least = 1 /\ least <= n
        BY <3>2, <3>3, <3>4, <4>1
      <4> QED BY <4>2
    <3>6. phase # ""
      BY <3>3, <3>4, <3>5
    <3> QED BY <3>1, <3>6
  <2> QED BY <2>1, <2>2, <2>3
<1> QED BY <1>1, <1>2, <1>3, AnswerInvariant, PTL DEF Spec
=============================================================================
