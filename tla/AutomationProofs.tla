-------------------------- MODULE AutomationProofs --------------------------
(***************************************************************************)
(* Proofs about Automation: type correctness and LastWins, for any number  *)
(* of objects, keys and names in a Provision, and any changes meanwhile.   *)
(***************************************************************************)
EXTENDS Automation, TLAPS

Texts == UNION {[S -> Values \cup {None}] : S \in SUBSET Reference}

Request == [pc : {"done", "provision", "automation", "data"},
            provision : Provisions \cup BadNames \cup {None}, file : Files \cup {None},
            spec : Specs \cup {None}, template : Template \cup {None},
            read : [Kinds -> Nat], merged : [Kinds -> Data],
            answer : {"none", "ok", "bad request", "not found", "internal error"},
            text : Texts]

History == [provision : [Provisions -> SUBSET (Specs \cup {Absent})],
            automation : [Automations -> SUBSET (FileMaps \cup {Absent})],
            data : [Kinds -> [Names -> SUBSET (Data \cup {Absent})]]]

\* Nothing is read before the template, and no more than there is.
ReadInv ==
    /\ req.pc \in {"provision", "automation"} =>
            /\ req.read = [kind \in Kinds |-> 0]
            /\ req.merged = [kind \in Kinds |-> Empty]
    /\ req.pc = "data" => \A kind \in Kinds : req.read[kind] <= Len(req.spec.names[kind])

TypeInv ==
    /\ provision \in [Provisions -> Seq(Specs \cup {Absent})]
    /\ seen \in [Provisions -> Nat]
    /\ \A n \in Provisions : seen[n] \in 1..Len(provision[n])
    /\ automation \in [Automations -> FileMaps \cup {Absent}]
    /\ data \in [Kinds -> [Names -> Data \cup {Absent}]]
    /\ req \in Request
    /\ req.pc # "done" => req.provision \in Provisions
    /\ req.pc \in {"automation", "data"} => req.spec \in Specs
    /\ req.pc = "data" => req.template \in Template
    /\ ReadInv
    /\ during \in History
    /\ edits \in 0..MaxEdits /\ faults \in 0..MaxFaults

-----------------------------------------------------------------------------
(* Data *)

LEMMA EmptyType == Empty \in Data /\ Empty \in Texts
  <1>1. Empty \in [{} -> Values] /\ Empty \in [{} -> Values \cup {None}]  BY DEF Empty
  <1> QED  BY <1>1 DEF Data, Texts

LEMMA DataFacts ==
  ASSUME NEW d \in Data
  PROVE  DOMAIN d \subseteq Keys /\ (\A k \in DOMAIN d : d[k] \in Values)
  <1>1. PICK S \in SUBSET Keys : d \in [S -> Values]  BY DEF Data
  <1> QED  BY <1>1

\* maps.Copy of data to data is data.
LEMMA CopyType ==
  ASSUME NEW dst \in Data, NEW src \in Data
  PROVE  Copy(dst, src) \in Data
  <1>1. Copy(dst, src) \in [DOMAIN dst \cup DOMAIN src -> Values]
    BY DataFacts DEF Copy
  <1>2. DOMAIN dst \cup DOMAIN src \in SUBSET Keys  BY DataFacts
  <1> QED  BY <1>1, <1>2 DEF Data

-----------------------------------------------------------------------------
(* Type correctness *)

LEMMA NoRequestType == NoRequest \in Request
  BY EmptyType DEF NoRequest, Request

LEMMA InitType == Init => TypeInv
  <1> SUFFICES ASSUME Init PROVE TypeInv  OBVIOUS
  <1>a. ASSUME NEW n \in Provisions
        PROVE  provision[n] \in Seq(Specs \cup {Absent}) /\ seen[n] \in 1..Len(provision[n])
    <2>0. seen[n] = 1  BY DEF Init
    <2>1. PICK s \in Specs \cup {Absent} : provision[n] = <<s>>  BY DEF Init
    <2> QED  BY <2>0, <2>1
  <1>b. provision = [n \in Provisions |-> provision[n]]  BY DEF Init
  <1>1. provision \in [Provisions -> Seq(Specs \cup {Absent})]
        /\ \A n \in Provisions : seen[n] \in 1..Len(provision[n])
    BY <1>a, <1>b
  <1>2. during \in History
    <2>1. [n \in Provisions |-> {}] \in [Provisions -> SUBSET (Specs \cup {Absent})]  OBVIOUS
    <2>2. [a \in Automations |-> {}] \in [Automations -> SUBSET (FileMaps \cup {Absent})]  OBVIOUS
    <2>3. [o \in Names |-> {}] \in [Names -> SUBSET (Data \cup {Absent})]  OBVIOUS
    <2>4. [kind \in Kinds |-> [o \in Names |-> {}]]
            \in [Kinds -> [Names -> SUBSET (Data \cup {Absent})]]
      BY <2>3
    <2> QED  BY <2>1, <2>2, <2>4 DEF Init, History
  <1>3. req \in Request /\ req.pc = "done"  BY NoRequestType DEF Init, NoRequest
  <1>4. edits \in 0..MaxEdits /\ faults \in 0..MaxFaults
    BY AutomationBoundsAssumption DEF Init
  <1>5. seen \in [Provisions -> Nat]  BY DEF Init
  <1> QED  BY <1>1, <1>2, <1>3, <1>4, <1>5 DEF Init, TypeInv, ReadInv

\* A step of the handler changes the request and at most counts a fault.
HandlerFrame == UNCHANGED <<objectVars, during, edits>> /\ faults' \in 0..MaxFaults

LEMMA HandlerType ==
  ASSUME TypeInv, HandlerFrame, req' \in Request,
         req'.pc # "done" => req'.provision \in Provisions,
         req'.pc \in {"automation", "data"} => req'.spec \in Specs,
         req'.pc = "data" => req'.template \in Template,
         ReadInv'
  PROVE  TypeInv'
  BY DEF TypeInv, HandlerFrame, objectVars

LEMMA AnswerType ==
  ASSUME TypeInv, NEW a \in {"not found", "internal error"}, Answer(a)
  PROVE  req' \in Request /\ req'.pc = "done" /\ ReadInv'
  BY DEF TypeInv, Request, Answer, ReadInv

LEMMA EndsTyped ==
  ASSUME TypeInv, HandlerFrame, NEW a \in {"not found", "internal error"}, Answer(a)
  PROVE  TypeInv'
  BY HandlerType, AnswerType

LEMMA ObjectFrame ==
  ASSUME TypeInv, UNCHANGED <<objectVars, during, edits, faults>>
  PROVE  HandlerFrame
  BY DEF TypeInv, HandlerFrame

LEMMA CachedType ==
  ASSUME TypeInv, NEW n \in Provisions
  PROVE  Cached(n) \in Specs \cup {Absent}
  <1>1. provision[n] \in Seq(Specs \cup {Absent}) /\ seen[n] \in 1..Len(provision[n])
    BY DEF TypeInv
  <1> QED  BY <1>1 DEF Cached

LEMMA GetProvisionType == TypeInv /\ GetProvision => TypeInv'
  <1> SUFFICES ASSUME TypeInv, GetProvision PROVE TypeInv'  OBVIOUS
  <1>1. HandlerFrame
    BY ObjectFrame DEF GetProvision, Handling, NotFound
  <1>2. CASE NotFound  BY <1>1, <1>2, EndsTyped DEF NotFound
  <1>3. CASE Cached(req.provision) # Absent
             /\ req' = [req EXCEPT !.pc = "automation", !.spec = Cached(req.provision)]
    <2>1. req.provision \in Provisions /\ req \in Request
      BY DEF TypeInv, GetProvision, Handling
    <2>2. Cached(req.provision) \in Specs  BY <2>1, <1>3, CachedType
    <2>3. req' \in Request  BY <2>1, <2>2, <1>3 DEF Request
    <2>4. req'.pc = "automation" /\ ReadInv'
      BY <2>1, <1>3 DEF TypeInv, ReadInv, Request, GetProvision, Handling
    <2> QED  BY <1>1, <1>3, <2>1, <2>2, <2>3, <2>4, HandlerType DEF Request
  <1> QED  BY <1>2, <1>3 DEF GetProvision

LEMMA GetAutomationType == TypeInv /\ GetAutomation => TypeInv'
  <1> SUFFICES ASSUME TypeInv, GetAutomation PROVE TypeInv'  OBVIOUS
  <1> DEFINE files == automation[req.spec.automation]
  <1>1. HandlerFrame
    BY ObjectFrame DEF GetAutomation, Handling, NotFound
  <1>2. CASE NotFound  BY <1>1, <1>2, EndsTyped DEF NotFound
  <1>3. CASE /\ files # Absent /\ req.file \in DOMAIN files
             /\ req' = [req EXCEPT !.pc = "data", !.template = files[req.file]]
    <2>1. req.provision \in Provisions /\ req.spec \in Specs /\ req \in Request
      BY DEF TypeInv, GetAutomation, Handling
    <2>2. files \in FileMaps
      BY <2>1, <1>3, AutomationConstantsAssumption DEF TypeInv, ProvisionSpec
    <2>3. PICK S \in SUBSET Files : files \in [S -> Template]
      BY <2>2, AutomationConstantsAssumption
    <2>4. files[req.file] \in Template  BY <2>3, <1>3
    <2>5. req' \in Request  BY <2>1, <2>4, <1>3 DEF Request
    <2>6. ReadInv'
      <3>1. /\ req'.pc = "data" /\ req'.spec = req.spec
            /\ req'.read = [kind \in Kinds |-> 0]
        BY <2>1, <1>3 DEF TypeInv, ReadInv, Request, GetAutomation, Handling
      <3>2. \A kind \in Kinds : Len(req.spec.names[kind]) \in Nat
        BY <2>1, AutomationConstantsAssumption DEF ProvisionSpec
      <3> QED  BY <3>1, <3>2 DEF ReadInv
    <2> QED  BY <1>1, <1>3, <2>1, <2>4, <2>5, <2>6, HandlerType DEF Request
  <1> QED  BY <1>2, <1>3 DEF GetAutomation

\* The object read next is one that the Provision names.
LEMMA NextObject ==
  ASSUME TypeInv, NEW kind \in Kinds, GetData(kind)
  PROVE  /\ req.read[kind] \in Nat /\ Len(req.spec.names[kind]) \in Nat
         /\ req.read[kind] < Len(req.spec.names[kind])
         /\ req.spec.names[kind][req.read[kind] + 1] \in Names
         /\ data[kind][req.spec.names[kind][req.read[kind] + 1]] \in Data \cup {Absent}
  <1>1. req.pc = "data" /\ req.read[kind] # Len(req.spec.names[kind])
    BY DEF GetData, Handling, AllRead
  <1>2. req.spec.names[kind] \in Seq(Names)
    BY <1>1, AutomationConstantsAssumption DEF TypeInv, ProvisionSpec
  <1>3. req.read[kind] \in Nat  BY DEF TypeInv, Request
  <1>4. req.read[kind] <= Len(req.spec.names[kind])  BY <1>1 DEF TypeInv, ReadInv
  <1>5. req.read[kind] + 1 \in 1..Len(req.spec.names[kind])  BY <1>1, <1>2, <1>3, <1>4
  <1>6. req.spec.names[kind][req.read[kind] + 1] \in Names  BY <1>2, <1>5
  <1>7. data[kind][req.spec.names[kind][req.read[kind] + 1]] \in Data \cup {Absent}
    BY <1>6 DEF TypeInv
  <1>8. Len(req.spec.names[kind]) \in Nat  BY <1>2
  <1>9. req.read[kind] < Len(req.spec.names[kind])  BY <1>1, <1>3, <1>4, <1>8
  <1> QED  BY <1>3, <1>6, <1>7, <1>8, <1>9

LEMMA GetDataType ==
  ASSUME TypeInv, NEW kind \in Kinds, GetData(kind)
  PROVE  TypeInv'
  <1> DEFINE next == req.read[kind] + 1
             d == data[kind][req.spec.names[kind][next]]
  <1>1. HandlerFrame  BY ObjectFrame DEF GetData, Handling, NotFound
  <1>2. CASE NotFound  BY <1>1, <1>2, EndsTyped DEF NotFound
  <1>3. CASE /\ d # Absent
             /\ req' = [req EXCEPT !.read[kind] = next, !.merged[kind] = Copy(@, d)]
    <2>1. req \in Request /\ req.pc = "data"  BY DEF TypeInv, GetData, Handling
    <2>2. req.read \in [Kinds -> Nat] /\ req.merged \in [Kinds -> Data]  BY <2>1 DEF Request
    <2>3. d \in Data  BY <1>3, NextObject
    <2>4. Copy(req.merged[kind], d) \in Data  BY <2>2, <2>3, CopyType
    <2>5. next \in Nat  BY <2>2
    <2>6. req' \in Request  BY <2>1, <2>4, <2>5, <1>3 DEF Request
    <2>7. /\ req'.provision = req.provision /\ req'.spec = req.spec
          /\ req'.template = req.template
      BY <2>1, <1>3 DEF Request
    <2>8. ReadInv'
      <3>1. req'.pc = "data" /\ req'.read = [req.read EXCEPT ![kind] = next]
        BY <2>1, <1>3 DEF Request
      <3>2. ASSUME NEW other \in Kinds
            PROVE  req'.read[other] <= Len(req.spec.names[other])
        <4>1. CASE other = kind
          <5>1. req'.read[other] = next  BY <3>1, <2>2, <4>1
          <5>2. next <= Len(req.spec.names[kind])  BY NextObject
          <5> QED  BY <4>1, <5>1, <5>2
        <4>2. CASE other # kind
          <5>1. req'.read[other] = req.read[other]  BY <3>1, <2>2, <4>2
          <5>2. req.read[other] <= Len(req.spec.names[other])  BY <2>1 DEF TypeInv, ReadInv
          <5> QED  BY <5>1, <5>2
        <4> QED  BY <4>1, <4>2
      <3> QED  BY <3>1, <3>2, <2>7 DEF ReadInv
    <2> QED  BY <1>1, <2>1, <2>6, <2>7, <2>8, HandlerType DEF TypeInv
  <1> QED  BY <1>2, <1>3 DEF GetData

LEMMA RenderType == TypeInv /\ Render => TypeInv'
  <1> SUFFICES ASSUME TypeInv, Render PROVE TypeInv'  OBVIOUS
  <1>1. HandlerFrame  BY ObjectFrame DEF Render, Rendering, Handling
  <1>2. CASE InternalError  BY <1>1, <1>2, EndsTyped DEF InternalError
  <1>3. CASE ~InternalError
    <2>1. req \in Request /\ req.template \in Template
      BY DEF TypeInv, Render, Rendering, Handling
    <2>2. req'.pc = "done"
          /\ \E text \in Texts : req' = [req EXCEPT !.pc = "done", !.answer = "ok", !.text = text]
      <3>1. PICK text : /\ req' = [req EXCEPT !.pc = "done", !.answer = "ok", !.text = text]
                        /\ text = [r \in req.template.refs |->
                              IF r.key \notin DOMAIN req.merged[r.kind] THEN None
                              ELSE req.merged[r.kind][r.key]]
        BY <1>3 DEF Render
      <3>2. req.template.refs \in SUBSET Reference  BY <2>1 DEF Template
      <3>3. ASSUME NEW r \in req.template.refs
            PROVE  text[r] \in Values \cup {None}
        <4>1. req.merged[r.kind] \in Data  BY <2>1, <3>2 DEF Request, Reference
        <4> QED  BY <4>1, <3>1, DataFacts
      <3>4. text \in [req.template.refs -> Values \cup {None}]  BY <3>1, <3>3
      <3>5. text \in Texts  BY <3>2, <3>4 DEF Texts
      <3> QED  BY <3>1, <3>5, <2>1 DEF Request
    <2>3. req' \in Request /\ ReadInv'  BY <2>1, <2>2 DEF Request, ReadInv
    <2> QED  BY <1>1, <2>2, <2>3, HandlerType
  <1> QED  BY <1>2, <1>3

LEMMA GetFailsType == TypeInv /\ GetFails => TypeInv'
  <1> SUFFICES ASSUME TypeInv, GetFails PROVE TypeInv'  OBVIOUS
  <1>1. HandlerFrame
    BY AutomationBoundsAssumption DEF TypeInv, HandlerFrame, GetFails, Failing, Handling
  <1> QED  BY <1>1, EndsTyped DEF GetFails, InternalError

LEMMA ArriveType ==
  ASSUME TypeInv, NEW n \in Provisions \cup BadNames, NEW f \in Files, Arrive(n, f)
  PROVE  TypeInv'
  <1>1. /\ req' \in Request /\ req'.pc \in {"done", "provision"}
        /\ req'.pc # "done" => req'.provision \in Provisions
        /\ ReadInv'
    BY NoRequestType DEF Arrive, Request, NoRequest, ReadInv
  <1>2. during' \in History
    <2>1. ASSUME NEW p \in Provisions
          PROVE  {provision[p][i] : i \in seen[p]..Len(provision[p])} \subseteq Specs \cup {Absent}
      <3>1. provision[p] \in Seq(Specs \cup {Absent}) /\ seen[p] \in 1..Len(provision[p])
        BY DEF TypeInv
      <3> QED  BY <3>1
    <2> QED  BY <2>1 DEF Arrive, History, TypeInv
  <1> QED  BY <1>1, <1>2 DEF Arrive, TypeInv, objectVars

\* What the changes of users leave alone.
LEMMA ChangeType ==
  ASSUME TypeInv, Change
  PROVE  /\ seen' = seen /\ req' = req
         /\ edits' \in 0..MaxEdits /\ faults' \in 0..MaxFaults
  BY AutomationBoundsAssumption DEF TypeInv, Change

LEMMA SubmitProvisionType ==
  ASSUME TypeInv, NEW n \in Provisions, NEW s \in Specs \cup {Absent}, SubmitProvision(n, s)
  PROVE  TypeInv'
  <1>1. /\ provision' \in [Provisions -> Seq(Specs \cup {Absent})]
        /\ \A p \in Provisions : seen[p] \in 1..Len(provision'[p])
    <2>1. ASSUME NEW p \in Provisions
          PROVE  /\ provision[p] \in Seq(Specs \cup {Absent})
                 /\ Append(provision[p], s) \in Seq(Specs \cup {Absent})
                 /\ seen[p] \in 1..Len(provision[p])
                 /\ seen[p] \in 1..Len(Append(provision[p], s))
      <3>1. provision[p] \in Seq(Specs \cup {Absent}) /\ seen[p] \in 1..Len(provision[p])
        BY DEF TypeInv
      <3> QED  BY <3>1
    <2>2. provision' = [provision EXCEPT ![n] = Append(provision[n], s)]
          /\ provision \in [Provisions -> Seq(Specs \cup {Absent})]
      BY DEF SubmitProvision, TypeInv
    <2> QED  BY <2>1, <2>2
  <1>2. during' \in History  BY DEF TypeInv, SubmitProvision, History
  <1> QED  BY <1>1, <1>2, ChangeType DEF SubmitProvision, TypeInv, ReadInv

LEMMA SubmitAutomationType ==
  ASSUME TypeInv, NEW a \in Automations, NEW files \in FileMaps \cup {Absent},
         SubmitAutomation(a, files)
  PROVE  TypeInv'
  <1>1. during' \in History  BY DEF TypeInv, SubmitAutomation, History
  <1>2. automation' \in [Automations -> FileMaps \cup {Absent}]  BY DEF TypeInv, SubmitAutomation
  <1> QED  BY <1>1, <1>2, ChangeType DEF SubmitAutomation, TypeInv, ReadInv

LEMMA SubmitDataType ==
  ASSUME TypeInv, NEW kind \in Kinds, NEW o \in Names, NEW d \in Data \cup {Absent},
         SubmitData(kind, o, d)
  PROVE  TypeInv'
  <1>1. during' \in History
    <2> DEFINE held == during.data
               added == [held[kind] EXCEPT ![o] = @ \cup {d}]
    <2>1. during \in History /\ held \in [Kinds -> [Names -> SUBSET (Data \cup {Absent})]]
      BY DEF TypeInv, History
    <2>2. added \in [Names -> SUBSET (Data \cup {Absent})]  BY <2>1
    <2>3. [held EXCEPT ![kind] = added] \in [Kinds -> [Names -> SUBSET (Data \cup {Absent})]]
      BY <2>1, <2>2
    <2>4. during' = [during EXCEPT !.data = [held EXCEPT ![kind] = added]]
      BY <2>1 DEF SubmitData, History
    <2> HIDE DEF held, added
    <2> QED  BY <2>1, <2>3, <2>4 DEF History
  <1>2. data' \in [Kinds -> [Names -> Data \cup {Absent}]]  BY DEF TypeInv, SubmitData
  <1> QED  BY <1>1, <1>2, ChangeType DEF SubmitData, TypeInv, ReadInv

LEMMA DeliverType ==
  ASSUME TypeInv, NEW n \in Provisions, Deliver(n)
  PROVE  TypeInv'
  <1>1. seen' \in [Provisions -> Nat]
        /\ \A p \in Provisions : seen'[p] \in 1..Len(provision[p])
    <2>1. ASSUME NEW p \in Provisions  PROVE  Len(provision[p]) \in Nat
      BY DEF TypeInv
    <2> QED  BY <2>1 DEF Deliver, TypeInv
  <1> QED  BY <1>1 DEF Deliver, TypeInv, ReadInv

LEMMA NextType == TypeInv /\ [Next]_vars => TypeInv'
  <1> SUFFICES ASSUME TypeInv, [Next]_vars PROVE TypeInv'  OBVIOUS
  <1>1. CASE Next
    <2>1. CASE \E n \in Provisions \cup BadNames, f \in Files : Arrive(n, f)
      BY <2>1, ArriveType
    <2>2. CASE Handler
      BY <2>2, GetProvisionType, GetAutomationType, GetDataType, RenderType DEF Handler
    <2>3. CASE GetFails  BY <2>3, GetFailsType
    <2>4. CASE \E n \in Provisions : Deliver(n) \/ \E s \in Specs \cup {Absent} : SubmitProvision(n, s)
      BY <2>4, DeliverType, SubmitProvisionType
    <2>5. CASE \E a \in Automations, files \in FileMaps \cup {Absent} : SubmitAutomation(a, files)
      BY <2>5, SubmitAutomationType
    <2>6. CASE \E kind \in Kinds, o \in Names, d \in Data \cup {Absent} : SubmitData(kind, o, d)
      BY <2>6, SubmitDataType
    <2> QED  BY <1>1, <2>1, <2>2, <2>3, <2>4, <2>5, <2>6 DEF Next
  <1>2. CASE UNCHANGED vars
    BY <1>2 DEF vars, TypeInv, ReadInv
  <1> QED  BY <1>1, <1>2

LEMMA TypeInvInvariant == Spec => []TypeInv
  BY InitType, NextType, PTL DEF Spec

\* Every reachable state is well typed: the handler never goes on with an
\* object it did not find.
THEOREM TypeCorrect == Spec => []TypeOK
  <1>1. ASSUME TypeInv PROVE TypeOK
    <2>1. \A n \in Provisions :
            provision[n] \in Seq(Specs \cup {Absent}) /\ seen[n] \in DOMAIN provision[n]
      <3>1. ASSUME NEW n \in Provisions
            PROVE  provision[n] \in Seq(Specs \cup {Absent}) /\ seen[n] \in 1..Len(provision[n])
        BY <1>1 DEF TypeInv
      <3>2. ASSUME NEW n \in Provisions  PROVE  DOMAIN provision[n] = 1..Len(provision[n])
        BY <3>1
      <3> QED  BY <3>1, <3>2
    <2>2. /\ req.pc \in {"done", "provision", "automation", "data"}
          /\ req.provision \in Provisions \cup BadNames \cup {None}
          /\ req.file \in Files \cup {None}
          /\ req.spec \in Specs \cup {None} /\ req.template \in Template \cup {None}
          /\ req.read \in [Kinds -> Nat] /\ req.merged \in [Kinds -> Data]
          /\ req.answer \in {"none", "ok", "bad request", "not found", "internal error"}
      BY <1>1 DEF TypeInv, Request
    <2> QED  BY <1>1, <2>1, <2>2 DEF TypeInv, TypeOK
  <1> QED  BY <1>1, TypeInvInvariant, PTL

-----------------------------------------------------------------------------
(* LastWins *)

ValueOf(kind, key) == IF key \in DOMAIN req.merged[kind] THEN req.merged[kind][key] ELSE None

\* What the history must hold while a request is handled.
Held ==
    req.pc # "done" =>
        /\ req.answer = "none"
        /\ \A kind \in Kinds, o \in Names : data[kind][o] \in during.data[kind][o]

\* The merged data is that of the objects read so far.
MergedInv ==
    req.pc = "data" =>
        \A kind \in Kinds, key \in Keys : Explained(kind, req.read[kind], key, ValueOf(kind, key))

LastInv ==
    /\ Held
    /\ MergedInv
    /\ LastWins
    /\ req.answer = "ok" => req.spec \in Specs

\* The history only grows under a request, so what explained a value still
\* does.
Grows == \A kind \in Kinds, o \in Names : during.data[kind][o] \subseteq during'.data[kind][o]

LEMMA ExplainedStays ==
  ASSUME Grows, NEW kind \in Kinds, NEW n \in Nat, NEW key, NEW value,
         req.spec.names[kind] \in Seq(Names), n <= Len(req.spec.names[kind]),
         req'.spec = req.spec, Explained(kind, n, key, value)
  PROVE  Explained(kind, n, key, value)'
  <1> DEFINE names == req.spec.names[kind]
  <1>1. \A i \in 1..n : names[i] \in Names  OBVIOUS
  <1>2. ASSUME NEW o \in Names, MayLack(kind, o, key)
        PROVE  MayLack(kind, o, key)'
    BY <1>2 DEF Grows, MayLack
  <1>3. ASSUME NEW o \in Names, MayHave(kind, o, key, value)
        PROVE  MayHave(kind, o, key, value)'
    BY <1>3 DEF Grows, MayHave
  <1>4. CASE value = None
    <2>1. \A i \in 1..n : MayLack(kind, names[i], key)  BY <1>4 DEF Explained
    <2>2. \A i \in 1..n : MayLack(kind, names[i], key)'  BY <1>1, <1>2, <2>1
    <2> QED  BY <1>4, <2>2 DEF Explained
  <1>5. CASE value # None
    <2>1. PICK i \in 1..n : /\ MayHave(kind, names[i], key, value)
                            /\ \A j \in i+1..n : MayLack(kind, names[j], key)
      BY <1>5 DEF Explained
    <2>2. MayHave(kind, names[i], key, value)'  BY <1>1, <1>3, <2>1
    <2>3. ASSUME NEW j \in i+1..n PROVE MayLack(kind, names[j], key)'
      BY <1>1, <1>2, <2>1
    <2> QED  BY <1>5, <2>2, <2>3 DEF Explained
  <1> QED  BY <1>4, <1>5

LEMMA NamesType ==
  ASSUME TypeInv, NEW kind \in Kinds, req.spec \in Specs
  PROVE  req.spec.names[kind] \in Seq(Names) /\ Len(req.spec.names[kind]) \in Nat
  BY AutomationConstantsAssumption DEF ProvisionSpec

LEMMA SuppliedStays ==
  ASSUME TypeInv, Grows, req' = req, req.spec \in Specs,
         NEW r, r.kind \in Kinds, NEW value, Supplied(r, value)
  PROVE  Supplied(r, value)'
  <1> DEFINE n == Len(req.spec.names[r.kind])
  <1>1. req.spec.names[r.kind] \in Seq(Names) /\ n \in Nat  BY NamesType
  <1>2. Explained(r.kind, n, r.key, value) => Explained(r.kind, n, r.key, value)'
    BY <1>1, ExplainedStays
  <1> QED  BY <1>2 DEF Supplied

\* Steps that leave the request alone.
LEMMA LastQuiet ==
  ASSUME TypeInv, LastInv, req' = req, Grows, Held'
  PROVE  LastInv'
  <1>1. MergedInv'
    <2> SUFFICES ASSUME req.pc = "data", NEW kind \in Kinds, NEW key \in Keys
                 PROVE  Explained(kind, req.read[kind], key, ValueOf(kind, key))'
      BY DEF MergedInv
    <2>1. Explained(kind, req.read[kind], key, ValueOf(kind, key))
      BY DEF LastInv, MergedInv
    <2>2. req.read[kind] \in Nat /\ req.read[kind] <= Len(req.spec.names[kind])
      BY DEF TypeInv, ReadInv, Request
    <2>3. req.spec.names[kind] \in Seq(Names)  BY NamesType DEF TypeInv
    <2>4. ValueOf(kind, key)' = ValueOf(kind, key) /\ req'.read[kind] = req.read[kind]
      BY DEF ValueOf
    <2> HIDE DEF ValueOf
    <2>5. \A value : Explained(kind, req.read[kind], key, value) =>
                     Explained(kind, req.read[kind], key, value)'
      BY <2>2, <2>3, ExplainedStays
    <2> QED  BY <2>1, <2>4, <2>5
  <1>2. LastWins'
    <2> SUFFICES ASSUME req.answer = "ok", NEW r \in DOMAIN req.text
                 PROVE  Supplied(r, req.text[r])'
      BY DEF LastWins
    <2>1. Supplied(r, req.text[r])  BY DEF LastInv, LastWins
    <2>2. r.kind \in Kinds
      <3>1. req.text \in Texts  BY DEF TypeInv, Request
      <3>2. PICK S \in SUBSET Reference : req.text \in [S -> Values \cup {None}]
        BY <3>1 DEF Texts
      <3> QED  BY <3>2 DEF Reference
    <2>3. req.spec \in Specs  BY DEF LastInv
    <2> QED  BY <2>1, <2>2, <2>3, SuppliedStays
  <1> QED  BY <1>1, <1>2 DEF LastInv

LEMMA LastAnswered ==
  ASSUME LastInv, req'.pc = "done", req'.answer # "ok"
  PROVE  LastInv'
  BY DEF LastInv, Held, MergedInv, LastWins

LEMMA AnswerAnswers ==
  ASSUME TypeInv, LastInv, NEW a \in {"not found", "internal error"}, Answer(a)
  PROVE  LastInv'
  BY LastAnswered DEF TypeInv, Request, Answer

LEMMA GetProvisionLast == TypeInv /\ LastInv /\ GetProvision => LastInv'
  <1> SUFFICES ASSUME TypeInv, LastInv, GetProvision PROVE LastInv'  OBVIOUS
  <1>1. CASE NotFound  BY <1>1, AnswerAnswers DEF NotFound
  <1>2. CASE req' = [req EXCEPT !.pc = "automation", !.spec = Cached(req.provision)]
    <2>1. req.pc = "provision" /\ UNCHANGED <<data, during>>
      BY DEF GetProvision, Handling, objectVars
    <2>2. req'.pc = "automation" /\ req'.answer = "none"
      BY <1>2, <2>1 DEF TypeInv, Request, LastInv, Held
    <2> QED  BY <2>1, <2>2 DEF LastInv, Held, MergedInv, LastWins
  <1> QED  BY <1>1, <1>2 DEF GetProvision

LEMMA GetAutomationLast == TypeInv /\ LastInv /\ GetAutomation => LastInv'
  <1> SUFFICES ASSUME TypeInv, LastInv, GetAutomation PROVE LastInv'  OBVIOUS
  <1>1. CASE NotFound  BY <1>1, AnswerAnswers DEF NotFound
  <1>2. CASE req' = [req EXCEPT !.pc = "data",
                        !.template = automation[req.spec.automation][req.file]]
    <2>1. req.pc = "automation" /\ UNCHANGED <<data, during>>
      BY DEF GetAutomation, Handling, objectVars
    <2>2. /\ req'.pc = "data" /\ req'.answer = "none"
          /\ req'.read = [kind \in Kinds |-> 0]
          /\ req'.merged = [kind \in Kinds |-> Empty]
      BY <1>2, <2>1 DEF TypeInv, ReadInv, Request, LastInv, Held
    <2>3. MergedInv'
      <3> SUFFICES ASSUME NEW kind \in Kinds, NEW key \in Keys
                   PROVE  Explained(kind, req.read[kind], key, ValueOf(kind, key))'
        BY DEF MergedInv
      <3>1. ValueOf(kind, key)' = None /\ req'.read[kind] = 0  BY <2>2 DEF ValueOf, Empty
      <3> QED  BY <3>1 DEF Explained
    <2> QED  BY <2>1, <2>2, <2>3 DEF LastInv, Held, LastWins
  <1> QED  BY <1>1, <1>2 DEF GetAutomation

\* The object read last decides, and where it lacks the key the earlier ones
\* still do.
LEMMA MergeExplained ==
  ASSUME NEW kind \in Kinds, NEW n \in Nat, NEW key, NEW old,
         Explained(kind, n, key, old),
         NEW d \in Data, d \in during.data[kind][req.spec.names[kind][n + 1]]
  PROVE  Explained(kind, n + 1, key, IF key \in DOMAIN d THEN d[key] ELSE old)
  <1> DEFINE names == req.spec.names[kind]
  <1>1. d # Absent  BY AutomationConstantsAssumption
  <1>2. CASE key \in DOMAIN d
    <2>1. d[key] # None  BY <1>2, DataFacts, AutomationConstantsAssumption
    <2>2. MayHave(kind, names[n + 1], key, d[key])  BY <1>1, <1>2 DEF MayHave
    <2>3. n + 1 \in 1..n+1 /\ (n + 1) + 1 .. n + 1 = {}  OBVIOUS
    <2> QED  BY <1>2, <2>1, <2>2, <2>3 DEF Explained
  <1>3. CASE key \notin DOMAIN d
    <2>1. MayLack(kind, names[n + 1], key)  BY <1>1, <1>3 DEF MayLack
    <2>2. CASE old = None
      <3>1. \A i \in 1..n : MayLack(kind, names[i], key)  BY <2>2 DEF Explained
      <3>2. \A i \in 1..n+1 : MayLack(kind, names[i], key)  BY <3>1, <2>1
      <3> QED  BY <1>3, <2>2, <3>2 DEF Explained
    <2>3. CASE old # None
      <3>1. PICK i \in 1..n : /\ MayHave(kind, names[i], key, old)
                              /\ \A j \in i+1..n : MayLack(kind, names[j], key)
        BY <2>3 DEF Explained
      <3>2. \A j \in i+1..n+1 : MayLack(kind, names[j], key)  BY <3>1, <2>1
      <3> QED  BY <1>3, <2>3, <3>1, <3>2 DEF Explained
    <2> QED  BY <2>2, <2>3
  <1> QED  BY <1>2, <1>3

LEMMA GetDataLast ==
  ASSUME TypeInv, LastInv, NEW kind \in Kinds, GetData(kind)
  PROVE  LastInv'
  <1> DEFINE next == req.read[kind] + 1
             o == req.spec.names[kind][next]
             d == data[kind][o]
  <1>1. CASE NotFound  BY <1>1, AnswerAnswers DEF NotFound
  <1>2. CASE /\ d # Absent
             /\ req' = [req EXCEPT !.read[kind] = next, !.merged[kind] = Copy(@, d)]
    <2>1. req.pc = "data" /\ UNCHANGED <<data, during>>
      BY DEF GetData, Handling, objectVars
    <2>2. req \in Request /\ req.read \in [Kinds -> Nat] /\ req.merged \in [Kinds -> Data]
      BY DEF TypeInv, Request
    <2>3. /\ req'.pc = "data" /\ req'.answer = "none" /\ req'.spec = req.spec
          /\ req'.read = [req.read EXCEPT ![kind] = next]
          /\ req'.merged = [req.merged EXCEPT ![kind] = Copy(req.merged[kind], d)]
      BY <1>2, <2>1, <2>2 DEF Request, LastInv, Held
    <2>4. o \in Names /\ d \in Data /\ req.read[kind] \in Nat  BY <1>2, NextObject
    <2>5. d \in during.data[kind][o]  BY <2>1, <2>4 DEF LastInv, Held
    <2>6. MergedInv'
      <3> SUFFICES ASSUME NEW other \in Kinds, NEW key \in Keys
                   PROVE  Explained(other, req.read[other], key, ValueOf(other, key))'
        BY DEF MergedInv
      <3>1. Explained(other, req.read[other], key, ValueOf(other, key))
        BY <2>1 DEF LastInv, MergedInv
      <3>2. CASE other = kind
        <4>1. ValueOf(kind, key)' = IF key \in DOMAIN d THEN d[key] ELSE ValueOf(kind, key)
          <5> HIDE DEF d
          <5> DEFINE m == req.merged[kind]
          <5>1. req'.merged[kind] = Copy(m, d)  BY <2>2, <2>3
          <5> HIDE DEF m
          <5>2. /\ key \in DOMAIN Copy(m, d) <=> key \in DOMAIN d \/ key \in DOMAIN m
                /\ key \in DOMAIN d => Copy(m, d)[key] = d[key]
                /\ key \in DOMAIN m /\ key \notin DOMAIN d => Copy(m, d)[key] = m[key]
            BY DEF Copy
          <5>3. ValueOf(kind, key)' = IF key \in DOMAIN Copy(m, d) THEN Copy(m, d)[key] ELSE None
            BY <5>1 DEF ValueOf
          <5>4. ValueOf(kind, key) = IF key \in DOMAIN m THEN m[key] ELSE None
            BY DEF ValueOf, m
          <5> QED  BY <5>2, <5>3, <5>4
        <4>2. Explained(kind, next, key, ValueOf(kind, key)')
          BY <3>1, <3>2, <2>4, <2>5, <4>1, MergeExplained
        <4>3. req'.read[kind] = next  BY <2>2, <2>3
        <4> QED  BY <3>2, <4>2, <4>3, <2>1, <2>3, ZenonT(60) DEF Explained, MayHave, MayLack
      <3>3. CASE other # kind
        <4>1. ValueOf(other, key)' = ValueOf(other, key) /\ req'.read[other] = req.read[other]
          BY <3>3, <2>2, <2>3 DEF ValueOf
        <4> QED  BY <3>1, <4>1, <2>1, <2>3 DEF Explained, MayHave, MayLack
      <3> QED  BY <3>2, <3>3
    <2> QED  BY <2>1, <2>3, <2>6 DEF LastInv, Held, LastWins
  <1> QED  BY <1>1, <1>2 DEF GetData

LEMMA RenderLast == TypeInv /\ LastInv /\ Render => LastInv'
  <1> SUFFICES ASSUME TypeInv, LastInv, Render PROVE LastInv'  OBVIOUS
  <1>1. CASE InternalError  BY <1>1, AnswerAnswers DEF InternalError
  <1>2. CASE ~InternalError
    <2>1. /\ req.pc = "data" /\ req.spec \in Specs /\ req \in Request
          /\ req.template \in Template
          /\ UNCHANGED <<data, during>>
          /\ \A kind \in Kinds : req.read[kind] = Len(req.spec.names[kind])
      BY DEF TypeInv, Render, Rendering, Handling, objectVars, AllRead
    <2>2. /\ req'.pc = "done" /\ req'.spec = req.spec
          /\ req'.text = [r \in req.template.refs |->
                            IF r.key \notin DOMAIN req.merged[r.kind] THEN None
                            ELSE req.merged[r.kind][r.key]]
      BY <1>2, <2>1 DEF Render, Request
    <2>3. ASSUME NEW r \in DOMAIN req'.text
          PROVE  Supplied(r, req.text[r])'
      <3>1. r \in req.template.refs /\ req'.text[r] = ValueOf(r.kind, r.key)
        BY <2>2 DEF ValueOf
      <3>2. r.kind \in Kinds /\ r.key \in Keys
        BY <3>1, <2>1 DEF Template, Reference
      <3>3. Explained(r.kind, req.read[r.kind], r.key, ValueOf(r.kind, r.key))
        BY <2>1, <3>2 DEF LastInv, MergedInv
      <3> QED  BY <2>1, <2>2, <3>1, <3>2, <3>3 DEF Supplied, Explained, MayHave, MayLack
    <2> QED  BY <2>1, <2>2, <2>3 DEF LastInv, Held, MergedInv, LastWins
  <1> QED  BY <1>1, <1>2

LEMMA ArriveLast ==
  ASSUME TypeInv, LastInv, NEW n \in Provisions \cup BadNames, NEW f \in Files, Arrive(n, f)
  PROVE  LastInv'
  <1>1. req'.pc \in {"done", "provision"} /\ req'.answer \in {"none", "bad request"}
        /\ (req'.pc # "done" => req'.answer = "none")
    BY DEF Arrive, NoRequest
  <1>2. Held'  BY <1>1 DEF Arrive, objectVars, Held
  <1> QED  BY <1>1, <1>2 DEF LastInv, MergedInv, LastWins

\* A change of ConfigMaps or Secrets is recorded; other changes are none of
\* theirs.
LEMMA UserLast ==
  ASSUME TypeInv, LastInv,
         \/ \E n \in Provisions, s \in Specs \cup {Absent} : SubmitProvision(n, s)
         \/ \E a \in Automations, files \in FileMaps \cup {Absent} : SubmitAutomation(a, files)
         \/ \E kind \in Kinds, o \in Names, d \in Data \cup {Absent} : SubmitData(kind, o, d)
         \/ \E n \in Provisions : Deliver(n)
  PROVE  LastInv'
  <1>1. CASE \/ \E n \in Provisions, s \in Specs \cup {Absent} : SubmitProvision(n, s)
             \/ \E a \in Automations, files \in FileMaps \cup {Absent} : SubmitAutomation(a, files)
             \/ \E n \in Provisions : Deliver(n)
    <2>1. req' = req /\ data' = data /\ during'.data = during.data
      BY <1>1 DEF SubmitProvision, SubmitAutomation, Deliver, Change, TypeInv, History
    <2>2. Grows /\ Held'  BY <2>1 DEF Grows, Held, LastInv
    <2> QED  BY <2>1, <2>2, LastQuiet
  <1>2. ASSUME NEW kind \in Kinds, NEW o \in Names, NEW d \in Data \cup {Absent},
               SubmitData(kind, o, d)
        PROVE  LastInv'
    <2>1. /\ req' = req /\ data' = [data EXCEPT ![kind][o] = d]
          /\ during' = [during EXCEPT !.data[kind][o] = @ \cup {d}]
      BY <1>2 DEF SubmitData, Change
    <2>2. ASSUME NEW other \in Kinds, NEW p \in Names
          PROVE  /\ during.data[other][p] \subseteq during'.data[other][p]
                 /\ data[other][p] \in during.data[other][p]
                        => data'[other][p] \in during'.data[other][p]
      BY <2>1 DEF TypeInv, History
    <2>3. Grows /\ Held'  BY <2>1, <2>2 DEF Grows, Held, LastInv
    <2> QED  BY <2>1, <2>3, LastQuiet
  <1> QED  BY <1>1, <1>2

LEMMA LastNext == TypeInv /\ LastInv /\ [Next]_vars => LastInv'
  <1> SUFFICES ASSUME TypeInv, LastInv, [Next]_vars PROVE LastInv'  OBVIOUS
  <1>1. CASE \E n \in Provisions \cup BadNames, f \in Files : Arrive(n, f)
    BY <1>1, ArriveLast
  <1>2. CASE Handler
    BY <1>2, GetProvisionLast, GetAutomationLast, GetDataLast, RenderLast DEF Handler
  <1>3. CASE GetFails  BY <1>3, AnswerAnswers DEF GetFails, InternalError
  <1>4. CASE \/ \E n \in Provisions, s \in Specs \cup {Absent} : SubmitProvision(n, s)
             \/ \E a \in Automations, files \in FileMaps \cup {Absent} : SubmitAutomation(a, files)
             \/ \E kind \in Kinds, o \in Names, d \in Data \cup {Absent} : SubmitData(kind, o, d)
             \/ \E n \in Provisions : Deliver(n)
    BY <1>4, UserLast
  <1>5. CASE UNCHANGED vars
    <2>1. req' = req /\ Grows /\ Held'  BY <1>5 DEF vars, Grows, LastInv, Held
    <2> QED  BY <2>1, LastQuiet
  <1> QED  BY <1>1, <1>2, <1>3, <1>4, <1>5 DEF Next

LEMMA LastInit == Init => LastInv
  BY DEF Init, NoRequest, LastInv, Held, MergedInv, LastWins

\* For any lists of ConfigMaps and Secrets, whatever users change between two
\* reads: every value of a rendered file comes from the last object of its
\* kind that had the key (buildTemplateData).
THEOREM LastWinsHolds == Spec => []LastWins
  <1>1. Spec => []LastInv  BY LastInit, LastNext, TypeInvInvariant, PTL DEF Spec
  <1>2. LastInv => LastWins  BY DEF LastInv
  <1> QED  BY <1>1, <1>2, PTL

-----------------------------------------------------------------------------
(* NotFoundJustified *)

\* The versions of a Provision that httpd has, or has still to learn.
Known(n) == {provision[n][i] : i \in seen[n]..Len(provision[n])}

\* While a request is handled the history holds what the objects are, and the
\* Provision that was read.
FoundHeld ==
    /\ req.pc # "done" =>
        /\ req.answer = "none"
        /\ \A n \in Provisions : Known(n) \subseteq during.provision[n]
        /\ \A a \in Automations : automation[a] \in during.automation[a]
        /\ \A kind \in Kinds, o \in Names : data[kind][o] \in during.data[kind][o]
    /\ req.pc \in {"automation", "data"} => req.spec \in during.provision[req.provision]

FoundInv ==
    /\ FoundHeld
    /\ NotFoundJustified
    /\ req.answer = "not found" => req.provision \in Provisions

\* A step that ends the request, or goes on with it.
LEMMA FoundContinues ==
  ASSUME FoundInv, UNCHANGED <<provision, seen, automation, data, during>>,
         req'.provision = req.provision, req.pc # "done", req'.answer # "not found",
         req'.pc # "done" => req'.answer = "none",
         req'.pc \in {"automation", "data"} => req'.spec \in during.provision[req.provision]
  PROVE  FoundInv'
  BY DEF FoundInv, FoundHeld, NotFoundJustified, Known

LEMMA FoundEnds ==
  ASSUME TypeInv, FoundInv, UNCHANGED <<provision, seen, automation, data, during>>,
         req.pc # "done", Answer("not found"),
         \/ Absent \in during.provision[req.provision]
         \/ \E s \in during.provision[req.provision] \ {Absent} :
            \/ Absent \in during.automation[s.automation]
            \/ \E files \in during.automation[s.automation] : req.file \notin DOMAIN files
            \/ \E kind \in Kinds : \E i \in DOMAIN s.names[kind] :
                    Absent \in during.data[kind][s.names[kind][i]]
  PROVE  FoundInv'
  <1>1. /\ req.provision \in Provisions /\ req'.provision = req.provision
        /\ req'.file = req.file /\ req'.pc = "done"
    BY DEF TypeInv, Request, Answer
  <1>2. NotFoundJustified'  BY <1>1 DEF NotFoundJustified
  <1> QED  BY <1>1, <1>2 DEF FoundInv, FoundHeld

LEMMA ErrorFound ==
  ASSUME TypeInv, FoundInv, UNCHANGED <<provision, seen, automation, data, during>>,
         req.pc # "done", InternalError
  PROVE  FoundInv'
  <1>1. /\ req'.provision = req.provision /\ req'.pc = "done"
        /\ req'.answer = "internal error"
    BY DEF TypeInv, Request, InternalError, Answer
  <1> QED  BY <1>1, FoundContinues

LEMMA GetProvisionFound == TypeInv /\ FoundInv /\ GetProvision => FoundInv'
  <1> SUFFICES ASSUME TypeInv, FoundInv, GetProvision PROVE FoundInv'  OBVIOUS
  <1>1. /\ req.pc = "provision" /\ req.provision \in Provisions
        /\ UNCHANGED <<provision, seen, automation, data, during>>
    BY DEF GetProvision, Handling, objectVars, TypeInv
  <1>2. Cached(req.provision) \in during.provision[req.provision]
    <2>1. /\ provision[req.provision] \in Seq(Specs \cup {Absent})
          /\ seen[req.provision] \in 1..Len(provision[req.provision])
      BY <1>1 DEF TypeInv
    <2>2. Cached(req.provision) \in Known(req.provision)  BY <2>1 DEF Cached, Known
    <2> QED  BY <1>1, <2>2 DEF FoundInv, FoundHeld
  <1>3. CASE Cached(req.provision) = Absent /\ NotFound
    BY <1>1, <1>2, <1>3, FoundEnds DEF NotFound
  <1>4. CASE req' = [req EXCEPT !.pc = "automation", !.spec = Cached(req.provision)]
    <2>1. /\ req'.provision = req.provision /\ req'.answer = "none"
          /\ req'.spec = Cached(req.provision)
      BY <1>1, <1>4 DEF TypeInv, Request, FoundInv, FoundHeld
    <2> QED  BY <1>1, <1>2, <2>1, FoundContinues
  <1> QED  BY <1>3, <1>4 DEF GetProvision

LEMMA GetAutomationFound == TypeInv /\ FoundInv /\ GetAutomation => FoundInv'
  <1> SUFFICES ASSUME TypeInv, FoundInv, GetAutomation PROVE FoundInv'  OBVIOUS
  <1> DEFINE files == automation[req.spec.automation]
  <1>1. /\ req.pc = "automation" /\ req.spec \in Specs /\ req.provision \in Provisions
        /\ UNCHANGED <<provision, seen, automation, data, during>>
    BY DEF GetAutomation, Handling, objectVars, TypeInv
  <1>2. /\ req.spec \in during.provision[req.provision] \ {Absent}
        /\ req.spec.automation \in Automations
    BY <1>1, AutomationConstantsAssumption DEF FoundInv, FoundHeld, ProvisionSpec
  <1>3. files \in during.automation[req.spec.automation]
    BY <1>1, <1>2 DEF FoundInv, FoundHeld
  <1>4. CASE NotFound /\ (files = Absent \/ req.file \notin DOMAIN files)
    BY <1>1, <1>2, <1>3, <1>4, FoundEnds DEF NotFound
  <1>5. CASE req' = [req EXCEPT !.pc = "data", !.template = files[req.file]]
    <2>1. req'.provision = req.provision /\ req'.answer = "none" /\ req'.spec = req.spec
      BY <1>1, <1>5 DEF TypeInv, Request, FoundInv, FoundHeld
    <2> QED  BY <1>1, <1>2, <2>1, FoundContinues
  <1> QED  BY <1>4, <1>5 DEF GetAutomation

LEMMA GetDataFound ==
  ASSUME TypeInv, FoundInv, NEW kind \in Kinds, GetData(kind)
  PROVE  FoundInv'
  <1> DEFINE next == req.read[kind] + 1
             o == req.spec.names[kind][next]
             d == data[kind][o]
  <1>1. /\ req.pc = "data" /\ req.spec \in Specs /\ req.provision \in Provisions
        /\ UNCHANGED <<provision, seen, automation, data, during>>
    BY DEF GetData, Handling, objectVars, TypeInv
  <1>2. req.spec \in during.provision[req.provision] \ {Absent}
    BY <1>1, AutomationConstantsAssumption DEF FoundInv, FoundHeld
  <1>3. next \in DOMAIN req.spec.names[kind] /\ o \in Names
    <2>1. req.spec.names[kind] \in Seq(Names)  BY <1>1, NamesType
    <2> QED  BY <2>1, NextObject
  <1>4. d \in during.data[kind][o]  BY <1>1, <1>3 DEF FoundInv, FoundHeld
  <1>5. CASE d = Absent /\ NotFound
    <2> HIDE DEF next
    <2> QED  BY <1>1, <1>2, <1>3, <1>4, <1>5, FoundEnds DEF NotFound
  <1>6. CASE req' = [req EXCEPT !.read[kind] = next, !.merged[kind] = Copy(@, d)]
    <2>1. /\ req'.provision = req.provision /\ req'.answer = "none" /\ req'.spec = req.spec
          /\ req'.pc = "data"
      BY <1>1, <1>6 DEF TypeInv, Request, FoundInv, FoundHeld
    <2> QED  BY <1>1, <1>2, <2>1, FoundContinues
  <1> QED  BY <1>5, <1>6 DEF GetData

LEMMA RenderFound == TypeInv /\ FoundInv /\ Render => FoundInv'
  <1> SUFFICES ASSUME TypeInv, FoundInv, Render PROVE FoundInv'  OBVIOUS
  <1>1. /\ req.pc = "data" /\ UNCHANGED <<provision, seen, automation, data, during>>
    BY DEF Render, Rendering, Handling, objectVars
  <1>2. CASE InternalError  BY <1>1, <1>2, ErrorFound
  <1>3. CASE ~InternalError
    <2>1. req'.provision = req.provision /\ req'.answer = "ok" /\ req'.pc = "done"
      BY <1>3 DEF Render, TypeInv, Request
    <2> QED  BY <1>1, <2>1, FoundContinues
  <1> QED  BY <1>2, <1>3

LEMMA ArriveFound ==
  ASSUME TypeInv, FoundInv, NEW n \in Provisions \cup BadNames, NEW f \in Files, Arrive(n, f)
  PROVE  FoundInv'
  <1>1. /\ req'.pc \in {"done", "provision"} /\ req'.answer \in {"none", "bad request"}
        /\ req'.pc # "done" => req'.answer = "none"
    BY DEF Arrive, NoRequest
  <1>2. /\ \A p \in Provisions : Known(p)' = during'.provision[p]
        /\ \A a \in Automations : automation'[a] \in during'.automation[a]
        /\ \A kind \in Kinds, o \in Names : data'[kind][o] \in during'.data[kind][o]
    BY DEF Arrive, objectVars, Known
  <1> QED  BY <1>1, <1>2 DEF FoundInv, FoundHeld, NotFoundJustified

\* What a Provision names.
LEMMA SpecNames ==
  ASSUME NEW s \in ProvisionSpec
  PROVE  /\ s.automation \in Automations
         /\ \A kind \in Kinds : \A i \in DOMAIN s.names[kind] : s.names[kind][i] \in Names
  <1>1. s.automation \in Automations /\ s.names \in [Kinds -> Seq(Names)]
    BY DEF ProvisionSpec
  <1>2. ASSUME NEW q \in Seq(Names), NEW i \in DOMAIN q  PROVE  q[i] \in Names
    BY <1>2
  <1> QED  BY <1>1, <1>2

\* Changes of objects while the history records them.
LEMMA FoundGrows ==
  ASSUME TypeInv, FoundInv, req' = req,
         \A n \in Provisions : /\ during.provision[n] \subseteq during'.provision[n]
                               /\ Known(n) \subseteq during.provision[n]
                                    => Known(n)' \subseteq during'.provision[n],
         \A a \in Automations : /\ during.automation[a] \subseteq during'.automation[a]
                                /\ automation[a] \in during.automation[a]
                                    => automation'[a] \in during'.automation[a],
         \A kind \in Kinds, o \in Names :
                /\ during.data[kind][o] \subseteq during'.data[kind][o]
                /\ data[kind][o] \in during.data[kind][o] => data'[kind][o] \in during'.data[kind][o]
  PROVE  FoundInv'
  <1>1. FoundHeld'  BY DEF FoundInv, FoundHeld, TypeInv
  <1>2. NotFoundJustified'
    <2> SUFFICES ASSUME req.answer = "not found" PROVE NotFoundJustified'
      BY DEF NotFoundJustified
    <2>1. req.provision \in Provisions  BY DEF FoundInv
    <2>2. CASE Absent \in during.provision[req.provision]
      BY <2>1, <2>2 DEF NotFoundJustified
    <2>3. CASE Absent \notin during.provision[req.provision]
      <3>1. PICK s \in during.provision[req.provision] \ {Absent} :
              \/ Absent \in during.automation[s.automation]
              \/ \E files \in during.automation[s.automation] : req.file \notin DOMAIN files
              \/ \E kind \in Kinds : \E i \in DOMAIN s.names[kind] :
                      Absent \in during.data[kind][s.names[kind][i]]
        BY <2>3 DEF FoundInv, NotFoundJustified
      <3>2. s \in ProvisionSpec
        BY <2>1, AutomationConstantsAssumption DEF TypeInv, History
      <3>3. s.automation \in Automations
            /\ \A kind \in Kinds : \A i \in DOMAIN s.names[kind] : s.names[kind][i] \in Names
        BY <3>2, SpecNames
      <3>4. s \in during'.provision[req.provision] \ {Absent}  BY <2>1
      <3>5. \/ Absent \in during'.automation[s.automation]
            \/ \E files \in during'.automation[s.automation] : req.file \notin DOMAIN files
            \/ \E kind \in Kinds : \E i \in DOMAIN s.names[kind] :
                    Absent \in during'.data[kind][s.names[kind][i]]
        BY <3>1, <3>3
      <3> QED  BY <3>4, <3>5 DEF NotFoundJustified
    <2> QED  BY <2>2, <2>3
  <1> QED  BY <1>1, <1>2 DEF FoundInv

LEMMA SubmitProvisionFound ==
  ASSUME TypeInv, FoundInv, NEW n \in Provisions, NEW s \in Specs \cup {Absent}, SubmitProvision(n, s)
  PROVE  FoundInv'
  <1>1. /\ req' = req /\ seen' = seen /\ UNCHANGED <<automation, data>>
        /\ provision' = [provision EXCEPT ![n] = Append(@, s)]
        /\ during' = [during EXCEPT !.provision[n] = @ \cup {s}]
    BY DEF SubmitProvision, Change
  <1>2. ASSUME NEW p \in Provisions
        PROVE  /\ during.provision[p] \subseteq during'.provision[p]
               /\ Known(p) \subseteq during.provision[p] => Known(p)' \subseteq during'.provision[p]
    <2>1. provision[p] \in Seq(Specs \cup {Absent}) /\ seen[p] \in 1..Len(provision[p])
      BY DEF TypeInv
    <2>2. CASE p # n
      BY <1>1, <2>2 DEF TypeInv, History, Known
    <2>3. CASE p = n
      <3>1. provision'[n] = Append(provision[n], s)
            /\ during'.provision[n] = during.provision[n] \cup {s}
        BY <1>1 DEF TypeInv, History
      <3>2. Known(n)' \subseteq Known(n) \cup {s}
        <4>1. ASSUME NEW i \in seen[n]..Len(Append(provision[n], s))
              PROVE  Append(provision[n], s)[i] \in Known(n) \cup {s}
          <5>1. Len(Append(provision[n], s)) = Len(provision[n]) + 1  BY <2>1, <2>3
          <5>2. CASE i = Len(provision[n]) + 1  BY <2>1, <2>3, <5>2
          <5>3. CASE i \in seen[n]..Len(provision[n])
            <6>1. Append(provision[n], s)[i] = provision[n][i]  BY <2>1, <2>3, <5>3
            <6> QED  BY <5>3, <6>1 DEF Known
          <5> QED  BY <2>1, <2>3, <5>1, <5>2, <5>3
        <4> QED  BY <1>1, <3>1, <4>1 DEF Known
      <3> QED  BY <2>3, <3>1, <3>2
    <2> QED  BY <2>2, <2>3
  <1>3. during'.automation = during.automation /\ during'.data = during.data
    BY <1>1 DEF TypeInv, History
  <1> QED  BY <1>1, <1>2, <1>3, FoundGrows

LEMMA SubmitAutomationFound ==
  ASSUME TypeInv, FoundInv, NEW a \in Automations, NEW files \in FileMaps \cup {Absent},
         SubmitAutomation(a, files)
  PROVE  FoundInv'
  <1>1. /\ req' = req /\ UNCHANGED <<provision, seen, data>>
        /\ automation' = [automation EXCEPT ![a] = files]
        /\ during' = [during EXCEPT !.automation[a] = @ \cup {files}]
    BY DEF SubmitAutomation, Change
  <1>2. ASSUME NEW b \in Automations
        PROVE  /\ during.automation[b] \subseteq during'.automation[b]
               /\ automation[b] \in during.automation[b] => automation'[b] \in during'.automation[b]
    BY <1>1 DEF TypeInv, History
  <1>3. during'.provision = during.provision /\ during'.data = during.data
    BY <1>1 DEF TypeInv, History
  <1>4. \A n : Known(n)' = Known(n)  BY <1>1 DEF Known
  <1> QED  BY <1>1, <1>2, <1>3, <1>4, FoundGrows

LEMMA SubmitDataFound ==
  ASSUME TypeInv, FoundInv, NEW kind \in Kinds, NEW o \in Names, NEW d \in Data \cup {Absent},
         SubmitData(kind, o, d)
  PROVE  FoundInv'
  <1>1. /\ req' = req /\ UNCHANGED <<provision, seen, automation>>
        /\ data' = [data EXCEPT ![kind][o] = d]
        /\ during' = [during EXCEPT !.data[kind][o] = @ \cup {d}]
    BY DEF SubmitData, Change
  <1>2. ASSUME NEW other \in Kinds, NEW p \in Names
        PROVE  /\ during.data[other][p] \subseteq during'.data[other][p]
               /\ data[other][p] \in during.data[other][p]
                    => data'[other][p] \in during'.data[other][p]
    BY <1>1 DEF TypeInv, History
  <1>3. during'.provision = during.provision /\ during'.automation = during.automation
    BY <1>1 DEF TypeInv, History
  <1>4. \A n : Known(n)' = Known(n)  BY <1>1 DEF Known
  <1> QED  BY <1>1, <1>2, <1>3, <1>4, FoundGrows

LEMMA DeliverFound ==
  ASSUME TypeInv, FoundInv, NEW n \in Provisions, Deliver(n)
  PROVE  FoundInv'
  <1>1. /\ UNCHANGED <<provision, automation, data, req, during>>
        /\ seen' = [seen EXCEPT ![n] = @ + 1]
    BY DEF Deliver
  <1>2. ASSUME NEW p \in Provisions  PROVE  Known(p)' \subseteq Known(p)
    <2>1. seen[p] \in Nat /\ seen'[p] >= seen[p] /\ seen'[p] \in Nat /\ Len(provision[p]) \in Nat
      BY <1>1 DEF TypeInv
    <2> QED  BY <1>1, <2>1 DEF Known
  <1> QED  BY <1>1, <1>2, FoundGrows

LEMMA FoundNext == TypeInv /\ FoundInv /\ [Next]_vars => FoundInv'
  <1> SUFFICES ASSUME TypeInv, FoundInv, [Next]_vars PROVE FoundInv'  OBVIOUS
  <1>1. CASE Next
    <2>1. CASE \E n \in Provisions \cup BadNames, f \in Files : Arrive(n, f)
      BY <2>1, ArriveFound
    <2>2. CASE Handler
      BY <2>2, GetProvisionFound, GetAutomationFound, GetDataFound, RenderFound DEF Handler
    <2>3. CASE GetFails
      <3>1. /\ InternalError /\ req.pc # "done"
            /\ UNCHANGED <<provision, seen, automation, data, during>>
        BY <2>3 DEF GetFails, Failing, Handling, objectVars
      <3> QED  BY <3>1, ErrorFound
    <2>4. CASE \E n \in Provisions : Deliver(n) \/ \E s \in Specs \cup {Absent} : SubmitProvision(n, s)
      BY <2>4, DeliverFound, SubmitProvisionFound
    <2>5. CASE \E a \in Automations, files \in FileMaps \cup {Absent} : SubmitAutomation(a, files)
      BY <2>5, SubmitAutomationFound
    <2>6. CASE \E kind \in Kinds, o \in Names, d \in Data \cup {Absent} : SubmitData(kind, o, d)
      BY <2>6, SubmitDataFound
    <2> QED  BY <1>1, <2>1, <2>2, <2>3, <2>4, <2>5, <2>6 DEF Next
  <1>2. CASE UNCHANGED vars
    BY <1>2 DEF vars, FoundInv, FoundHeld, NotFoundJustified, Known
  <1> QED  BY <1>1, <1>2

LEMMA FoundInit == Init => FoundInv
  BY DEF Init, NoRequest, FoundInv, FoundHeld, NotFoundJustified

\* A 404 always has a reason: something the request needed was missing at
\* some moment while it was handled (IsAutomationNotFound).
THEOREM NotFoundHolds == Spec => []NotFoundJustified
  <1>1. Spec => []FoundInv  BY FoundInit, FoundNext, TypeInvInvariant, PTL DEF Spec
  <1>2. FoundInv => NotFoundJustified  BY DEF FoundInv
  <1> QED  BY <1>1, <1>2, PTL

-----------------------------------------------------------------------------
(* StrictKeys *)

StrictInv ==
    /\ StrictKeys
    /\ req.answer = "internal error" /\ faults = 0 =>
            req.spec \in Specs /\ req.template \in Template

LEMMA StrictOther ==
  ASSUME req'.answer \notin {"ok", "internal error"}
  PROVE  StrictInv'
  BY DEF StrictInv, StrictKeys

LEMMA StrictQuiet ==
  ASSUME TypeInv, StrictInv, req' = req, faults' = faults, Grows
  PROVE  StrictInv'
  <1> SUFFICES ASSUME req.answer = "internal error", faults = 0,
                      NEW r \in req.template.refs, Supplied(r, None)
               PROVE  Supplied(r, None)'
    BY DEF StrictInv, StrictKeys
  <1>2. r.kind \in Kinds /\ req.spec \in Specs
    BY DEF StrictInv, Template, Reference
  <1> QED  BY <1>2, SuppliedStays

LEMMA RenderStrict == TypeInv /\ LastInv /\ StrictInv /\ Render => StrictInv'
  <1> SUFFICES ASSUME TypeInv, LastInv, StrictInv, Render PROVE StrictInv'  OBVIOUS
  <1> DEFINE missing(r) == r.key \notin DOMAIN req.merged[r.kind]
  <1>1. /\ req.pc = "data" /\ req.spec \in Specs /\ req \in Request
        /\ req.template \in Template
        /\ UNCHANGED <<data, during>>
        /\ \A kind \in Kinds : req.read[kind] = Len(req.spec.names[kind])
    BY DEF TypeInv, Render, Rendering, Handling, objectVars, AllRead
  <1>2. CASE InternalError /\ (~req.template.parses
                               \/ \E r \in req.template.refs : r.strict /\ missing(r))
    <2>1. /\ req'.answer = "internal error"
          /\ req'.spec = req.spec /\ req'.template = req.template
      BY <1>1, <1>2 DEF InternalError, Answer, Request
    <2>2. ASSUME NEW r \in req.template.refs, missing(r)
          PROVE  Supplied(r, None)'
      <3>1. r.kind \in Kinds /\ r.key \in Keys  BY <1>1 DEF Template, Reference
      <3>2. Explained(r.kind, req.read[r.kind], r.key, ValueOf(r.kind, r.key))
        BY <1>1, <3>1 DEF LastInv, MergedInv
      <3>3. ValueOf(r.kind, r.key) = None  BY <2>2 DEF ValueOf
      <3> QED  BY <1>1, <2>1, <3>1, <3>2, <3>3 DEF Supplied, Explained, MayHave, MayLack
    <2>3. \/ ~req'.template.parses
          \/ \E r \in req'.template.refs : r.strict /\ Supplied(r, None)'
      BY <1>2, <2>1, <2>2
    <2>4. StrictKeys'  BY <2>1, <2>3 DEF StrictKeys
    <2>5. req'.spec \in Specs /\ req'.template \in Template  BY <1>1, <2>1
    <2> QED  BY <2>4, <2>5 DEF StrictInv
  <1>3. CASE /\ \A r \in req.template.refs : r.strict => ~missing(r)
             /\ req' = [req EXCEPT !.pc = "done", !.answer = "ok",
                    !.text = [r \in req.template.refs |->
                                IF missing(r) THEN None ELSE req.merged[r.kind][r.key]]]
    <2>1. /\ req'.answer = "ok"
          /\ req'.text = [r \in req.template.refs |->
                            IF missing(r) THEN None ELSE req.merged[r.kind][r.key]]
      BY <1>1, <1>3 DEF Request
    <2>2. ASSUME NEW r \in req.template.refs, ~missing(r)
          PROVE  req.merged[r.kind][r.key] # None
      <3>1. req.merged[r.kind] \in Data  BY <1>1 DEF Request, Template, Reference
      <3> QED  BY <2>2, <3>1, DataFacts, AutomationConstantsAssumption
    <2>3. \A r \in DOMAIN req'.text : r.strict => req'.text[r] # None
      <3>1. DOMAIN req'.text = req.template.refs  BY <2>1
      <3>2. ASSUME NEW r \in req.template.refs, r.strict
            PROVE  req'.text[r] # None
        <4>1. ~missing(r)  BY <1>3, <3>2
        <4>2. req'.text[r] = req.merged[r.kind][r.key]  BY <2>1, <4>1
        <4> QED  BY <2>2, <4>1, <4>2
      <3> QED  BY <3>1, <3>2
    <2>4. StrictKeys'  BY <2>1, <2>3 DEF StrictKeys
    <2> QED  BY <2>1, <2>4 DEF StrictInv
  <1> QED  BY <1>2, <1>3 DEF Render

LEMMA StrictNext == TypeInv /\ LastInv /\ StrictInv /\ [Next]_vars => StrictInv'
  <1> SUFFICES ASSUME TypeInv, LastInv, StrictInv, [Next]_vars PROVE StrictInv'  OBVIOUS
  <1>a. ASSUME req.pc # "done", Answer("not found")  PROVE StrictInv'
    BY <1>a, StrictOther DEF Answer, TypeInv, Request
  <1>1. CASE \E n \in Provisions \cup BadNames, f \in Files : Arrive(n, f)
    BY <1>1, StrictOther DEF Arrive, NoRequest
  <1>2. CASE GetProvision \/ GetAutomation \/ \E kind \in Kinds : GetData(kind)
    <2>1. req.pc # "done"
      BY <1>2 DEF GetProvision, GetAutomation, GetData, Handling
    <2>2. CASE NotFound  BY <1>a, <2>1, <2>2 DEF NotFound
    <2>3. CASE ~NotFound
      <3>1. req'.answer = req.answer
        BY <1>2, <2>3 DEF GetProvision, GetAutomation, GetData, TypeInv, Request
      <3> QED  BY <2>1, <3>1, StrictOther DEF LastInv, Held
    <2> QED  BY <2>2, <2>3
  <1>3. CASE Render  BY <1>3, RenderStrict
  <1>4. CASE GetFails
    <2>1. faults \in Nat /\ faults' = faults + 1
      BY <1>4, AutomationBoundsAssumption DEF GetFails, Failing, TypeInv
    <2>2. faults' # 0  BY <2>1
    <2>3. req'.answer = "internal error"
      BY <1>4 DEF GetFails, InternalError, Answer, TypeInv, Request
    <2> QED  BY <2>2, <2>3 DEF StrictInv, StrictKeys
  <1>5. CASE \/ \E n \in Provisions, s \in Specs \cup {Absent} : SubmitProvision(n, s)
             \/ \E a \in Automations, files \in FileMaps \cup {Absent} : SubmitAutomation(a, files)
             \/ \E n \in Provisions : Deliver(n)
    <2>1. req' = req /\ faults' = faults /\ during'.data = during.data
      BY <1>5 DEF SubmitProvision, SubmitAutomation, Deliver, Change, TypeInv, History
    <2>2. Grows  BY <2>1 DEF Grows
    <2> QED  BY <2>1, <2>2, StrictQuiet
  <1>6. ASSUME NEW kind \in Kinds, NEW o \in Names, NEW d \in Data \cup {Absent},
               SubmitData(kind, o, d)
        PROVE  StrictInv'
    <2>1. /\ req' = req /\ faults' = faults
          /\ during' = [during EXCEPT !.data[kind][o] = @ \cup {d}]
      BY <1>6 DEF SubmitData, Change
    <2>2. ASSUME NEW other \in Kinds, NEW p \in Names
          PROVE  during.data[other][p] \subseteq during'.data[other][p]
      BY <2>1 DEF TypeInv, History
    <2>3. Grows  BY <2>2 DEF Grows
    <2> QED  BY <2>1, <2>3, StrictQuiet
  <1>7. CASE UNCHANGED vars
    <2>1. req' = req /\ faults' = faults /\ Grows  BY <1>7 DEF vars, Grows
    <2> QED  BY <2>1, StrictQuiet
  <1> QED  BY <1>1, <1>2, <1>3, <1>4, <1>5, <1>6, <1>7 DEF Next, Handler

LEMMA StrictInit == Init => StrictInv
  BY DEF Init, NoRequest, StrictInv, StrictKeys

\* A template is never rendered without a key it insists on, and unless an
\* API call failed, 500 means exactly that or a template that does not parse
\* (missingkey=error).
THEOREM StrictKeysHolds == Spec => []StrictKeys
  <1>1. Spec => []LastInv  BY LastInit, LastNext, TypeInvInvariant, PTL DEF Spec
  <1>2. Spec => []StrictInv
    BY <1>1, StrictInit, StrictNext, TypeInvInvariant, PTL DEF Spec
  <1>3. StrictInv => StrictKeys  BY DEF StrictInv
  <1> QED  BY <1>2, <1>3, PTL
=============================================================================
