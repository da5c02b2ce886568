----------------------------- MODULE Automation -----------------------------
(***************************************************************************)
(* httpd: GET /automation/{provisionName}/{fileName} (automationFileHandler *)
(* in cmd/httpd/main.go, RenderAutomationFile in internal/httpd/           *)
(* automation.go). The handler reads a Provision from httpd's cache, then  *)
(* its ProvisionAutomation and every ConfigMap and Secret it names from    *)
(* the API server, one at a time, and renders a template from the merged   *)
(* data. Users may change any of these objects between two reads.          *)
(* Requests share nothing, so one at a time shows all they can do.         *)
(***************************************************************************)
EXTENDS Integers, Sequences

CONSTANTS
    Provisions,     \* metadata.name of Provision objects
    BadNames,       \* provision names that nameRegexp or the length refuses
    Automations,    \* metadata.name of ProvisionAutomation objects
    Names,          \* metadata.name of ConfigMaps and Secrets
    Files,          \* names of automation files
    Keys, Values,   \* in their data
    Specs,          \* the Provision specs users may submit
    FileMaps,       \* the spec.files of a ProvisionAutomation users may submit
    Absent,         \* an object that does not exist
    None,
    MaxEdits,       \* bound on changes of objects
    MaxFaults       \* bound on failing API calls

VARIABLES
    provision,      \* API server: all versions of each Provision, oldest first
    seen,           \* how many of them httpd's informer has stored
    automation,     \* API server: spec.files of each ProvisionAutomation
    data,           \* API server: data of each ConfigMap and each Secret
    req,            \* the request
    during,         \* history: what each object has been since the request came
    edits, faults

vars == <<provision, seen, automation, data, req, during, edits, faults>>

Kinds == {"ConfigMaps", "Secrets"}

\* What a template refers to: .ConfigMaps.key, which must exist (strict), or
\* index .ConfigMaps "key", which is empty where it does not.
Reference == [kind : Kinds, key : Keys, strict : BOOLEAN]
Template == [parses : BOOLEAN, refs : SUBSET Reference]

Data == UNION {[S -> Values] : S \in SUBSET Keys}
ProvisionSpec == [automation : Automations, names : [Kinds -> Seq(Names)]]

ASSUME AutomationConstantsAssumption ==
    /\ BadNames \cap Provisions = {}
    /\ Specs \subseteq ProvisionSpec
    /\ FileMaps \subseteq UNION {[S -> Template] : S \in SUBSET Files}
    /\ Absent \notin ProvisionSpec \cup FileMaps \cup Data
    /\ None \notin Values \cup Template

ASSUME AutomationBoundsAssumption == MaxEdits \in Nat /\ MaxFaults \in Nat

-----------------------------------------------------------------------------
(* The request *)

\* spec: the Provision as it was read; template: the file; read: how many of
\* the named objects were read; merged: TemplateData; text: what the template
\* rendered to.
Empty == [k \in {} |-> None]
NoRequest == [pc |-> "done", provision |-> None, file |-> None, spec |-> None,
              template |-> None, read |-> [kind \in Kinds |-> 0],
              merged |-> [kind \in Kinds |-> Empty], answer |-> "none", text |-> Empty]

Init ==
    /\ provision \in [Provisions -> {<<s>> : s \in Specs \cup {Absent}}]
    /\ seen = [n \in Provisions |-> 1]
    /\ automation \in [Automations -> FileMaps \cup {Absent}]
    /\ data \in [Kinds -> [Names -> Data \cup {Absent}]]
    /\ req = NoRequest
    /\ during = [provision |-> [n \in Provisions |-> {}],
                 automation |-> [a \in Automations |-> {}],
                 data |-> [kind \in Kinds |-> [o \in Names |-> {}]]]
    /\ edits = 0 /\ faults = 0

Cached(n) == provision[n][seen[n]]
Latest(n) == provision[n][Len(provision[n])]

objectVars == <<provision, seen, automation, data>>

\* What a step of the handler leaves alone.
Handling(step) == req.pc = step /\ UNCHANGED <<objectVars, during, edits>>

Answer(a) == req' = [req EXCEPT !.pc = "done", !.answer = a]
NotFound == Answer("not found") /\ UNCHANGED faults
InternalError == Answer("internal error")

\* automationFileHandler refuses malformed names before it reads anything.
Arrive(n, f) ==
    /\ req.pc = "done"
    /\ req' = [NoRequest EXCEPT !.pc = IF n \in BadNames THEN "done" ELSE "provision",
                                !.provision = n, !.file = f,
                                !.answer = IF n \in BadNames THEN "bad request" ELSE "none"]
    /\ during' = [provision |-> [p \in Provisions |->
                                    {provision[p][i] : i \in seen[p]..Len(provision[p])}],
                  automation |-> [a \in Automations |-> {automation[a]}],
                  data |-> [kind \in Kinds |-> [o \in Names |-> {data[kind][o]}]]]
    /\ UNCHANGED <<objectVars, edits, faults>>

\* Variant: NotFound is not told from success and the empty Provision goes on.
GetProvisionUnchecked ==
    /\ Handling("provision") /\ UNCHANGED faults
    /\ req' = [req EXCEPT !.pc = "automation", !.spec = Cached(req.provision)]

\* The Provision comes from the cache.
GetProvision ==
    /\ Handling("provision")
    /\ LET s == Cached(req.provision)
       IN  \/ s = Absent /\ NotFound
           \/ s # Absent /\ req' = [req EXCEPT !.pc = "automation", !.spec = s] /\ UNCHANGED faults

\* A live Get that fails with anything but NotFound.
Failing == /\ req.pc \in {"automation", "data"} /\ Handling(req.pc)
           /\ faults < MaxFaults /\ faults' = faults + 1

\* Variant: every failing Get is taken for NotFound.
GetFailsNotFound == Failing /\ Answer("not found")

GetFails == Failing /\ InternalError

GetAutomation ==
    /\ Handling("automation")
    /\ LET files == automation[req.spec.automation]
       IN  \/ files = Absent /\ NotFound
           \/ files # Absent /\ req.file \notin DOMAIN files /\ NotFound
           \/ /\ files # Absent /\ req.file \in DOMAIN files
              /\ req' = [req EXCEPT !.pc = "data", !.template = files[req.file]]
              /\ UNCHANGED faults

AllRead(kind) == req.read[kind] = Len(req.spec.names[kind])

\* Variant: the first object that has a key keeps it.
CopyMissing(dst, src) ==
    [k \in DOMAIN dst \cup DOMAIN src |-> IF k \in DOMAIN dst THEN dst[k] ELSE src[k]]

\* maps.Copy: the entries of src replace those of dst.
Copy(dst, src) ==
    [k \in DOMAIN dst \cup DOMAIN src |-> IF k \in DOMAIN src THEN src[k] ELSE dst[k]]

\* One step of a loop of buildTemplateData: ConfigMaps first, then Secrets,
\* each in the order of the Provision. A missing one is answered like a
\* missing Provision.
GetData(kind) ==
    /\ Handling("data")
    /\ ~AllRead(kind)
    /\ kind = "Secrets" => AllRead("ConfigMaps")
    /\ LET next == req.read[kind] + 1
           d == data[kind][req.spec.names[kind][next]]
       IN  \/ d = Absent /\ NotFound
           \/ /\ d # Absent
              /\ req' = [req EXCEPT !.read[kind] = next, !.merged[kind] = Copy(@, d)]
              /\ UNCHANGED faults

Rendering == Handling("data") /\ (\A kind \in Kinds : AllRead(kind)) /\ UNCHANGED faults

\* Variant: a template may name a key that does not exist.
RenderLenient ==
    /\ Rendering
    /\ \/ ~req.template.parses /\ InternalError
       \/ /\ req.template.parses
          /\ req' = [req EXCEPT !.pc = "done", !.answer = "ok",
                                !.text = [r \in req.template.refs |-> None]]

\* Parse and Execute with missingkey=error. Only now is a malformed template
\* noticed.
Render ==
    /\ Rendering
    /\ LET missing(r) == r.key \notin DOMAIN req.merged[r.kind]
           fails == \/ ~req.template.parses
                    \/ \E r \in req.template.refs : r.strict /\ missing(r)
       IN  \/ fails /\ InternalError
           \/ /\ ~fails
              /\ req' = [req EXCEPT !.pc = "done", !.answer = "ok",
                    !.text = [r \in req.template.refs |->
                                IF missing(r) THEN None ELSE req.merged[r.kind][r.key]]]

Handler == GetProvision \/ GetAutomation \/ (\E kind \in Kinds : GetData(kind)) \/ Render

-----------------------------------------------------------------------------
(* Users, and the informer of httpd (external) *)

Change == edits < MaxEdits /\ edits' = edits + 1 /\ UNCHANGED <<seen, req, faults>>

SubmitProvision(n, s) ==
    /\ Change
    /\ s # Latest(n)
    /\ provision' = [provision EXCEPT ![n] = Append(@, s)]
    /\ during' = [during EXCEPT !.provision[n] = @ \cup {s}]
    /\ UNCHANGED <<automation, data>>

SubmitAutomation(a, files) ==
    /\ Change
    /\ files # automation[a]
    /\ automation' = [automation EXCEPT ![a] = files]
    /\ during' = [during EXCEPT !.automation[a] = @ \cup {files}]
    /\ UNCHANGED <<provision, data>>

SubmitData(kind, o, d) ==
    /\ Change
    /\ d # data[kind][o]
    /\ data' = [data EXCEPT ![kind][o] = d]
    /\ during' = [during EXCEPT !.data[kind][o] = @ \cup {d}]
    /\ UNCHANGED <<provision, automation>>

Deliver(n) ==
    /\ seen[n] < Len(provision[n])
    /\ seen' = [seen EXCEPT ![n] = @ + 1]
    /\ UNCHANGED <<provision, automation, data, req, during, edits, faults>>

Next ==
    \/ \E n \in Provisions \cup BadNames, f \in Files : Arrive(n, f)
    \/ Handler \/ GetFails
    \/ \E n \in Provisions : Deliver(n) \/ \E s \in Specs \cup {Absent} : SubmitProvision(n, s)
    \/ \E a \in Automations, files \in FileMaps \cup {Absent} : SubmitAutomation(a, files)
    \/ \E kind \in Kinds, o \in Names, d \in Data \cup {Absent} : SubmitData(kind, o, d)

Spec == Init /\ [][Next]_vars

-----------------------------------------------------------------------------
(* Properties *)

TypeOK ==
    /\ \A n \in Provisions :
            provision[n] \in Seq(Specs \cup {Absent}) /\ seen[n] \in DOMAIN provision[n]
    /\ automation \in [Automations -> FileMaps \cup {Absent}]
    /\ data \in [Kinds -> [Names -> Data \cup {Absent}]]
    /\ req.pc \in {"done", "provision", "automation", "data"}
    /\ req.provision \in Provisions \cup BadNames \cup {None} /\ req.file \in Files \cup {None}
    /\ req.spec \in Specs \cup {None} /\ req.template \in Template \cup {None}
    /\ req.read \in [Kinds -> Nat] /\ req.merged \in [Kinds -> Data]
    /\ req.answer \in {"none", "ok", "bad request", "not found", "internal error"}
    /\ edits \in 0..MaxEdits /\ faults \in 0..MaxFaults

\* At some moment of the request the object had the key with this value; at
\* some moment it existed without the key.
MayHave(kind, o, key, value) ==
    \E d \in during.data[kind][o] \ {Absent} : key \in DOMAIN d /\ d[key] = value
MayLack(kind, o, key) == \E d \in during.data[kind][o] \ {Absent} : key \notin DOMAIN d

\* What the first n objects of a kind explain: the value of the last one that
\* has the key, or that none has it (None).
Explained(kind, n, key, value) ==
    LET names == req.spec.names[kind]
    IN  IF value = None THEN \A i \in 1..n : MayLack(kind, names[i], key)
        ELSE \E i \in 1..n :
                /\ MayHave(kind, names[i], key, value)
                /\ \A j \in i+1..n : MayLack(kind, names[j], key)

Supplied(r, value) == Explained(r.kind, Len(req.spec.names[r.kind]), r.key, value)

\* Every value in a rendered file is that of the last ConfigMap, or the last
\* Secret, named by the Provision that had the key while the request was
\* handled: never one of the other kind, one that an object named later
\* overrides, or one from before the request (buildTemplateData, its two
\* loops and maps.Copy).
LastWins == req.answer = "ok" => \A r \in DOMAIN req.text : Supplied(r, req.text[r])

\* A client is told that something is missing only if an object, or the file,
\* was missing at some moment of the request, the Provision as httpd could
\* know it (IsAutomationNotFound and the order of the reads).
NotFoundJustified ==
    req.answer = "not found" =>
        \/ Absent \in during.provision[req.provision]
        \/ \E s \in during.provision[req.provision] \ {Absent} :
            \/ Absent \in during.automation[s.automation]
            \/ \E files \in during.automation[s.automation] : req.file \notin DOMAIN files
            \/ \E kind \in Kinds : \E i \in DOMAIN s.names[kind] :
                    Absent \in during.data[kind][s.names[kind][i]]

\* A file whose template names a key that nothing provides is never sent:
\* the answer is 500 (missingkey=error), and without a failing API call 500
\* means that, or a template that does not parse.
StrictKeys ==
    /\ req.answer = "ok" => \A r \in DOMAIN req.text : r.strict => req.text[r] # None
    /\ req.answer = "internal error" /\ faults = 0 =>
            \/ ~req.template.parses
            \/ \E r \in req.template.refs : r.strict /\ Supplied(r, None)
=============================================================================
