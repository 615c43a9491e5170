------------------------- MODULE ProvisioningProofs -------------------------
(***************************************************************************)
(* Theorems about Provisioning, for any managed applications, requests,    *)
(* credentials and APIs and any number of failures, crashes and rotations. *)
(*                                                                         *)
(* TypeOK is strengthened by JobOK (what a handler works on at each of its *)
(* calls) and by CredentialOK (a credential that has a secret has an       *)
(* application).  The property about access needs, beyond that, who owns   *)
(* what (Ownership) and what a handler may rely on (Claims, JobAhead).     *)
(***************************************************************************)
EXTENDS Provisioning, TLAPS

AccessCalls == {"createApp", "writeBack", "tiers", "createTier", "contract"}
RemovalCalls == {"revoke", "deleteContract"}
SecretCalls == {"getSecret", "getApp", "reset"}

JobOK ==
    /\ job = NoJob \/ (job.on \in Subjects /\ job.pc # "idle")
    /\ job.pc \in AccessCalls \cup RemovalCalls => job.on \in Requests
    /\ job.pc = "deleteApp" => job.on \in ManagedApps
    /\ job.pc \in SecretCalls => job.on \in Credentials
    /\ job.pc \in (AccessCalls \ {"createApp"}) \cup SecretCalls \cup {"deleteApp"} =>
         job.app # 0
    /\ job.pc \in RemovalCalls => request[job.on].contract # 0
    /\ job.pc = "report" =>
         /\ job # NoJob
         /\ job.outcome # "none"
         /\ job.on \in Requests /\ job.outcome = "ready" => job.result \in 1..Len(contracts)
         /\ job.on \in Credentials => job.outcome \in {"ready", "failed"}

CredentialOK ==
    \A c \in Credentials : credential[c].state \in {"ready", "rotating"} =>
        managed[AppOf[c]].app # 0

CredentialJob ==
    job.on \in Credentials /\ (job.pc \in SecretCalls \/ job.outcome = "ready") =>
        managed[AppOf[job.on]].app # 0

TypeInv == TypeOK /\ JobOK /\ CredentialOK /\ CredentialJob

(* One tier: what GetSLATiers did not find is not there yet.               *)
NoTierYet == job.pc = "createTier" => tiers[ApiOf[job.on]] = 0
TierInv == OneTier /\ NoTierYet

(* Recorded applications and contracts belong to one resource each, and a  *)
(* managed application that is pending has nothing yet.                    *)
RecordedApps ==
    \A m \in ManagedApps : managed[m].app # 0 => apps[managed[m].app].owner = m
OwnContracts ==
    \A r, s \in Requests :
        request[r].contract # 0 /\ request[r].contract = request[s].contract => r = s
PendingApps ==
    /\ \A m \in ManagedApps : managed[m].state = "pending" => managed[m].app = 0
    /\ \A r \in Requests : managed[AppOf[r]].state = "pending" => request[r].state = "none"

(* What a handler holds, and the state its resource is in while it runs.   *)
HeldByJob ==
    /\ job.pc = "writeBack" => apps[job.app].owner = AppOf[job.on]
    /\ job.pc = "deleteApp" => job.app = managed[job.on].app
    /\ job.pc = "report" /\ job.on \in Requests /\ job.outcome = "ready" =>
         \A r \in Requests : request[r].contract # job.result
StateOfJob ==
    /\ job.pc \in AccessCalls => request[job.on].state = "pending"
    /\ job.pc \in RemovalCalls => request[job.on].state = "removing"
    /\ job.pc = "deleteApp" => managed[job.on].state = "removing"
    /\ job.pc = "report" /\ job.on \in ManagedApps /\ job.outcome = "ready" =>
         managed[job.on].state = "pending"
    /\ job.pc = "report" /\ job.on \in Requests =>
         request[job.on].state \in {"pending", "removing"}

Ownership == RecordedApps /\ OwnContracts /\ PendingApps
Claims == HeldByJob /\ StateOfJob

(* As long as no call has failed: how far an access request has got.       *)
Granted(r, c) ==
    c # 0 /\ contracts[c] = [app |-> managed[AppOf[r]].app, api |-> ApiOf[r],
                             state |-> "active"]

JobAhead ==
    /\ job.pc \in {"createApp", "writeBack"} => managed[AppOf[job.on]].app = 0
    /\ job.pc \in {"tiers", "createTier", "contract"} =>
         job.app = managed[AppOf[job.on]].app
    /\ job.pc = "report" /\ job.on \in Requests /\ job.outcome = "ready" =>
         Granted(job.on, job.result)

AllGranted ==
    \A r \in Requests :
        request[r].state = "ready" /\ managed[AppOf[r]].state = "ready" =>
            Granted(r, request[r].contract)

AccessInv == Ownership /\ Claims /\ (faults = 0 => JobAhead /\ AllGranted)
-----------------------------------------------------------------------------
(* The effect of each kind of update on the fields of the state.           *)

LEMMA ManagedState ==
    ASSUME Typed, NEW m \in ManagedApps, NEW v \in States,
           managed' = [managed EXCEPT ![m].state = v]
    PROVE  /\ managed' \in [ManagedApps -> Managed]
           /\ managed'[m].state = v
           /\ \A n \in ManagedApps \ {m} : managed'[n].state = managed[n].state
           /\ \A n \in ManagedApps : managed'[n].app = managed[n].app
  BY DEF Typed, Managed

LEMMA ManagedApp ==
    ASSUME Typed, NEW m \in ManagedApps, NEW v \in Nat,
           managed' = [managed EXCEPT ![m].app = v]
    PROVE  /\ managed' \in [ManagedApps -> Managed]
           /\ managed'[m].app = v
           /\ \A n \in ManagedApps \ {m} : managed'[n].app = managed[n].app
           /\ \A n \in ManagedApps : managed'[n].state = managed[n].state
  BY DEF Typed, Managed

LEMMA RequestState ==
    ASSUME Typed, NEW r \in Requests, NEW v \in States,
           request' = [request EXCEPT ![r].state = v]
    PROVE  /\ request' \in [Requests -> Request]
           /\ request'[r].state = v
           /\ \A s \in Requests \ {r} : request'[s].state = request[s].state
           /\ \A s \in Requests : request'[s].contract = request[s].contract
  BY DEF Typed, Request

LEMMA CredentialState ==
    ASSUME Typed, NEW c \in Credentials, NEW v \in {"pending", "ready", "failed", "rotating"},
           credential' = [credential EXCEPT ![c].state = v]
    PROVE  /\ credential' \in [Credentials -> Credential]
           /\ credential'[c].state = v
           /\ \A d \in Credentials \ {c} : credential'[d].state = credential[d].state
  BY DEF Typed, Credential

LEMMA CredentialReport ==
    ASSUME Typed, NEW c \in Credentials, NEW v \in {"ready", "failed"}, NEW k \in Nat,
           credential' = [credential EXCEPT ![c].state = v, ![c].secret = k]
    PROVE  /\ credential' \in [Credentials -> Credential]
           /\ credential'[c].state = v
           /\ \A d \in Credentials \ {c} : credential'[d].state = credential[d].state
  BY DEF Typed, Credential

LEMMA ContinueJob ==
    ASSUME Typed, NEW pc \in {"writeBack", "tiers", "createTier", "contract",
                              "deleteContract", "reset"}, Continue(pc)
    PROVE  /\ job' \in Job
           /\ job'.pc = pc /\ job'.on = job.on /\ job'.app = job.app
           /\ job'.outcome = job.outcome
  BY DEF Typed, Job, Continue

LEMMA SucceedJob ==
    ASSUME Typed, NEW outcome \in {"ready", "failed", "gone"}, NEW result \in Nat,
           Succeed(outcome, result)
    PROVE  /\ job' \in Job
           /\ job'.pc = "report" /\ job'.on = job.on /\ job'.app = job.app
           /\ job'.outcome = outcome /\ job'.result = result
  BY DEF Typed, Job, Succeed

LEMMA StartJob ==
    ASSUME Typed, NEW on \in Subjects, NEW app \in Nat,
           NEW pc \in {"createApp", "tiers", "contract", "revoke", "deleteApp",
                       "getSecret", "getApp"},
           Start(on, pc, app)
    PROVE  /\ job' \in Job
           /\ job = NoJob /\ job'.pc = pc /\ job'.on = on /\ job'.app = app
           /\ job'.outcome = "none"
  BY DEF Typed, Job, Start

LEMMA AnswerJob ==
    ASSUME Typed, NEW on \in Subjects, NEW outcome \in {"ready", "failed", "gone"},
           Answer(on, outcome)
    PROVE  /\ job' \in Job
           /\ job = NoJob /\ job'.pc = "report" /\ job'.on = on /\ job'.app = 0
           /\ job'.outcome = outcome /\ job'.result = 0
  BY DEF Typed, Job, Answer

LEMMA MadeAppJob ==
    ASSUME Typed, NEW n \in Nat, job' = [job EXCEPT !.pc = "writeBack", !.app = n]
    PROVE  /\ job' \in Job
           /\ job'.pc = "writeBack" /\ job'.on = job.on /\ job'.app = n
           /\ job'.outcome = job.outcome
  BY DEF Typed, Job

LEMMA NoJobType == NoJob \in Job /\ NoJob.pc = "idle" /\ NoJob.on = Nobody /\ NoJob.app = 0
                   /\ NoJob.outcome = "none"
  BY DEF NoJob, Job

(* Sequences of Anypoint grow at the end and keep their length otherwise.  *)
LEMMA AppendFacts ==
    ASSUME NEW S, NEW s \in Seq(S), NEW e \in S
    PROVE  /\ Append(s, e) \in Seq(S)
           /\ Len(Append(s, e)) = Len(s) + 1
           /\ DOMAIN Append(s, e) = 1..Len(s) + 1
           /\ \A i \in 1..Len(s) : Append(s, e)[i] = s[i]
           /\ Append(s, e)[Len(s) + 1] = e
  OBVIOUS

LEMMA ExceptFacts ==
    ASSUME NEW S, NEW s \in Seq(S), NEW i \in 1..Len(s), NEW e \in S
    PROVE  /\ [s EXCEPT ![i] = e] \in Seq(S)
           /\ Len([s EXCEPT ![i] = e]) = Len(s)
           /\ DOMAIN [s EXCEPT ![i] = e] = DOMAIN s
           /\ [s EXCEPT ![i] = e][i] = e
           /\ \A j \in DOMAIN s \ {i} : [s EXCEPT ![i] = e][j] = s[j]
  OBVIOUS

LEMMA AppMade ==
    ASSUME Typed, NEW m \in ManagedApps,
           apps' = Append(apps, [owner |-> m, alive |-> TRUE, secret |-> 1])
    PROVE  /\ apps' \in Seq(Application)
           /\ Len(apps') = Len(apps) + 1
           /\ DOMAIN apps' = 1..Len(apps) + 1
           /\ \A i \in DOMAIN apps : apps'[i] = apps[i]
           /\ apps'[Len(apps) + 1].owner = m
<1> DEFINE a == [owner |-> m, alive |-> TRUE, secret |-> 1]
<1>1. a \in Application /\ a.owner = m
  BY DEF Application
<1>2. apps \in Seq(Application) /\ apps' = Append(apps, a)
  BY DEF Typed
<1> HIDE DEF a
<1> QED
  BY <1>1, <1>2, AppendFacts

LEMMA SecretReset ==
    ASSUME Typed, NEW i \in DOMAIN apps, apps' = [apps EXCEPT ![i].secret = @ + 1]
    PROVE  /\ apps' \in Seq(Application)
           /\ Len(apps') = Len(apps)
           /\ DOMAIN apps' = DOMAIN apps
           /\ \A j \in DOMAIN apps : apps'[j].owner = apps[j].owner
           /\ apps'[i].secret \in Nat
<1> DEFINE k == apps[i].secret + 1
           a == [apps[i] EXCEPT !.secret = k]
<1>0. apps \in Seq(Application) /\ apps[i] \in Application
  BY DEF Typed
<1>2. apps' = [apps EXCEPT ![i] = a]
  OBVIOUS
<1>3. k \in Nat
  BY <1>0 DEF Application
<1> HIDE DEF k
<1>1. a \in Application /\ a.owner = apps[i].owner /\ a.secret \in Nat
  BY <1>0, <1>3 DEF Application
<1> HIDE DEF a
<1> QED
  BY <1>0, <1>1, <1>2, ExceptFacts

LEMMA ContractMade ==
    ASSUME Typed, NEW c \in Contract, contracts' = Append(contracts, c)
    PROVE  /\ contracts' \in Seq(Contract)
           /\ Len(contracts') = Len(contracts) + 1
           /\ DOMAIN contracts' = 1..Len(contracts) + 1
           /\ \A i \in DOMAIN contracts : contracts'[i] = contracts[i]
           /\ contracts'[Len(contracts) + 1] = c
<1>1. contracts \in Seq(Contract)
  BY DEF Typed
<1> QED
  BY <1>1, AppendFacts

LEMMA ContractStateFacts ==
    ASSUME Typed, NEW i \in DOMAIN contracts, NEW v \in {"revoked", "deleted"},
           contracts' = [contracts EXCEPT ![i].state = v]
    PROVE  /\ contracts' \in Seq(Contract)
           /\ Len(contracts') = Len(contracts)
           /\ DOMAIN contracts' = DOMAIN contracts
           /\ \A j \in DOMAIN contracts \ {i} : contracts'[j] = contracts[j]
           /\ contracts'[i].app = contracts[i].app /\ contracts'[i].state = v
<1> DEFINE c == [contracts[i] EXCEPT !.state = v]
<1>0. contracts \in Seq(Contract) /\ contracts[i] \in Contract
  BY DEF Typed
<1>1. c \in Contract /\ c.app = contracts[i].app /\ c.state = v
  BY <1>0 DEF Contract
<1>2. contracts' = [contracts EXCEPT ![i] = c]
  OBVIOUS
<1> HIDE DEF c
<1> QED
  BY <1>0, <1>1, <1>2, ExceptFacts

LEMMA AppDeletedFacts ==
    ASSUME Typed, job.app \in DOMAIN apps, AppDeleted
    PROVE  /\ apps' \in Seq(Application) /\ contracts' \in Seq(Contract)
           /\ Len(apps') = Len(apps) /\ Len(contracts') = Len(contracts)
           /\ DOMAIN apps' = DOMAIN apps /\ DOMAIN contracts' = DOMAIN contracts
           /\ \A j \in DOMAIN apps : apps'[j].owner = apps[j].owner
           /\ \A j \in DOMAIN contracts :
                /\ contracts'[j].app = contracts[j].app
                /\ IF contracts[j].app = job.app THEN contracts'[j].state = "deleted"
                   ELSE contracts'[j] = contracts[j]
<1> DEFINE a == [apps[job.app] EXCEPT !.alive = FALSE]
<1>0. apps \in Seq(Application) /\ apps[job.app] \in Application
  BY DEF Typed
<1>1. a \in Application /\ a.owner = apps[job.app].owner
  BY <1>0 DEF Application
<1>2. apps' = [apps EXCEPT ![job.app] = a]
  BY DEF AppDeleted
<1> HIDE DEF a
<1>3. /\ apps' \in Seq(Application) /\ Len(apps') = Len(apps) /\ DOMAIN apps' = DOMAIN apps
      /\ \A j \in DOMAIN apps : apps'[j].owner = apps[j].owner
  BY <1>0, <1>1, <1>2, ExceptFacts
<1>4. contracts \in Seq(Contract) /\ DOMAIN contracts = 1..Len(contracts)
  BY DEF Typed
<1>5. ASSUME NEW j \in DOMAIN contracts
      PROVE  /\ contracts'[j] \in Contract
             /\ contracts'[j].app = contracts[j].app
             /\ IF contracts[j].app = job.app THEN contracts'[j].state = "deleted"
                ELSE contracts'[j] = contracts[j]
  <2>1. contracts[j] \in Contract
    BY <1>4
  <2>2. CASE contracts[j].app = job.app
    <3>1. contracts'[j] = [contracts[j] EXCEPT !.state = "deleted"]
      BY <2>2 DEF AppDeleted
    <3> QED
      BY <2>1, <2>2, <3>1 DEF Contract
  <2>3. CASE contracts[j].app # job.app
    <3>1. contracts'[j] = contracts[j]
      BY <2>3 DEF AppDeleted
    <3> QED
      BY <2>1, <2>3, <3>1
  <2> QED
    BY <2>2, <2>3
<1>6. contracts' \in Seq(Contract) /\ Len(contracts') = Len(contracts)
      /\ DOMAIN contracts' = DOMAIN contracts
  BY <1>4, <1>5 DEF AppDeleted
<1> QED
  BY <1>3, <1>5, <1>6
-----------------------------------------------------------------------------
(* What the type invariant says of single fields.                          *)

LEMMA Fields ==
    ASSUME Typed
    PROVE  /\ \A m \in ManagedApps : managed[m].state \in States /\ managed[m].app \in Nat
           /\ \A r \in Requests : /\ request[r].state \in States \cup {"none"}
                                  /\ request[r].contract \in Nat
           /\ \A c \in Credentials :
                credential[c].state \in {"none", "pending", "ready", "failed", "rotating"}
           /\ job.on \in Subjects \cup {Nobody}
           /\ job.app \in Nat /\ job.result \in Nat
           /\ job.outcome \in {"none", "ready", "failed", "gone"}
           /\ Len(apps) \in Nat /\ DOMAIN apps = 1..Len(apps)
           /\ Len(contracts) \in Nat /\ DOMAIN contracts = 1..Len(contracts)
           /\ \A i \in DOMAIN apps : apps[i] \in Application /\ apps[i].secret \in Nat
           /\ \A i \in DOMAIN contracts : contracts[i] \in Contract
                                          /\ contracts[i].app \in Nat
<1>1. /\ \A m \in ManagedApps : managed[m] \in Managed
      /\ \A r \in Requests : request[r] \in Request
      /\ \A c \in Credentials : credential[c] \in Credential
      /\ job \in Job
      /\ apps \in Seq(Application) /\ contracts \in Seq(Contract)
  BY DEF Typed
<1>2. /\ \A i \in DOMAIN apps : apps[i] \in Application
      /\ \A i \in DOMAIN contracts : contracts[i] \in Contract
      /\ Len(apps) \in Nat /\ DOMAIN apps = 1..Len(apps)
      /\ Len(contracts) \in Nat /\ DOMAIN contracts = 1..Len(contracts)
  BY <1>1
<1>3. /\ \A m \in ManagedApps : managed[m].state \in States /\ managed[m].app \in Nat
      /\ \A r \in Requests : /\ request[r].state \in States \cup {"none"}
                             /\ request[r].contract \in Nat
  BY <1>1 DEF Managed, Request
<1>4. \A c \in Credentials :
        credential[c].state \in {"none", "pending", "ready", "failed", "rotating"}
  BY <1>1 DEF Credential
<1>5. /\ \A i \in DOMAIN apps : apps[i].secret \in Nat
      /\ \A i \in DOMAIN contracts : contracts[i].app \in Nat
  BY <1>2 DEF Application, Contract
<1>6. /\ job.on \in Subjects \cup {Nobody}
      /\ job.app \in Nat /\ job.result \in Nat
      /\ job.outcome \in {"none", "ready", "failed", "gone"}
  BY <1>1 DEF Job
<1> QED
  BY <1>2, <1>3, <1>4, <1>5, <1>6

LEMMA FaultsCounted ==
    ASSUME ProvisioningAssumption, Typed, NEW call, Fails(call) \/ UNCHANGED faults
    PROVE  faults' \in 0..MaxFaults
  BY DEF ProvisioningAssumption, Typed, Fails

LEMMA AppOfSubject ==
    ASSUME ProvisioningAssumption, NEW x \in Requests \cup Credentials
    PROVE  AppOf[x] \in ManagedApps
  BY DEF ProvisioningAssumption

(* A step that changes nothing in Central and takes no ID away in Anypoint *)
(* keeps the invariant if it leaves a good job behind.                     *)
LEMMA CallStep ==
    ASSUME ProvisioningAssumption, TypeInv, UNCHANGED central,
           apps' \in Seq(Application), contracts' \in Seq(Contract),
           tiers' \in [Apis -> Nat],
           Len(apps') >= Len(apps), Len(contracts') >= Len(contracts),
           \A i \in DOMAIN contracts' : contracts'[i].app \in DOMAIN apps',
           faults' \in 0..MaxFaults, crashes' \in 0..MaxCrashes,
           rotations' \in 0..MaxRotations,
           job' \in Job, job'.app <= Len(apps'), JobOK', CredentialJob'
    PROVE  TypeInv'
<1>1. Typed'
  BY DEF TypeInv, TypeOK, Typed, central
<1>2. /\ Len(apps') \in Nat /\ Len(contracts') \in Nat
      /\ Len(apps) \in Nat /\ Len(contracts) \in Nat
      /\ \A m \in ManagedApps : managed[m].app \in Nat
      /\ \A r \in Requests : request[r].contract \in Nat
  BY Fields DEF TypeInv, TypeOK
<1>3. IdsKnown'
  BY <1>2 DEF TypeInv, TypeOK, IdsKnown, central
<1>4. CredentialOK'
  BY DEF TypeInv, CredentialOK, central
<1> QED
  BY <1>1, <1>3, <1>4 DEF TypeInv, TypeOK

(* The same for the common case that Anypoint does not change at all.      *)
LEMMA HandlerStep ==
    ASSUME ProvisioningAssumption, TypeInv, UNCHANGED <<central, anypoint>>,
           faults' \in 0..MaxFaults, crashes' \in 0..MaxCrashes, UNCHANGED rotations,
           job' \in Job, job'.app <= Len(apps), JobOK', CredentialJob'
    PROVE  TypeInv'
<1>1. /\ apps' = apps /\ contracts' = contracts /\ tiers' = tiers
      /\ UNCHANGED central
  BY DEF central, anypoint
<1>2. /\ apps' \in Seq(Application) /\ contracts' \in Seq(Contract)
      /\ tiers' \in [Apis -> Nat] /\ rotations' \in 0..MaxRotations
      /\ \A i \in DOMAIN contracts' : contracts'[i].app \in DOMAIN apps'
  BY <1>1 DEF TypeInv, TypeOK, Typed, IdsKnown
<1>3. Len(apps') >= Len(apps) /\ Len(contracts') >= Len(contracts)
  BY <1>1, Fields DEF TypeInv, TypeOK
<1> QED
  BY <1>1, <1>2, <1>3, CallStep
-----------------------------------------------------------------------------
(* The type invariant is kept: by consumers, by handlers that start, by    *)
(* the calls, and by what ends a handler.                                  *)

LEMMA UserKeepsType ==
    ASSUME ProvisioningAssumption, SubjectsAssumption, TypeInv, User
    PROVE  TypeInv'
<1> USE DEF TypeInv, TypeOK
<1>1. UNCHANGED <<apps, contracts, tiers, job>> /\ UNCHANGED <<faults, crashes>>
      /\ rotations' \in 0..MaxRotations
  BY DEF User, AskAccess, AskCredential, Rotate, RemoveAccess, RemoveApp, anypoint, budgets,
         Typed, ProvisioningAssumption
<1>2. /\ managed' \in [ManagedApps -> Managed]
      /\ \A m \in ManagedApps : managed'[m].app = managed[m].app
  <2>1. CASE UNCHANGED managed
    BY <2>1 DEF Typed
  <2>2. CASE \E m \in ManagedApps : RemoveApp(m)
    BY <2>2, ManagedState DEF RemoveApp, States
  <2> QED
    BY <2>1, <2>2 DEF User, AskAccess, AskCredential, Rotate, RemoveAccess
<1>3. /\ request' \in [Requests -> Request]
      /\ \A r \in Requests : request'[r].contract = request[r].contract
  <2>1. CASE UNCHANGED request
    BY <2>1 DEF Typed
  <2>2. CASE \E r \in Requests : AskAccess(r) \/ RemoveAccess(r)
    BY <2>2, RequestState DEF AskAccess, RemoveAccess, States
  <2> QED
    BY <2>1, <2>2 DEF User, AskCredential, Rotate, RemoveApp
<1>4. /\ credential' \in [Credentials -> Credential]
      /\ \A c \in Credentials : credential'[c].state \in {"ready", "rotating"} =>
             credential[c].state \in {"ready", "rotating"}
  <2>1. CASE UNCHANGED credential
    BY <2>1 DEF Typed
  <2>2. CASE \E c \in Credentials : AskCredential(c) \/ Rotate(c)
    <3>1. PICK c \in Credentials : AskCredential(c) \/ Rotate(c)
      BY <2>2
    <3>2. CASE AskCredential(c)
      BY <3>2, CredentialState DEF AskCredential
    <3>3. CASE Rotate(c)
      BY <3>3, CredentialState DEF Rotate
    <3> QED
      BY <3>1, <3>2, <3>3
  <2> QED
    BY <2>1, <2>2 DEF User, AskAccess, RemoveAccess, RemoveApp
<1>5. Typed'
  BY <1>1, <1>2, <1>3, <1>4 DEF Typed
<1>6. IdsKnown'
  BY <1>1, <1>2, <1>3 DEF IdsKnown
<1>7. JobOK'
  BY <1>1, <1>3 DEF JobOK, RemovalCalls, AccessCalls
<1>8. CredentialOK' /\ CredentialJob'
  BY <1>1, <1>2, <1>4, AppOfSubject DEF CredentialOK, CredentialJob
<1> QED
  BY <1>5, <1>6, <1>7, <1>8

LEMMA HandleKeepsType ==
    ASSUME ProvisioningAssumption, SubjectsAssumption, TypeInv,
           NEW x \in Subjects, Handle(x)
    PROVE  TypeInv'
<1> USE DEF TypeInv, TypeOK
<1>1. UNCHANGED <<central, anypoint>> /\ UNCHANGED rotations
      /\ faults' \in 0..MaxFaults /\ crashes' \in 0..MaxCrashes
  BY DEF Handle, ApplicationRequestProvision, ApplicationRequestDeprovision,
         AccessRequestProvision, AccessRequestDeprovision, CredentialProvision,
         CredentialUpdate, budgets, Typed
<1>2. \A m \in ManagedApps : managed[m].app \in Nat /\ managed[m].app <= Len(apps)
  BY Fields DEF IdsKnown
<1>3. UNCHANGED request /\ UNCHANGED contracts /\ UNCHANGED managed
  BY <1>1 DEF central, anypoint
<1>4. Len(apps) \in Nat
  BY Fields
<1>5. CASE x \in ManagedApps /\ ApplicationRequestProvision(x)
  <2>1. job' \in Job /\ job'.pc = "report" /\ job'.on = x /\ job'.app = 0
        /\ job'.outcome = "ready"
    BY <1>5, AnswerJob DEF ApplicationRequestProvision
  <2>2. JobOK' /\ CredentialJob'
    BY <1>5, <2>1, NoJobType, SubjectsAssumption
       DEF JobOK, CredentialJob, AccessCalls, RemovalCalls, SecretCalls, Subjects
  <2> QED
    BY <1>1, <1>4, <2>1, <2>2, HandlerStep
<1>6. CASE x \in ManagedApps /\ ApplicationRequestDeprovision(x)
  <2>1. CASE managed[x].app = 0
    <3>1. job' \in Job /\ job'.pc = "report" /\ job'.on = x /\ job'.app = 0
          /\ job'.outcome = "gone"
      BY <1>6, <2>1, AnswerJob DEF ApplicationRequestDeprovision
    <3>2. JobOK' /\ CredentialJob'
      BY <1>6, <3>1, NoJobType, SubjectsAssumption
         DEF JobOK, CredentialJob, AccessCalls, RemovalCalls, SecretCalls, Subjects
    <3> QED
      BY <1>1, <1>4, <3>1, <3>2, HandlerStep
  <2>2. CASE managed[x].app # 0
    <3>1. job' \in Job /\ job'.pc = "deleteApp" /\ job'.on = x
          /\ job'.app = managed[x].app /\ job'.outcome = "none"
      BY <1>2, <1>6, <2>2, StartJob DEF ApplicationRequestDeprovision
    <3>2. JobOK' /\ CredentialJob'
      BY <1>6, <2>2, <3>1, NoJobType, SubjectsAssumption
         DEF JobOK, CredentialJob, AccessCalls, RemovalCalls, SecretCalls, Subjects
    <3> QED
      BY <1>1, <1>2, <1>6, <3>1, <3>2, HandlerStep
  <2> QED
    BY <2>1, <2>2
<1>7. CASE x \in Requests /\ AccessRequestProvision(x)
  <2> DEFINE app == managed[AppOf[x]].app
  <2>1. app \in Nat /\ app <= Len(apps)
    BY <1>2, <1>7, AppOfSubject
  <2>2. /\ job' \in Job /\ job'.on = x /\ job'.app = app /\ job'.outcome = "none"
        /\ job'.pc \in {"createApp", "tiers", "contract"}
        /\ app = 0 => job'.pc = "createApp"
    <3>1. ToTier(x) \in {"tiers", "contract"}
      BY DEF ToTier
    <3>2. CASE app = 0
      BY <1>7, <2>1, <3>2, StartJob DEF AccessRequestProvision
    <3>3. CASE app # 0
      BY <1>7, <2>1, <3>1, <3>3, StartJob DEF AccessRequestProvision
    <3> QED
      BY <3>2, <3>3
  <2> HIDE DEF app
  <2>3. JobOK' /\ CredentialJob'
    BY <1>7, <2>2, NoJobType, SubjectsAssumption
       DEF JobOK, CredentialJob, AccessCalls, RemovalCalls, SecretCalls, Subjects
  <2> QED
    BY <1>1, <2>1, <2>2, <2>3, HandlerStep
<1>8. CASE x \in Requests /\ AccessRequestDeprovision(x)
  <2>1. CASE request[x].contract = 0
    <3>1. job' \in Job /\ job'.pc = "report" /\ job'.on = x /\ job'.app = 0
          /\ job'.outcome = "failed"
      BY <1>8, <2>1, AnswerJob DEF AccessRequestDeprovision
    <3>2. JobOK' /\ CredentialJob'
      BY <1>8, <3>1, NoJobType, SubjectsAssumption
         DEF JobOK, CredentialJob, AccessCalls, RemovalCalls, SecretCalls, Subjects
    <3> QED
      BY <1>1, <1>4, <3>1, <3>2, HandlerStep
  <2>2. CASE request[x].contract # 0
    <3>1. job' \in Job /\ job'.pc = "revoke" /\ job'.on = x /\ job'.app = 0
          /\ job'.outcome = "none"
      BY <1>8, <2>2, StartJob DEF AccessRequestDeprovision
    <3>2. JobOK' /\ CredentialJob'
      BY <1>3, <1>8, <2>2, <3>1, NoJobType, SubjectsAssumption
         DEF JobOK, CredentialJob, AccessCalls, RemovalCalls, SecretCalls, Subjects
    <3> QED
      BY <1>1, <1>4, <3>1, <3>2, HandlerStep
  <2> QED
    BY <2>1, <2>2
<1>9. CASE x \in Credentials /\ CredentialProvision(x)
  <2>0. AppOf[x] \in ManagedApps
    BY <1>9, AppOfSubject
  <2>1. CASE managed[AppOf[x]].app = 0
    <3>1. job' \in Job /\ job'.pc = "report" /\ job'.on = x /\ job'.app = 0
          /\ job'.outcome = "failed"
      BY <1>9, <2>1, AnswerJob DEF CredentialProvision
    <3>2. JobOK' /\ CredentialJob'
      BY <1>9, <3>1, NoJobType, SubjectsAssumption
         DEF JobOK, CredentialJob, AccessCalls, RemovalCalls, SecretCalls, Subjects
    <3> QED
      BY <1>1, <1>4, <3>1, <3>2, HandlerStep
  <2>2. CASE managed[AppOf[x]].app # 0
    <3>1. job' \in Job /\ job'.pc = "getSecret" /\ job'.on = x
          /\ job'.app = managed[AppOf[x]].app /\ job'.outcome = "none"
      BY <1>2, <1>9, <2>0, <2>2, StartJob DEF CredentialProvision
    <3>2. JobOK' /\ CredentialJob'
      BY <1>3, <1>9, <2>2, <3>1, NoJobType, SubjectsAssumption
         DEF JobOK, CredentialJob, AccessCalls, RemovalCalls, SecretCalls, Subjects
    <3> QED
      BY <1>1, <1>2, <2>0, <3>1, <3>2, HandlerStep
  <2> QED
    BY <2>1, <2>2
<1>10. CASE x \in Credentials /\ CredentialUpdate(x)
  <2>0. AppOf[x] \in ManagedApps
    BY <1>10, AppOfSubject
  <2>1. job' \in Job /\ job'.pc = "getApp" /\ job'.on = x
        /\ job'.app = managed[AppOf[x]].app /\ job'.outcome = "none"
    BY <1>2, <1>10, <2>0, StartJob DEF CredentialUpdate
  <2>2. managed[AppOf[x]].app # 0
    BY <1>10 DEF CredentialUpdate, CredentialOK
  <2>3. JobOK' /\ CredentialJob'
    BY <1>3, <1>10, <2>1, <2>2, NoJobType, SubjectsAssumption
       DEF JobOK, CredentialJob, AccessCalls, RemovalCalls, SecretCalls, Subjects
  <2> QED
    BY <1>1, <1>2, <2>0, <2>1, <2>3, HandlerStep
<1> QED
  BY <1>5, <1>6, <1>7, <1>8, <1>9, <1>10 DEF Handle

(* What a call may leave behind: a failed or finished handler, or one that *)
(* goes on to the next call of an access request.                          *)
LEMMA EndedJob ==
    ASSUME SubjectsAssumption, TypeInv, job.on \in Subjects,
           NEW outcome \in {"failed", "gone"}, outcome = "gone" => job.on \notin Credentials,
           Succeed(outcome, 0)
    PROVE  job' \in Job /\ job'.app = job.app /\ JobOK' /\ CredentialJob'
<1>1. job' \in Job /\ job'.pc = "report" /\ job'.on = job.on /\ job'.app = job.app
      /\ job'.outcome = outcome
  BY SucceedJob DEF TypeInv, TypeOK
<1> QED
  BY <1>1, NoJobType DEF JobOK, CredentialJob, AccessCalls, RemovalCalls, SecretCalls

LEMMA FailedJob ==
    ASSUME SubjectsAssumption, TypeInv, job.on \in Subjects, Fail
    PROVE  job' \in Job /\ job'.app = job.app /\ JobOK' /\ CredentialJob'
  BY EndedJob DEF Fail

LEMMA NextAccessCall ==
    ASSUME SubjectsAssumption, TypeInv, job.on \in Requests, job.app # 0,
           NEW pc \in {"tiers", "createTier", "contract"}, Continue(pc)
    PROVE  job' \in Job /\ job'.app = job.app /\ JobOK' /\ CredentialJob'
<1>1. job' \in Job /\ job'.pc = pc /\ job'.on = job.on /\ job'.app = job.app
  BY ContinueJob DEF TypeInv, TypeOK
<1> QED
  BY <1>1, NoJobType, SubjectsAssumption
     DEF JobOK, CredentialJob, AccessCalls, RemovalCalls, SecretCalls, Subjects

LEMMA CreateAppKeepsType ==
    ASSUME ProvisioningAssumption, SubjectsAssumption, TypeInv, CreateApp
    PROVE  TypeInv'
<1> USE DEF TypeInv, TypeOK
<1> DEFINE more == Append(apps, [owner |-> AppOf[job.on], alive |-> TRUE, secret |-> 1])
<1>1. job.on \in Requests /\ job.on \in Subjects /\ AppOf[job.on] \in ManagedApps
  BY AppOfSubject DEF CreateApp, JobOK, AccessCalls, Subjects
<1>2. /\ UNCHANGED <<central, contracts, tiers, crashes, rotations>>
      /\ faults' \in 0..MaxFaults
      /\ crashes' \in 0..MaxCrashes /\ rotations' \in 0..MaxRotations
      /\ contracts' \in Seq(Contract) /\ tiers' \in [Apis -> Nat]
  BY FaultsCounted DEF CreateApp, Typed
<1>3. /\ apps' \in {apps, more}
      /\ apps' \in Seq(Application) /\ Len(apps') >= Len(apps)
      /\ DOMAIN apps \subseteq DOMAIN apps'
  <2>1. apps' \in {apps, more}
    BY DEF CreateApp
  <2>2. CASE apps' = apps
    BY <2>2, Fields DEF Typed
  <2>3. CASE apps' = more
    <3>1. /\ apps' \in Seq(Application) /\ Len(apps') = Len(apps) + 1
          /\ DOMAIN apps' = 1..Len(apps) + 1
      BY <1>1, <2>3, AppMade
    <3>2. Len(apps) \in Nat /\ DOMAIN apps = 1..Len(apps)
      BY Fields
    <3> QED
      BY <2>1, <3>1, <3>2
  <2> QED
    BY <2>1, <2>2, <2>3
<1>4. \A i \in DOMAIN contracts' : contracts'[i].app \in DOMAIN apps'
  BY <1>2, <1>3 DEF IdsKnown
<1>5. Len(contracts') >= Len(contracts)
  BY <1>2, Fields
<1>6. job' \in Job /\ job'.app <= Len(apps') /\ JobOK' /\ CredentialJob'
  <2>1. CASE Fail
    BY <1>1, <1>3, <2>1, FailedJob, Fields DEF IdsKnown
  <2>2. CASE apps' = more /\ job' = [job EXCEPT !.pc = "writeBack", !.app = Len(more)]
    <3>1. Len(apps') = Len(apps) + 1 /\ Len(apps) \in Nat
      BY <1>1, <2>2, AppMade, Fields
    <3> DEFINE n == Len(apps) + 1
    <3>2. job' = [job EXCEPT !.pc = "writeBack", !.app = n] /\ n \in Nat
      BY <2>2, <3>1
    <3> HIDE DEF more, n
    <3>3. job' \in Job /\ job'.pc = "writeBack" /\ job'.on = job.on /\ job'.app = n
      BY <3>2, MadeAppJob
    <3>4. n = Len(apps) + 1
      BY DEF n
    <3>5. JobOK' /\ CredentialJob'
      BY <1>1, <3>1, <3>3, <3>4, NoJobType, SubjectsAssumption
         DEF JobOK, CredentialJob, AccessCalls, RemovalCalls, SecretCalls, Subjects
    <3> QED
      BY <3>1, <3>3, <3>5, <3>4
  <2> QED
    BY <2>1, <2>2 DEF CreateApp
<1> QED
  BY <1>2, <1>3, <1>4, <1>5, <1>6, CallStep

LEMMA WriteBackKeepsType ==
    ASSUME ProvisioningAssumption, SubjectsAssumption, TypeInv, WriteBack
    PROVE  TypeInv'
<1> USE DEF TypeInv, TypeOK
<1>1. job.on \in Requests /\ AppOf[job.on] \in ManagedApps /\ job.app # 0 /\ job.app \in Nat
  BY AppOfSubject, Fields DEF WriteBack, JobOK, AccessCalls
<1>2. job' \in Job /\ job'.app = job.app /\ JobOK' /\ CredentialJob'
  <2>1. ToTier(job.on) \in {"tiers", "contract"} /\ Continue(ToTier(job.on))
    BY DEF ToTier, WriteBack
  <2> QED
    BY <1>1, <2>1, NextAccessCall
<1>3. /\ managed' \in [ManagedApps -> Managed]
      /\ \A m \in ManagedApps : managed'[m].app \in {managed[m].app, job.app}
  <2>1. CASE UNCHANGED managed
    BY <2>1 DEF Typed
  <2>2. CASE managed' = [managed EXCEPT ![AppOf[job.on]].app = job.app]
    BY <1>1, <2>2, ManagedApp
  <2> QED
    BY <2>1, <2>2 DEF WriteBack
<1>4. UNCHANGED <<request, credential, apps, contracts, tiers, crashes, rotations>>
      /\ faults' \in 0..MaxFaults
  BY FaultsCounted DEF WriteBack, anypoint
<1>5. Typed'
  BY <1>2, <1>3, <1>4 DEF Typed
<1>6. IdsKnown'
  BY <1>2, <1>3, <1>4 DEF IdsKnown
<1>7. CredentialOK'
  BY <1>1, <1>3, <1>4, AppOfSubject DEF CredentialOK
<1> QED
  BY <1>2, <1>5, <1>6, <1>7

LEMMA TiersKeepType ==
    ASSUME ProvisioningAssumption, SubjectsAssumption, TypeInv,
           GetSLATiers \/ CreateSLATier
    PROVE  TypeInv'
<1> USE DEF TypeInv, TypeOK
<1>1. job.on \in Requests /\ job.on \in Subjects /\ job.app # 0 /\ ApiOf[job.on] \in Apis
  BY DEF GetSLATiers, CreateSLATier, JobOK, AccessCalls, Subjects, ProvisioningAssumption
<1>2. /\ UNCHANGED <<central, apps, contracts, crashes, rotations>>
      /\ faults' \in 0..MaxFaults
      /\ crashes' \in 0..MaxCrashes /\ rotations' \in 0..MaxRotations
      /\ apps' \in Seq(Application) /\ contracts' \in Seq(Contract)
      /\ Len(apps') >= Len(apps) /\ Len(contracts') >= Len(contracts)
  <2>1. /\ UNCHANGED <<central, apps, contracts, crashes, rotations>>
        /\ faults' \in 0..MaxFaults
    BY FaultsCounted DEF GetSLATiers, CreateSLATier, anypoint
  <2> QED
    BY <2>1, Fields DEF Typed
<1>3. \A i \in DOMAIN contracts' : contracts'[i].app \in DOMAIN apps'
  BY <1>2 DEF IdsKnown
<1>4. tiers' \in [Apis -> Nat]
  <2>1. tiers \in [Apis -> Nat]
    BY DEF Typed
  <2>2. tiers' \in {tiers, [tiers EXCEPT ![ApiOf[job.on]] = @ + 1]}
    BY DEF GetSLATiers, CreateSLATier, anypoint
  <2> QED
    BY <1>1, <2>1, <2>2
<1>5. job' \in Job /\ job'.app = job.app /\ JobOK' /\ CredentialJob'
  <2>1. CASE Fail
    BY <1>1, <2>1, FailedJob
  <2>2. CASE \E pc \in {"tiers", "createTier", "contract"} : Continue(pc)
    BY <1>1, <2>2, NextAccessCall
  <2> QED
    BY <2>1, <2>2 DEF GetSLATiers, CreateSLATier
<1>6. job'.app <= Len(apps')
  BY <1>2, <1>5 DEF IdsKnown
<1> QED
  BY <1>2, <1>3, <1>4, <1>5, <1>6, CallStep

LEMMA CreateContractKeepsType ==
    ASSUME ProvisioningAssumption, SubjectsAssumption, TypeInv, CreateContract
    PROVE  TypeInv'
<1> USE DEF TypeInv, TypeOK
<1> DEFINE c == [app |-> job.app, api |-> ApiOf[job.on], state |-> "active"]
           more == Append(contracts, c)
<1>1. /\ job.on \in Requests /\ job.on \in Subjects /\ job.app # 0
      /\ ApiOf[job.on] \in Apis /\ job.app \in Nat /\ job.app \in DOMAIN apps
  <2>1. /\ job.on \in Requests /\ job.on \in Subjects /\ job.app # 0
        /\ ApiOf[job.on] \in Apis
    BY DEF CreateContract, JobOK, AccessCalls, Subjects, ProvisioningAssumption
  <2>2. job.app \in Nat /\ DOMAIN apps = 1..Len(apps) /\ Len(apps) \in Nat
        /\ job.app <= Len(apps)
    BY Fields DEF IdsKnown
  <2> QED
    BY <2>1, <2>2
<1>2. c \in Contract /\ c.app = job.app
  BY <1>1 DEF Contract
<1>3. /\ UNCHANGED <<central, apps, tiers, crashes, rotations>>
      /\ faults' \in 0..MaxFaults
      /\ crashes' \in 0..MaxCrashes /\ rotations' \in 0..MaxRotations
      /\ apps' \in Seq(Application) /\ tiers' \in [Apis -> Nat]
      /\ Len(apps') >= Len(apps)
  <2>1. /\ UNCHANGED <<central, apps, tiers, crashes, rotations>>
        /\ faults' \in 0..MaxFaults
    BY FaultsCounted DEF CreateContract
  <2> QED
    BY <2>1, Fields DEF Typed
<1>4. \/ contracts' = more /\ Succeed("ready", Len(more))
      \/ contracts' \in {contracts, more} /\ Fail
  BY DEF CreateContract
<1> HIDE DEF c
<1>5. contracts' = more => /\ contracts' \in Seq(Contract)
                           /\ Len(contracts') = Len(contracts) + 1
                           /\ DOMAIN contracts' = 1..Len(contracts) + 1
                           /\ \A i \in DOMAIN contracts : contracts'[i] = contracts[i]
                           /\ contracts'[Len(contracts) + 1] = c
  BY <1>2, ContractMade
<1> HIDE DEF more
<1>6. Len(contracts) \in Nat /\ DOMAIN contracts = 1..Len(contracts)
      /\ contracts \in Seq(Contract)
  BY Fields DEF Typed
<1>7. /\ contracts' \in Seq(Contract) /\ Len(contracts') >= Len(contracts)
      /\ \A i \in DOMAIN contracts' : contracts'[i].app \in DOMAIN apps'
  <2>1. \A i \in DOMAIN contracts : contracts[i].app \in DOMAIN apps
    BY DEF IdsKnown
  <2>2. CASE contracts' = contracts
    BY <1>3, <1>6, <2>1, <2>2
  <2>3. CASE contracts' = more
    <3>1. ASSUME NEW i \in DOMAIN contracts'
          PROVE  contracts'[i].app \in DOMAIN apps
      <4>1. CASE i \in DOMAIN contracts
        <5>1. contracts'[i] = contracts[i]
          BY <1>5, <2>3, <4>1
        <5> QED
          BY <2>1, <4>1, <5>1
      <4>2. CASE i = Len(contracts) + 1
        BY <1>1, <1>2, <1>5, <2>3, <4>2
      <4> QED
        BY <1>5, <1>6, <2>3, <4>1, <4>2
    <3> QED
      BY <1>3, <1>5, <1>6, <2>3, <3>1
  <2> QED
    BY <1>4, <2>2, <2>3
<1>8. job' \in Job /\ job'.app = job.app /\ JobOK' /\ CredentialJob'
  <2>1. CASE Fail
    BY <1>1, <2>1, FailedJob
  <2>2. CASE contracts' = more /\ Succeed("ready", Len(more))
    <3>1. Len(more) = Len(contracts) + 1 /\ Len(more) = Len(contracts')
          /\ Len(more) \in Nat /\ Len(more) \in 1..Len(contracts')
      BY <1>5, <1>6, <2>2
    <3>2. job' \in Job /\ job'.pc = "report" /\ job'.on = job.on /\ job'.app = job.app
          /\ job'.outcome = "ready" /\ job'.result = Len(more)
      BY <2>2, <3>1, SucceedJob
    <3> QED
      BY <1>1, <3>1, <3>2, NoJobType, SubjectsAssumption
         DEF JobOK, CredentialJob, AccessCalls, RemovalCalls, SecretCalls, Subjects
  <2> QED
    BY <1>4, <2>1, <2>2
<1>9. job'.app <= Len(apps')
  BY <1>3, <1>8 DEF IdsKnown
<1> QED
  BY <1>3, <1>7, <1>8, <1>9, CallStep

LEMMA RemovalKeepsType ==
    ASSUME ProvisioningAssumption, SubjectsAssumption, TypeInv,
           RevokeContract \/ DeleteContract
    PROVE  TypeInv'
<1> USE DEF TypeInv, TypeOK
<1> DEFINE k == request[job.on].contract
<1>1. job.on \in Requests /\ job.on \in Subjects /\ job.on \notin Credentials
      /\ k # 0 /\ k \in DOMAIN contracts
  <2>1. job.on \in Requests /\ k # 0
    BY DEF RevokeContract, DeleteContract, JobOK, RemovalCalls
  <2>2. k \in Nat /\ k <= Len(contracts) /\ DOMAIN contracts = 1..Len(contracts)
        /\ Len(contracts) \in Nat
    BY <2>1, Fields DEF IdsKnown
  <2> HIDE DEF k
  <2> QED
    BY <2>1, <2>2, SubjectsAssumption DEF Subjects
<1>2. /\ UNCHANGED <<central, apps, tiers, crashes, rotations>>
      /\ faults' \in 0..MaxFaults
      /\ crashes' \in 0..MaxCrashes /\ rotations' \in 0..MaxRotations
      /\ apps' \in Seq(Application) /\ tiers' \in [Apis -> Nat]
      /\ Len(apps') >= Len(apps)
  <2>1. /\ UNCHANGED <<central, apps, tiers, crashes, rotations>>
        /\ faults' \in 0..MaxFaults
    BY FaultsCounted DEF RevokeContract, DeleteContract
  <2> QED
    BY <2>1, Fields DEF Typed
<1>3. /\ contracts' \in Seq(Contract) /\ Len(contracts') >= Len(contracts)
      /\ \A i \in DOMAIN contracts' : contracts'[i].app \in DOMAIN apps'
  <2>1. /\ Len(contracts) \in Nat /\ contracts \in Seq(Contract)
        /\ \A i \in DOMAIN contracts : contracts[i].app \in DOMAIN apps
    BY Fields DEF Typed, IdsKnown
  <2>2. CASE contracts' = contracts
    BY <1>2, <2>1, <2>2
  <2>3. CASE ContractTo("revoked") \/ ContractTo("deleted")
    <3>1. PICK v \in {"revoked", "deleted"} : contracts' = [contracts EXCEPT ![k].state = v]
      BY <2>3 DEF ContractTo
    <3> HIDE DEF k
    <3>2. /\ contracts' \in Seq(Contract) /\ Len(contracts') = Len(contracts)
          /\ DOMAIN contracts' = DOMAIN contracts
          /\ \A j \in DOMAIN contracts : contracts'[j].app = contracts[j].app
      BY <1>1, <3>1, ContractStateFacts
    <3> QED
      BY <1>2, <2>1, <3>2
  <2> QED
    BY <2>2, <2>3 DEF RevokeContract, DeleteContract
<1>4. job' \in Job /\ job'.app = job.app /\ JobOK' /\ CredentialJob'
  <2>1. CASE Succeed("gone", 0)
    BY <1>1, <2>1, EndedJob
  <2>2. CASE Continue("deleteContract")
    <3>1. job' \in Job /\ job'.pc = "deleteContract" /\ job'.on = job.on
          /\ job'.app = job.app
      BY <2>2, ContinueJob
    <3>2. request'[job'.on].contract # 0
      BY <1>1, <1>2, <3>1 DEF central
    <3> QED
      BY <1>1, <3>1, <3>2, NoJobType, SubjectsAssumption
         DEF JobOK, CredentialJob, AccessCalls, RemovalCalls, SecretCalls, Subjects
  <2> QED
    BY <2>1, <2>2 DEF RevokeContract, DeleteContract
<1>5. job'.app <= Len(apps')
  BY <1>2, <1>4 DEF IdsKnown
<1> QED
  BY <1>2, <1>3, <1>4, <1>5, CallStep

LEMMA DeleteAppKeepsType ==
    ASSUME ProvisioningAssumption, SubjectsAssumption, TypeInv, DeleteApp
    PROVE  TypeInv'
<1> USE DEF TypeInv, TypeOK
<1>1. job.on \in ManagedApps /\ job.on \in Subjects /\ job.on \notin Credentials
      /\ job.app \in DOMAIN apps
  <2>1. job.on \in ManagedApps /\ job.app # 0
    BY DEF DeleteApp, JobOK
  <2>2. job.app \in Nat /\ job.app <= Len(apps) /\ DOMAIN apps = 1..Len(apps)
        /\ Len(apps) \in Nat
    BY Fields DEF IdsKnown
  <2> QED
    BY <2>1, <2>2, SubjectsAssumption DEF Subjects
<1>2. /\ UNCHANGED <<central, tiers, crashes, rotations>>
      /\ faults' \in 0..MaxFaults
      /\ crashes' \in 0..MaxCrashes /\ rotations' \in 0..MaxRotations
      /\ tiers' \in [Apis -> Nat]
  BY FaultsCounted DEF DeleteApp, Typed
<1>3. /\ apps' \in Seq(Application) /\ contracts' \in Seq(Contract)
      /\ Len(apps') = Len(apps) /\ Len(contracts') = Len(contracts)
      /\ \A i \in DOMAIN contracts' : contracts'[i].app \in DOMAIN apps'
  <2>1. /\ apps \in Seq(Application) /\ contracts \in Seq(Contract)
        /\ \A i \in DOMAIN contracts : contracts[i].app \in DOMAIN apps
    BY DEF Typed, IdsKnown
  <2>2. CASE UNCHANGED <<apps, contracts>>
    BY <2>1, <2>2
  <2>3. CASE AppDeleted
    <3>1. /\ apps' \in Seq(Application) /\ contracts' \in Seq(Contract)
          /\ Len(apps') = Len(apps) /\ Len(contracts') = Len(contracts)
          /\ DOMAIN apps' = DOMAIN apps /\ DOMAIN contracts' = DOMAIN contracts
          /\ \A j \in DOMAIN contracts : contracts'[j].app = contracts[j].app
      BY <1>1, <2>3, AppDeletedFacts
    <3> QED
      BY <2>1, <3>1
  <2> QED
    BY <2>2, <2>3 DEF DeleteApp
<1>4. job' \in Job /\ job'.app = job.app /\ JobOK' /\ CredentialJob'
  BY <1>1, FailedJob, EndedJob DEF DeleteApp
<1>5. job'.app <= Len(apps')
  BY <1>3, <1>4 DEF IdsKnown
<1>6. Len(apps') >= Len(apps) /\ Len(contracts') >= Len(contracts)
  BY <1>3, Fields
<1> QED
  BY <1>2, <1>3, <1>4, <1>5, <1>6, CallStep

LEMMA SecretsKeepType ==
    ASSUME ProvisioningAssumption, SubjectsAssumption, TypeInv,
           GetSecret \/ GetApp \/ ResetAppSecret
    PROVE  TypeInv'
<1> USE DEF TypeInv, TypeOK
<1>1. /\ job.on \in Credentials /\ job.on \in Subjects
      /\ job.on \notin Requests /\ job.on \notin ManagedApps
      /\ job.app # 0 /\ job.app \in DOMAIN apps
      /\ managed[AppOf[job.on]].app # 0
  <2>1. job.on \in Credentials /\ job.app # 0 /\ managed[AppOf[job.on]].app # 0
    BY DEF GetSecret, GetApp, ResetAppSecret, JobOK, SecretCalls, CredentialJob
  <2>2. job.app \in Nat /\ job.app <= Len(apps) /\ DOMAIN apps = 1..Len(apps)
        /\ Len(apps) \in Nat
    BY Fields DEF IdsKnown
  <2> QED
    BY <2>1, <2>2, SubjectsAssumption DEF Subjects
<1>2. /\ UNCHANGED <<central, contracts, tiers, crashes, rotations>>
      /\ faults' \in 0..MaxFaults
      /\ crashes' \in 0..MaxCrashes /\ rotations' \in 0..MaxRotations
      /\ contracts' \in Seq(Contract) /\ tiers' \in [Apis -> Nat]
      /\ Len(contracts') >= Len(contracts)
  <2>1. /\ UNCHANGED <<central, contracts, tiers, crashes, rotations>>
        /\ faults' \in 0..MaxFaults
    BY FaultsCounted DEF GetSecret, GetApp, ResetAppSecret, anypoint
  <2> QED
    BY <2>1, Fields DEF Typed
<1> DEFINE new == [apps EXCEPT ![job.app].secret = @ + 1]
<1>3. apps' \in {apps, new}
  BY DEF GetSecret, GetApp, ResetAppSecret, anypoint
<1>4. apps' = new => /\ apps' \in Seq(Application) /\ Len(apps') = Len(apps)
                     /\ DOMAIN apps' = DOMAIN apps /\ apps'[job.app].secret \in Nat
  BY <1>1, SecretReset
<1>5. \/ Fail
      \/ Continue("reset")
      \/ Succeed("ready", apps[job.app].secret)
      \/ apps' = new /\ Succeed("ready", new[job.app].secret)
  BY DEF GetSecret, GetApp, ResetAppSecret
<1> HIDE DEF new
<1>6. apps' \in Seq(Application) /\ Len(apps') = Len(apps) /\ DOMAIN apps' = DOMAIN apps
  BY <1>3, <1>4 DEF Typed
<1>7. Len(apps') >= Len(apps) /\ \A i \in DOMAIN contracts' : contracts'[i].app \in DOMAIN apps'
  BY <1>2, <1>6, Fields DEF IdsKnown
<1>8. job' \in Job /\ job'.app = job.app /\ JobOK' /\ CredentialJob'
  <2>1. CASE Fail
    BY <1>1, <2>1, FailedJob
  <2>2. CASE Continue("reset")
    <3>1. job' \in Job /\ job'.pc = "reset" /\ job'.on = job.on /\ job'.app = job.app
      BY <2>2, ContinueJob
    <3>2. managed'[AppOf[job'.on]].app # 0
      BY <1>1, <1>2, <3>1 DEF central
    <3> QED
      BY <1>1, <3>1, <3>2, NoJobType
         DEF JobOK, CredentialJob, AccessCalls, RemovalCalls, SecretCalls
  <2>3. ASSUME NEW k \in Nat, Succeed("ready", k)
        PROVE  job' \in Job /\ job'.app = job.app /\ JobOK' /\ CredentialJob'
    <3>1. job' \in Job /\ job'.pc = "report" /\ job'.on = job.on /\ job'.app = job.app
          /\ job'.outcome = "ready"
      BY <2>3, SucceedJob
    <3>2. managed'[AppOf[job'.on]].app # 0
      BY <1>1, <1>2, <3>1 DEF central
    <3> QED
      BY <1>1, <3>1, <3>2, NoJobType
         DEF JobOK, CredentialJob, AccessCalls, RemovalCalls, SecretCalls
  <2>4. apps[job.app].secret \in Nat
    BY <1>1, Fields
  <2> QED
    BY <1>4, <1>5, <2>1, <2>2, <2>3, <2>4
<1>9. job'.app <= Len(apps')
  BY <1>6, <1>8 DEF IdsKnown
<1> QED
  BY <1>2, <1>6, <1>7, <1>8, <1>9, CallStep

LEMMA ReportKeepsType ==
    ASSUME ProvisioningAssumption, SubjectsAssumption, TypeInv, Report
    PROVE  TypeInv'
<1> USE DEF TypeInv, TypeOK
<1>1. /\ UNCHANGED <<apps, contracts, tiers, faults, crashes, rotations>>
      /\ job' = NoJob
  BY DEF Report, anypoint, budgets
<1>2. JobOK' /\ CredentialJob'
  BY <1>1, NoJobType, SubjectsAssumption
     DEF JobOK, CredentialJob, AccessCalls, RemovalCalls, SecretCalls
<1>3. job.outcome \in {"ready", "failed", "gone"} /\ job.outcome \in States
      /\ job.result \in Nat
  BY Fields DEF Report, JobOK, States
<1>4. /\ managed' \in [ManagedApps -> Managed]
      /\ \A m \in ManagedApps : managed'[m].app = managed[m].app
  <2>1. CASE UNCHANGED managed
    BY <2>1 DEF Typed
  <2>2. CASE /\ job.on \in ManagedApps
             /\ managed' = [managed EXCEPT ![job.on].state = job.outcome]
    BY <1>3, <2>2, ManagedState
  <2> QED
    BY <2>1, <2>2 DEF Report
<1>5. /\ request' \in [Requests -> Request]
      /\ \A r \in Requests : request'[r].contract <= Len(contracts)
  <2>1. \A r \in Requests : request[r].contract <= Len(contracts)
    BY DEF IdsKnown
  <2>2. CASE UNCHANGED request
    BY <2>1, <2>2 DEF Typed
  <2>3. CASE job.on \in Requests /\ ~UNCHANGED request
    <3> DEFINE k == IF job.outcome = "ready" THEN job.result
                    ELSE request[job.on].contract
    <3>1. k \in Nat /\ k <= Len(contracts)
      <4>1. CASE job.outcome = "ready"
        <5>1. job.result \in 1..Len(contracts) /\ Len(contracts) \in Nat
          BY <2>3, <4>1, Fields DEF JobOK, Report
        <5> QED
          BY <4>1, <5>1
      <4>2. CASE job.outcome # "ready"
        BY <2>1, <2>3, <4>2, Fields
      <4> QED
        BY <4>1, <4>2
    <3>2. request' = [request EXCEPT ![job.on].state = job.outcome,
                                     ![job.on].contract = k]
      BY <2>3 DEF Report
    <3> HIDE DEF k
    <3>4. Typed /\ job.outcome \in States /\ k \in Nat /\ job.on \in Requests
      BY <1>3, <2>3, <3>1
    <3>3. /\ request' \in [Requests -> Request]
          /\ request'[job.on].contract = k
          /\ \A s \in Requests \ {job.on} : request'[s] = request[s]
      BY ONLY <3>2, <3>4 DEF Typed, Request
    <3> QED
      BY <2>1, <3>1, <3>3
  <2> QED
    BY <2>2, <2>3 DEF Report
<1>6. /\ credential' \in [Credentials -> Credential]
      /\ \A c \in Credentials : credential'[c].state \in {"ready", "rotating"} =>
             managed[AppOf[c]].app # 0
  <2>1. CASE UNCHANGED credential
    BY <2>1 DEF Typed, CredentialOK
  <2>2. CASE job.on \in Credentials /\ ~UNCHANGED credential
    <3> DEFINE k == IF job.outcome = "ready" THEN job.result
                    ELSE credential[job.on].secret
    <3>1. k \in Nat
      BY <1>3, <2>2 DEF Typed, Credential
    <3>2. credential' = [credential EXCEPT ![job.on].state = job.outcome,
                                           ![job.on].secret = k]
      BY <2>2 DEF Report
    <3>3. job.outcome \in {"ready", "failed"}
      BY <2>2 DEF JobOK, Report
    <3> HIDE DEF k
    <3>4. /\ credential' \in [Credentials -> Credential]
          /\ credential'[job.on].state = job.outcome
          /\ \A d \in Credentials \ {job.on} : credential'[d].state = credential[d].state
      BY <2>2, <3>1, <3>2, <3>3, CredentialReport
    <3> QED
      BY <2>2, <3>3, <3>4 DEF CredentialOK, CredentialJob
  <2> QED
    BY <2>1, <2>2 DEF Report
<1>7. Typed'
  BY <1>1, <1>4, <1>5, <1>6, NoJobType DEF Typed
<1>8. IdsKnown'
  <2>1. Len(apps) \in Nat
    BY Fields
  <2> QED
    BY <1>1, <1>4, <1>5, <2>1, NoJobType DEF IdsKnown
<1>9. CredentialOK'
  BY <1>4, <1>6, AppOfSubject DEF CredentialOK
<1> QED
  BY <1>2, <1>7, <1>8, <1>9

LEMMA CrashKeepsType ==
    ASSUME ProvisioningAssumption, SubjectsAssumption, TypeInv, Crash
    PROVE  TypeInv'
<1> USE DEF TypeInv, TypeOK
<1>1. UNCHANGED <<central, anypoint>> /\ UNCHANGED faults /\ UNCHANGED rotations
      /\ crashes' \in 0..MaxCrashes /\ faults' \in 0..MaxFaults /\ job' = NoJob
  BY DEF Crash, Typed, ProvisioningAssumption
<1>2. JobOK' /\ CredentialJob'
  BY <1>1, NoJobType, SubjectsAssumption
     DEF JobOK, CredentialJob, AccessCalls, RemovalCalls, SecretCalls
<1>3. job' \in Job /\ job'.app <= Len(apps)
  BY <1>1, NoJobType, Fields
<1> QED
  BY <1>1, <1>2, <1>3, HandlerStep

LEMMA TypeInit ==
    ASSUME ProvisioningAssumption, SubjectsAssumption, Init
    PROVE  TypeInv
<1>1. Typed
  <2>1. /\ managed \in [ManagedApps -> Managed]
        /\ request \in [Requests -> Request]
        /\ credential \in [Credentials -> Credential]
    BY DEF Init, Managed, Request, Credential, States
  <2>2. tiers \in [Apis -> Nat] /\ job \in Job
    BY NoJobType DEF Init
  <2>3. /\ apps \in Seq(Application) /\ contracts \in Seq(Contract)
        /\ faults \in 0..MaxFaults /\ crashes \in 0..MaxCrashes
        /\ rotations \in 0..MaxRotations
    BY DEF Init, ProvisioningAssumption
  <2> QED
    BY <2>1, <2>2, <2>3 DEF Typed
<1>2. IdsKnown
  BY NoJobType DEF Init, IdsKnown
<1>3. JobOK /\ CredentialOK /\ CredentialJob
  BY NoJobType, SubjectsAssumption
     DEF Init, JobOK, CredentialOK, CredentialJob, AccessCalls, RemovalCalls, SecretCalls
<1> QED
  BY <1>1, <1>2, <1>3 DEF TypeInv, TypeOK

LEMMA TypeStep ==
    ASSUME ProvisioningAssumption, SubjectsAssumption, TypeInv, [Next]_vars
    PROVE  TypeInv'
<1>1. CASE User
  BY <1>1, UserKeepsType
<1>2. ASSUME NEW x \in Subjects, Handle(x)
      PROVE  TypeInv'
  BY <1>2, HandleKeepsType
<1>3. CASE CreateApp
  BY <1>3, CreateAppKeepsType
<1>4. CASE WriteBack
  BY <1>4, WriteBackKeepsType
<1>5. CASE GetSLATiers \/ CreateSLATier
  BY <1>5, TiersKeepType
<1>6. CASE CreateContract
  BY <1>6, CreateContractKeepsType
<1>7. CASE RevokeContract \/ DeleteContract
  BY <1>7, RemovalKeepsType
<1>8. CASE DeleteApp
  BY <1>8, DeleteAppKeepsType
<1>9. CASE GetSecret \/ GetApp \/ ResetAppSecret
  BY <1>9, SecretsKeepType
<1>10. CASE Report
  BY <1>10, ReportKeepsType
<1>11. CASE Crash
  BY <1>11, CrashKeepsType
<1>12. CASE UNCHANGED vars
  BY <1>12 DEF vars, TypeInv, TypeOK, Typed, IdsKnown, JobOK, CredentialOK, CredentialJob
<1> QED
  BY <1>1, <1>2, <1>3, <1>4, <1>5, <1>6, <1>7, <1>8, <1>9, <1>10, <1>11, <1>12
     DEF Next, Call

LEMMA TypeInvariant == Spec => []TypeInv
<1>1. Init => TypeInv
  BY TypeInit, ProvisioningAssumption, SubjectsAssumption
<1>2. TypeInv /\ [Next]_vars => TypeInv'
  BY TypeStep, ProvisioningAssumption, SubjectsAssumption
<1> QED
  BY <1>1, <1>2, PTL DEF Spec

(* Type correctness of provisioning: every ID that Central holds or a      *)
(* handler works with is one that Anypoint has given out                   *)
(* (src/pkg/subscription/provision.go).                                    *)
THEOREM ProvisioningTypeCorrect == Spec => []TypeOK
<1>1. TypeInv => TypeOK
  BY DEF TypeInv
<1> QED
  BY <1>1, TypeInvariant, PTL
-----------------------------------------------------------------------------
(* One tier: only GetSLATiers leads to the creation of a tier, and only    *)
(* when it has found none.                                                 *)

LEMMA NoTierAhead ==
    ASSUME TypeInv, [Next]_vars, ~GetSLATiers, ~UNCHANGED job
    PROVE  job'.pc # "createTier"
<1> USE DEF TypeInv, TypeOK
<1>1. ASSUME NEW x \in Subjects, Handle(x)
      PROVE  job'.pc # "createTier"
  BY <1>1 DEF Handle, ApplicationRequestProvision, ApplicationRequestDeprovision,
              AccessRequestProvision, AccessRequestDeprovision, CredentialProvision,
              CredentialUpdate, Start, Answer, ToTier
<1>2. CASE CreateApp
  <2>1. CASE Fail
    BY <2>1 DEF Fail, Succeed
  <2>2. CASE \E n \in Nat : job' = [job EXCEPT !.pc = "writeBack", !.app = n]
    BY <2>2, MadeAppJob
  <2>3. Len(Append(apps, [owner |-> AppOf[job.on], alive |-> TRUE, secret |-> 1])) \in Nat
    BY DEF Typed
  <2> QED
    BY <1>2, <2>1, <2>2, <2>3 DEF CreateApp
<1>3. CASE WriteBack
  <2>1. ToTier(job.on) \in {"tiers", "contract"}
    BY DEF ToTier
  <2> QED
    BY <1>3, <2>1, ContinueJob DEF WriteBack
<1>4. CASE CreateSLATier
  BY <1>4, ContinueJob DEF CreateSLATier, Fail, Succeed
<1>5. CASE CreateContract
  BY <1>5 DEF CreateContract, Fail, Succeed
<1>6. CASE RevokeContract \/ DeleteContract \/ DeleteApp
  BY <1>6, ContinueJob DEF RevokeContract, DeleteContract, DeleteApp, Fail, Succeed
<1>7. CASE GetSecret \/ GetApp \/ ResetAppSecret
  BY <1>7, ContinueJob DEF GetSecret, GetApp, ResetAppSecret, Fail, Succeed
<1>8. CASE Report \/ Crash
  BY <1>8, NoJobType DEF Report, Crash
<1>9. CASE User \/ UNCHANGED vars
  BY <1>9 DEF User, AskAccess, AskCredential, Rotate, RemoveAccess, RemoveApp, vars
<1> QED
  BY <1>1, <1>2, <1>3, <1>4, <1>5, <1>6, <1>7, <1>8, <1>9 DEF Next, Call

LEMMA TiersKept ==
    ASSUME [Next]_vars, ~CreateSLATier
    PROVE  UNCHANGED tiers
<1>1. ASSUME NEW x \in Subjects, Handle(x)
      PROVE  UNCHANGED tiers
  BY <1>1 DEF Handle, ApplicationRequestProvision, ApplicationRequestDeprovision,
              AccessRequestProvision, AccessRequestDeprovision, CredentialProvision,
              CredentialUpdate, anypoint
<1>2. CASE User \/ Call \/ Crash \/ UNCHANGED vars
  BY <1>2 DEF User, AskAccess, AskCredential, Rotate, RemoveAccess, RemoveApp, Call,
              CreateApp, WriteBack, GetSLATiers, CreateContract, RevokeContract,
              DeleteContract, DeleteApp, GetSecret, GetApp, ResetAppSecret, Report, Crash,
              anypoint, vars
<1> QED
  BY <1>1, <1>2 DEF Next

LEMMA TierStep ==
    ASSUME ProvisioningAssumption, TypeInv, TierInv, [Next]_vars
    PROVE  TierInv'
<1>1. tiers \in [Apis -> Nat]
  BY DEF TypeInv, TypeOK, Typed
<1>2. CASE GetSLATiers
  <2>1. UNCHANGED tiers
    BY <1>2 DEF GetSLATiers, anypoint
  <2>2. job.on \in Requests /\ ApiOf[job.on] \in Apis
    BY <1>2 DEF GetSLATiers, TypeInv, JobOK, AccessCalls, ProvisioningAssumption
  <2>3. CASE Fail
    BY <2>1, <2>3 DEF Fail, Succeed, TierInv, OneTier, NoTierYet
  <2>4. CASE Continue(IF tiers[ApiOf[job.on]] > 0 THEN "contract" ELSE "createTier")
    <3>1. CASE tiers[ApiOf[job.on]] > 0
      BY <2>1, <2>4, <3>1, ContinueJob DEF TypeInv, TypeOK, TierInv, OneTier, NoTierYet
    <3>2. CASE tiers[ApiOf[job.on]] = 0
      <4>1. Continue("createTier")
        BY <2>4, <3>2
      <4>2. job'.on = job.on
        BY <4>1, ContinueJob DEF TypeInv, TypeOK
      <4> QED
        BY <2>1, <3>2, <4>2 DEF TierInv, OneTier, NoTierYet
    <3> QED
      BY <1>1, <2>2, <3>1, <3>2
  <2> QED
    BY <1>2, <2>3, <2>4 DEF GetSLATiers
<1>3. CASE CreateSLATier
  <2>1. job.on \in Requests /\ ApiOf[job.on] \in Apis /\ tiers[ApiOf[job.on]] = 0
    BY <1>3 DEF CreateSLATier, TypeInv, TierInv, NoTierYet, JobOK, AccessCalls,
                ProvisioningAssumption
  <2>2. tiers' \in {tiers, [tiers EXCEPT ![ApiOf[job.on]] = @ + 1]}
    BY <1>3 DEF CreateSLATier
  <2>3. OneTier'
    BY <1>1, <2>1, <2>2 DEF TierInv, OneTier
  <2>4. job'.pc # "createTier"
    BY <1>3, ContinueJob DEF CreateSLATier, Fail, Succeed, TypeInv, TypeOK
  <2> QED
    BY <2>3, <2>4 DEF TierInv, NoTierYet
<1>4. CASE ~GetSLATiers /\ ~CreateSLATier
  BY <1>4, TiersKept, NoTierAhead DEF TierInv, OneTier, NoTierYet
<1> QED
  BY <1>2, <1>3, <1>4

(* No API gets a second tier from the agent, whatever answers are lost and *)
(* wherever the agent crashed (createIfNotExistingSLATier,                 *)
(* src/pkg/subscription/mulesubscriptionclient.go).                        *)
THEOREM TiersAreMadeOnce == Spec => []OneTier
<1>1. Init => TypeInv /\ TierInv
  <2>1. Init => TierInv
    BY NoJobType DEF Init, TierInv, OneTier, NoTierYet
  <2> QED
    BY <2>1, TypeInit, ProvisioningAssumption, SubjectsAssumption
<1>2. (TypeInv /\ TierInv) /\ [Next]_vars => (TypeInv /\ TierInv)'
  BY TypeStep, TierStep, ProvisioningAssumption, SubjectsAssumption
<1>3. TypeInv /\ TierInv => OneTier
  BY DEF TierInv
<1> QED
  BY <1>1, <1>2, <1>3, PTL DEF Spec
-----------------------------------------------------------------------------
(* Removed access: a step fails once at most, a deleted contract stays     *)
(* deleted, and an access request keeps its contract and is not gone until *)
(* that is reported.                                                       *)

LEMMA FaultsByOne ==
    ASSUME Typed, [Next]_vars
    PROVE  faults' \in {faults, faults + 1}
<1>0. faults \in Nat
  BY DEF Typed
<1>1. ASSUME NEW x \in Subjects, Handle(x)
      PROVE  UNCHANGED faults
  BY <1>1 DEF Handle, ApplicationRequestProvision, ApplicationRequestDeprovision,
              AccessRequestProvision, AccessRequestDeprovision, CredentialProvision,
              CredentialUpdate, budgets
<1>2. CASE User \/ Call \/ Crash \/ UNCHANGED vars
  BY <1>0, <1>2
     DEF User, AskAccess, AskCredential, Rotate, RemoveAccess, RemoveApp, Call,
         CreateApp, WriteBack, GetSLATiers, CreateSLATier, CreateContract, RevokeContract,
         DeleteContract, DeleteApp, GetSecret, GetApp, ResetAppSecret, Report, Crash,
         Fails, budgets, vars
<1> QED
  BY <1>1, <1>2 DEF Next

LEMMA FaultsGrow ==
    ASSUME Typed, [Next]_vars, faults' = 0
    PROVE  faults = 0
<1>1. faults \in Nat /\ faults' \in {faults, faults + 1}
  BY FaultsByOne DEF Typed
<1> QED
  BY <1>1

LEMMA ContractsKept ==
    ASSUME [Next]_vars, ~CreateContract, ~RevokeContract, ~DeleteContract, ~DeleteApp
    PROVE  UNCHANGED contracts
<1>1. ASSUME NEW x \in Subjects, Handle(x)
      PROVE  UNCHANGED contracts
  BY <1>1 DEF Handle, ApplicationRequestProvision, ApplicationRequestDeprovision,
              AccessRequestProvision, AccessRequestDeprovision, CredentialProvision,
              CredentialUpdate, anypoint
<1>2. CASE User \/ Call \/ Crash \/ UNCHANGED vars
  BY <1>2 DEF User, AskAccess, AskCredential, Rotate, RemoveAccess, RemoveApp, Call,
              CreateApp, WriteBack, GetSLATiers, CreateSLATier, GetSecret, GetApp,
              ResetAppSecret, Report, Crash, anypoint, vars
<1> QED
  BY <1>1, <1>2 DEF Next

LEMMA DeletedStays ==
    ASSUME TypeInv, [Next]_vars, NEW i \in DOMAIN contracts,
           contracts[i].state = "deleted"
    PROVE  i \in DOMAIN contracts' /\ contracts'[i].state = "deleted"
<1> USE DEF TypeInv, TypeOK
<1>1. contracts \in Seq(Contract) /\ DOMAIN contracts = 1..Len(contracts)
      /\ Len(contracts) \in Nat
  BY Fields DEF Typed
<1>2. CASE CreateContract
  <2> DEFINE more == Append(contracts, [app |-> job.app, api |-> ApiOf[job.on],
                                        state |-> "active"])
  <2>1. contracts' \in {contracts, more}
    BY <1>2 DEF CreateContract
  <2>2. i \in DOMAIN more /\ more[i] = contracts[i]
    BY <1>1
  <2> HIDE DEF more
  <2> QED
    BY <2>1, <2>2
<1>3. CASE RevokeContract \/ DeleteContract
  <2> DEFINE k == request[job.on].contract
  <2>1. k \in DOMAIN contracts
    <3>1. job.on \in Requests /\ k # 0
      BY <1>3 DEF RevokeContract, DeleteContract, JobOK, RemovalCalls
    <3>2. k \in Nat /\ k <= Len(contracts)
      BY <3>1, Fields DEF IdsKnown
    <3> HIDE DEF k
    <3> QED
      BY <1>1, <3>1, <3>2
  <2>2. CASE UNCHANGED contracts
    BY <2>2
  <2>3. CASE ContractTo("deleted")
    <3>1. contracts' = [contracts EXCEPT ![k].state = "deleted"]
      BY <2>3 DEF ContractTo
    <3> HIDE DEF k
    <3>2. /\ DOMAIN contracts' = DOMAIN contracts /\ contracts'[k].state = "deleted"
          /\ \A j \in DOMAIN contracts \ {k} : contracts'[j] = contracts[j]
      BY <2>1, <3>1, ContractStateFacts
    <3> QED
      BY <3>2
  <2>4. CASE ContractTo("revoked") /\ contracts[k].state # "deleted"
    <3>1. contracts' = [contracts EXCEPT ![k].state = "revoked"]
      BY <2>4 DEF ContractTo
    <3>2. k # i
      BY <2>4
    <3> HIDE DEF k
    <3>3. /\ DOMAIN contracts' = DOMAIN contracts
          /\ \A j \in DOMAIN contracts \ {k} : contracts'[j] = contracts[j]
      BY <2>1, <3>1, ContractStateFacts
    <3> QED
      BY <3>2, <3>3
  <2> QED
    BY <1>3, <2>2, <2>3, <2>4 DEF RevokeContract, DeleteContract
<1>4. CASE DeleteApp
  <2>1. job.app \in DOMAIN apps
    BY <1>4, Fields DEF DeleteApp, JobOK, IdsKnown
  <2>2. CASE AppDeleted
    BY <2>1, <2>2, AppDeletedFacts
  <2> QED
    BY <1>4, <2>2 DEF DeleteApp
<1> QED
  BY <1>2, <1>3, <1>4, ContractsKept

LEMMA RequestsKept ==
    ASSUME Typed, [Next]_vars, ~Report
    PROVE  \A r \in Requests : /\ request'[r].contract = request[r].contract
                               /\ request'[r].state = "gone" => request[r].state = "gone"
<1>1. ASSUME NEW x \in Subjects, Handle(x)
      PROVE  UNCHANGED request
  BY <1>1 DEF Handle, ApplicationRequestProvision, ApplicationRequestDeprovision,
              AccessRequestProvision, AccessRequestDeprovision, CredentialProvision,
              CredentialUpdate, central
<1>2. CASE \E r \in Requests : AskAccess(r) \/ RemoveAccess(r)
  <2>1. PICK r \in Requests : \E v \in {"pending", "removing"} :
            request' = [request EXCEPT ![r].state = v]
    BY <1>2 DEF AskAccess, RemoveAccess
  <2>2. PICK v \in {"pending", "removing"} : request' = [request EXCEPT ![r].state = v]
    BY <2>1
  <2>3. v \in States
    BY DEF States
  <2>4. /\ request'[r].state = v
        /\ \A s \in Requests \ {r} : request'[s].state = request[s].state
        /\ \A s \in Requests : request'[s].contract = request[s].contract
    BY <2>2, <2>3, RequestState
  <2> QED
    BY <2>4
<1>3. CASE UNCHANGED request
  BY <1>3
<1> QED
  BY <1>1, <1>2, <1>3
     DEF Next, User, AskCredential, Rotate, RemoveApp, Call,
         CreateApp, WriteBack, GetSLATiers, CreateSLATier, CreateContract, RevokeContract,
         DeleteContract, DeleteApp, GetSecret, GetApp, ResetAppSecret, Crash,
         central, vars
-----------------------------------------------------------------------------
(* Granted access: what a handler has established cannot be undone by      *)
(* another one before it reports.                                          *)

(* A job that has nothing to show keeps its part of the invariant.         *)
LEMMA NoClaims ==
    ASSUME SubjectsAssumption,
           \/ job' = NoJob
           \/ job'.pc = "report" /\ job'.outcome # "ready"
                /\ (job'.on \in Requests =>
                        request'[job'.on].state \in {"pending", "removing"})
    PROVE  Claims' /\ JobAhead'
<1>1. job' = NoJob => job'.pc = "idle"
  BY NoJobType
<1> QED
  BY <1>1 DEF Claims, HeldByJob, StateOfJob, JobAhead, AccessCalls, RemovalCalls

(* A step that changes neither Central nor contracts, and no owner, only   *)
(* has to leave a good job behind.                                         *)
LEMMA QuietStep ==
    ASSUME TypeInv, AccessInv, UNCHANGED <<managed, request, contracts>>,
           \A i \in DOMAIN apps : apps'[i].owner = apps[i].owner,
           faults' = 0 => faults = 0, Claims', faults' = 0 => JobAhead'
    PROVE  AccessInv'
<1> USE DEF TypeInv, TypeOK
<1>1. RecordedApps'
  <2>1. \A m \in ManagedApps : managed[m].app # 0 => managed[m].app \in DOMAIN apps
    BY Fields DEF IdsKnown
  <2> QED
    BY <2>1 DEF AccessInv, Ownership, RecordedApps
<1>2. OwnContracts' /\ PendingApps'
  BY DEF AccessInv, Ownership, OwnContracts, PendingApps
<1>3. AllGranted => AllGranted'
  BY DEF AllGranted, Granted
<1> QED
  BY <1>1, <1>2, <1>3 DEF AccessInv, Ownership

LEMMA UserKeepsAccess ==
    ASSUME ProvisioningAssumption, SubjectsAssumption, TypeInv, AccessInv, User
    PROVE  AccessInv'
<1> USE DEF TypeInv, TypeOK
<1>1. UNCHANGED <<apps, contracts, job, faults>>
  BY DEF User, AskAccess, AskCredential, Rotate, RemoveAccess, RemoveApp, anypoint, budgets
<1>2. \A m \in ManagedApps :
        /\ managed'[m].app = managed[m].app
        /\ \/ managed'[m].state = managed[m].state
           \/ managed[m].state \in {"ready", "failed"} /\ managed'[m].state = "removing"
  <2>1. CASE UNCHANGED managed
    BY <2>1
  <2>2. CASE \E m \in ManagedApps : RemoveApp(m)
    BY <2>2, ManagedState DEF RemoveApp, States
  <2> QED
    BY <2>1, <2>2 DEF User, AskAccess, AskCredential, Rotate, RemoveAccess
<1>3. \A r \in Requests :
        /\ request'[r].contract = request[r].contract
        /\ \/ request'[r].state = request[r].state
           \/ /\ request[r].state = "none" /\ request'[r].state = "pending"
              /\ managed[AppOf[r]].state = "ready" /\ UNCHANGED managed
           \/ request[r].state \in {"ready", "failed"} /\ request'[r].state = "removing"
  <2>1. CASE UNCHANGED request
    BY <2>1
  <2>2. CASE \E r \in Requests : AskAccess(r)
    BY <2>2, RequestState DEF AskAccess, States
  <2>3. CASE \E r \in Requests : RemoveAccess(r)
    BY <2>3, RequestState DEF RemoveAccess, States
  <2> QED
    BY <2>1, <2>2, <2>3 DEF User, AskCredential, Rotate, RemoveApp
<1>4. RecordedApps' /\ OwnContracts'
  BY <1>1, <1>2, <1>3 DEF AccessInv, Ownership, RecordedApps, OwnContracts
<1>5. PendingApps'
  <2>1. \A m \in ManagedApps : managed'[m].state = "pending" => managed[m].state = "pending"
    BY <1>2
  <2>2. ASSUME NEW r \in Requests, managed'[AppOf[r]].state = "pending"
        PROVE  request'[r].state = "none"
    <3>1. managed[AppOf[r]].state = "pending"
      BY <2>1, <2>2, AppOfSubject
    <3>2. request[r].state = "none"
      BY <3>1 DEF AccessInv, Ownership, PendingApps
    <3> QED
      BY <1>3, <3>1, <3>2
  <2> QED
    BY <1>2, <2>1, <2>2 DEF AccessInv, Ownership, PendingApps
<1>6. Claims'
  <2>1. HeldByJob'
    BY <1>1, <1>2, <1>3 DEF AccessInv, Claims, HeldByJob, JobOK
  <2>2. StateOfJob'
    BY <1>1, <1>2, <1>3
       DEF AccessInv, Claims, StateOfJob, JobOK, AccessCalls, RemovalCalls
  <2> QED
    BY <2>1, <2>2 DEF Claims
<1>7. JobAhead => JobAhead'
  BY <1>1, <1>2, AppOfSubject DEF JobAhead, Granted, JobOK, AccessCalls
<1>8. AllGranted => AllGranted'
  <2>1. ASSUME NEW r \in Requests, AllGranted, request'[r].state = "ready",
               managed'[AppOf[r]].state = "ready"
        PROVE  Granted(r, request[r].contract)
    BY <1>2, <1>3, <2>1, AppOfSubject DEF AllGranted
  <2> QED
    BY <1>1, <1>2, <1>3, <2>1, AppOfSubject DEF AllGranted, Granted
<1> QED
  BY <1>1, <1>4, <1>5, <1>6, <1>7, <1>8 DEF AccessInv, Ownership

LEMMA HandleKeepsAccess ==
    ASSUME ProvisioningAssumption, SubjectsAssumption, TypeInv, AccessInv,
           NEW x \in Subjects, Handle(x)
    PROVE  AccessInv'
<1> USE DEF TypeInv, TypeOK
<1>1. UNCHANGED <<managed, request, contracts, apps, faults>>
  BY DEF Handle, ApplicationRequestProvision, ApplicationRequestDeprovision,
         AccessRequestProvision, AccessRequestDeprovision, CredentialProvision,
         CredentialUpdate, central, anypoint, budgets
<1>2. Claims' /\ JobAhead'
  <2>1. CASE x \in ManagedApps
    BY <1>1, <2>1, SubjectsAssumption
       DEF Handle, ApplicationRequestProvision, ApplicationRequestDeprovision, Start, Answer,
           Claims, HeldByJob, StateOfJob, JobAhead, AccessCalls, RemovalCalls
  <2>2. CASE x \in Requests /\ AccessRequestProvision(x)
    <3>1. /\ job'.on = x /\ job'.app = managed[AppOf[x]].app
          /\ job'.pc = IF managed[AppOf[x]].app = 0 THEN "createApp" ELSE ToTier(x)
          /\ request[x].state = "pending"
      BY <2>2 DEF AccessRequestProvision, Start
    <3>2. ToTier(x) \in {"tiers", "contract"}
      BY DEF ToTier
    <3>3. \/ job'.pc \in {"tiers", "contract"}
          \/ job'.pc = "createApp" /\ managed[AppOf[x]].app = 0
      BY ONLY <3>1, <3>2
    <3> QED
      BY <1>1, <2>2, <3>1, <3>3
         DEF Claims, HeldByJob, StateOfJob, JobAhead, AccessCalls, RemovalCalls
  <2>3. CASE x \in Requests /\ AccessRequestDeprovision(x)
    BY <1>1, <2>3, SubjectsAssumption
       DEF AccessRequestDeprovision, Start, Answer,
           Claims, HeldByJob, StateOfJob, JobAhead, AccessCalls, RemovalCalls
  <2>4. CASE x \in Credentials
    BY <1>1, <2>4, SubjectsAssumption
       DEF Handle, CredentialProvision, CredentialUpdate, Start, Answer,
           Claims, HeldByJob, StateOfJob, JobAhead, AccessCalls, RemovalCalls
  <2> QED
    BY <2>1, <2>2, <2>3, <2>4, SubjectsAssumption DEF Handle
<1> QED
  BY <1>1, <1>2, QuietStep

LEMMA CreateAppKeepsAccess ==
    ASSUME ProvisioningAssumption, SubjectsAssumption, TypeInv, AccessInv, CreateApp
    PROVE  AccessInv'
<1> USE DEF TypeInv, TypeOK
<1> DEFINE more == Append(apps, [owner |-> AppOf[job.on], alive |-> TRUE, secret |-> 1])
<1>1. job.on \in Requests /\ AppOf[job.on] \in ManagedApps /\ Len(apps) \in Nat
  BY AppOfSubject, Fields DEF CreateApp, JobOK, AccessCalls
<1>2. UNCHANGED <<managed, request, contracts>> /\ apps' \in {apps, more}
  BY DEF CreateApp, central
<1>3. apps' = more => /\ Len(apps') = Len(apps) + 1
                      /\ \A i \in DOMAIN apps : apps'[i] = apps[i]
                      /\ apps'[Len(apps) + 1].owner = AppOf[job.on]
  BY <1>1, AppMade
<1>4. request[job.on].state = "pending" /\ (faults = 0 => managed[AppOf[job.on]].app = 0)
  BY DEF CreateApp, AccessInv, Claims, StateOfJob, JobAhead, AccessCalls
<1>5. CASE Fail /\ faults' = faults + 1
  <2>1. faults' # 0
    BY <1>5 DEF Typed
  <2>2. Claims'
    BY <1>1, <1>2, <1>4, <1>5, NoClaims DEF Fail, Succeed
  <2> QED
    BY <1>2, <1>3, <2>1, <2>2, QuietStep
<1>6. CASE /\ apps' = more /\ UNCHANGED faults
           /\ job' = [job EXCEPT !.pc = "writeBack", !.app = Len(more)]
  <2> DEFINE n == Len(more)
  <2>1. n = Len(apps) + 1 /\ n \in Nat
    BY <1>1, <1>3, <1>6
  <2>2. job' = [job EXCEPT !.pc = "writeBack", !.app = n]
    BY <1>6
  <2> HIDE DEF n
  <2>3. job'.pc = "writeBack" /\ job'.on = job.on /\ job'.app = n
    BY <2>1, <2>2, MadeAppJob
  <2>4. apps'[job'.app].owner = AppOf[job'.on]
    BY <1>3, <1>6, <2>1, <2>3
  <2>5. Claims' /\ (faults = 0 => JobAhead')
    BY <1>2, <1>4, <2>3, <2>4
       DEF Claims, HeldByJob, StateOfJob, JobAhead, AccessCalls, RemovalCalls
  <2> QED
    BY <1>2, <1>3, <1>6, <2>5, QuietStep
<1> QED
  BY <1>5, <1>6 DEF CreateApp, Fails

(* What follows for a request when its handler has an application.         *)
LEMMA NextClaims ==
    ASSUME Typed, StateOfJob, job.pc \in AccessCalls, UNCHANGED request,
           NEW pc \in {"tiers", "createTier", "contract"}, Continue(pc)
    PROVE  /\ Claims'
           /\ job.app = managed'[AppOf[job.on]].app => JobAhead'
<1>1. job'.pc = pc /\ job'.on = job.on /\ job'.app = job.app
  BY ContinueJob
<1> QED
  BY <1>1 DEF Claims, HeldByJob, StateOfJob, JobAhead, AccessCalls, RemovalCalls

LEMMA WriteBackKeepsAccess ==
    ASSUME ProvisioningAssumption, SubjectsAssumption, TypeInv, AccessInv, WriteBack
    PROVE  AccessInv'
<1> USE DEF TypeInv, TypeOK
<1> DEFINE m == AppOf[job.on]
<1>1. job.on \in Requests /\ m \in ManagedApps /\ job.app # 0 /\ job.app \in Nat
      /\ job.pc = "writeBack"
  BY AppOfSubject, Fields DEF WriteBack, JobOK, AccessCalls
<1>2. UNCHANGED <<request, apps, contracts>>
  BY DEF WriteBack, anypoint
<1>3. /\ \A n \in ManagedApps \ {m} : managed'[n].app = managed[n].app
      /\ managed'[m].app \in {managed[m].app, job.app}
      /\ UNCHANGED faults => managed'[m].app = job.app
      /\ \A n \in ManagedApps : managed'[n].state = managed[n].state
      /\ faults' # faults => faults' # 0
  <2>1. CASE managed' = [managed EXCEPT ![m].app = job.app] /\ UNCHANGED faults
    BY <1>1, <2>1, ManagedApp
  <2>2. CASE UNCHANGED managed /\ faults' = faults + 1
    BY <1>1, <2>2 DEF Typed
  <2> QED
    BY <2>1, <2>2 DEF WriteBack, Fails
<1>4. apps[job.app].owner = m /\ request[job.on].state = "pending"
      /\ (faults = 0 => managed[m].app = 0)
  BY <1>1 DEF AccessInv, Claims, HeldByJob, StateOfJob, JobAhead, AccessCalls
<1>5. RecordedApps'
  BY <1>2, <1>3, <1>4 DEF AccessInv, Ownership, RecordedApps
<1>6. OwnContracts'
  BY <1>2 DEF AccessInv, Ownership, OwnContracts
<1>7. PendingApps'
  <2>1. managed[m].state # "pending"
    BY <1>1, <1>4 DEF AccessInv, Ownership, PendingApps
  <2>2. \A r \in Requests : managed'[AppOf[r]].state = managed[AppOf[r]].state
    BY <1>3, AppOfSubject
  <2> HIDE DEF m
  <2> QED
    BY <1>2, <1>3, <2>1, <2>2 DEF AccessInv, Ownership, PendingApps
<1>8. Claims' /\ (faults' = 0 => JobAhead')
  <2>1. ToTier(job.on) \in {"tiers", "contract"} /\ Continue(ToTier(job.on))
    BY DEF ToTier, WriteBack
  <2>2. faults' = 0 => job.app = managed'[m].app
    BY <1>3
  <2>3. StateOfJob /\ job.pc \in AccessCalls
    BY <1>1 DEF AccessInv, Claims, AccessCalls
  <2> QED
    BY <1>2, <2>1, <2>2, <2>3, NextClaims
<1>9. faults' = 0 => AllGranted'
  <2> SUFFICES ASSUME NEW r \in Requests, faults' = 0, request[r].state = "ready",
                      managed[AppOf[r]].state = "ready"
               PROVE  Granted(r, request[r].contract)'
    BY <1>2, <1>3, AppOfSubject DEF AllGranted
  <2>1. faults = 0 /\ Granted(r, request[r].contract)
    BY <1>3 DEF AccessInv, AllGranted
  <2>2. contracts[request[r].contract].app # 0
    <3>1. request[r].contract \in DOMAIN contracts
      BY <2>1, Fields DEF Granted, IdsKnown
    <3> QED
      BY <3>1, Fields DEF IdsKnown
  <2>3. AppOf[r] # m /\ AppOf[r] \in ManagedApps
    BY <1>4, <2>1, <2>2, AppOfSubject DEF Granted
  <2>4. managed'[AppOf[r]].app = managed[AppOf[r]].app
    BY <1>3, <2>3
  <2> QED
    BY <1>2, <2>1, <2>4 DEF Granted
<1> QED
  BY <1>5, <1>6, <1>7, <1>8, <1>9 DEF AccessInv, Ownership

LEMMA TiersKeepAccess ==
    ASSUME ProvisioningAssumption, SubjectsAssumption, TypeInv, AccessInv,
           GetSLATiers \/ CreateSLATier
    PROVE  AccessInv'
<1> USE DEF TypeInv, TypeOK
<1>1. UNCHANGED <<managed, request, contracts, apps>>
  BY DEF GetSLATiers, CreateSLATier, central, anypoint
<1>2. /\ job.on \in Requests /\ job.pc \in AccessCalls
      /\ StateOfJob /\ request[job.on].state = "pending"
      /\ (faults = 0 => job.app = managed[AppOf[job.on]].app)
  BY DEF GetSLATiers, CreateSLATier, JobOK, AccessCalls, AccessInv, Claims, StateOfJob,
         JobAhead
<1>3. CASE Fail /\ faults' = faults + 1
  <2>1. faults' # 0
    BY <1>3 DEF Typed
  <2>2. Claims'
    BY <1>1, <1>2, <1>3, NoClaims DEF Fail, Succeed
  <2> QED
    BY <1>1, <2>1, <2>2, QuietStep
<1>4. CASE UNCHANGED faults /\ \E pc \in {"createTier", "contract"} : Continue(pc)
  BY <1>1, <1>2, <1>4, NextClaims, QuietStep
<1> QED
  BY <1>3, <1>4 DEF GetSLATiers, CreateSLATier, Fails

LEMMA CreateContractKeepsAccess ==
    ASSUME ProvisioningAssumption, SubjectsAssumption, TypeInv, AccessInv, CreateContract
    PROVE  AccessInv'
<1> USE DEF TypeInv, TypeOK
<1> DEFINE c == [app |-> job.app, api |-> ApiOf[job.on], state |-> "active"]
           more == Append(contracts, c)
           n == Len(contracts) + 1
<1>1. /\ job.on \in Requests /\ request[job.on].state = "pending"
      /\ (faults = 0 => job.app = managed[AppOf[job.on]].app)
  BY DEF CreateContract, JobOK, AccessCalls, AccessInv, Claims, StateOfJob, JobAhead
<1>2. UNCHANGED <<managed, request, apps>>
  BY DEF CreateContract, central
<1>3. \/ contracts' = more /\ Succeed("ready", Len(more)) /\ UNCHANGED faults
      \/ contracts' \in {contracts, more} /\ Fail /\ faults' = faults + 1
  BY DEF CreateContract, Fails
<1>4. c \in Contract
  BY <1>1, Fields DEF Contract, ProvisioningAssumption
<1>5. \A r \in Requests : request[r].contract \in Nat /\ request[r].contract <= Len(contracts)
  BY Fields DEF IdsKnown
<1>6. Len(contracts) \in Nat /\ DOMAIN contracts = 1..Len(contracts)
  BY Fields
<1>7. \A i \in DOMAIN contracts : contracts'[i] = contracts[i]
  BY <1>3, <1>4, ContractMade
<1>8. RecordedApps' /\ OwnContracts' /\ PendingApps'
  BY <1>2 DEF AccessInv, Ownership, RecordedApps, OwnContracts, PendingApps
<1>9. AllGranted => AllGranted'
  <2>1. ASSUME NEW r \in Requests, Granted(r, request[r].contract)
        PROVE  Granted(r, request[r].contract)'
    <3>1. request[r].contract \in DOMAIN contracts
      BY <1>5, <1>6, <2>1 DEF Granted
    <3> QED
      BY <1>2, <1>7, <2>1, <3>1 DEF Granted
  <2> QED
    BY <1>2, <2>1 DEF AllGranted
<1>10. CASE Fail /\ faults' = faults + 1
  <2>1. faults' # 0
    BY <1>10 DEF Typed
  <2>2. Claims'
    BY <1>1, <1>2, <1>10, NoClaims DEF Fail, Succeed
  <2> QED
    BY <1>8, <2>1, <2>2 DEF AccessInv, Ownership
<1>11. CASE contracts' = more /\ Succeed("ready", Len(more)) /\ UNCHANGED faults
  <2>1. Len(more) = n /\ contracts'[n] = c /\ n \in Nat
    BY <1>4, <1>6, <1>11, ContractMade
  <2>2. job'.pc = "report" /\ job'.on = job.on /\ job'.outcome = "ready" /\ job'.result = n
    BY <1>11, <2>1 DEF Succeed
  <2>3. \A r \in Requests : request[r].contract # n
    BY <1>5, <1>6
  <2>4. Claims'
    BY <1>1, <1>2, <2>2, <2>3, SubjectsAssumption
       DEF Claims, HeldByJob, StateOfJob, AccessCalls, RemovalCalls
  <2>5. faults = 0 => Granted(job.on, job.result)'
    <3>1. n # 0
      BY <1>6
    <3> QED
      BY <1>1, <1>2, <2>1, <2>2, <3>1 DEF Granted
  <2>6. faults = 0 => JobAhead'
    BY <2>2, <2>5 DEF JobAhead
  <2> QED
    BY <1>8, <1>9, <1>11, <2>4, <2>6 DEF AccessInv, Ownership
<1> QED
  BY <1>3, <1>10, <1>11

LEMMA RemovalKeepsAccess ==
    ASSUME ProvisioningAssumption, SubjectsAssumption, TypeInv, AccessInv,
           [Next]_vars, RevokeContract \/ DeleteContract
    PROVE  AccessInv'
<1> USE DEF TypeInv, TypeOK
<1> DEFINE k == request[job.on].contract
<1>1. /\ job.on \in Requests /\ request[job.on].state = "removing"
      /\ k # 0 /\ k \in DOMAIN contracts
  BY Fields DEF RevokeContract, DeleteContract, JobOK, RemovalCalls, AccessInv, Claims,
                StateOfJob, IdsKnown
<1>2. UNCHANGED <<managed, request, apps>>
  BY DEF RevokeContract, DeleteContract, central
<1>3. \A i \in DOMAIN contracts \ {k} : contracts'[i] = contracts[i]
  <2>1. CASE UNCHANGED contracts
    BY <2>1
  <2>2. CASE ContractTo("revoked") \/ ContractTo("deleted")
    <3>1. PICK v \in {"revoked", "deleted"} : contracts' = [contracts EXCEPT ![k].state = v]
      BY <2>2 DEF ContractTo
    <3> HIDE DEF k
    <3> QED
      BY <1>1, <3>1, ContractStateFacts
  <2> QED
    BY <2>1, <2>2 DEF RevokeContract, DeleteContract
<1>4. RecordedApps' /\ OwnContracts' /\ PendingApps'
  BY <1>2 DEF AccessInv, Ownership, RecordedApps, OwnContracts, PendingApps
<1>5. Claims' /\ JobAhead'
  <2>1. CASE Succeed("gone", 0)
    BY <1>1, <1>2, <2>1, NoClaims DEF Succeed
  <2>2. CASE Continue("deleteContract")
    <3>1. job'.pc = "deleteContract" /\ job'.on = job.on
      BY <2>2, ContinueJob
    <3> QED
      BY <1>1, <1>2, <3>1
         DEF Claims, HeldByJob, StateOfJob, JobAhead, AccessCalls, RemovalCalls
  <2> QED
    BY <2>1, <2>2 DEF RevokeContract, DeleteContract
<1>6. AllGranted => AllGranted'
  <2>1. ASSUME NEW r \in Requests, request[r].state = "ready",
               Granted(r, request[r].contract)
        PROVE  Granted(r, request[r].contract)'
    <3>1. request[r].contract \in DOMAIN contracts
      BY <2>1, Fields DEF Granted, IdsKnown
    <3>2. request[r].contract # k
      BY <1>1, <2>1 DEF AccessInv, Ownership, OwnContracts
    <3> QED
      BY <1>2, <1>3, <2>1, <3>1, <3>2 DEF Granted
  <2> QED
    BY <1>2, <2>1 DEF AllGranted
<1> QED
  BY <1>4, <1>5, <1>6, FaultsGrow DEF AccessInv, Ownership

LEMMA DeleteAppKeepsAccess ==
    ASSUME ProvisioningAssumption, SubjectsAssumption, TypeInv, AccessInv,
           [Next]_vars, DeleteApp
    PROVE  AccessInv'
<1> USE DEF TypeInv, TypeOK
<1>1. /\ job.on \in ManagedApps /\ managed[job.on].state = "removing"
      /\ job.app = managed[job.on].app /\ job.app # 0 /\ job.app \in DOMAIN apps
  BY Fields DEF DeleteApp, JobOK, AccessInv, Claims, HeldByJob, StateOfJob, IdsKnown
<1>2. UNCHANGED <<managed, request>>
  BY DEF DeleteApp, central
<1>3. /\ \A i \in DOMAIN apps : apps'[i].owner = apps[i].owner
      /\ \A i \in DOMAIN contracts :
            contracts[i].app # job.app => contracts'[i] = contracts[i]
  <2>1. CASE UNCHANGED <<apps, contracts>>
    BY <2>1
  <2>2. CASE AppDeleted
    BY <1>1, <2>2, AppDeletedFacts
  <2> QED
    BY <2>1, <2>2 DEF DeleteApp
<1>4. RecordedApps'
  <2>1. \A m \in ManagedApps : managed[m].app # 0 => managed[m].app \in DOMAIN apps
    BY Fields DEF IdsKnown
  <2> QED
    BY <1>2, <1>3, <2>1 DEF AccessInv, Ownership, RecordedApps
<1>5. OwnContracts' /\ PendingApps'
  BY <1>2 DEF AccessInv, Ownership, OwnContracts, PendingApps
<1>6. Claims' /\ JobAhead'
  BY <1>1, <1>2, SubjectsAssumption, NoClaims DEF DeleteApp, Fail, Succeed
<1>7. AllGranted => AllGranted'
  <2>1. ASSUME NEW r \in Requests, managed[AppOf[r]].state = "ready",
               Granted(r, request[r].contract)
        PROVE  Granted(r, request[r].contract)'
    <3>1. request[r].contract \in DOMAIN contracts
      BY <2>1, Fields DEF Granted, IdsKnown
    <3>2. AppOf[r] # job.on /\ AppOf[r] \in ManagedApps
      BY <1>1, <2>1, AppOfSubject
    <3>3. contracts[request[r].contract].app # job.app
      <4>1. contracts[request[r].contract].app = managed[AppOf[r]].app
        BY <2>1 DEF Granted
      <4>2. contracts[request[r].contract].app # 0
        BY <3>1, Fields DEF IdsKnown
      <4> QED
        BY <1>1, <3>2, <4>1, <4>2 DEF AccessInv, Ownership, RecordedApps
    <3> QED
      BY <1>2, <1>3, <2>1, <3>1, <3>3 DEF Granted
  <2> QED
    BY <1>2, <2>1 DEF AllGranted
<1> QED
  BY <1>4, <1>5, <1>6, <1>7, FaultsGrow DEF AccessInv, Ownership

LEMMA SecretsKeepAccess ==
    ASSUME ProvisioningAssumption, SubjectsAssumption, TypeInv, AccessInv,
           [Next]_vars, GetSecret \/ GetApp \/ ResetAppSecret
    PROVE  AccessInv'
<1> USE DEF TypeInv, TypeOK
<1>1. job.on \in Credentials /\ job.on \notin Requests /\ job.on \notin ManagedApps
      /\ job.app \in DOMAIN apps
  BY SubjectsAssumption, Fields
     DEF GetSecret, GetApp, ResetAppSecret, JobOK, SecretCalls, IdsKnown
<1>2. UNCHANGED <<managed, request, contracts>>
  BY DEF GetSecret, GetApp, ResetAppSecret, central, anypoint
<1>3. \A i \in DOMAIN apps : apps'[i].owner = apps[i].owner
  <2>1. CASE UNCHANGED apps
    BY <2>1
  <2>2. CASE apps' = [apps EXCEPT ![job.app].secret = @ + 1]
    BY <1>1, <2>2, SecretReset
  <2> QED
    BY <2>1, <2>2 DEF GetSecret, GetApp, ResetAppSecret, anypoint
<1>4. job'.on = job.on /\ job'.pc \in {"reset", "report"}
  BY ContinueJob DEF GetSecret, GetApp, ResetAppSecret, Fail, Succeed
<1>5. Claims' /\ JobAhead'
  BY <1>1, <1>4 DEF Claims, HeldByJob, StateOfJob, JobAhead, AccessCalls, RemovalCalls
<1> QED
  BY <1>2, <1>3, <1>5, FaultsGrow, QuietStep

LEMMA ReportKeepsAccess ==
    ASSUME ProvisioningAssumption, SubjectsAssumption, TypeInv, AccessInv, Report
    PROVE  AccessInv'
<1> USE DEF TypeInv, TypeOK
<1>1. UNCHANGED <<apps, contracts, faults>> /\ job' = NoJob /\ job.pc = "report"
  BY DEF Report, anypoint, budgets
<1>2. Claims' /\ JobAhead'
  BY <1>1, NoClaims
<1>3. job.outcome \in {"ready", "failed", "gone"} /\ job.outcome \in States
      /\ job.result \in Nat
  BY <1>1, Fields DEF JobOK, States
<1>4. CASE /\ job.on \in ManagedApps
           /\ managed' = [managed EXCEPT ![job.on].state = job.outcome]
           /\ UNCHANGED request
  <2>1. /\ managed'[job.on].state = job.outcome
        /\ \A n \in ManagedApps \ {job.on} : managed'[n].state = managed[n].state
        /\ \A n \in ManagedApps : managed'[n].app = managed[n].app
    BY <1>3, <1>4, ManagedState
  <2>2. RecordedApps' /\ OwnContracts'
    BY <1>1, <1>4, <2>1 DEF AccessInv, Ownership, RecordedApps, OwnContracts
  <2>3. PendingApps'
    BY <1>3, <1>4, <2>1, AppOfSubject DEF AccessInv, Ownership, PendingApps
  <2>4. AllGranted => AllGranted'
    <3>1. ASSUME NEW r \in Requests, AllGranted, request[r].state = "ready",
                 managed'[AppOf[r]].state = "ready"
          PROVE  Granted(r, request[r].contract)
      <4>1. CASE AppOf[r] # job.on
        BY <2>1, <3>1, <4>1, AppOfSubject DEF AllGranted
      <4>2. CASE AppOf[r] = job.on
        <5>1. managed[job.on].state = "pending"
          BY <1>1, <1>4, <2>1, <3>1, <4>2 DEF AccessInv, Claims, StateOfJob
        <5> QED
          BY <3>1, <4>2, <5>1 DEF AccessInv, Ownership, PendingApps
      <4> QED
        BY <4>1, <4>2
    <3> QED
      BY <1>1, <1>4, <2>1, <3>1, AppOfSubject DEF AllGranted, Granted
  <2> QED
    BY <1>1, <1>2, <2>2, <2>3, <2>4 DEF AccessInv, Ownership
<1>5. CASE job.on \in Requests /\ UNCHANGED managed /\ ~UNCHANGED request
  <2> DEFINE k == IF job.outcome = "ready" THEN job.result ELSE request[job.on].contract
  <2>1. request' = [request EXCEPT ![job.on].state = job.outcome, ![job.on].contract = k]
    BY <1>5 DEF Report
  <2>2. k \in Nat
    BY <1>3, <1>5, Fields
  <2>3. /\ job.outcome = "ready" => k = job.result
        /\ job.outcome # "ready" => k = request[job.on].contract
    OBVIOUS
  <2> HIDE DEF k
  <2>4. Typed /\ job.outcome \in States /\ k \in Nat /\ job.on \in Requests
    BY <1>3, <1>5, <2>2
  <2>5. /\ request'[job.on].state = job.outcome /\ request'[job.on].contract = k
        /\ \A s \in Requests \ {job.on} : request'[s] = request[s]
    BY ONLY <2>1, <2>4 DEF Typed, Request
  <2>6. RecordedApps'
    BY <1>1, <1>5 DEF AccessInv, Ownership, RecordedApps
  <2>7. OwnContracts'
    <3>1. job.outcome = "ready" => \A r \in Requests : request[r].contract # k
      BY <1>1, <1>5, <2>3 DEF AccessInv, Claims, HeldByJob
    <3>2. CASE job.outcome = "ready"
      BY <1>5, <2>5, <3>1, <3>2 DEF AccessInv, Ownership, OwnContracts
    <3>3. CASE job.outcome # "ready"
      <4>1. \A r \in Requests : request'[r].contract = request[r].contract
        BY <2>3, <2>5, <3>3
      <4> QED
        BY <4>1 DEF AccessInv, Ownership, OwnContracts
    <3> QED
      BY <3>2, <3>3
  <2>8. PendingApps'
    <3>1. request[job.on].state # "none"
      BY <1>1, <1>5 DEF AccessInv, Claims, StateOfJob
    <3>2. managed[AppOf[job.on]].state # "pending"
      BY <1>5, <3>1 DEF AccessInv, Ownership, PendingApps
    <3> QED
      BY <1>5, <2>5, <3>2 DEF AccessInv, Ownership, PendingApps
  <2>9. JobAhead /\ AllGranted => AllGranted'
    <3>1. ASSUME NEW r \in Requests, JobAhead, AllGranted, request'[r].state = "ready",
                 managed[AppOf[r]].state = "ready"
          PROVE  Granted(r, request'[r].contract)
      <4>1. CASE r = job.on
        BY <1>1, <1>5, <2>3, <2>5, <3>1, <4>1 DEF JobAhead
      <4>2. CASE r # job.on
        BY <2>5, <3>1, <4>2 DEF AllGranted
      <4> QED
        BY <4>1, <4>2
    <3> QED
      BY <1>1, <1>5, <3>1 DEF AllGranted, Granted
  <2> QED
    BY <1>1, <1>2, <2>6, <2>7, <2>8, <2>9 DEF AccessInv, Ownership
<1>6. CASE UNCHANGED <<managed, request>>
  BY <1>1, <1>2, <1>6, QuietStep
<1> QED
  BY <1>4, <1>5, <1>6 DEF Report

LEMMA AccessStep ==
    ASSUME ProvisioningAssumption, SubjectsAssumption, TypeInv, AccessInv, [Next]_vars
    PROVE  AccessInv'
<1>1. CASE User
  BY <1>1, UserKeepsAccess
<1>2. ASSUME NEW x \in Subjects, Handle(x)
      PROVE  AccessInv'
  BY <1>2, HandleKeepsAccess
<1>3. CASE CreateApp
  BY <1>3, CreateAppKeepsAccess
<1>4. CASE WriteBack
  BY <1>4, WriteBackKeepsAccess
<1>5. CASE GetSLATiers \/ CreateSLATier
  BY <1>5, TiersKeepAccess
<1>6. CASE CreateContract
  BY <1>6, CreateContractKeepsAccess
<1>7. CASE RevokeContract \/ DeleteContract
  BY <1>7, RemovalKeepsAccess
<1>8. CASE DeleteApp
  BY <1>8, DeleteAppKeepsAccess
<1>9. CASE GetSecret \/ GetApp \/ ResetAppSecret
  BY <1>9, SecretsKeepAccess
<1>10. CASE Report
  BY <1>10, ReportKeepsAccess
<1>11. CASE Crash
  <2>1. UNCHANGED <<managed, request, contracts, apps, faults>> /\ job' = NoJob
    BY <1>11 DEF Crash, central, anypoint
  <2> QED
    BY <2>1, NoClaims, QuietStep
<1>12. CASE UNCHANGED vars
  BY <1>12 DEF vars, AccessInv, Ownership, RecordedApps, OwnContracts, PendingApps, Claims,
               HeldByJob, StateOfJob, JobAhead, AllGranted, Granted
<1> QED
  BY <1>1, <1>2, <1>3, <1>4, <1>5, <1>6, <1>7, <1>8, <1>9, <1>10, <1>11, <1>12
     DEF Next, Call

LEMMA AccessInit ==
    ASSUME ProvisioningAssumption, Init
    PROVE  AccessInv
  BY NoJobType, AppOfSubject
     DEF Init, AccessInv, Ownership, RecordedApps, OwnContracts, PendingApps, Claims,
         HeldByJob, StateOfJob, JobAhead, AllGranted, AccessCalls, RemovalCalls

(* Without a failed call, an access request that is ready has the contract *)
(* it asked for, active and held by the recorded application, while its    *)
(* managed application is ready: no crash, retry or removal of anything    *)
(* else takes it away (AccessRequestProvision,                             *)
(* src/pkg/subscription/provision.go).                                     *)
THEOREM GrantedAccessIsReal == Spec => []AccessIsReal
<1>1. Init => TypeInv /\ AccessInv
  BY TypeInit, AccessInit, ProvisioningAssumption, SubjectsAssumption
<1>2. (TypeInv /\ AccessInv) /\ [Next]_vars => (TypeInv /\ AccessInv)'
  BY TypeStep, AccessStep, ProvisioningAssumption, SubjectsAssumption
<1>3. TypeInv /\ AccessInv => AccessIsReal
  BY DEF AccessInv, AllGranted, AccessIsReal, Granted
<1> QED
  BY <1>1, <1>2, <1>3, PTL DEF Spec
-----------------------------------------------------------------------------
(* Liveness.  A handler goes from call to call to its report: the calls    *)
(* that can follow each of its calls.                                      *)
At(pc) == job.pc = pc
Free == job = NoJob
On(r) == job.on = r

LEMMA NextCall ==
    ASSUME TypeInv, Call
    PROVE  /\ At("createApp") => At("writeBack")' \/ At("report")'
           /\ At("writeBack") => At("tiers")' \/ At("contract")'
           /\ At("tiers") => At("createTier")' \/ At("contract")' \/ At("report")'
           /\ At("createTier") => At("contract")' \/ At("report")'
           /\ At("contract") => At("report")'
           /\ At("revoke") => At("deleteContract")' \/ At("report")'
           /\ At("deleteContract") => At("report")'
           /\ At("deleteApp") => At("report")'
           /\ At("getSecret") => At("report")'
           /\ At("getApp") => At("reset")' \/ At("report")'
           /\ At("reset") => At("report")'
           /\ At("report") => Free'
           /\ Free' \/ job'.on = job.on
<1>0. job \in Job
  BY DEF TypeInv, TypeOK, Typed
<1>1. CASE Report
  BY <1>0, <1>1 DEF Report, At, Free
<1>2. ASSUME NEW pc, Continue(pc) PROVE job'.pc = pc /\ job'.on = job.on
  BY <1>0, <1>2 DEF Continue, Job
<1>3. ASSUME NEW outcome, NEW result, Succeed(outcome, result)
      PROVE  job'.pc = "report" /\ job'.on = job.on
  BY <1>3 DEF Succeed
<1>4. Fail => job'.pc = "report" /\ job'.on = job.on
  BY <1>3 DEF Fail
<1>5. CASE CreateApp
  <2>1. ASSUME NEW app, job' = [job EXCEPT !.pc = "writeBack", !.app = app]
        PROVE  job'.pc = "writeBack" /\ job'.on = job.on
    BY <1>0, <2>1 DEF Job
  <2> QED BY <1>4, <1>5, <2>1 DEF CreateApp, At
<1>6. CASE WriteBack
  BY <1>2, <1>6 DEF WriteBack, ToTier, At
<1>7. CASE GetSLATiers \/ CreateSLATier
  BY <1>2, <1>4, <1>7 DEF GetSLATiers, CreateSLATier, At
<1>8. CASE CreateContract
  BY <1>3, <1>4, <1>8 DEF CreateContract, At
<1>9. CASE RevokeContract \/ DeleteContract
  BY <1>2, <1>3, <1>9 DEF RevokeContract, DeleteContract, At
<1>10. CASE DeleteApp
  BY <1>3, <1>4, <1>10 DEF DeleteApp, At
<1>11. CASE GetSecret \/ GetApp \/ ResetAppSecret
  BY <1>2, <1>3, <1>4, <1>11 DEF GetSecret, GetApp, ResetAppSecret, At
<1> QED BY <1>1, <1>5, <1>6, <1>7, <1>8, <1>9, <1>10, <1>11 DEF Call

(* While a handler is under way only its calls go on, but for a crash.     *)
LEMMA JobMoves ==
    ASSUME TypeInv, [Next]_vars, ~Free
    PROVE  job' = job \/ Call \/ Free'
<1>1. CASE User
  BY <1>1 DEF User, AskAccess, RemoveAccess, AskCredential, Rotate, RemoveApp
<1>2. CASE \E x \in Subjects : Handle(x)
  <2>1. FALSE
    BY <1>2 DEF Handle, ApplicationRequestProvision, ApplicationRequestDeprovision,
       AccessRequestProvision, AccessRequestDeprovision, CredentialProvision,
       CredentialUpdate, Start, Answer, Free
  <2> QED BY <2>1
<1>3. CASE Crash \/ UNCHANGED vars
  BY <1>3 DEF Crash, vars, Free
<1> QED BY <1>1, <1>2, <1>3 DEF Next

(* What the liveness of a behaviour takes from any moment on.              *)
Live == /\ [][Next]_vars /\ []TypeInv /\ []NeverStuck /\ Fairness

(* Each call ends in another one or in the report.                         *)
LEMMA CallsFollow ==
    ASSUME TypeInv, [Next]_vars
    PROVE  /\ At("createApp") => At("createApp")' \/ At("writeBack")' \/ At("report")' \/ Free'
           /\ At("writeBack") => At("writeBack")' \/ At("tiers")' \/ At("contract")' \/ Free'
           /\ At("tiers") => \/ At("tiers")' \/ At("createTier")' \/ At("contract")'
                             \/ At("report")' \/ Free'
           /\ At("createTier") => At("createTier")' \/ At("contract")' \/ At("report")' \/ Free'
           /\ At("contract") => At("contract")' \/ At("report")' \/ Free'
           /\ At("revoke") => At("revoke")' \/ At("deleteContract")' \/ At("report")' \/ Free'
           /\ At("deleteContract") => At("deleteContract")' \/ At("report")' \/ Free'
           /\ At("deleteApp") => At("deleteApp")' \/ At("report")' \/ Free'
           /\ At("getSecret") => At("getSecret")' \/ At("report")' \/ Free'
           /\ At("getApp") => At("getApp")' \/ At("reset")' \/ At("report")' \/ Free'
           /\ At("reset") => At("reset")' \/ At("report")' \/ Free'
           /\ At("report") => At("report")' \/ Free'
<1>1. CASE Free
  BY <1>1 DEF Free, NoJob, At
<1>2. CASE job' = job
  BY <1>2 DEF At
<1>3. CASE Call
  BY <1>3, NextCall
<1>4. CASE Free'
  BY <1>4
<1> QED BY <1>1, <1>2, <1>3, <1>4, JobMoves

LEMMA HandlerReturns == Live => (TRUE ~> Free)
<1>1. TypeInv => \/ Free \/ At("createApp") \/ At("writeBack") \/ At("tiers")
                 \/ At("createTier") \/ At("contract") \/ At("revoke")
                 \/ At("deleteContract") \/ At("deleteApp") \/ At("getSecret")
                 \/ At("getApp") \/ At("reset") \/ At("report")
  BY DEF TypeInv, TypeOK, Typed, Job, JobOK, At, Free
<1>2. NeverStuck => Free \/ ENABLED <<Call>>_vars
  BY DEF NeverStuck, Free
<1>3. Live => (At("report") ~> Free)
  BY CallsFollow, NextCall, <1>2, PTL DEF Live, Fairness
<1>4. Live => (At("contract") \/ At("deleteContract") \/ At("deleteApp") \/ At("getSecret")
                 \/ At("reset") ~> At("report") \/ Free)
  BY CallsFollow, NextCall, <1>2, PTL DEF Live, Fairness
<1>5. Live => (At("createTier") \/ At("revoke") \/ At("getApp") ~>
                 \/ At("contract") \/ At("deleteContract") \/ At("reset")
                 \/ At("report") \/ Free)
  BY CallsFollow, NextCall, <1>2, PTL DEF Live, Fairness
<1>6. Live => (At("tiers") ~> At("createTier") \/ At("contract") \/ At("report") \/ Free)
  BY CallsFollow, NextCall, <1>2, PTL DEF Live, Fairness
<1>7. Live => (At("writeBack") ~> At("tiers") \/ At("contract") \/ Free)
  BY CallsFollow, NextCall, <1>2, PTL DEF Live, Fairness
<1>8. Live => (At("createApp") ~> At("writeBack") \/ At("report") \/ Free)
  BY CallsFollow, NextCall, <1>2, PTL DEF Live, Fairness
<1> QED BY <1>1, <1>3, <1>4, <1>5, <1>6, <1>7, <1>8, PTL DEF Live

(* What a handler has begun it reports, but for a crash; and only it makes *)
(* a resource stop waiting or start another handler.                       *)
LEMMA ReportAnswers ==
    ASSUME TypeInv, NEW x \in Subjects, On(x), Report
    PROVE  ~Waiting(x)'
<1>1. /\ job.outcome \in {"ready", "failed", "gone"} /\ job.on = x
      /\ x \in Credentials => job.outcome \in {"ready", "failed"}
  BY DEF TypeInv, TypeOK, Typed, Job, JobOK, Report, On
<1>2. CASE x \in ManagedApps
  <2>1. managed' = [managed EXCEPT ![x].state = job.outcome]
    BY <1>1, <1>2, SubjectsAssumption DEF Report
  <2>2. managed'[x].state = job.outcome
    BY <1>1, <1>2, <2>1 DEF TypeInv, TypeOK, Typed, Managed
  <2> QED BY <1>1, <1>2, <2>2, SubjectsAssumption DEF Waiting
<1>3. CASE x \in Requests
  <2> DEFINE q == [request[x] EXCEPT !.state = job.outcome,
                      !.contract = IF job.outcome = "ready" THEN job.result ELSE @]
  <2>1. request' = [request EXCEPT ![x] = q]
    BY <1>1, <1>3, SubjectsAssumption DEF Report
  <2>2. q.state = job.outcome
    BY <1>3 DEF TypeInv, TypeOK, Typed, Request
  <2> HIDE DEF q
  <2>3. request'[x].state = job.outcome
    BY <1>3, <2>1, <2>2 DEF TypeInv, TypeOK, Typed
  <2> QED BY <1>1, <1>3, <2>3, SubjectsAssumption DEF Waiting
<1>4. CASE x \in Credentials
  <2> DEFINE q == [credential[x] EXCEPT !.state = job.outcome,
                      !.secret = IF job.outcome = "ready" THEN job.result ELSE @]
  <2>1. credential' = [credential EXCEPT ![x] = q]
    BY <1>1, <1>4, SubjectsAssumption DEF Report
  <2>2. q.state = job.outcome
    BY <1>4 DEF TypeInv, TypeOK, Typed, Credential
  <2> HIDE DEF q
  <2>3. credential'[x].state = job.outcome
    BY <1>4, <2>1, <2>2 DEF TypeInv, TypeOK, Typed
  <2> QED BY <1>1, <1>4, <2>3, SubjectsAssumption DEF Waiting
<1> QED BY <1>2, <1>3, <1>4 DEF Subjects

LEMMA HandlerStays ==
    ASSUME TypeInv, NEW x \in Subjects, On(x), [Next]_vars, ~Crash
    PROVE  On(x)' \/ ~Waiting(x)'
<1>1. ~Free
  BY SubjectsAssumption DEF On, Free, NoJob, Subjects
<1>2. CASE job' = job
  BY <1>2 DEF On
<1>3. CASE Call
  <2>1. CASE Report
    BY <2>1, ReportAnswers
  <2>2. CASE ~Free'
    BY <1>3, <2>2, NextCall DEF On
  <2>3. CASE ~Report /\ Free'
    <3>1. job.pc # "report" /\ job'.pc = "idle"
      BY <1>3, <2>3 DEF Call, CreateApp, WriteBack, GetSLATiers, CreateSLATier,
         CreateContract, RevokeContract, DeleteContract, DeleteApp, GetSecret, GetApp,
         ResetAppSecret, Free, NoJob
    <3> QED BY <1>1, <1>3, <3>1, NextCall DEF TypeInv, TypeOK, Typed, Job, JobOK, At, Free
  <2> QED BY <2>1, <2>2, <2>3
<1>4. CASE Free' /\ job' # job /\ ~Call
  <2>1. FALSE
    <3>1. ~UNCHANGED vars /\ ~Crash
      BY <1>4 DEF vars
    <3>2. ~User
      BY <1>4 DEF User, AskAccess, RemoveAccess, AskCredential, Rotate, RemoveApp
    <3>3. ~\E y \in Subjects : Handle(y)
      BY <1>1 DEF Handle, ApplicationRequestProvision, ApplicationRequestDeprovision,
         AccessRequestProvision, AccessRequestDeprovision, CredentialProvision,
         CredentialUpdate, Start, Answer, Free
    <3> QED BY <1>4, <3>1, <3>2, <3>3 DEF Next
  <2> QED BY <2>1
<1> QED BY <1>1, <1>2, <1>3, <1>4, JobMoves

LEMMA HandlerBegins ==
    ASSUME NEW x \in Subjects, Handle(x)
    PROVE  On(x)'
BY DEF Handle, ApplicationRequestProvision, ApplicationRequestDeprovision,
   AccessRequestProvision, AccessRequestDeprovision, CredentialProvision,
   CredentialUpdate, Start, Answer, On

LEMMA ServedIsAnswered ==
    ASSUME NEW x \in Subjects
    PROVE  Live /\ Served(x) /\ <>[][~Crash]_vars => Answered(x)
<1>1. ASSUME NeverStuck, Free, Waiting(x) PROVE ENABLED <<Handle(x)>>_vars
  BY <1>1 DEF NeverStuck, Free, Ready
<1>2. On(x) => ~Free
  BY SubjectsAssumption DEF On, Free, NoJob, Subjects
<1>3. ASSUME TypeInv, On(x), [Next]_vars, [~Crash]_vars
      PROVE  On(x)' \/ ~Waiting(x)'
  <2>1. CASE UNCHANGED vars
    BY <1>3, <2>1 DEF vars, On
  <2> QED BY <1>3, <2>1, HandlerStays
<1>4. Handle(x) => On(x)'
  BY HandlerBegins
<1> QED BY <1>1, <1>2, <1>3, <1>4, HandlerReturns, PTL DEF Live, Served, Answered

(* Whatever Central waits for is answered, as long as the agent does not   *)
(* crash again and again: the handlers before it come to their reports,    *)
(* its own begins, and reports before another can.  (Crashes are bounded   *)
(* in the model; that they stop is all that is used.)                      *)
THEOREM EveryoneIsAnswered ==
    FairSpec /\ <>[][~Crash]_vars /\ []NeverStuck => RequestsAnswered
<1>1. FairSpec /\ []NeverStuck => Live
  BY TypeInvariant, PTL DEF FairSpec, Spec, Live
<1>2. FairSpec => AllServed
  BY PTL DEF FairSpec, Fairness
<1>3. ASSUME NEW x \in Subjects
      PROVE  FairSpec /\ <>[][~Crash]_vars /\ []NeverStuck => Answered(x)
  <2>1. AllServed => Served(x)
    BY DEF AllServed
  <2> QED BY <1>1, <1>2, <2>1, ServedIsAnswered
<1> QED BY <1>3 DEF RequestsAnswered
=============================================================================
