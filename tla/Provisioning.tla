---------------------------- MODULE Provisioning ----------------------------
(***************************************************************************)
(* Provisioning of consumers (pkg/subscription): a managed application of  *)
(* Amplify Central gets an application in Anypoint, an access request gets *)
(* a contract between that application and an API, a credential gets the   *)
(* application's secret.                                                   *)
(*                                                                         *)
(* The SDK hands the agent one request at a time and writes the outcome to *)
(* Central when the handler returns.  A handler makes several calls to     *)
(* Anypoint; each is a step, may fail, and may fail after it took effect.  *)
(* A crash forgets the request under way; it is still pending in Central   *)
(* and handled again from the start.                                       *)
(*                                                                         *)
(* Applications and contracts are numbered in the order they are made; 0   *)
(* stands for the empty ID.  Only managed applications that are ready get  *)
(* access requests and credentials handled; the SDK refuses others.        *)
(***************************************************************************)
EXTENDS Integers, Sequences, FiniteSets

CONSTANTS ManagedApps, Requests, Credentials, Apis,
          AppOf,        \* the managed application of a request or credential
          ApiOf,        \* the API a request asks access to
          Tiered,       \* the requests that name an SLA tier
          Faults,       \* the calls that may fail
          MaxFaults, MaxCrashes, MaxRotations,
          Nobody        \* no request

Calls == {"createApp", "writeBack", "tiers", "createTier", "contract",
          "revoke", "deleteContract", "deleteApp", "getApp", "reset"}

ASSUME ProvisioningAssumption ==
    /\ AppOf \in [Requests \cup Credentials -> ManagedApps]
    /\ ApiOf \in [Requests -> Apis]
    /\ Tiered \subseteq Requests
    /\ Faults \subseteq Calls
    /\ {MaxFaults, MaxCrashes, MaxRotations} \subseteq Nat

ASSUME SubjectsAssumption ==
    /\ ManagedApps \cap Requests = {}
    /\ ManagedApps \cap Credentials = {}
    /\ Requests \cap Credentials = {}
    /\ Nobody \notin ManagedApps \cup Requests \cup Credentials

VARIABLES
    managed,        \* Central: state of each managed application, its appID
    request,        \* Central: state of each access request, its contract ID
    credential,     \* Central: state of each credential, the secret it holds
    apps,           \* Anypoint: applications with owner and secret
    contracts,      \* Anypoint: contracts with application, API and state
    tiers,          \* Anypoint: how many tiers of the agent each API has
    job,            \* the request being handled
    faults, crashes, rotations

vars == <<managed, request, credential, apps, contracts, tiers, job,
          faults, crashes, rotations>>
central == <<managed, request, credential>>
anypoint == <<apps, contracts, tiers>>
budgets == <<faults, crashes, rotations>>

NoJob == [on |-> Nobody, pc |-> "idle", app |-> 0, outcome |-> "none", result |-> 0]

Fails(call) == /\ call \in Faults
               /\ faults < MaxFaults
               /\ faults' = faults + 1

Init == /\ managed = [m \in ManagedApps |-> [state |-> "pending", app |-> 0]]
        /\ request = [r \in Requests |-> [state |-> "none", contract |-> 0]]
        /\ credential = [c \in Credentials |-> [state |-> "none", secret |-> 0]]
        /\ apps = <<>> /\ contracts = <<>>
        /\ tiers = [a \in Apis |-> 0]
        /\ job = NoJob
        /\ faults = 0 /\ crashes = 0 /\ rotations = 0
-----------------------------------------------------------------------------
(* Consumers and operators, at Central.                                    *)

AskAccess(r) ==
    /\ request[r].state = "none"
    /\ managed[AppOf[r]].state = "ready"
    /\ request' = [request EXCEPT ![r].state = "pending"]
    /\ UNCHANGED <<managed, credential, anypoint, job, budgets>>

AskCredential(c) ==
    /\ credential[c].state = "none"
    /\ managed[AppOf[c]].state = "ready"
    /\ credential' = [credential EXCEPT ![c].state = "pending"]
    /\ UNCHANGED <<managed, request, anypoint, job, budgets>>

Rotate(c) ==
    /\ credential[c].state = "ready"
    /\ rotations < MaxRotations
    /\ rotations' = rotations + 1
    /\ credential' = [credential EXCEPT ![c].state = "rotating"]
    /\ UNCHANGED <<managed, request, anypoint, job, faults, crashes>>

RemoveAccess(r) ==
    /\ request[r].state \in {"ready", "failed"}
    /\ request' = [request EXCEPT ![r].state = "removing"]
    /\ UNCHANGED <<managed, credential, anypoint, job, budgets>>

RemoveApp(m) ==
    /\ managed[m].state \in {"ready", "failed"}
    /\ managed' = [managed EXCEPT ![m].state = "removing"]
    /\ UNCHANGED <<request, credential, anypoint, job, budgets>>
-----------------------------------------------------------------------------
(* A handler starts, goes on to its next call, or comes to its end.        *)

Start(on, pc, app) ==
    /\ job = NoJob
    /\ job' = [on |-> on, pc |-> pc, app |-> app, outcome |-> "none", result |-> 0]

Answer(on, outcome) ==
    /\ job = NoJob
    /\ job' = [on |-> on, pc |-> "report", app |-> 0, outcome |-> outcome, result |-> 0]

Continue(pc) == job' = [job EXCEPT !.pc = pc]

Succeed(outcome, result) ==
    job' = [on |-> job.on, pc |-> "report", app |-> job.app, outcome |-> outcome,
            result |-> result]
Fail == Succeed("failed", 0)

(* ApplicationRequestProvision: nothing is made in Anypoint yet.           *)
ApplicationRequestProvision(m) ==
    /\ managed[m].state = "pending"
    /\ Answer(m, "ready")
    /\ UNCHANGED <<central, anypoint, budgets>>

(* AccessRequestProvision: without a recorded appID the application is     *)
(* made first; without a named tier the agent's own tier is used.          *)
ToTier(r) == IF r \in Tiered THEN "contract" ELSE "tiers"

(* Mutants of AccessRequestProvision: the empty appID is not noticed, the  *)
(* recorded one is not looked at, or the handler waits for one.            *)
AppIdUnchecked(r) ==
    /\ request[r].state = "pending"
    /\ managed[AppOf[r]].state = "ready"
    /\ Start(r, ToTier(r), managed[AppOf[r]].app)
    /\ UNCHANGED <<central, anypoint, budgets>>

AppIdIgnored(r) ==
    /\ request[r].state = "pending"
    /\ managed[AppOf[r]].state = "ready"
    /\ Start(r, "createApp", 0)
    /\ UNCHANGED <<central, anypoint, budgets>>

AppIdAwaited(r) == managed[AppOf[r]].app # 0 /\ AppIdUnchecked(r)

AccessRequestProvision(r) ==
    LET app == managed[AppOf[r]].app
    IN  /\ request[r].state = "pending"
        /\ managed[AppOf[r]].state = "ready"
        /\ Start(r, IF app = 0 THEN "createApp" ELSE ToTier(r), app)
        /\ UNCHANGED <<central, anypoint, budgets>>

CreateApp ==
    LET more == Append(apps, [owner |-> AppOf[job.on], alive |-> TRUE, secret |-> 1])
    IN  /\ job.pc = "createApp"
        /\ \/ /\ apps' = more
              /\ job' = [job EXCEPT !.pc = "writeBack", !.app = Len(more)]
              /\ UNCHANGED faults
           \/ /\ Fails("createApp")
              /\ apps' \in {apps, more}
              /\ Fail
        /\ UNCHANGED <<central, contracts, tiers, crashes, rotations>>

(* Mutant of WriteBack: the appID is not recorded.                         *)
NoWriteBack ==
    /\ job.pc = "writeBack"
    /\ Continue(ToTier(job.on))
    /\ UNCHANGED <<central, anypoint, budgets>>

(* The appID is recorded at the managed application; an error of reading   *)
(* or writing the resource is of no consequence to the request.            *)
WriteBack ==
    /\ job.pc = "writeBack"
    /\ \/ /\ managed' = [managed EXCEPT ![AppOf[job.on]].app = job.app]
          /\ UNCHANGED faults
       \/ Fails("writeBack") /\ UNCHANGED managed
    /\ Continue(ToTier(job.on))
    /\ UNCHANGED <<request, credential, anypoint, crashes, rotations>>

(* Mutant of GetSLATiers: existing tiers are not looked through.           *)
TiersUnsearched ==
    /\ job.pc = "tiers"
    /\ \/ Continue("createTier") /\ UNCHANGED faults
       \/ Fails("tiers") /\ Fail
    /\ UNCHANGED <<central, anypoint, crashes, rotations>>

(* CreateIfNotExistingSLATier, in two calls.                               *)
GetSLATiers ==
    /\ job.pc = "tiers"
    /\ \/ /\ Continue(IF tiers[ApiOf[job.on]] > 0 THEN "contract" ELSE "createTier")
          /\ UNCHANGED faults
       \/ Fails("tiers") /\ Fail
    /\ UNCHANGED <<central, anypoint, crashes, rotations>>

CreateSLATier ==
    LET more == [tiers EXCEPT ![ApiOf[job.on]] = @ + 1]
    IN  /\ job.pc = "createTier"
        /\ \/ tiers' = more /\ Continue("contract") /\ UNCHANGED faults
           \/ Fails("createTier") /\ tiers' \in {tiers, more} /\ Fail
        /\ UNCHANGED <<central, apps, contracts, crashes, rotations>>

(* GetAPI, GetExchangeAsset and the creation: only the last has an effect. *)
CreateContract ==
    LET more == Append(contracts, [app |-> job.app, api |-> ApiOf[job.on],
                                   state |-> "active"])
    IN  /\ job.pc = "contract"
        /\ \/ contracts' = more /\ Succeed("ready", Len(more)) /\ UNCHANGED faults
           \/ Fails("contract") /\ contracts' \in {contracts, more} /\ Fail
        /\ UNCHANGED <<central, apps, tiers, crashes, rotations>>

(* Mutant of AccessRequestDeprovision: the test for an empty contract ID   *)
(* is the wrong way round and does not fail.                               *)
ContractKept(r) ==
    /\ request[r].state = "removing"
    /\ IF request[r].contract # 0 THEN Answer(r, "gone") ELSE Answer(r, "failed")
    /\ UNCHANGED <<central, anypoint, budgets>>

(* AccessRequestDeprovision: revoked, then deleted; an error of either     *)
(* ends the deletion and is logged only.                                   *)
AccessRequestDeprovision(r) ==
    /\ request[r].state = "removing"
    /\ IF request[r].contract = 0 THEN Answer(r, "failed") ELSE Start(r, "revoke", 0)
    /\ UNCHANGED <<central, anypoint, budgets>>

ContractTo(state) ==
    contracts' = [contracts EXCEPT ![request[job.on].contract].state = state]

RevokeContract ==
    /\ job.pc = "revoke"
    /\ IF contracts[request[job.on].contract].state = "deleted"
       THEN Succeed("gone", 0) /\ UNCHANGED <<contracts, faults>>
       ELSE \/ ContractTo("revoked") /\ Continue("deleteContract") /\ UNCHANGED faults
            \/ /\ Fails("revoke")
               /\ UNCHANGED contracts \/ ContractTo("revoked")
               /\ Succeed("gone", 0)
    /\ UNCHANGED <<central, apps, tiers, crashes, rotations>>

DeleteContract ==
    /\ job.pc = "deleteContract"
    /\ \/ ContractTo("deleted") /\ UNCHANGED faults
       \/ Fails("deleteContract") /\ (UNCHANGED contracts \/ ContractTo("deleted"))
    /\ Succeed("gone", 0)
    /\ UNCHANGED <<central, apps, tiers, crashes, rotations>>

(* ApplicationRequestDeprovision: an empty appID counts as an application  *)
(* that was never made.  Anypoint deletes the contracts with it; a second  *)
(* deletion is an error.                                                   *)
ApplicationRequestDeprovision(m) ==
    /\ managed[m].state = "removing"
    /\ IF managed[m].app = 0 THEN Answer(m, "gone")
       ELSE Start(m, "deleteApp", managed[m].app)
    /\ UNCHANGED <<central, anypoint, budgets>>

AppDeleted ==
    /\ apps' = [apps EXCEPT ![job.app].alive = FALSE]
    /\ contracts' = [i \in DOMAIN contracts |->
                        IF contracts[i].app = job.app
                        THEN [contracts[i] EXCEPT !.state = "deleted"]
                        ELSE contracts[i]]

DeleteApp ==
    /\ job.pc = "deleteApp"
    /\ IF ~apps[job.app].alive THEN Fail /\ UNCHANGED <<apps, contracts, faults>>
       ELSE \/ AppDeleted /\ Succeed("gone", 0) /\ UNCHANGED faults
            \/ /\ Fails("deleteApp")
               /\ UNCHANGED <<apps, contracts>> \/ AppDeleted
               /\ Fail
    /\ UNCHANGED <<central, tiers, crashes, rotations>>

(* CredentialProvision: the secret the application has.                    *)
CredentialProvision(c) ==
    LET app == managed[AppOf[c]].app
    IN  /\ credential[c].state = "pending"
        /\ managed[AppOf[c]].state = "ready"
        /\ IF app = 0 THEN Answer(c, "failed") ELSE Start(c, "getSecret", app)
        /\ UNCHANGED <<central, anypoint, budgets>>

GetSecret ==
    /\ job.pc = "getSecret"
    /\ \/ Succeed("ready", apps[job.app].secret) /\ UNCHANGED faults
       \/ Fails("getApp") /\ Fail
    /\ UNCHANGED <<central, anypoint, crashes, rotations>>

(* CredentialUpdate, for the action rotate: the application is read for    *)
(* its client ID, then its secret is reset.                                *)
CredentialUpdate(c) ==
    /\ credential[c].state = "rotating"
    /\ managed[AppOf[c]].state = "ready"
    /\ Start(c, "getApp", managed[AppOf[c]].app)
    /\ UNCHANGED <<central, anypoint, budgets>>

GetApp ==
    /\ job.pc = "getApp"
    /\ \/ Continue("reset") /\ UNCHANGED faults
       \/ Fails("getApp") /\ Fail
    /\ UNCHANGED <<central, anypoint, crashes, rotations>>

(* Mutant of ResetAppSecret: the answer has the secret that was read       *)
(* before the reset.                                                       *)
OldSecretReturned ==
    /\ job.pc = "reset"
    /\ apps' = [apps EXCEPT ![job.app].secret = @ + 1]
    /\ Succeed("ready", apps[job.app].secret)
    /\ UNCHANGED <<central, contracts, tiers, budgets>>

ResetAppSecret ==
    LET new == [apps EXCEPT ![job.app].secret = @ + 1]
    IN  /\ job.pc = "reset"
        /\ \/ apps' = new /\ Succeed("ready", new[job.app].secret) /\ UNCHANGED faults
           \/ Fails("reset") /\ apps' \in {apps, new} /\ Fail
        /\ UNCHANGED <<central, contracts, tiers, crashes, rotations>>

(* The SDK writes the outcome to the resource; a failed rotation leaves    *)
(* the credential with the secret it had.                                  *)
Report ==
    /\ job.pc = "report"
    /\ \/ /\ job.on \in ManagedApps
          /\ managed' = [managed EXCEPT ![job.on].state = job.outcome]
          /\ UNCHANGED <<request, credential>>
       \/ /\ job.on \in Requests
          /\ request' = [request EXCEPT
                ![job.on].state = job.outcome,
                ![job.on].contract = IF job.outcome = "ready" THEN job.result ELSE @]
          /\ UNCHANGED <<managed, credential>>
       \/ /\ job.on \in Credentials
          /\ credential' = [credential EXCEPT
                ![job.on].state = job.outcome,
                ![job.on].secret = IF job.outcome = "ready" THEN job.result ELSE @]
          /\ UNCHANGED <<managed, request>>
    /\ job' = NoJob
    /\ UNCHANGED <<anypoint, budgets>>

Crash ==
    /\ job # NoJob
    /\ crashes < MaxCrashes
    /\ crashes' = crashes + 1
    /\ job' = NoJob
    /\ UNCHANGED <<central, anypoint, faults, rotations>>
-----------------------------------------------------------------------------
User == \/ \E r \in Requests : AskAccess(r) \/ RemoveAccess(r)
        \/ \E c \in Credentials : AskCredential(c) \/ Rotate(c)
        \/ \E m \in ManagedApps : RemoveApp(m)

Call == \/ CreateApp \/ WriteBack \/ GetSLATiers \/ CreateSLATier \/ CreateContract
        \/ RevokeContract \/ DeleteContract \/ DeleteApp
        \/ GetSecret \/ GetApp \/ ResetAppSecret
        \/ Report

Handle(x) == \/ x \in ManagedApps /\ (\/ ApplicationRequestProvision(x)
                                      \/ ApplicationRequestDeprovision(x))
             \/ x \in Requests /\ (AccessRequestProvision(x) \/ AccessRequestDeprovision(x))
             \/ x \in Credentials /\ (CredentialProvision(x) \/ CredentialUpdate(x))

Subjects == ManagedApps \cup Requests \cup Credentials

Next == User \/ (\E x \in Subjects : Handle(x)) \/ Call \/ Crash

Spec == Init /\ [][Next]_vars

(* Calls are answered or fail; a request that waits is not overtaken for   *)
(* ever, since the SDK takes the events in the order they came.            *)
Served(x) == SF_vars(Handle(x))
AllServed == \A x \in Subjects : Served(x)
Fairness == WF_vars(Call) /\ AllServed

FairSpec == Spec /\ Fairness
-----------------------------------------------------------------------------
(* Type invariant of provisioning: the state of every resource, and IDs    *)
(* only of what Anypoint has.                                              *)
States == {"pending", "ready", "failed", "removing", "gone"}
Managed == [state : States, app : Nat]
Request == [state : States \cup {"none"}, contract : Nat]
Credential == [state : {"none", "pending", "ready", "failed", "rotating"}, secret : Nat]
Application == [owner : ManagedApps, alive : BOOLEAN, secret : Nat]
Contract == [app : Nat, api : Apis, state : {"active", "revoked", "deleted"}]
Job == [on : Subjects \cup {Nobody}, app : Nat, result : Nat,
        outcome : {"none", "ready", "failed", "gone"},
        pc : {"idle", "createApp", "writeBack", "tiers", "createTier", "contract",
              "revoke", "deleteContract", "deleteApp", "getSecret", "getApp", "reset",
              "report"}]

Typed == /\ managed \in [ManagedApps -> Managed]
         /\ request \in [Requests -> Request]
         /\ credential \in [Credentials -> Credential]
         /\ apps \in Seq(Application)
         /\ contracts \in Seq(Contract)
         /\ tiers \in [Apis -> Nat]
         /\ job \in Job
         /\ faults \in 0..MaxFaults /\ crashes \in 0..MaxCrashes
         /\ rotations \in 0..MaxRotations

IdsKnown == /\ \A m \in ManagedApps : managed[m].app <= Len(apps)
            /\ \A r \in Requests : request[r].contract <= Len(contracts)
            /\ \A i \in DOMAIN contracts : contracts[i].app \in DOMAIN apps
            /\ job.app <= Len(apps)

TypeOK == Typed /\ IdsKnown

(* Applications nobody in Central knows of and no request is still about   *)
(* to record: each stands for a failed call or a crash.                    *)
Owned(m) == {i \in DOMAIN apps : apps[i].owner = m /\ apps[i].alive}
Known(m) == {job.app} \cup (IF managed[m].state = "gone" THEN {} ELSE {managed[m].app})
LeaksBounded ==
    Cardinality(UNION {Owned(m) \ Known(m) : m \in ManagedApps}) <= faults + crashes

(* An access request that is ready has the contract it asked for, held by  *)
(* the application that is recorded and will be removed, for as long as    *)
(* the managed application is ready and no call has failed.                *)
AccessIsReal ==
    faults = 0 =>
        \A r \in Requests :
            request[r].state = "ready" /\ managed[AppOf[r]].state = "ready" =>
                contracts[request[r].contract] =
                    [app |-> managed[AppOf[r]].app, api |-> ApiOf[r], state |-> "active"]

(* An access request that is gone has no contract left in force, whatever  *)
(* order requests and applications are removed in and wherever the agent   *)
(* crashed: every exception stands for a revocation or a deletion that     *)
(* failed and was only logged.                                             *)
InForce(r) == contracts[request[r].contract].state # "deleted"
RemovedIsGone ==
    Cardinality({r \in Requests : request[r].state = "gone" /\ InForce(r)}) <= faults

(* The agent makes one tier for an API, also when answers are lost.        *)
OneTier == \A a \in Apis : tiers[a] <= 1

(* Somebody holds the secret: of an application's credentials that have   *)
(* one, either some credential has the secret the application has now, or  *)
(* Central has one that is rotating or that failed to, whichever call has  *)
(* failed or taken effect without an answer.                               *)
SecretHeld ==
    \A m \in ManagedApps :
        LET held == {c \in Credentials : AppOf[c] = m /\ credential[c].secret # 0}
        IN  managed[m].app # 0 /\ held # {}
              /\ (\A c \in held : credential[c].state = "ready") =>
                \E c \in held : credential[c].secret = apps[managed[m].app].secret

(* What Central waits for: new applications, access requests and           *)
(* credentials, rotations and removals.                                    *)
Waiting(x) ==
    \/ x \in ManagedApps /\ managed[x].state \in {"pending", "removing"}
    \/ x \in Requests /\ request[x].state = "removing"
    \/ x \in Requests /\ request[x].state = "pending" /\ managed[AppOf[x]].state = "ready"
    \/ /\ x \in Credentials /\ credential[x].state \in {"pending", "rotating"}
       /\ managed[AppOf[x]].state = "ready"

(* Each of them is answered, unless its application is no longer ready.    *)
Answered(x) == Waiting(x) ~> ~Waiting(x)
RequestsAnswered == \A x \in Subjects : Answered(x)

(* The agent is never stuck: a handler under way always has a next step,   *)
(* whatever it has read and whichever of its calls failed, and when none   *)
(* is, all that waits for a handler can get it.  This is what the proof of *)
(* RequestsAnswered takes from the meaning of ENABLED.                     *)
Ready(x) == ENABLED <<Handle(x)>>_vars
NeverStuck ==
    /\ job # NoJob => ENABLED <<Call>>_vars
    /\ job = NoJob => \A x \in Subjects : Waiting(x) => Ready(x)

(* An empty appID in ApplicationRequestDeprovision means that the          *)
(* application was not provisioned.                                        *)
NotYetProvisioned ==
    \A m \in ManagedApps :
        job = NoJob /\ managed[m].state = "removing" /\ managed[m].app = 0 =>
            Owned(m) = {}
=============================================================================
