----------------------- MODULE ProvisioningLossProofs -----------------------
(***************************************************************************)
(* Theorems about what Provisioning may lose: applications nobody knows    *)
(* of, the secret of an application and contracts left in force, for any   *)
(* number of resources, failures and crashes.  They rest on the invariants *)
(* of ProvisioningProofs.                                                  *)
(***************************************************************************)
EXTENDS ProvisioningProofs, FiniteSetTheorems
-----------------------------------------------------------------------------
(* Applications nobody knows of: alive, not recorded at the managed        *)
(* application they were made for, and not about to be.                    *)

Orphan(i) ==
    /\ apps[i].alive
    /\ managed[apps[i].owner].app # i
    /\ ~(job.pc = "writeBack" /\ job.app = i)
Orphans == {i \in DOMAIN apps : Orphan(i)}

(* The recorded application of a managed application, if any, is deleted.  *)
Dead(m) == managed[m].app = 0 \/ ~apps[managed[m].app].alive

OrphansCounted == Cardinality(Orphans) <= faults + crashes
GoneAreDead == \A m \in ManagedApps : managed[m].state = "gone" => Dead(m)
RemovalJob ==
    job.pc = "report" /\ job.on \in ManagedApps /\ job.outcome = "gone" => Dead(job.on)
CreationJob ==
    job.pc \in {"createApp", "writeBack"} =>
        managed[AppOf[job.on]].app = 0 /\ managed[AppOf[job.on]].state # "gone"

LeakInv == OrphansCounted /\ GoneAreDead /\ RemovalJob /\ CreationJob

LEMMA FiniteSubset ==
    ASSUME NEW S, IsFiniteSet(S), NEW T, T \subseteq S
    PROVE  /\ IsFiniteSet(T)
           /\ Cardinality(T) \in Nat /\ Cardinality(S) \in Nat
           /\ Cardinality(T) <= Cardinality(S)
<1>1. T \in SUBSET S
  OBVIOUS
<1>2. IsFiniteSet(T) /\ Cardinality(T) <= Cardinality(S)
  BY <1>1, FS_Subset
<1> QED
  BY <1>2, FS_CardinalityType

LEMMA OrphansFinite ==
    ASSUME Typed
    PROVE  IsFiniteSet(Orphans) /\ Cardinality(Orphans) \in Nat
<1>1. IsFiniteSet(DOMAIN apps)
  BY Fields, FS_Interval
<1>2. Orphans \subseteq DOMAIN apps
  BY DEF Orphans
<1> QED
  BY <1>1, <1>2, FiniteSubset

(* One orphan more for each failed call and each crash.                    *)
LEMMA OneMoreOrphan ==
    ASSUME Typed, Typed', OrphansCounted, NEW x, Orphans' \subseteq Orphans \cup {x},
           faults' + crashes' = faults + crashes + 1
    PROVE  OrphansCounted'
<1>1. /\ IsFiniteSet(Orphans) /\ Cardinality(Orphans) \in Nat
  BY OrphansFinite
<1>2. /\ IsFiniteSet(Orphans \cup {x})
      /\ Cardinality(Orphans \cup {x}) \in Nat
      /\ Cardinality(Orphans \cup {x}) <= Cardinality(Orphans) + 1
  <2>1. IsFiniteSet(Orphans \cup {x})
        /\ Cardinality(Orphans \cup {x}) =
             IF x \in Orphans THEN Cardinality(Orphans) ELSE Cardinality(Orphans) + 1
    BY <1>1, FS_AddElement
  <2> QED
    BY <1>1, <2>1
<1>3. /\ Cardinality(Orphans') \in Nat
      /\ Cardinality(Orphans') <= Cardinality(Orphans \cup {x})
  BY <1>2, FiniteSubset
<1>4. faults \in Nat /\ crashes \in Nat 
  BY DEF Typed
<1>5. Cardinality(Orphans) <= faults + crashes
  BY DEF OrphansCounted
<1> DEFINE n == faults' + crashes'
<1>6. n = faults + crashes + 1
  OBVIOUS
<1> HIDE DEF n
<1>7. Cardinality(Orphans') <= n
  BY ONLY <1>1, <1>2, <1>3, <1>4, <1>5, <1>6
<1> QED
  BY ONLY <1>7 DEF OrphansCounted, n

LEMMA NoMoreOrphans ==
    ASSUME Typed, Typed', OrphansCounted, Orphans' \subseteq Orphans,
           faults' + crashes' \in {faults + crashes, faults + crashes + 1}
    PROVE  OrphansCounted'
<1>1. IsFiniteSet(Orphans) /\ Cardinality(Orphans) \in Nat
  BY OrphansFinite
<1>2. Cardinality(Orphans') \in Nat /\ Cardinality(Orphans') <= Cardinality(Orphans)
  BY <1>1, FiniteSubset
<1>3. faults \in Nat /\ crashes \in Nat /\ faults' \in Nat /\ crashes' \in Nat
  BY DEF Typed
<1>4. Cardinality(Orphans) <= faults + crashes
  BY DEF OrphansCounted
<1> DEFINE n == faults' + crashes'
<1>5. n \in {faults + crashes, faults + crashes + 1}
  OBVIOUS
<1> HIDE DEF n
<1>6. Cardinality(Orphans') <= n
  BY ONLY <1>1, <1>2, <1>3, <1>4, <1>5
<1> QED
  BY ONLY <1>6 DEF OrphansCounted, n

(* A step that makes no application, revives none and changes nobody's     *)
(* record, outside WriteBack.                                              *)
LEMMA OrphansQuiet ==
    ASSUME Typed, DOMAIN apps' = DOMAIN apps,
           \A i \in DOMAIN apps :
                apps'[i].owner = apps[i].owner /\ (apps'[i].alive => apps[i].alive),
           \A m \in ManagedApps : managed'[m].app = managed[m].app,
           job.pc # "writeBack"
    PROVE  Orphans' \subseteq Orphans
<1>1. \A i \in DOMAIN apps : apps[i].owner \in ManagedApps
  BY Fields DEF Application
<1> QED
  BY <1>1 DEF Orphans, Orphan

LEMMA DeadStays ==
    ASSUME TypeInv, NEW m \in ManagedApps, managed'[m].app = managed[m].app,
           \A i \in DOMAIN apps : apps'[i].alive => apps[i].alive, Dead(m)
    PROVE  Dead(m)'
<1>1. managed[m].app # 0 => managed[m].app \in DOMAIN apps
  BY Fields DEF TypeInv, TypeOK, IdsKnown
<1> QED
  BY <1>1 DEF Dead

(* What such a step has to leave behind.                                   *)
LEMMA LeakQuiet ==
    ASSUME TypeInv, TypeInv', LeakInv, DOMAIN apps' = DOMAIN apps,
           \A i \in DOMAIN apps :
                apps'[i].owner = apps[i].owner /\ (apps'[i].alive => apps[i].alive),
           \A m \in ManagedApps :
                /\ managed'[m].app = managed[m].app
                /\ managed'[m].state = "gone" => managed[m].state = "gone" \/ Dead(m),
           job.pc # "writeBack",
           faults' + crashes' \in {faults + crashes, faults + crashes + 1},
           RemovalJob', CreationJob'
    PROVE  LeakInv'
<1>1. OrphansCounted'
  BY OrphansQuiet, NoMoreOrphans DEF LeakInv, TypeInv, TypeOK
<1>2. GoneAreDead'
  BY DeadStays DEF LeakInv, GoneAreDead
<1> QED
  BY <1>1, <1>2 DEF LeakInv

(* Budgets: a step uses at most one failure or one crash.                  *)
LEMMA OneAtMost ==
    ASSUME Typed, [Next]_vars
    PROVE  faults' + crashes' \in {faults + crashes, faults + crashes + 1}
<1>0. faults \in Nat /\ crashes \in Nat
  BY DEF Typed
<1>1. ASSUME NEW x \in Subjects, Handle(x)
      PROVE  UNCHANGED <<faults, crashes>>
  BY <1>1 DEF Handle, ApplicationRequestProvision, ApplicationRequestDeprovision,
              AccessRequestProvision, AccessRequestDeprovision, CredentialProvision,
              CredentialUpdate, budgets
<1>2. CASE User \/ Call \/ UNCHANGED vars
  <2>1. faults' \in {faults, faults + 1} /\ crashes' = crashes
    BY <1>0, <1>2
       DEF User, AskAccess, AskCredential, Rotate, RemoveAccess, RemoveApp, Call,
           CreateApp, WriteBack, GetSLATiers, CreateSLATier, CreateContract, RevokeContract,
           DeleteContract, DeleteApp, GetSecret, GetApp, ResetAppSecret, Report,
           Fails, budgets, vars
  <2>2. faults' = faults => faults' + crashes' = faults + crashes
    BY <2>1
  <2>3. faults' = faults + 1 => faults' + crashes' = faults + 1 + crashes
    BY <2>1
  <2>4. faults + 1 + crashes = faults + crashes + 1
    BY <1>0
  <2> QED
    BY <2>1, <2>2, <2>3, <2>4
<1>3. CASE Crash
  BY <1>0, <1>3 DEF Crash
<1> QED
  BY <1>0, <1>1, <1>2, <1>3 DEF Next

LEMMA UserKeepsLeaks ==
    ASSUME ProvisioningAssumption, TypeInv, TypeInv', LeakInv, [Next]_vars, User
    PROVE  LeakInv'
<1> USE DEF TypeInv, TypeOK
<1>1. UNCHANGED <<apps, job>>
  BY DEF User, AskAccess, AskCredential, Rotate, RemoveAccess, RemoveApp, anypoint
<1>2. \A m \in ManagedApps :
        /\ managed'[m].app = managed[m].app
        /\ managed'[m].state = "gone" <=> managed[m].state = "gone"
  <2>1. CASE UNCHANGED managed
    BY <2>1
  <2>2. CASE \E m \in ManagedApps : RemoveApp(m)
    BY <2>2, ManagedState DEF RemoveApp, States
  <2> QED
    BY <2>1, <2>2 DEF User, AskAccess, AskCredential, Rotate, RemoveAccess
<1>3. RemovalJob'
  BY <1>1, <1>2 DEF LeakInv, RemovalJob, Dead
<1>4. CreationJob'
  BY <1>1, <1>2, AppOfSubject DEF LeakInv, CreationJob, JobOK, AccessCalls
<1>5. GoneAreDead'
  BY <1>1, <1>2 DEF LeakInv, GoneAreDead, Dead
<1>6. Orphans' \subseteq Orphans
  <2>1. \A i \in DOMAIN apps : apps[i].owner \in ManagedApps
    BY Fields DEF Application
  <2> QED
    BY <1>1, <1>2, <2>1 DEF Orphans, Orphan
<1> QED
  BY <1>3, <1>4, <1>5, <1>6, OneAtMost, NoMoreOrphans DEF LeakInv

LEMMA HandleKeepsLeaks ==
    ASSUME ProvisioningAssumption, SubjectsAssumption, TypeInv, TypeInv', LeakInv, [Next]_vars,
           NEW x \in Subjects, Handle(x)
    PROVE  LeakInv'
<1> USE DEF TypeInv, TypeOK
<1>1. UNCHANGED <<managed, apps>>
  BY DEF Handle, ApplicationRequestProvision, ApplicationRequestDeprovision,
         AccessRequestProvision, AccessRequestDeprovision, CredentialProvision,
         CredentialUpdate, central, anypoint
<1>2. job.pc # "writeBack"
  BY NoJobType
     DEF Handle, ApplicationRequestProvision, ApplicationRequestDeprovision,
         AccessRequestProvision, AccessRequestDeprovision, CredentialProvision,
         CredentialUpdate, Start, Answer
<1>3. RemovalJob' /\ CreationJob'
  <2>1. CASE x \in ManagedApps
    BY <1>1, <2>1, SubjectsAssumption
       DEF Handle, ApplicationRequestProvision, ApplicationRequestDeprovision, Start, Answer,
           RemovalJob, CreationJob, Dead
  <2>2. CASE x \in Requests
    BY <1>1, <2>2, SubjectsAssumption
       DEF Handle, AccessRequestProvision, AccessRequestDeprovision, Start, Answer, ToTier,
           RemovalJob, CreationJob
  <2>3. CASE x \in Credentials
    BY <1>1, <2>3, SubjectsAssumption
       DEF Handle, CredentialProvision, CredentialUpdate, Start, Answer, RemovalJob,
           CreationJob
  <2> QED
    BY <2>1, <2>2, <2>3 DEF Subjects
<1> QED
  BY <1>1, <1>2, <1>3, OneAtMost, LeakQuiet

LEMMA CreateAppKeepsLeaks ==
    ASSUME ProvisioningAssumption, SubjectsAssumption, TypeInv, TypeInv', LeakInv, [Next]_vars,
           CreateApp
    PROVE  LeakInv'
<1> USE DEF TypeInv, TypeOK
<1> DEFINE a == [owner |-> AppOf[job.on], alive |-> TRUE, secret |-> 1]
           n == Len(apps) + 1
<1>1. /\ job.on \in Requests /\ AppOf[job.on] \in ManagedApps
      /\ UNCHANGED <<managed, crashes>> /\ job.pc = "createApp"
      /\ managed[AppOf[job.on]].app = 0 /\ managed[AppOf[job.on]].state # "gone"
  BY AppOfSubject DEF CreateApp, central, JobOK, AccessCalls, LeakInv, CreationJob
<1>2. /\ Len(apps) \in Nat /\ DOMAIN apps = 1..Len(apps)
      /\ \A i \in DOMAIN apps : apps[i].owner \in ManagedApps
      /\ \A m \in ManagedApps : managed[m].app # 0 => managed[m].app \in DOMAIN apps
  BY Fields DEF Application, IdsKnown
<1>3. CASE UNCHANGED apps /\ Fail
  <2>1. RemovalJob' /\ CreationJob'
    BY <1>1, <1>3, SubjectsAssumption DEF RemovalJob, CreationJob, Fail, Succeed
  <2> QED
    BY <1>1, <1>3, <2>1, OneAtMost, LeakQuiet
<1>4. CASE apps' = Append(apps, a)
  <2>1. /\ DOMAIN apps' = 1..n /\ Len(apps') = n
        /\ \A i \in DOMAIN apps : apps'[i] = apps[i]
        /\ apps'[n].owner = AppOf[job.on]
    BY <1>1, <1>2, <1>4, AppMade
  <2>2. GoneAreDead'
    BY <1>1, <1>2, <2>1 DEF LeakInv, GoneAreDead, Dead
  <2>3. Orphans' \subseteq Orphans \cup {n}
    BY <1>1, <1>2, <2>1 DEF Orphans, Orphan
  <2>4. CASE Fail /\ faults' = faults + 1
    <3>1. RemovalJob' /\ CreationJob'
      BY <1>1, <2>4, SubjectsAssumption DEF RemovalJob, CreationJob, Fail, Succeed
    <3>2. faults' + crashes' = faults + crashes + 1
      <4>1. faults' + crashes' = faults + 1 + crashes
        BY <1>1, <2>4
      <4> QED
        BY ONLY <4>1, TypeInv DEF TypeInv, TypeOK, Typed
    <3>3. OrphansCounted'
      BY <2>3, <3>2, OneMoreOrphan DEF LeakInv
    <3> QED
      BY <2>2, <3>1, <3>3 DEF LeakInv
  <2>5. CASE job' = [job EXCEPT !.pc = "writeBack", !.app = Len(apps')]
    <3>1. job'.pc = "writeBack" /\ job'.on = job.on /\ job'.app = n
      <4>1. job' = [job EXCEPT !.pc = "writeBack", !.app = n] /\ n \in Nat
        BY <1>2, <2>1, <2>5
      <4> HIDE DEF n
      <4> QED
        BY <4>1, MadeAppJob
    <3>2. RemovalJob' /\ CreationJob'
      BY <1>1, <3>1 DEF RemovalJob, CreationJob
    <3>3. Orphans' \subseteq Orphans
      BY <1>1, <1>2, <2>1, <2>3, <3>1 DEF Orphans, Orphan
    <3> QED
      BY <2>2, <3>2, <3>3, OneAtMost, NoMoreOrphans DEF LeakInv
  <2> QED
    BY <1>4, <2>4, <2>5 DEF CreateApp, Fails
<1> QED
  BY <1>3, <1>4 DEF CreateApp

LEMMA WriteBackKeepsLeaks ==
    ASSUME ProvisioningAssumption, SubjectsAssumption, TypeInv, TypeInv', AccessInv, LeakInv,
           [Next]_vars, WriteBack
    PROVE  LeakInv'
<1> USE DEF TypeInv, TypeOK
<1>0. PICK m \in ManagedApps : m = AppOf[job.on]
  BY AppOfSubject DEF WriteBack, JobOK, AccessCalls
<1>1. /\ UNCHANGED <<apps, crashes>>
      /\ job.pc = "writeBack" /\ job.app # 0 /\ job.app \in DOMAIN apps
      /\ apps[job.app].owner = m
      /\ managed[m].app = 0 /\ managed[m].state # "gone"
  BY <1>0, Fields, SMTT(30)
     DEF WriteBack, anypoint, JobOK, AccessCalls, AccessInv, Claims, HeldByJob, LeakInv,
         CreationJob, IdsKnown
<1>2. /\ job'.pc \in {"tiers", "contract"} /\ job'.on = job.on
  BY ContinueJob DEF WriteBack, ToTier
<1>3. RemovalJob' /\ CreationJob'
  BY <1>2 DEF RemovalJob, CreationJob
<1>4. CASE managed' = [managed EXCEPT ![m].app = job.app]
  <2>1. /\ managed'[m].app = job.app
        /\ \A k \in ManagedApps \ {m} : managed'[k].app = managed[k].app
        /\ \A k \in ManagedApps : managed'[k].state = managed[k].state
    <3> DEFINE id == job.app
    <3>1. Typed /\ id \in Nat /\ managed' = [managed EXCEPT ![m].app = id]
      BY <1>4, Fields
    <3> HIDE DEF id
    <3>2. /\ managed'[m].app = id
          /\ \A k \in ManagedApps \ {m} : managed'[k].app = managed[k].app
          /\ \A k \in ManagedApps : managed'[k].state = managed[k].state
      BY <3>1, ManagedApp
    <3> QED
      BY <3>2 DEF id
  <2>2. GoneAreDead'
    BY <1>1, <2>1 DEF LeakInv, GoneAreDead, Dead
  <2>3. Orphans' \subseteq Orphans
    <3>1. \A i \in DOMAIN apps : apps[i].owner \in ManagedApps /\ i # 0
      BY Fields DEF Application
    <3> QED
      BY <1>1, <2>1, <3>1 DEF Orphans, Orphan
  <2> QED
    BY <1>3, <2>2, <2>3, OneAtMost, NoMoreOrphans DEF LeakInv
<1>5. CASE UNCHANGED managed /\ faults' = faults + 1
  <2>1. GoneAreDead'
    BY <1>1, <1>5 DEF LeakInv, GoneAreDead, Dead
  <2>2. Orphans' \subseteq Orphans \cup {job.app}
    BY <1>1, <1>5 DEF Orphans, Orphan
  <2>3. faults' + crashes' = faults + crashes + 1
    <3>1. faults' + crashes' = faults + 1 + crashes
      BY <1>1, <1>5
    <3> QED
      BY ONLY <3>1, TypeInv DEF TypeInv, TypeOK, Typed
  <2>4. OrphansCounted'
    BY <2>2, <2>3, OneMoreOrphan DEF LeakInv
  <2> QED
    BY <1>3, <2>1, <2>4 DEF LeakInv
<1> QED
  BY <1>0, <1>4, <1>5 DEF WriteBack, Fails

LEMMA CallsKeepLeaks ==
    ASSUME ProvisioningAssumption, SubjectsAssumption, TypeInv, TypeInv', LeakInv, [Next]_vars,
           \/ GetSLATiers \/ CreateSLATier \/ CreateContract \/ RevokeContract
           \/ DeleteContract \/ GetSecret \/ GetApp
    PROVE  LeakInv'
<1> USE DEF TypeInv, TypeOK
<1>1. UNCHANGED <<managed, apps>> /\ job.pc # "writeBack"
  BY DEF GetSLATiers, CreateSLATier, CreateContract, RevokeContract, DeleteContract,
         GetSecret, GetApp, central, anypoint
<1>2. job.on \notin ManagedApps
  BY SubjectsAssumption
     DEF GetSLATiers, CreateSLATier, CreateContract, RevokeContract, DeleteContract,
         GetSecret, GetApp, JobOK, AccessCalls, RemovalCalls, SecretCalls
<1>3. job'.on = job.on /\ job'.pc \in {"createTier", "contract", "deleteContract", "reset",
                                      "report"}
  <2>1. \/ \E pc \in {"createTier", "contract", "deleteContract", "reset"} : Continue(pc)
        \/ \E outcome, result : Succeed(outcome, result)
    BY DEF GetSLATiers, CreateSLATier, CreateContract, RevokeContract, DeleteContract,
           GetSecret, GetApp, Fail
  <2> QED
    BY <2>1, ContinueJob DEF Succeed
<1>4. RemovalJob' /\ CreationJob'
  BY <1>2, <1>3 DEF RemovalJob, CreationJob
<1> QED
  BY <1>1, <1>4, OneAtMost, LeakQuiet

LEMMA ResetKeepsLeaks ==
    ASSUME ProvisioningAssumption, SubjectsAssumption, TypeInv, TypeInv', LeakInv, [Next]_vars,
           ResetAppSecret
    PROVE  LeakInv'
<1> USE DEF TypeInv, TypeOK
<1>1. UNCHANGED managed /\ job.pc = "reset" /\ job.on \notin ManagedApps
  BY SubjectsAssumption DEF ResetAppSecret, central, JobOK, SecretCalls
<1>2. job'.on = job.on /\ job'.pc = "report"
  BY DEF ResetAppSecret, Fail, Succeed
<1>3. RemovalJob' /\ CreationJob'
  BY <1>1, <1>2 DEF RemovalJob, CreationJob
<1>4. /\ DOMAIN apps' = DOMAIN apps
      /\ \A i \in DOMAIN apps : apps'[i].owner = apps[i].owner
                               /\ apps'[i].alive = apps[i].alive
  <2>1. CASE UNCHANGED apps
    BY <2>1
  <2>2. CASE apps' = [apps EXCEPT ![job.app].secret = @ + 1]
    BY <2>2, Fields DEF Application
  <2> QED
    BY <2>1, <2>2 DEF ResetAppSecret
<1> QED
  BY <1>1, <1>3, <1>4, OneAtMost, LeakQuiet

LEMMA DeleteAppKeepsLeaks ==
    ASSUME ProvisioningAssumption, SubjectsAssumption, TypeInv, TypeInv', AccessInv, LeakInv,
           [Next]_vars, DeleteApp
    PROVE  LeakInv'
<1> USE DEF TypeInv, TypeOK
<1>0. PICK m \in ManagedApps : m = job.on
  BY DEF DeleteApp, JobOK
<1>1. /\ UNCHANGED managed /\ job.pc = "deleteApp"
      /\ job.app = managed[m].app /\ job.app \in DOMAIN apps
      /\ job'.pc = "report" /\ job'.on = m
  BY <1>0, Fields DEF DeleteApp, central, Fail, Succeed, AccessInv, Claims, HeldByJob, JobOK,
                      IdsKnown
<1>2. /\ DOMAIN apps' = DOMAIN apps
      /\ \A i \in DOMAIN apps : apps'[i].owner = apps[i].owner
                               /\ (apps'[i].alive => apps[i].alive)
      /\ job'.outcome = "gone" => ~apps'[job.app].alive
  <2>1. CASE UNCHANGED apps /\ Fail
    BY <2>1 DEF Fail, Succeed
  <2>2. CASE apps' = [apps EXCEPT ![job.app].alive = FALSE]
    BY <1>1, <2>2, Fields DEF Application
  <2> QED
    BY <2>1, <2>2 DEF DeleteApp, AppDeleted
<1>3. RemovalJob'
  <2>1. job'.outcome = "gone" => Dead(m)'
    BY <1>1, <1>2 DEF Dead
  <2> QED
    BY <1>1, <2>1 DEF RemovalJob
<1>4. CreationJob'
  BY <1>1 DEF CreationJob
<1> QED
  BY <1>1, <1>2, <1>3, <1>4, OneAtMost, LeakQuiet

LEMMA ReportKeepsLeaks ==
    ASSUME ProvisioningAssumption, SubjectsAssumption, TypeInv, TypeInv', LeakInv, [Next]_vars,
           Report
    PROVE  LeakInv'
<1> USE DEF TypeInv, TypeOK
<1>1. UNCHANGED apps /\ job' = NoJob /\ job.pc = "report"
  BY DEF Report, anypoint
<1>2. RemovalJob' /\ CreationJob'
  BY <1>1, NoJobType DEF RemovalJob, CreationJob
<1>3. \A m \in ManagedApps :
        /\ managed'[m].app = managed[m].app
        /\ managed'[m].state = "gone" => managed[m].state = "gone" \/ Dead(m)
  <2>1. CASE UNCHANGED managed
    BY <2>1
  <2>2. CASE job.on \in ManagedApps
             /\ managed' = [managed EXCEPT ![job.on].state = job.outcome]
    BY <1>1, <2>2 DEF LeakInv, RemovalJob, Typed, Managed
  <2> QED
    BY <2>1, <2>2 DEF Report
<1> QED
  BY <1>1, <1>2, <1>3, OneAtMost, LeakQuiet

LEMMA CrashKeepsLeaks ==
    ASSUME ProvisioningAssumption, SubjectsAssumption, TypeInv, TypeInv', LeakInv, Crash
    PROVE  LeakInv'
<1> USE DEF TypeInv, TypeOK
<1>1. UNCHANGED <<managed, apps, faults>> /\ job' = NoJob /\ crashes' = crashes + 1
  BY DEF Crash, central, anypoint
<1>2. RemovalJob' /\ CreationJob'
  BY <1>1, NoJobType DEF RemovalJob, CreationJob
<1>3. GoneAreDead'
  BY <1>1 DEF LeakInv, GoneAreDead, Dead
<1>4. Orphans' \subseteq Orphans \cup {job.app}
  BY <1>1 DEF Orphans, Orphan
<1>5. faults' + crashes' = faults + crashes + 1
  <2>1. faults' + crashes' = faults + (crashes + 1)
    BY <1>1
  <2> QED
    BY ONLY <2>1, TypeInv DEF TypeInv, TypeOK, Typed
<1>6. OrphansCounted'
  BY <1>4, <1>5, OneMoreOrphan DEF LeakInv
<1> QED
  BY <1>2, <1>3, <1>6 DEF LeakInv

LEMMA LeakStep ==
    ASSUME ProvisioningAssumption, SubjectsAssumption, TypeInv, AccessInv, LeakInv,
           [Next]_vars
    PROVE  LeakInv'
<1>0. TypeInv'
  BY TypeStep
<1>1. CASE User
  BY <1>0, <1>1, UserKeepsLeaks
<1>2. ASSUME NEW x \in Subjects, Handle(x)
      PROVE  LeakInv'
  BY <1>0, <1>2, HandleKeepsLeaks
<1>3. CASE CreateApp
  BY <1>0, <1>3, CreateAppKeepsLeaks
<1>4. CASE WriteBack
  BY <1>0, <1>4, WriteBackKeepsLeaks
<1>5. CASE \/ GetSLATiers \/ CreateSLATier \/ CreateContract \/ RevokeContract
           \/ DeleteContract \/ GetSecret \/ GetApp
  BY <1>0, <1>5, CallsKeepLeaks
<1>6. CASE ResetAppSecret
  BY <1>0, <1>6, ResetKeepsLeaks
<1>7. CASE DeleteApp
  BY <1>0, <1>7, DeleteAppKeepsLeaks
<1>8. CASE Report
  BY <1>0, <1>8, ReportKeepsLeaks
<1>9. CASE Crash
  BY <1>0, <1>9, CrashKeepsLeaks
<1>10. CASE UNCHANGED vars
  BY <1>10 DEF vars, LeakInv, OrphansCounted, Orphans, Orphan, GoneAreDead, RemovalJob,
               CreationJob, Dead
<1> QED
  BY <1>1, <1>2, <1>3, <1>4, <1>5, <1>6, <1>7, <1>8, <1>9, <1>10 DEF Next, Call

LEMMA LeakInit ==
    ASSUME SubjectsAssumption, Init
    PROVE  LeakInv
<1>1. Orphans = {} /\ faults + crashes = 0
  BY DEF Init, Orphans
<1>2. OrphansCounted
  BY <1>1, FS_EmptySet DEF OrphansCounted
<1> QED
  BY <1>2, NoJobType DEF Init, LeakInv, GoneAreDead, RemovalJob, CreationJob

(* Every application in Anypoint that no managed application will remove   *)
(* stands for a failed call or a crash: one at most for each               *)
(* (AccessRequestProvision, between CreateApp and CreateSubResource,       *)
(* src/pkg/subscription/provision.go).                                     *)
THEOREM LeaksAreBounded == Spec => []LeaksBounded
<1>1. Init => TypeInv /\ AccessInv /\ LeakInv
  BY TypeInit, AccessInit, LeakInit, ProvisioningAssumption, SubjectsAssumption
<1>2. /\ (TypeInv /\ AccessInv /\ LeakInv) /\ [Next]_vars
      => (TypeInv /\ AccessInv /\ LeakInv)'
  BY TypeStep, AccessStep, LeakStep, ProvisioningAssumption, SubjectsAssumption
<1>3. ASSUME TypeInv, LeakInv
      PROVE  LeaksBounded
  <2> DEFINE Lost == UNION {Owned(m) \ Known(m) : m \in ManagedApps}
  <2>1. Lost \subseteq Orphans
    <3> SUFFICES ASSUME NEW m \in ManagedApps, NEW i \in Owned(m) \ Known(m)
                 PROVE  i \in Orphans
      OBVIOUS
    <3>1. i \in DOMAIN apps /\ apps[i].owner = m /\ apps[i].alive
      BY DEF Owned
    <3>2. i # job.app /\ (managed[m].state # "gone" => i # managed[m].app)
      BY DEF Known
    <3>3. managed[m].state = "gone" => i # managed[m].app
      <4>1. i # 0
        BY <3>1, Fields, <1>3 DEF TypeInv, TypeOK
      <4> QED
        BY <1>3, <3>1, <4>1 DEF LeakInv, GoneAreDead, Dead
    <3> QED
      BY <3>1, <3>2, <3>3 DEF Orphans, Orphan
  <2>2. Cardinality(Lost) <= Cardinality(Orphans)
        /\ Cardinality(Lost) \in Nat /\ Cardinality(Orphans) \in Nat
    BY <1>3, <2>1, OrphansFinite, FiniteSubset DEF TypeInv, TypeOK
  <2>3. faults \in Nat /\ crashes \in Nat /\ Cardinality(Orphans) <= faults + crashes
    BY <1>3 DEF LeakInv, OrphansCounted, TypeInv, TypeOK, Typed
  <2>4. Cardinality(Lost) <= faults + crashes
    BY ONLY <2>2, <2>3
  <2> QED
    BY <2>4 DEF LeaksBounded
<1> QED
  BY <1>1, <1>2, <1>3, PTL DEF Spec
-----------------------------------------------------------------------------
(* The secret: a credential that has one shares an application with a      *)
(* credential that has its present one, or with one that is being rotated  *)
(* or failed to be; nothing overtakes a rotation.                          *)

Current(d) ==
    /\ credential[d].secret # 0
    /\ \/ credential[d].state \in {"rotating", "failed"}
       \/ credential[d].secret = apps[managed[AppOf[d]].app].secret

SecretsExist == \A i \in DOMAIN apps : apps[i].secret # 0
SecretStates ==
    \A c \in Credentials :
        /\ credential[c].secret # 0 => /\ credential[c].state \in {"ready", "rotating", "failed"}
                                       /\ managed[AppOf[c]].app # 0
        /\ credential[c].state \in {"ready", "rotating"} => credential[c].secret # 0
SomeCurrent ==
    \A c \in Credentials : credential[c].secret # 0 =>
        \E d \in Credentials : AppOf[d] = AppOf[c] /\ Current(d)

SecretJob ==
    /\ job.pc \in SecretCalls => job.app = managed[AppOf[job.on]].app
    /\ job.pc \in {"getApp", "reset"} => credential[job.on].state = "rotating"
    /\ job.pc = "report" /\ job.on \in Credentials /\ job.outcome = "ready" =>
         job.result = apps[managed[AppOf[job.on]].app].secret

SecretInv == SecretsExist /\ SecretStates /\ SomeCurrent /\ SecretJob

(* The application of a credential that has a secret is a known one.       *)
LEMMA HolderHasApp ==
    ASSUME ProvisioningAssumption, TypeInv, SecretStates,
           NEW c \in Credentials, credential[c].secret # 0
    PROVE  managed[AppOf[c]].app # 0 /\ managed[AppOf[c]].app \in DOMAIN apps
<1>1. managed[AppOf[c]].app # 0 /\ AppOf[c] \in ManagedApps
  BY AppOfSubject DEF SecretStates
<1> QED
  BY <1>1, Fields DEF TypeInv, TypeOK, IdsKnown

(* A step that changes no credential, and neither the application of one   *)
(* that has a secret nor its secret.                                       *)
LEMMA SecretQuiet ==
    ASSUME ProvisioningAssumption, TypeInv, SecretInv, UNCHANGED credential,
           \A m \in ManagedApps : managed[m].app # 0 => managed'[m].app = managed[m].app,
           \A i \in DOMAIN apps : apps'[i].secret = apps[i].secret,
           SecretsExist', SecretJob'
    PROVE  SecretInv'
<1>1. ASSUME NEW d \in Credentials, Current(d)
      PROVE  Current(d)'
  <2>1. managed[AppOf[d]].app # 0 /\ managed[AppOf[d]].app \in DOMAIN apps
    BY <1>1, HolderHasApp DEF SecretInv, Current
  <2>2. AppOf[d] \in ManagedApps
    BY AppOfSubject
  <2> QED
    BY <1>1, <2>1, <2>2 DEF Current
<1>2. SomeCurrent'
  BY <1>1 DEF SecretInv, SomeCurrent
<1>3. SecretStates'
  BY AppOfSubject DEF SecretInv, SecretStates
<1> QED
  BY <1>2, <1>3 DEF SecretInv

(* The same when Anypoint and the managed applications do not change.      *)
LEMMA SecretStill ==
    ASSUME ProvisioningAssumption, TypeInv, SecretInv, SecretJob',
           UNCHANGED <<credential, managed, apps>>
    PROVE  SecretInv'
<1>1. SecretsExist'
  BY DEF SecretInv, SecretsExist
<1> QED
  BY <1>1, SecretQuiet

(* A job that is not about a credential has nothing to say of its secret.  *)
LEMMA NoSecretJob ==
    ASSUME SubjectsAssumption,
           \/ job' = NoJob
           \/ job'.on \notin Credentials /\ job'.pc \notin SecretCalls
    PROVE  SecretJob'
<1>1. job' = NoJob => job'.pc = "idle"
  BY NoJobType
<1> QED
  BY <1>1 DEF SecretJob, SecretCalls

LEMMA UserKeepsSecret ==
    ASSUME ProvisioningAssumption, SubjectsAssumption, TypeInv, SecretInv, User
    PROVE  SecretInv'
<1> USE DEF TypeInv, TypeOK
<1>1. UNCHANGED <<apps, job>> /\ \A m \in ManagedApps : managed'[m].app = managed[m].app
  <2>1. CASE UNCHANGED managed
    BY <2>1 DEF User, AskAccess, AskCredential, Rotate, RemoveAccess, RemoveApp, anypoint
  <2>2. CASE \E m \in ManagedApps : RemoveApp(m)
    BY <2>2, ManagedState DEF RemoveApp, States, anypoint
  <2> QED
    BY <2>1, <2>2 DEF User, AskAccess, AskCredential, Rotate, RemoveAccess
<1>2. \A c \in Credentials :
        /\ credential'[c].secret = credential[c].secret
        /\ \/ credential'[c].state = credential[c].state
           \/ credential[c].state = "none" /\ credential'[c].state = "pending"
           \/ credential[c].state = "ready" /\ credential'[c].state = "rotating"
  <2>1. CASE UNCHANGED credential
    BY <2>1
  <2>2. CASE \E c \in Credentials : AskCredential(c) \/ Rotate(c)
    <3>1. PICK c \in Credentials : AskCredential(c) \/ Rotate(c)
      BY <2>2
    <3>2. credential \in [Credentials -> Credential]
      BY DEF Typed
    <3>3. CASE AskCredential(c)
      BY <3>2, <3>3 DEF AskCredential, Credential
    <3>4. CASE Rotate(c)
      BY <3>2, <3>4 DEF Rotate, Credential
    <3> QED
      BY <3>1, <3>3, <3>4
  <2> QED
    BY <2>1, <2>2 DEF User, AskAccess, RemoveAccess, RemoveApp
<1>3. SecretsExist' /\ SecretStates'
  BY <1>1, <1>2, AppOfSubject DEF SecretInv, SecretsExist, SecretStates
<1>4. SomeCurrent'
  <2>1. ASSUME NEW d \in Credentials, Current(d)
        PROVE  Current(d)'
    BY <1>1, <1>2, <2>1, AppOfSubject DEF Current
  <2> QED
    BY <1>2, <2>1 DEF SecretInv, SomeCurrent
<1>5. SecretJob'
  BY <1>1, <1>2, AppOfSubject DEF SecretInv, SecretJob, JobOK, SecretCalls
<1> QED
  BY <1>3, <1>4, <1>5 DEF SecretInv

LEMMA HandleKeepsSecret ==
    ASSUME ProvisioningAssumption, SubjectsAssumption, TypeInv, SecretInv,
           NEW x \in Subjects, Handle(x)
    PROVE  SecretInv'
<1> USE DEF TypeInv, TypeOK
<1>1. UNCHANGED <<managed, credential, apps>>
  BY DEF Handle, ApplicationRequestProvision, ApplicationRequestDeprovision,
         AccessRequestProvision, AccessRequestDeprovision, CredentialProvision,
         CredentialUpdate, central, anypoint
<1>2. CASE x \in ManagedApps \cup Requests
  <2>1. job'.on = x /\ job'.pc \notin SecretCalls
    BY <1>2, SubjectsAssumption
       DEF Handle, ApplicationRequestProvision, ApplicationRequestDeprovision,
           AccessRequestProvision, AccessRequestDeprovision, Start, Answer, ToTier, SecretCalls
  <2> QED
    BY <1>1, <1>2, <2>1, SubjectsAssumption, NoSecretJob, SecretStill
<1>3. CASE x \in Credentials
  <2>1. SecretJob'
    BY <1>1, <1>3, SubjectsAssumption
       DEF Handle, CredentialProvision, CredentialUpdate, Start, Answer, SecretJob, SecretCalls
  <2> QED
    BY <1>1, <2>1, SecretStill
<1> QED
  BY <1>2, <1>3 DEF Subjects

LEMMA RequestCallsKeepSecret ==
    ASSUME ProvisioningAssumption, SubjectsAssumption, TypeInv, CreationJob, SecretInv,
           \/ CreateApp \/ WriteBack \/ GetSLATiers \/ CreateSLATier \/ CreateContract
           \/ RevokeContract \/ DeleteContract
    PROVE  SecretInv'
<1> USE DEF TypeInv, TypeOK
<1>1. job.on \in Requests /\ job.on \notin Credentials
  BY SubjectsAssumption
     DEF CreateApp, WriteBack, GetSLATiers, CreateSLATier, CreateContract, RevokeContract,
         DeleteContract, JobOK, AccessCalls, RemovalCalls
<1>2. job'.on = job.on /\ job'.pc \notin SecretCalls
  <2>1. CASE CreateApp
    <3>1. job \in Job
      BY DEF Typed
    <3>2. Fail \/ \E n : job' = [job EXCEPT !.pc = "writeBack", !.app = n]
      BY <2>1 DEF CreateApp
    <3>3. CASE Fail
      BY <3>3 DEF Succeed, Fail, SecretCalls
    <3>4. ASSUME NEW n, job' = [job EXCEPT !.pc = "writeBack", !.app = n]
          PROVE  job'.on = job.on /\ job'.pc = "writeBack"
      BY ONLY <3>1, <3>4 DEF Job
    <3> QED
      BY <3>2, <3>3, <3>4 DEF SecretCalls
  <2>2. CASE WriteBack
    BY <2>2 DEF WriteBack, Continue, ToTier, Typed, Job, SecretCalls
  <2>3. CASE GetSLATiers \/ CreateSLATier
    BY <2>3 DEF GetSLATiers, CreateSLATier, Continue, Succeed, Fail, Typed, Job, SecretCalls
  <2>4. CASE CreateContract \/ RevokeContract \/ DeleteContract
    BY <2>4 DEF CreateContract, RevokeContract, DeleteContract, Continue, Succeed, Fail,
                Typed, Job, SecretCalls
  <2> QED
    BY <2>1, <2>2, <2>3, <2>4
<1>3. SecretJob'
  BY <1>1, <1>2, NoSecretJob
<1>4. UNCHANGED credential
  BY DEF CreateApp, WriteBack, GetSLATiers, CreateSLATier, CreateContract, RevokeContract,
         DeleteContract, central
<1>5. CASE CreateApp
  <2>1. UNCHANGED managed /\ AppOf[job.on] \in ManagedApps
    BY <1>1, <1>5, AppOfSubject DEF CreateApp, central
  <2>2. \/ UNCHANGED apps
        \/ apps' = Append(apps, [owner |-> AppOf[job.on], alive |-> TRUE, secret |-> 1])
    BY <1>5 DEF CreateApp
  <2>3. CASE UNCHANGED apps
    BY <1>3, <1>4, <2>1, <2>3, SecretStill
  <2>4. CASE ~UNCHANGED apps
    <3>1. /\ DOMAIN apps' = 1..Len(apps) + 1 /\ DOMAIN apps = 1..Len(apps)
          /\ Len(apps) \in Nat
          /\ \A i \in DOMAIN apps : apps'[i] = apps[i]
      BY <2>1, <2>2, <2>4, AppMade, Fields
    <3>2. apps'[Len(apps) + 1].secret = 1
      BY <2>2, <2>4, <3>1 DEF Typed
    <3>3. SecretsExist'
      BY <3>1, <3>2 DEF SecretInv, SecretsExist
    <3> QED
      BY <1>3, <1>4, <2>1, <3>1, <3>3, SecretQuiet
  <2> QED
    BY <2>3, <2>4
<1>6. CASE WriteBack
  <2>1. UNCHANGED apps /\ managed[AppOf[job.on]].app = 0 /\ AppOf[job.on] \in ManagedApps
    BY <1>1, <1>6, AppOfSubject DEF WriteBack, anypoint, CreationJob
  <2>2. \A m \in ManagedApps : managed[m].app # 0 => managed'[m].app = managed[m].app
    BY <1>6, <2>1 DEF WriteBack, Typed, Managed
  <2>3. SecretsExist'
    BY <2>1 DEF SecretInv, SecretsExist
  <2> QED
    BY <1>3, <1>4, <2>1, <2>2, <2>3, SecretQuiet
<1>7. CASE UNCHANGED <<managed, apps>>
  BY <1>3, <1>4, <1>7, SecretStill
<1> QED
  BY <1>5, <1>6, <1>7
     DEF GetSLATiers, CreateSLATier, CreateContract, RevokeContract, DeleteContract,
         central, anypoint

LEMMA DeleteAppKeepsSecret ==
    ASSUME ProvisioningAssumption, SubjectsAssumption, TypeInv, SecretInv, DeleteApp
    PROVE  SecretInv'
<1> USE DEF TypeInv, TypeOK
<1>1. job.on \in ManagedApps /\ job'.on = job.on /\ job'.pc = "report"
  BY DEF DeleteApp, Fail, Succeed, JobOK
<1>2. SecretJob'
  BY <1>1, SubjectsAssumption, NoSecretJob DEF SecretCalls
<1>3. UNCHANGED <<credential, managed>>
  BY DEF DeleteApp, central
<1>4. DOMAIN apps' = DOMAIN apps /\ \A i \in DOMAIN apps : apps'[i].secret = apps[i].secret
  <2>1. CASE UNCHANGED apps
    BY <2>1
  <2>2. CASE apps' = [apps EXCEPT ![job.app].alive = FALSE]
    BY <2>2, Fields DEF Application
  <2> QED
    BY <2>1, <2>2 DEF DeleteApp, AppDeleted
<1>5. SecretsExist'
  BY <1>4 DEF SecretInv, SecretsExist
<1> QED
  BY <1>2, <1>3, <1>4, <1>5, SecretQuiet

LEMMA SecretCallsKeepSecret ==
    ASSUME ProvisioningAssumption, SubjectsAssumption, TypeInv, AccessInv, SecretInv,
           GetSecret \/ GetApp \/ ResetAppSecret
    PROVE  SecretInv'
<1> USE DEF TypeInv, TypeOK
<1>1. /\ job.on \in Credentials /\ job.app \in DOMAIN apps
      /\ AppOf[job.on] \in ManagedApps
      /\ job.app = managed[AppOf[job.on]].app
  BY AppOfSubject, Fields
     DEF GetSecret, GetApp, ResetAppSecret, JobOK, SecretCalls, IdsKnown, SecretInv, SecretJob
<1>2. UNCHANGED <<managed, credential>> /\ job'.on = job.on
  BY DEF GetSecret, GetApp, ResetAppSecret, central, Continue, Succeed, Fail, Typed, Job
<1>0. ASSUME Fail
      PROVE  SecretJob'
  BY <1>0 DEF Fail, Succeed, SecretJob, SecretCalls
<1>3. CASE GetSecret
  <2>1. UNCHANGED apps /\ (Fail \/ Succeed("ready", apps[job.app].secret))
    BY <1>3 DEF GetSecret, anypoint
  <2>2. SecretJob'
    BY <1>0, <1>1, <1>2, <2>1 DEF SecretJob, Succeed, SecretCalls
  <2> QED
    BY <1>2, <2>1, <2>2, SecretStill
<1>4. CASE GetApp
  <2>1. UNCHANGED apps /\ (Fail \/ Continue("reset"))
    BY <1>4 DEF GetApp, anypoint
  <2>2. Continue("reset") => job'.pc = "reset" /\ job'.app = job.app
    BY ContinueJob
  <2>3. SecretJob'
    BY <1>0, <1>1, <1>2, <1>4, <2>1, <2>2 DEF SecretInv, SecretJob, SecretCalls, GetApp
  <2> QED
    BY <1>2, <2>1, <2>3, SecretStill
<1>5. CASE ResetAppSecret
  <2>0. SecretJob' /\ (UNCHANGED apps \/ apps' = [apps EXCEPT ![job.app].secret = @ + 1])
    <3>1. Fail \/ Succeed("ready", apps'[job.app].secret)
      BY <1>5 DEF ResetAppSecret
    <3>2. UNCHANGED apps \/ apps' = [apps EXCEPT ![job.app].secret = @ + 1]
      BY <1>5 DEF ResetAppSecret
    <3>3. ASSUME Succeed("ready", apps'[job.app].secret)
          PROVE  SecretJob'
      <4>1. job'.pc = "report" /\ job'.on = job.on /\ job'.result = apps'[job.app].secret
        BY <3>3 DEF Succeed
      <4> QED
        BY <1>1, <1>2, <4>1 DEF SecretJob, SecretCalls
    <3> QED
      BY <1>0, <3>1, <3>2, <3>3
  <2>1. CASE UNCHANGED apps
    BY <1>2, <2>0, <2>1, SecretStill
  <2> SUFFICES ASSUME apps' = [apps EXCEPT ![job.app].secret = @ + 1]
               PROVE  SecretInv'
    BY <2>0, <2>1
  <2>2. /\ DOMAIN apps' = DOMAIN apps
        /\ apps'[job.app].secret = apps[job.app].secret + 1
        /\ \A i \in DOMAIN apps \ {job.app} : apps'[i].secret = apps[i].secret
    BY <1>1, Fields DEF Application
  <2>3. SecretsExist'
    BY <1>1, <2>2, Fields DEF SecretInv, SecretsExist
  <2>5. PICK h \in Credentials : h = job.on
    BY <1>1
  <2>6. Current(h)'
    <3>1. credential[h].state = "rotating"
      BY <1>5, <2>5 DEF SecretInv, SecretJob, ResetAppSecret
    <3> QED
      BY <1>2, <3>1 DEF SecretInv, SecretStates, Current
  <2>7. ASSUME NEW c \in Credentials, credential[c].secret # 0
        PROVE  \E d \in Credentials : AppOf[d] = AppOf[c] /\ Current(d)'
    <3>1. CASE AppOf[c] = AppOf[job.on]
      BY <2>5, <2>6, <3>1
    <3>2. CASE AppOf[c] # AppOf[job.on]
      <4>1. PICK d \in Credentials : AppOf[d] = AppOf[c] /\ Current(d)
        BY <2>7 DEF SecretInv, SomeCurrent
      <4>2. AppOf[d] \in ManagedApps /\ managed[AppOf[d]].app # 0
            /\ managed[AppOf[d]].app \in DOMAIN apps
        BY <4>1, AppOfSubject, HolderHasApp DEF SecretInv, Current
      <4>3. managed[AppOf[d]].app # job.app
        BY <1>1, <3>2, <4>1, <4>2 DEF AccessInv, Ownership, RecordedApps
      <4>4. Current(d)'
        BY <1>2, <2>2, <4>1, <4>2, <4>3 DEF Current
      <4> QED
        BY <4>1, <4>4
    <3> QED
      BY <3>1, <3>2
  <2>8. SomeCurrent' /\ SecretStates'
    BY <1>2, <2>7 DEF SomeCurrent, SecretInv, SecretStates
  <2> QED
    BY <2>0, <2>3, <2>8 DEF SecretInv
<1> QED
  BY <1>3, <1>4, <1>5

LEMMA ReportKeepsSecret ==
    ASSUME ProvisioningAssumption, SubjectsAssumption, TypeInv, SecretInv, Report
    PROVE  SecretInv'
<1> USE DEF TypeInv, TypeOK
<1>1. UNCHANGED apps /\ job' = NoJob /\ job.pc = "report"
  BY DEF Report, anypoint
<1>2. SecretJob' /\ SecretsExist'
  BY <1>1, NoSecretJob DEF SecretInv, SecretsExist
<1>3. CASE UNCHANGED credential
  <2>1. \A m \in ManagedApps : managed'[m].app = managed[m].app
    <3>1. CASE UNCHANGED managed
      BY <3>1
    <3>2. CASE job.on \in ManagedApps /\ managed' = [managed EXCEPT ![job.on].state = job.outcome]
      BY <3>2 DEF Typed, Managed
    <3> QED
      BY <3>1, <3>2 DEF Report
  <2> QED
    BY <1>1, <1>2, <1>3, <2>1, SecretQuiet
<1>4. CASE job.on \in Credentials /\ UNCHANGED managed /\ ~UNCHANGED credential
  <2>0. PICK c \in Credentials : c = job.on
    BY <1>4
  <2> DEFINE k == IF job.outcome = "ready" THEN job.result ELSE credential[c].secret
  <2>1. credential' = [credential EXCEPT ![c].state = job.outcome, ![c].secret = k]
    BY <1>4, <2>0 DEF Report
  <2>2. /\ credential'[c].state = job.outcome /\ credential'[c].secret = k
        /\ \A d \in Credentials \ {c} : credential'[d] = credential[d]
    BY <1>4, <2>1 DEF Typed, Credential
  <2>3. AppOf[c] \in ManagedApps /\ \A d \in Credentials : AppOf[d] \in ManagedApps
    BY <1>4, AppOfSubject
  <2>4. CASE job.outcome = "ready"
    <3>1. managed[AppOf[c]].app # 0 /\ managed[AppOf[c]].app \in DOMAIN apps
      BY <1>4, <2>0, <2>3, <2>4, Fields DEF CredentialJob, IdsKnown
    <3>2. k = apps[managed[AppOf[c]].app].secret /\ k # 0
      BY <1>1, <1>4, <2>0, <2>4, <3>1 DEF SecretInv, SecretJob, SecretsExist
    <3>3. Current(c)'
      BY <1>1, <1>4, <2>2, <3>2 DEF Current
    <3>4. SecretStates'
      BY <1>4, <2>2, <2>4, <3>1, <3>2 DEF SecretInv, SecretStates
    <3>5. SomeCurrent'
      <4> SUFFICES ASSUME NEW d \in Credentials, credential'[d].secret # 0
                   PROVE  \E e \in Credentials : AppOf[e] = AppOf[d] /\ Current(e)'
        BY DEF SomeCurrent
      <4>1. CASE AppOf[d] = AppOf[c]
        BY <1>4, <3>3, <4>1
      <4>2. CASE AppOf[d] # AppOf[c]
        <5>1. PICK e \in Credentials : AppOf[e] = AppOf[d] /\ Current(e)
          BY <2>2, <4>2 DEF SecretInv, SomeCurrent
        <5>2. credential'[e] = credential[e]
          BY <2>2, <4>2, <5>1
        <5> QED
          BY <1>1, <1>4, <5>1, <5>2 DEF Current
      <4> QED
        BY <4>1, <4>2
    <3> QED
      BY <1>2, <3>4, <3>5 DEF SecretInv
  <2>5. CASE job.outcome # "ready"
    <3>1. credential'[c].state = "failed" /\ credential'[c].secret = credential[c].secret
      BY <1>1, <1>4, <2>0, <2>2, <2>5 DEF JobOK
    <3>2. SecretStates'
      BY <1>4, <2>2, <3>1 DEF SecretInv, SecretStates
    <3>3. \A d \in Credentials : Current(d) => Current(d)'
      BY <1>1, <1>4, <2>2, <3>1 DEF Current
    <3>4. SomeCurrent'
      BY <2>2, <3>1, <3>3 DEF SecretInv, SomeCurrent
    <3> QED
      BY <1>2, <3>2, <3>4 DEF SecretInv
  <2> QED
    BY <2>4, <2>5
<1> QED
  BY <1>3, <1>4 DEF Report

LEMMA SecretStep ==
    ASSUME ProvisioningAssumption, SubjectsAssumption, TypeInv, AccessInv, LeakInv,
           SecretInv, [Next]_vars
    PROVE  SecretInv'
<1>1. CASE User
  BY <1>1, UserKeepsSecret
<1>2. ASSUME NEW x \in Subjects, Handle(x)
      PROVE  SecretInv'
  BY <1>2, HandleKeepsSecret
<1>3. CASE \/ CreateApp \/ WriteBack \/ GetSLATiers \/ CreateSLATier \/ CreateContract
           \/ RevokeContract \/ DeleteContract
  BY <1>3, RequestCallsKeepSecret DEF LeakInv
<1>4. CASE DeleteApp
  BY <1>4, DeleteAppKeepsSecret
<1>5. CASE GetSecret \/ GetApp \/ ResetAppSecret
  BY <1>5, SecretCallsKeepSecret
<1>6. CASE Report
  BY <1>6, ReportKeepsSecret
<1>7. CASE Crash
  BY <1>7, NoSecretJob, SecretStill DEF Crash, central, anypoint
<1>8. CASE UNCHANGED vars
  BY <1>8 DEF vars, SecretInv, SecretsExist, SecretStates, SomeCurrent, Current, SecretJob
<1> QED
  BY <1>1, <1>2, <1>3, <1>4, <1>5, <1>6, <1>7, <1>8 DEF Next, Call

(* Of an application's credentials some one has the secret it has now, or  *)
(* Central has one that is rotating or failed to: no crash between the     *)
(* reset and its answer, no lost answer and no second credential makes     *)
(* them all outdated unnoticed (CredentialUpdate,                          *)
(* src/pkg/subscription/provision.go).                                     *)
THEOREM SecretIsHeld == Spec => []SecretHeld
<1> DEFINE IInv == TypeInv /\ AccessInv /\ LeakInv /\ SecretInv
<1>1. Init => IInv
  <2>1. Init => SecretInv
    BY NoJobType, AppOfSubject
       DEF Init, SecretInv, SecretsExist, SecretStates, SomeCurrent, SecretJob, SecretCalls
  <2> QED
    BY <2>1, TypeInit, AccessInit, LeakInit, ProvisioningAssumption, SubjectsAssumption
<1>2. IInv /\ [Next]_vars => IInv'
  BY TypeStep, AccessStep, LeakStep, SecretStep, ProvisioningAssumption, SubjectsAssumption
<1>3. IInv => SecretHeld
  <2> SUFFICES ASSUME SecretInv, NEW m \in ManagedApps,
                      NEW c \in Credentials, AppOf[c] = m, credential[c].secret # 0,
                      \A d \in Credentials : AppOf[d] = m /\ credential[d].secret # 0 =>
                          credential[d].state = "ready"
               PROVE  \E d \in Credentials : /\ AppOf[d] = m /\ credential[d].secret # 0
                                             /\ credential[d].secret = apps[managed[m].app].secret
    BY DEF SecretHeld
  <2> QED
    BY DEF SecretInv, SomeCurrent, Current
<1> QED
  BY <1>1, <1>2, <1>3, PTL DEF Spec
-----------------------------------------------------------------------------
(* Contracts that stay in force: of access requests that are gone, or      *)
(* about to be reported as gone, and whose contract is not deleted.        *)

Deleted(r) == request[r].contract # 0 /\ ~InForce(r)
ToldGone(r) ==
    \/ request[r].state = "gone"
    \/ job.on = r /\ job.pc = "report" /\ job.outcome = "gone"
Kept == {r \in Requests : ToldGone(r) /\ ~Deleted(r)}

RemovalInv == IsFiniteSet(Kept) /\ Cardinality(Kept) <= faults

(* The only ways to report an access request as gone.                      *)
LEMMA GoneReported ==
    ASSUME SubjectsAssumption, TypeInv, [Next]_vars, ~UNCHANGED job,
           job'.pc = "report", job'.on \in Requests, job'.outcome = "gone"
    PROVE  /\ job'.on = job.on
           /\ \/ RevokeContract /\ contracts[request[job.on].contract].state = "deleted"
              \/ DeleteContract /\ ContractTo("deleted")
              \/ faults' = faults + 1
<1> USE DEF TypeInv, TypeOK
<1>1. ~\E x \in Subjects : Handle(x)
  BY SubjectsAssumption
     DEF Handle, ApplicationRequestProvision, ApplicationRequestDeprovision,
         AccessRequestProvision, AccessRequestDeprovision, CredentialProvision,
         CredentialUpdate, Start, Answer
<1>2. ~User /\ ~UNCHANGED vars
  BY DEF User, AskAccess, AskCredential, Rotate, RemoveAccess, RemoveApp, vars
<1>3. ~Report /\ ~Crash
  BY NoJobType DEF Report, Crash
<1>4. ~WriteBack
  <2>1. ToTier(job.on) \in {"tiers", "contract"}
    BY DEF ToTier
  <2> QED
    BY <2>1, ContinueJob DEF WriteBack
<1>5. ~CreateApp
  <2>1. CASE Fail
    BY <2>1 DEF Fail, Succeed
  <2>2. CASE \E n \in Nat : job' = [job EXCEPT !.pc = "writeBack", !.app = n]
    BY <2>2, MadeAppJob
  <2>3. Len(Append(apps, [owner |-> AppOf[job.on], alive |-> TRUE, secret |-> 1])) \in Nat
    BY DEF Typed
  <2> QED
    BY <2>1, <2>2, <2>3 DEF CreateApp
<1>6. ~GetSLATiers
  <2>1. CASE Fail
    BY <2>1 DEF Fail, Succeed
  <2>2. CASE \E pc \in {"contract", "createTier"} : Continue(pc)
    BY <2>2, ContinueJob
  <2> QED
    BY <2>1, <2>2 DEF GetSLATiers
<1>7. ~CreateSLATier
  BY ContinueJob DEF CreateSLATier, Fail, Succeed
<1>8. ~CreateContract
  BY DEF CreateContract, Fail, Succeed
<1>9. ~GetSecret /\ ~GetApp /\ ~ResetAppSecret
  BY ContinueJob DEF GetSecret, GetApp, ResetAppSecret, Fail, Succeed
<1>10. ~DeleteApp
  BY SubjectsAssumption DEF DeleteApp, JobOK, Fail, Succeed
<1>12. RevokeContract \/ DeleteContract
  BY <1>1, <1>2, <1>3, <1>4, <1>5, <1>6, <1>7, <1>8, <1>9, <1>10 DEF Next, Call
<1>13. CASE RevokeContract
  <2>1. ~Continue("deleteContract")
    BY ContinueJob
  <2> QED
    BY <1>13, <2>1 DEF RevokeContract, Succeed, Fails
<1>14. CASE DeleteContract
  BY <1>14 DEF DeleteContract, Succeed, Fails
<1> QED
  BY <1>12, <1>13, <1>14

(* A step keeps no contract more, unless its call fails.                   *)
LEMMA KeptByFailures ==
    ASSUME SubjectsAssumption, TypeInv, [Next]_vars
    PROVE  Kept' \subseteq Kept \/ (faults' = faults + 1 /\ Kept' \subseteq Kept \cup {job.on})
<1> USE DEF TypeInv, TypeOK
<1> SUFFICES ASSUME NEW r \in Requests, ToldGone(r)', ~Deleted(r)'
             PROVE  r \in Kept \/ (faults' = faults + 1 /\ r = job.on)
  BY DEF Kept
<1>1. request'[r].contract = request[r].contract => ~Deleted(r)
  <2> SUFFICES ASSUME Deleted(r), request'[r].contract = request[r].contract
               PROVE  FALSE
    OBVIOUS
  <2>1. request[r].contract \in DOMAIN contracts
    BY Fields DEF Deleted, IdsKnown
  <2> QED
    BY <2>1, DeletedStays DEF Deleted, InForce
<1>2. CASE ~Report
  <2>1. /\ request'[r].contract = request[r].contract
        /\ request'[r].state = "gone" => request[r].state = "gone"
    BY <1>2, RequestsKept
  <2>2. CASE request'[r].state = "gone" \/ UNCHANGED job
    BY <1>1, <2>1, <2>2 DEF Kept, ToldGone
  <2>3. CASE request'[r].state # "gone" /\ ~UNCHANGED job
    <3> DEFINE k == request[r].contract
    <3>1. /\ job.on = r
          /\ \/ RevokeContract /\ contracts[k].state = "deleted"
             \/ DeleteContract /\ ContractTo("deleted")
             \/ faults' = faults + 1
      BY <2>3, GoneReported DEF ToldGone
    <3>2. CASE faults' = faults + 1
      BY <3>1, <3>2
    <3>3. CASE RevokeContract \/ DeleteContract
      <4>1. k # 0 /\ k \in DOMAIN contracts
        BY <3>1, <3>3, Fields DEF RevokeContract, DeleteContract, JobOK, RemovalCalls, IdsKnown
      <4>2. contracts[k].state # "deleted"
        BY <1>1, <2>1, <4>1 DEF Deleted, InForce
      <4>3. ASSUME ContractTo("deleted")
            PROVE  contracts'[k].state = "deleted"
        <5>1. contracts' = [contracts EXCEPT ![k].state = "deleted"]
          BY <3>1, <4>3 DEF ContractTo
        <5> HIDE DEF k
        <5> QED
          BY <4>1, <5>1, ContractStateFacts
      <4>4. contracts'[k].state # "deleted"
        BY <2>1, <4>1 DEF Deleted, InForce
      <4> QED
        BY <3>1, <4>2, <4>3, <4>4
    <3> QED
      BY <3>1, <3>2, <3>3
  <2> QED
    BY <2>2, <2>3
<1>3. CASE Report
  <2>1. job'.pc = "idle"
    BY <1>3, NoJobType DEF Report
  <2>2. request'[r].state = "gone"
    BY <2>1 DEF ToldGone
  <2>3. CASE request'[r] = request[r]
    BY <1>1, <2>2, <2>3 DEF Kept, ToldGone
  <2>4. CASE request'[r] # request[r]
    <3>1. job.on = r /\ job.pc = "report"
      BY <1>3, <2>4 DEF Report, Typed
    <3>2. job.outcome = "gone" /\ request'[r].contract = request[r].contract
      BY <1>3, <2>2, <2>4, <3>1 DEF Report, Typed, Request
    <3> QED
      BY <1>1, <3>1, <3>2 DEF Kept, ToldGone
  <2> QED
    BY <2>3, <2>4
<1> QED
  BY <1>2, <1>3

LEMMA RemovalStep ==
    ASSUME SubjectsAssumption, TypeInv, TypeInv', RemovalInv, [Next]_vars
    PROVE  RemovalInv'
<1>0. /\ faults \in Nat /\ faults' \in {faults, faults + 1}
      /\ IsFiniteSet(Kept) /\ Cardinality(Kept) \in Nat /\ Cardinality(Kept) <= faults
  BY FaultsByOne, FS_CardinalityType DEF TypeInv, TypeOK, Typed, RemovalInv
<1>1. CASE Kept' \subseteq Kept
  <2>1. /\ IsFiniteSet(Kept') /\ Cardinality(Kept') \in Nat
        /\ Cardinality(Kept') <= Cardinality(Kept)
    BY <1>0, <1>1, FiniteSubset
  <2> QED
    BY <1>0, <2>1 DEF RemovalInv
<1>2. CASE faults' = faults + 1 /\ Kept' \subseteq Kept \cup {job.on}
  <2> DEFINE more == Kept \cup {job.on}
  <2>1. /\ IsFiniteSet(more) /\ Cardinality(more) \in Nat
        /\ Cardinality(more) <= Cardinality(Kept) + 1
    <3>1. /\ IsFiniteSet(more)
          /\ Cardinality(more) =
               IF job.on \in Kept THEN Cardinality(Kept) ELSE Cardinality(Kept) + 1
      BY <1>0, FS_AddElement
    <3> QED
      BY <1>0, <3>1
  <2>2. /\ IsFiniteSet(Kept') /\ Cardinality(Kept') \in Nat
        /\ Cardinality(Kept') <= Cardinality(more)
    BY <1>2, <2>1, FiniteSubset
  <2> QED
    BY <1>0, <1>2, <2>1, <2>2 DEF RemovalInv
<1> QED
  BY <1>1, <1>2, KeptByFailures

(* Of the access requests that are gone, no more have a contract in force  *)
(* than calls have failed, in whatever order requests and applications are *)
(* removed and wherever the agent crashed (AccessRequestDeprovision,       *)
(* src/pkg/subscription/provision.go).                                     *)
THEOREM RemovalIsReal == Spec => []RemovedIsGone
<1>1. Init => TypeInv /\ RemovalInv
  <2>1. ASSUME Init
        PROVE  RemovalInv
    <3>1. Kept = {} /\ faults = 0
      BY <2>1, NoJobType DEF Init, Kept, ToldGone
    <3> QED
      BY <3>1, FS_EmptySet DEF RemovalInv
  <2> QED
    BY <2>1, TypeInit, ProvisioningAssumption, SubjectsAssumption
<1>2. (TypeInv /\ RemovalInv) /\ [Next]_vars => (TypeInv /\ RemovalInv)'
  BY TypeStep, RemovalStep, ProvisioningAssumption, SubjectsAssumption
<1>3. ASSUME TypeInv, RemovalInv
      PROVE  RemovedIsGone
  <2> DEFINE left == {r \in Requests : request[r].state = "gone" /\ InForce(r)}
  <2>1. left \subseteq Kept
    BY DEF Kept, ToldGone, Deleted
  <2>2. /\ Cardinality(left) \in Nat /\ Cardinality(Kept) \in Nat
        /\ Cardinality(left) <= Cardinality(Kept)
    BY <1>3, <2>1, FiniteSubset DEF RemovalInv
  <2>3. faults \in Nat /\ Cardinality(Kept) <= faults
    BY <1>3 DEF TypeInv, TypeOK, Typed, RemovalInv
  <2>4. Cardinality(left) <= faults
    BY <2>2, <2>3
  <2> QED
    BY <2>4 DEF RemovedIsGone
<1> QED
  BY <1>1, <1>2, <1>3, PTL DEF Spec
=============================================================================
