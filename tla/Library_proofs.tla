-------------------------- MODULE Library_proofs --------------------------
(***************************************************************************)
(* What the library does for every set of requests, items, uploads and     *)
(* addresses and all faults.  LxcRestore: its types, that it implements    *)
(* IpReservation, and the two invariants on the address of a deployment.   *)
(* LibraryItem: its types, that "pushing" has a push, that temporary files *)
(* have an owner, and that rows and Harbor agree.                          *)
(***************************************************************************)
EXTENDS LxcRestore, LibraryItem, FiniteSetTheorems, TLAPS

-----------------------------------------------------------------------------
(* Types.                                                                   *)

(* The first state has its types.                                           *)
LEMMA LxcInitTypes == Init => TypeOK
  BY DEF Init, TypeOK, Statuses, WfPcs, ThreadPcs, Ended

(* A request handler keeps the types.                                       *)
LEMMA RequestTypes ==
  ASSUME TypeOK, NEW j \in Job, Request(j)
  PROVE  TypeOK'
<1>1. CASE Deploy(j)
  BY <1>1 DEF Deploy, TypeOK, Statuses, WfPcs, Ended, ctVars, threadVars
<1>2. CASE StartWorkflow(j)
  BY <1>2 DEF StartWorkflow, WfStep, TypeOK, WfPcs, Ended, jobVars, ipVars,
              ctVars, threadVars
<1>3. CASE StartFail(j)
  BY <1>3 DEF StartFail, WfStep, TypeOK, WfPcs, Ended, jobVars, ipVars,
              ctVars, threadVars
<1>4. CASE DeleteRecord(j)
  BY <1>4 DEF DeleteRecord, TypeOK, Statuses, ipVars, ctVars, wfVars, threadVars
<1> QED BY <1>1, <1>2, <1>3, <1>4 DEF Request

(* A step of the workflow keeps the types.                                  *)
LEMMA WorkflowTypes ==
  ASSUME TypeOK, NEW j \in Job, Workflow(j)
  PROVE  TypeOK'
<1> USE DEF WfStep, FailWith, WfPcs, Ended, jobVars, ipVars, ctVars, threadVars
<1>1. CASE Upload(j)
  BY <1>1 DEF Upload, TypeOK, ThreadPcs
<1>2. CASE UploadFail(j)
  BY <1>2 DEF UploadFail, TypeOK, Flags
<1>3. CASE RestoreTimeout(j)
  BY <1>3 DEF RestoreTimeout, TypeOK, Flags
<1>4. CASE Setup(j)
  BY <1>4 DEF Setup, TypeOK
<1>5. CASE SetupFail(j)
  BY <1>5 DEF SetupFail, TypeOK, Flags
<1>6. CASE Oras(j)
  BY <1>6 DEF Oras, TypeOK
<1>7. CASE OrasFail(j)
  BY <1>7 DEF OrasFail, TypeOK, Flags
<1>8. CASE Finish(j)
  BY <1>8 DEF Finish, TypeOK, Statuses
<1>9. CASE FailStatus(j)
  <2>1. status' \in [Job -> Statuses]
    BY <1>9 DEF FailStatus, TypeOK, Statuses
  <2> QED BY <1>9, <2>1 DEF FailStatus, TypeOK
<1>10. CASE FailRelease(j)
  BY <1>10 DEF FailRelease, TypeOK
<1>11. CASE UpdateLost(j)
  BY <1>11 DEF UpdateLost, TypeOK
<1> QED BY <1>1, <1>2, <1>3, <1>4, <1>5, <1>6, <1>7, <1>8, <1>9, <1>10, <1>11
        DEF Workflow

(* A step of the restoring thread keeps the types.                          *)
LEMMA RestoreTypes ==
  ASSUME TypeOK, NEW j \in Job, Restore(j)
  PROVE  TypeOK'
<1> USE DEF ThreadStep, ThreadPcs, jobVars, ipVars, ctVars, wfVars
<1>1. CASE PickTmp(j)
  BY <1>1 DEF PickTmp, TypeOK
<1>2. CASE RestoreTemplate(j)
  BY <1>2 DEF RestoreTemplate, Made, TypeOK
<1>3. CASE PickNew(j)
  BY <1>3 DEF PickNew, TypeOK
<1>4. CASE CloneTemplate(j)
  BY <1>4 DEF CloneTemplate, Made, TypeOK
<1>5. CASE DropTemplate(j)
  BY <1>5 DEF DropTemplate, Made, TypeOK
<1>6. CASE StartContainer(j)
  BY <1>6 DEF StartContainer, TypeOK
<1>7. CASE RecordJob(j)
  BY <1>7 DEF RecordJob, TypeOK, Statuses
<1>8. CASE RecordEntry(j)
  BY <1>8 DEF RecordEntry, TypeOK, WfPcs
<1>9. CASE ThreadFail(j)
  BY <1>9 DEF ThreadFail, ThreadGone, FailSeen, FailWith, WfStep, TypeOK,
              WfPcs, Flags
<1>10. CASE ThreadCancelled(j)
  BY <1>10 DEF ThreadCancelled, ThreadGone, TypeOK
<1> QED BY <1>1, <1>2, <1>3, <1>4, <1>5, <1>6, <1>7, <1>8, <1>9, <1>10
        DEF Restore

(* So does every step.                                                      *)
LEMMA LxcStepTypes == TypeOK /\ [Next]_vars => TypeOK'
<1> SUFFICES ASSUME TypeOK, [Next]_vars PROVE TypeOK'
  OBVIOUS
<1>1. CASE UNCHANGED vars
  BY <1>1 DEF vars, jobVars, ipVars, ctVars, wfVars, threadVars, TypeOK
<1>2. CASE Finished
  BY <1>1, <1>2 DEF Finished
<1>3. ASSUME NEW j \in Job, Request(j) \/ Restore(j) \/ Workflow(j)
      PROVE  TypeOK'
  BY <1>3, RequestTypes, RestoreTypes, WorkflowTypes
<1> QED BY <1>1, <1>2, <1>3 DEF Next

(* In every state each variable has its type.                               *)
THEOREM LxcTypeCorrect == Spec => []TypeOK
  BY LxcInitTypes, LxcStepTypes, PTL DEF Spec

-----------------------------------------------------------------------------
(* Reservation.  The rows alone do not say who holds an address: the entry  *)
(* says only that somebody does, and the job's row may be deleted.  The     *)
(* inductive invariant ties the two together through the workflow: an entry *)
(* is used exactly when one request, and no more than one, was given it     *)
(* and has not come to the end of its release.                              *)

Reservation ==
    /\ \A j \in Job : wf[j] = "idle" => jobIp[j] = NoIp
    /\ \A j \in Job : wf[j] # "idle" => jobIp[j] \in IPs
    /\ \A i \in IPs : ipStatus[i] = "used" <=> \E j \in Job : Holds(j, i)
    /\ \A i \in IPs : \A j, k \in Job : Holds(j, i) /\ Holds(k, i) => j = k

(* No request is made or released: who holds what stays the same.           *)
HoldersKept ==
    /\ UNCHANGED <<jobIp, ipStatus>>
    /\ \A j \in Job : wf'[j] = "idle" <=> wf[j] = "idle"
    /\ \A j \in Job : wf'[j] = "released" <=> wf[j] = "released"

(* Only two steps concern a reservation: Deploy makes one, FailRelease ends *)
(* one.                                                                     *)
LEMMA StepKinds ==
  ASSUME TypeOK, [Next]_vars
  PROVE  HoldersKept \/ \E j \in Job : Deploy(j) \/ FailRelease(j)
<1> USE DEF HoldersKept, WfStep, FailWith, TypeOK, jobVars, ipVars, ctVars,
            wfVars, threadVars
<1>1. CASE UNCHANGED vars
  BY <1>1 DEF vars
<1>2. CASE Finished
  BY <1>1, <1>2 DEF Finished
<1>3. ASSUME NEW j \in Job, Request(j), ~Deploy(j) PROVE HoldersKept
  BY <1>3 DEF Request, StartWorkflow, StartFail, DeleteRecord
<1>4. ASSUME NEW j \in Job, Restore(j) PROVE HoldersKept
  <2>1. CASE PickTmp(j) \/ RestoreTemplate(j) \/ PickNew(j) \/ CloneTemplate(j)
             \/ DropTemplate(j) \/ StartContainer(j) \/ RecordJob(j)
    BY <2>1 DEF PickTmp, RestoreTemplate, PickNew, CloneTemplate, DropTemplate,
                StartContainer, RecordJob
  <2>2. CASE RecordEntry(j)
    BY <2>2 DEF RecordEntry
  <2>3. CASE ThreadFail(j) \/ ThreadCancelled(j)
    BY <2>3 DEF ThreadFail, ThreadCancelled, FailSeen
  <2> QED BY <1>4, <2>1, <2>2, <2>3 DEF Restore
<1>5. ASSUME NEW j \in Job, Workflow(j), ~FailRelease(j) PROVE HoldersKept
  <2>1. CASE Upload(j) \/ UploadFail(j) \/ RestoreTimeout(j)
    BY <2>1 DEF Upload, UploadFail, RestoreTimeout
  <2>2. CASE Setup(j) \/ SetupFail(j) \/ Oras(j) \/ OrasFail(j)
    BY <2>2 DEF Setup, SetupFail, Oras, OrasFail
  <2>3. CASE Finish(j) \/ FailStatus(j)
    BY <2>3 DEF Finish, FailStatus
  <2>4. CASE UpdateLost(j)
    BY <2>4 DEF UpdateLost
  <2> QED BY <1>5, <2>1, <2>2, <2>3, <2>4 DEF Workflow
<1> QED BY <1>1, <1>2, <1>3, <1>4, <1>5 DEF Next

(* While nobody reserves or releases, the holders are the same.             *)
LEMMA KeptHolds ==
  ASSUME HoldersKept, NEW j \in Job, NEW i \in IPs
  PROVE  Holds(j, i)' <=> Holds(j, i)
  BY DEF HoldersKept, Holds

(* Deploy takes an entry nobody holds, for a request that holds none.       *)
LEMMA DeployReserves ==
  ASSUME TypeOK, Reservation, NEW j \in Job, Deploy(j)
  PROVE  \E i \in IPs :
           /\ ipStatus[i] = "unused"
           /\ ipStatus' = [ipStatus EXCEPT ![i] = "used"]
           /\ \A k \in Job : ~Holds(k, i)
           /\ \A e \in IPs : ~Holds(j, e)
           /\ jobIp'[j] = i /\ wf'[j] = "committed"
           /\ \A k \in Job \ {j} : jobIp'[k] = jobIp[k] /\ wf'[k] = wf[k]
           /\ \A k \in Job, e \in IPs :
                 Holds(k, e)' <=> (k = j /\ e = i) \/ Holds(k, e)
<1>1. PICK i \in IPs : /\ Chosen(j, i)
                       /\ ipStatus' = [ipStatus EXCEPT ![i] = "used"]
                       /\ jobIp' = [jobIp EXCEPT ![j] = i]
  BY DEF Deploy
<1>2. ipStatus[i] = "unused" /\ ~(\E k \in Job : Holds(k, i))
  BY <1>1 DEF Chosen, Unused, Reservation
<1>3. \A e \in IPs : ~Holds(j, e)
  BY LxcAssumption DEF Deploy, Reservation, Holds
<1>4. /\ jobIp'[j] = i /\ wf'[j] = "committed"
      /\ \A k \in Job \ {j} : jobIp'[k] = jobIp[k] /\ wf'[k] = wf[k]
  BY <1>1 DEF Deploy, TypeOK
<1>5. \A k \in Job, e \in IPs : Holds(k, e)' <=> (k = j /\ e = i) \/ Holds(k, e)
  BY <1>3, <1>4 DEF Holds
<1> QED BY <1>1, <1>2, <1>3, <1>4, <1>5

(* FailRelease frees the one entry its request holds, and no other request  *)
(* holds it.                                                                *)
LEMMA FailureReleases ==
  ASSUME TypeOK, Reservation, NEW j \in Job, FailRelease(j)
  PROVE  \E i \in IPs :
           /\ Holds(j, i)
           /\ ipStatus' = [ipStatus EXCEPT ![i] = "unused"]
           /\ jobIp' = jobIp
           /\ wf'[j] = "released"
           /\ \A k \in Job \ {j} : wf'[k] = wf[k]
           /\ \A k \in Job, e \in IPs : Holds(k, e)' <=> k # j /\ Holds(k, e)
<1> DEFINE i == jobIp[j]
<1>1. i \in IPs /\ Holds(j, i)
  BY DEF FailRelease, WfStep, Reservation, Holds
<1>2. ipStatus' = [ipStatus EXCEPT ![i] = "unused"]
  BY <1>1 DEF FailRelease, EntriesOf, TypeOK
<1>3. /\ jobIp' = jobIp
      /\ wf'[j] = "released"
      /\ \A k \in Job \ {j} : wf'[k] = wf[k]
  BY DEF FailRelease, WfStep, jobVars, TypeOK
<1>4. \A k \in Job, e \in IPs : Holds(k, e)' <=> k # j /\ Holds(k, e)
  BY <1>3 DEF Holds
<1> QED BY <1>1, <1>2, <1>3, <1>4

(* At first nothing is reserved.                                           *)
LEMMA InitReservation == Init => Reservation
  BY LxcAssumption DEF Init, Reservation, Holds

(* The three kinds of steps keep the reservations apart.                    *)
LEMMA StepReservation ==
  ASSUME TypeOK, Reservation, [Next]_vars
  PROVE  Reservation'
<1>1. CASE HoldersKept
  BY <1>1, KeptHolds DEF HoldersKept, Reservation
<1>2. ASSUME NEW j \in Job, Deploy(j) PROVE Reservation'
  <2>1. PICK i \in IPs :
           /\ ipStatus[i] = "unused"
           /\ ipStatus' = [ipStatus EXCEPT ![i] = "used"]
           /\ \A k \in Job : ~Holds(k, i)
           /\ \A e \in IPs : ~Holds(j, e)
           /\ jobIp'[j] = i /\ wf'[j] = "committed"
           /\ \A k \in Job \ {j} : jobIp'[k] = jobIp[k] /\ wf'[k] = wf[k]
           /\ \A k \in Job, e \in IPs :
                 Holds(k, e)' <=> (k = j /\ e = i) \/ Holds(k, e)
    BY <1>2, DeployReserves
  <2>2. \A e \in IPs : ipStatus'[e] = "used" <=> \E k \in Job : Holds(k, e)'
    BY <2>1 DEF Reservation, TypeOK
  <2>3. \A e \in IPs : \A k, l \in Job : Holds(k, e)' /\ Holds(l, e)' => k = l
    BY <2>1 DEF Reservation
  <2>4. \A k \in Job : /\ wf'[k] = "idle" => jobIp'[k] = NoIp
                       /\ wf'[k] # "idle" => jobIp'[k] \in IPs
    BY <2>1 DEF Reservation
  <2> QED BY <2>2, <2>3, <2>4 DEF Reservation
<1>3. ASSUME NEW j \in Job, FailRelease(j) PROVE Reservation'
  <2>1. PICK i \in IPs :
           /\ Holds(j, i)
           /\ ipStatus' = [ipStatus EXCEPT ![i] = "unused"]
           /\ jobIp' = jobIp
           /\ wf'[j] = "released"
           /\ \A k \in Job \ {j} : wf'[k] = wf[k]
           /\ \A k \in Job, e \in IPs : Holds(k, e)' <=> k # j /\ Holds(k, e)
    BY <1>3, FailureReleases
  <2>2. wf[j] # "idle"
    BY <1>3 DEF FailRelease, WfStep
  <2>3. \A e \in IPs : ipStatus'[e] = "used" <=> \E k \in Job : Holds(k, e)'
    <3>1. \A e \in IPs : e # i => ~Holds(j, e)
      BY <2>1 DEF Holds
    <3> QED BY <2>1, <3>1 DEF Reservation, TypeOK
  <2>4. \A e \in IPs : \A k, l \in Job : Holds(k, e)' /\ Holds(l, e)' => k = l
    BY <2>1 DEF Reservation
  <2>5. \A k \in Job : /\ wf'[k] = "idle" => jobIp'[k] = NoIp
                       /\ wf'[k] # "idle" => jobIp'[k] \in IPs
    BY <2>1, <2>2 DEF Reservation
  <2> QED BY <2>3, <2>4, <2>5 DEF Reservation
<1> QED BY <1>1, <1>2, <1>3, StepKinds

(* So the invariant holds throughout.                                       *)
LEMMA AlwaysReservation == Spec => [](TypeOK /\ Reservation)
  BY LxcInitTypes, LxcStepTypes, InitReservation, StepReservation, PTL DEF Spec

-----------------------------------------------------------------------------
(* The refinement of IpReservation.                                         *)

(* What a job holds is its own address or nothing, and the sets a step       *)
(* leaves alone stay the same.                                              *)
LEMMA HeldIs ==
  /\ Held \in [Job -> SUBSET IPs] /\ Held' \in [Job -> SUBSET IPs]
  /\ \A j \in Job : /\ Held[j] = {i \in IPs : Holds(j, i)}
                    /\ Held'[j] = {i \in IPs : Holds(j, i)'}
  BY DEF Held

(* A step of the model is a step of IpReservation, or none.                 *)
LEMMA StepRefines ==
  ASSUME TypeOK, Reservation, [Next]_vars
  PROVE  [R!Next]_Held
<1>1. CASE HoldersKept
  <2>1. \A j \in Job, i \in IPs : Holds(j, i)' <=> Holds(j, i)
    BY <1>1, KeptHolds
  <2>2. \A j \in Job : Held'[j] = Held[j]
    BY <2>1, HeldIs
  <2> QED BY <2>2, HeldIs
<1>2. ASSUME NEW j \in Job, Deploy(j) PROVE R!Next
  <2>1. PICK i \in IPs :
           /\ \A k \in Job : ~Holds(k, i)
           /\ \A e \in IPs : ~Holds(j, e)
           /\ \A k \in Job, e \in IPs :
                 Holds(k, e)' <=> (k = j /\ e = i) \/ Holds(k, e)
    BY <1>2, DeployReserves
  <2>2. Held[j] = {} /\ \A k \in Job : i \notin Held[k]
    BY <2>1, HeldIs
  <2>3. {i} \in SUBSET R!Free
    BY <2>2 DEF R!Free
  <2>4. Held'[j] = {i} /\ \A k \in Job \ {j} : Held'[k] = Held[k]
    BY <2>1, HeldIs
  <2>5. Held' = [Held EXCEPT ![j] = {i}]
    BY <2>4, HeldIs
  <2>6. R!Cardinality({i}) = 1
    <3>1. R!Cardinality({i}) = Cardinality({i})
      BY DEF R!Cardinality, Cardinality
    <3> QED BY <3>1, FS_Singleton
  <2>7. R!Reserve(j)
    BY <2>2, <2>3, <2>5, <2>6 DEF R!Reserve
  <2> QED BY <2>7 DEF R!Next
<1>3. ASSUME NEW j \in Job, FailRelease(j) PROVE R!Next
  <2>1. PICK i \in IPs :
           /\ Holds(j, i)
           /\ \A k \in Job, e \in IPs : Holds(k, e)' <=> k # j /\ Holds(k, e)
    BY <1>3, FailureReleases
  <2>2. Held[j] # {} /\ Held'[j] = {}
    BY <2>1, HeldIs
  <2>3. \A k \in Job \ {j} : Held'[k] = Held[k]
    BY <2>1, HeldIs
  <2>4. Held' = [Held EXCEPT ![j] = {}]
    BY <2>2, <2>3, HeldIs
  <2>5. R!Release(j)
    BY <2>2, <2>4 DEF R!Release
  <2> QED BY <2>5 DEF R!Next
<1> QED BY <1>1, <1>2, <1>3, StepKinds

(* At first nobody holds an entry.                                          *)
LEMMA InitRefines == Init => R!Init
<1> SUFFICES ASSUME Init PROVE R!Init
  OBVIOUS
<1>1. \A j \in Job : Held[j] = {}
  BY LxcAssumption, HeldIs DEF Init, Holds
<1> QED BY <1>1, HeldIs DEF R!Init

(* Deployment of library items reserves addresses as IpReservation says:    *)
(* an address has one holder at a time and is free before it has the next,  *)
(* whatever fails, is deleted or comes too late.                            *)
THEOREM IpsAreReserved == Spec => ReservesIps
<1>1. TypeOK /\ Reservation /\ [Next]_vars => [R!Next]_Held
  BY StepRefines
<1> QED BY <1>1, InitRefines, AlwaysReservation, PTL DEF Spec, ReservesIps, R!Spec

-----------------------------------------------------------------------------
(* The address of a deployment and its outcome.                             *)

(* How the status of a job follows from where its workflow is; the record   *)
(* may have been deleted and the restoring thread may have written its own  *)
(* status since, but neither writes one of these.                           *)
Outcome ==
    \A j \in Job :
        /\ wf[j] = "fail" => flag[j] \in Flags
        /\ status[j] \in Flags => wf[j] \in {"release", "released", "lost"}
        /\ status[j] = "deployed_successfully" => wf[j] = "ok"

(* At first no job has a status.                                            *)
LEMMA InitOutcome == Init => Outcome
  BY DEF Init, Outcome, Flags

(* Every step keeps it.                                                     *)
LEMMA StepOutcome ==
  ASSUME TypeOK, Outcome, [Next]_vars
  PROVE  Outcome'
<1> USE DEF Outcome, Flags, WfStep, FailWith, TypeOK, jobVars, ipVars, ctVars,
            wfVars, threadVars
<1>1. CASE UNCHANGED vars
  BY <1>1 DEF vars
<1>2. CASE Finished
  BY <1>1, <1>2 DEF Finished
<1>3. ASSUME NEW j \in Job, Request(j) PROVE Outcome'
  <2>1. CASE Deploy(j)
    BY <2>1 DEF Deploy
  <2>2. CASE StartWorkflow(j) \/ StartFail(j)
    BY <2>2 DEF StartWorkflow, StartFail
  <2>3. CASE DeleteRecord(j)
    BY <2>3 DEF DeleteRecord
  <2> QED BY <1>3, <2>1, <2>2, <2>3 DEF Request
<1>4. ASSUME NEW j \in Job, Restore(j) PROVE Outcome'
  <2>1. CASE PickTmp(j) \/ RestoreTemplate(j) \/ PickNew(j) \/ CloneTemplate(j)
             \/ DropTemplate(j) \/ StartContainer(j) \/ ThreadCancelled(j)
    BY <2>1 DEF PickTmp, RestoreTemplate, PickNew, CloneTemplate, DropTemplate,
                StartContainer, ThreadCancelled
  <2>2. CASE RecordJob(j)
    BY <2>2 DEF RecordJob
  <2>3. CASE RecordEntry(j)
    BY <2>3 DEF RecordEntry
  <2>4. CASE ThreadFail(j)
    BY <2>4 DEF ThreadFail, FailSeen
  <2> QED BY <1>4, <2>1, <2>2, <2>3, <2>4 DEF Restore
<1>5. ASSUME NEW j \in Job, Workflow(j) PROVE Outcome'
  <2>1. CASE Upload(j) \/ Setup(j) \/ Oras(j)
    BY <2>1 DEF Upload, Setup, Oras
  <2>2. CASE UploadFail(j) \/ RestoreTimeout(j) \/ SetupFail(j) \/ OrasFail(j)
    BY <2>2 DEF UploadFail, RestoreTimeout, SetupFail, OrasFail
  <2>3. CASE Finish(j)
    BY <2>3 DEF Finish
  <2>4. CASE FailStatus(j)
    BY <2>4 DEF FailStatus, FailureStatuses
  <2>5. CASE FailRelease(j)
    BY <2>5 DEF FailRelease
  <2>6. CASE UpdateLost(j)
    BY <2>6 DEF UpdateLost
  <2> QED BY <1>5, <2>1, <2>2, <2>3, <2>4, <2>5, <2>6 DEF Workflow
<1> QED BY <1>1, <1>2, <1>3, <1>4, <1>5 DEF Next

(* The two invariants together hold throughout.                             *)
LEMMA AlwaysOutcome == Spec => [](TypeOK /\ Reservation /\ Outcome)
  BY AlwaysReservation, InitOutcome, StepOutcome, PTL DEF Spec

(* update_lxc_job_status_activity releases the address of a failed          *)
(* deployment: unless that release is lost with its worker, no address      *)
(* stays in use for a deployment that failed.                               *)
THEOREM FailedAreFreed == Spec => []FailureFreesIp
<1>1. ASSUME Reservation, Outcome PROVE FailureFreesIp
  BY <1>1 DEF Reservation, Outcome, FailureFreesIp, Holds
<1> QED BY <1>1, AlwaysOutcome, PTL

(* The address of a deployment reported as successful is never freed, by    *)
(* its own workflow, by another's, or by a restore that comes too late.     *)
THEOREM DeployedAreKept == Spec => []DeployedKeepsIp
<1>1. ASSUME TypeOK, Reservation, Outcome PROVE DeployedKeepsIp
  BY <1>1 DEF Reservation, Outcome, DeployedKeepsIp, Holds
<1> QED BY <1>1, AlwaysOutcome, PTL

-----------------------------------------------------------------------------
(* LibraryItem.                                                             *)

(* One upload's step, and one deletion's, as ItemNext has them.             *)
PutStep(u) == BeginPut(u) \/ Uploading(u) \/ PushWork(u) \/ Die(u)
DeletionStep(d) == RequestRemoval(d) \/ Removing(d)

(* An upload or its push is under way: what AtWork looks for.               *)
Busy(u) == handler[u] \notin {"idle", "done"} \/ pusher[u] \in PushActive

-----------------------------------------------------------------------------
(* Types, and what the program counters say of the other variables: an      *)
(* upload that began has an item that was created, a push starts from its   *)
(* handler and chose one of the item's references.                          *)

PutShape(u) ==
    /\ handler[u] = "idle" => pusher[u] = "none" /\ u \notin temp
    /\ handler[u] # "idle" => target[u] \in Item /\ itemStatus[target[u]] # "none"
    /\ handler[u] \in {"receive", "put", "ready", "start"} => pusher[u] = "none"
    /\ pusher[u] \in {"push", "tell"} => ref[u] \in Refs[target[u]]

Shape ==
    /\ \A i \in Item : itemStatus[i] # "none" => itemType[i] # "none"
    /\ \A u \in Put : PutShape(u)
    /\ \A d \in Removal :
         /\ removal[d] \in {"image", "repo"} => found[d] \in Image
         /\ removal[d] \notin {"done", "given_up"} => tries[d] < Attempts

TypeInv == ItemTypeOK /\ Shape

(* The first state has its types.                                           *)
LEMMA InitTypes == ItemInit => TypeInv
  BY LibraryItemAssumption
     DEF ItemInit, TypeInv, ItemTypeOK, Shape, PutShape, HandlerPcs, PushActive,
         BeforeVerdict, RemovalPcs

(* A mishap is counted within its bound.                                    *)
LEMMA MishapCount ==
  ASSUME ItemTypeOK, NEW f, Mishap(f) \/ AllWell
  PROVE  mishaps' \in 0 .. MaxMishaps
  BY LibraryItemAssumption DEF ItemTypeOK, Mishap, AllWell

(* A row's columns keep their types, and a row that is gone stays gone.     *)
LEMMA SetStatusTypes ==
  ASSUME ItemTypeOK, NEW i \in Item,
         NEW s \in {"uploading", "ready", "failed", "deleted"},
         SetItemStatus(i, s)
  PROVE  /\ itemStatus' \in [Item -> {"none", "uploading", "ready", "failed",
                                      "deleted"}]
         /\ \A j \in Item : itemStatus'[j] = "none" <=> itemStatus[j] = "none"
  BY DEF ItemTypeOK, SetItemStatus, InLibrary

(* Creating an item keeps the types.                                        *)
LEMMA CreateTypes ==
  ASSUME TypeInv, NEW i \in Item, CreateItem(i)
  PROVE  TypeInv'
<1> USE DEF TypeInv, ItemTypeOK, contentVars, pushVars, removalVars, auxVars,
            historyVars
<1>1. PICK t \in ItemTypes[i] :
        /\ itemType' = [itemType EXCEPT ![i] = t]
        /\ pushStatus' = [pushStatus EXCEPT
                            ![i] = IF t = "general" THEN "null" ELSE "pending"]
  BY DEF CreateItem
<1>2. t \in {"container", "llm", "general"}
  BY LibraryItemAssumption
<1>3. /\ itemStatus' = [itemStatus EXCEPT ![i] = "uploading"]
      /\ UNCHANGED <<image, stored, harbor, temp, target, handler, pusher, ref,
                     removal, found, tries, hasty, taken, rushed, untold, stuck,
                     mishaps>>
  BY DEF CreateItem
<1>4. ItemTypeOK'
  BY <1>1, <1>2, <1>3
<1>5. Shape'
  BY <1>1, <1>2, <1>3 DEF Shape, PutShape
<1> QED BY <1>4, <1>5

(* A step of upload_library_file keeps the types.                           *)
LEMMA UploadingTypes ==
  ASSUME TypeInv, NEW u \in Put, BeginPut(u) \/ Uploading(u)
  PROVE  TypeInv'
<1> USE DEF TypeInv, ItemTypeOK, HandlerPcs, PushActive, BeforeVerdict, rowVars,
            contentVars, removalVars, auxVars, historyVars, HandlerStep
<1>a. /\ ItemsOf[u] \subseteq Item
      /\ FileOf \in [Item -> File]
  BY LibraryItemAssumption
<1>1. CASE BeginPut(u)
  <2>1. PICK i \in Item : /\ itemStatus[i] = "uploading"
                          /\ target' = [target EXCEPT ![u] = i]
    BY <1>1, <1>a DEF BeginPut
  <2> QED BY <1>1, <2>1 DEF BeginPut, Shape, PutShape
<1>2. CASE Receive(u)
  <2>1. target[u] \in Item
    BY <1>2 DEF Receive, Shape, PutShape
  <2> QED BY <1>2, <1>a, <2>1 DEF Receive, Store, Slot, Shape, PutShape
<1>3. CASE ReceiveFail(u)
  <2>1. target[u] \in Item
    BY <1>3 DEF ReceiveFail, Shape, PutShape
  <2>2. mishaps' \in 0 .. MaxMishaps
    BY <1>3, MishapCount DEF ReceiveFail
  <2>3. \E s \in {"failed", "deleted"} : SetItemStatus(target[u], s)
    BY <1>3 DEF ReceiveFail, DropRow
  <2>4. /\ itemStatus' \in [Item -> {"none", "uploading", "ready", "failed",
                                     "deleted"}]
        /\ \A j \in Item : itemStatus'[j] = "none" <=> itemStatus[j] = "none"
    BY <2>1, <2>3, SetStatusTypes
  <2>5. hasty' \subseteq Item /\ stored' \in [File -> Item \cup {NoItem}]
    BY <1>3, <1>a, <2>1 DEF ReceiveFail, DropRow, Disturbs, Store, Slot
  <2> QED BY <1>3, <2>1, <2>2, <2>4, <2>5 DEF ReceiveFail, Shape, PutShape
<1>4. CASE PutFile(u)
  <2>1. target[u] \in Item
    BY <1>4 DEF PutFile, Shape, PutShape
  <2> QED BY <1>4, <1>a, <2>1 DEF PutFile, Store, Slot, Shape, PutShape
<1>5. CASE PutFileFail(u)
  <2>1. target[u] \in Item
    BY <1>5 DEF PutFileFail, Shape, PutShape
  <2>2. mishaps' \in 0 .. MaxMishaps
    BY <1>5, MishapCount DEF PutFileFail
  <2>3. /\ itemStatus' \in [Item -> {"none", "uploading", "ready", "failed",
                                     "deleted"}]
        /\ \A j \in Item : itemStatus'[j] = "none" <=> itemStatus[j] = "none"
    BY <1>5, <2>1, SetStatusTypes DEF PutFileFail
  <2> QED BY <1>5, <2>1, <2>2, <2>3 DEF PutFileFail, Shape, PutShape
<1>6. CASE Ready(u)
  <2>1. target[u] \in Item
    BY <1>6 DEF Ready, Shape, PutShape
  <2>2. /\ itemStatus' \in [Item -> {"none", "uploading", "ready", "failed",
                                     "deleted"}]
        /\ \A j \in Item : itemStatus'[j] = "none" <=> itemStatus[j] = "none"
    BY <1>6, <2>1, SetStatusTypes DEF Ready
  <2> QED BY <1>6, <2>1, <2>2 DEF Ready, Shape, PutShape
<1>7. CASE Vanished(u)
  BY <1>7 DEF Vanished, Shape, PutShape
<1>8. CASE StartPush(u)
  BY <1>8 DEF StartPush, Scheduled, Shape, PutShape
<1>9. CASE StartPushFail(u)
  <2>1. mishaps' \in 0 .. MaxMishaps
    BY <1>9, MishapCount DEF StartPushFail, AllWell
  <2>2. pusher' = pusher \/ Scheduled(u)
    BY <1>9 DEF StartPushFail
  <2> QED BY <1>9, <2>1, <2>2 DEF StartPushFail, Scheduled, Shape, PutShape
<1>10. CASE RefusePush(u)
  BY <1>10 DEF RefusePush, SetPushStatus, Forget, Shape, PutShape
<1>11. CASE RecordPush(u)
  <2>1. target[u] \in Item
    BY <1>11 DEF RecordPush, Shape, PutShape
  <2> QED BY <1>11, <2>1 DEF RecordPush, SetPushStatus, Forget, Shape, PutShape
<1> QED BY <1>1, <1>2, <1>3, <1>4, <1>5, <1>6, <1>7, <1>8, <1>9, <1>10, <1>11
        DEF Uploading

(* A step of the push keeps the types.                                      *)
LEMMA PushTypes ==
  ASSUME TypeInv, NEW u \in Put, PushWork(u) \/ Die(u)
  PROVE  TypeInv'
<1> USE DEF TypeInv, ItemTypeOK, HandlerPcs, PushActive, BeforeVerdict, rowVars,
            contentVars, removalVars, auxVars, historyVars, PushStep
<1>a. /\ Refs \in [Item -> SUBSET Image]
      /\ FileOf \in [Item -> File]
  BY LibraryItemAssumption
<1>b. pusher[u] # "none"
  BY DEF PushWork, Load, LoadFail, Push, PushFail, Tell, FailPush, Clean, Die
<1>c. handler[u] # "idle" /\ target[u] \in Item
  BY <1>b DEF Shape, PutShape
<1>d. pusher[u] \in {"push", "tell"} => ref[u] \in Image
  BY <1>a, <1>c DEF Shape, PutShape
<1>e. Source(u) \in Item \cup {NoItem}
  BY <1>a, <1>c DEF Source, Slot
<1>1. CASE Load(u)
  <2>1. PICK r \in Refs[target[u]] : ref' = [ref EXCEPT ![u] = r]
    BY <1>1 DEF Load, ImageReference, ModelReference
  <2>2. mishaps' \in 0 .. MaxMishaps
    BY <1>1, MishapCount DEF Load, Unwritten
  <2>3. pushStatus' \in [Item -> {"null", "pending", "pushing", "pushed", "failed"}]
    BY <1>1 DEF Load, SetPushStatus
  <2>4. r \in Image
    BY <1>a, <1>c
  <2> QED BY <1>1, <1>b, <1>c, <2>1, <2>2, <2>3, <2>4 DEF Load, Shape, PutShape
<1>2. CASE LoadFail(u)
  <2>1. mishaps' \in 0 .. MaxMishaps
    BY <1>2, MishapCount DEF LoadFail
  <2> QED BY <1>2, <2>1 DEF LoadFail, Shape, PutShape
<1>3. CASE Push(u)
  BY <1>3, <1>d, <1>e DEF Push, Deliver, Shape, PutShape
<1>4. CASE PushFail(u)
  <2>1. mishaps' \in 0 .. MaxMishaps
    BY <1>4, MishapCount DEF PushFail
  <2>2. ref[u] \in Image
    BY <1>4, <1>d DEF PushFail
  <2>3. /\ harbor' \in [Image -> Item \cup {NoItem}]
        /\ untold' \subseteq Image /\ rushed' \subseteq Image
    BY <1>4, <1>e, <2>2 DEF PushFail, PushUnheard, Deliver
  <2> QED BY <1>4, <2>1, <2>3 DEF PushFail, Shape, PutShape
<1>5. CASE Tell(u)
  <2>1. mishaps' \in 0 .. MaxMishaps
    BY <1>5, MishapCount DEF Tell, Unwritten, AllWell
  <2>2. ref[u] \in Image
    BY <1>5, <1>d DEF Tell
  <2>3. /\ pushStatus' \in [Item -> {"null", "pending", "pushing", "pushed",
                                     "failed"}]
        /\ image' \in [Item -> Image \cup {NoImage}]
        /\ untold' \subseteq Image
        /\ stuck' \subseteq Item
    BY <1>5, <1>c, <2>2 DEF Tell, SetPushStatus
  <2> QED BY <1>5, <2>1, <2>3 DEF Tell, Shape, PutShape
<1>6. CASE FailPush(u)
  <2>1. mishaps' \in 0 .. MaxMishaps
    BY <1>6, MishapCount DEF FailPush, Unwritten, AllWell
  <2>2. /\ pushStatus' \in [Item -> {"null", "pending", "pushing", "pushed",
                                     "failed"}]
        /\ stuck' \subseteq Item
    BY <1>6, <1>c DEF FailPush, SetPushStatus
  <2> QED BY <1>6, <2>1, <2>2 DEF FailPush, Shape, PutShape
<1>7. CASE Clean(u)
  <2>1. mishaps' \in 0 .. MaxMishaps
    BY <1>7, MishapCount DEF Clean, AllWell
  <2>2. stored' \in [File -> Item \cup {NoItem}] /\ temp' \subseteq temp
    BY <1>7, <1>a, <1>c DEF Clean, Store, Slot
  <2> QED BY <1>7, <2>1, <2>2 DEF Clean, Shape, PutShape
<1>8. CASE Die(u)
  <2>1. mishaps' \in 0 .. MaxMishaps
    BY <1>8, MishapCount DEF Die
  <2>2. /\ harbor' \in [Image -> Item \cup {NoItem}]
        /\ untold' \subseteq Image /\ rushed' \subseteq Image
    BY <1>8, <1>d, <1>e DEF Die, PushUnheard, Deliver
  <2> QED BY <1>8, <1>c, <2>1, <2>2 DEF Die, Shape, PutShape
<1> QED BY <1>1, <1>2, <1>3, <1>4, <1>5, <1>6, <1>7, <1>8 DEF PushWork

(* What a deletion does to Harbor keeps the types.                          *)
LEMMA TakeOutTypes ==
  ASSUME TypeInv, NEW r \in Image
  PROVE  /\ \A Q : Remaining(Q) => harbor' \in [Image -> Item \cup {NoItem}]
         /\ TakeOut(r) =>
              /\ harbor' \in [Image -> Item \cup {NoItem}]
              /\ taken' \subseteq {Repo[q] : q \in Image}
                    \X ({"none", "container", "llm", "general"}
                          \X {Archive[i] : i \in Item})
<1> USE DEF TypeInv, ItemTypeOK
<1>1. ASSUME NEW Q, Remaining(Q) PROVE harbor' \in [Image -> Item \cup {NoItem}]
  BY <1>1 DEF Remaining
<1>2. ASSUME TakeOut(r)
      PROVE  taken' \subseteq {Repo[q] : q \in Image}
               \X ({"none", "container", "llm", "general"} \X {Archive[i] : i \in Item})
  <2>1. harbor[r] \in Item /\ taken' = taken \cup {<<Repo[r], Digest(harbor[r])>>}
    BY <1>2 DEF TakeOut, Artifact
  <2>2. itemType[harbor[r]] \in {"none", "container", "llm", "general"}
    BY <2>1
  <2> QED BY <2>1, <2>2 DEF Digest
<1> QED BY <1>1, <1>2 DEF TakeOut

(* A step of a deletion keeps the types.                                    *)
LEMMA RemovalTypes ==
  ASSUME TypeInv, NEW d \in Removal, DeletionStep(d)
  PROVE  TypeInv'
<1> USE DEF TypeInv, ItemTypeOK, RemovalPcs, rowVars, contentVars, pushVars,
            auxVars, historyVars, RemovalStep
<1>a. /\ Victim[d] \in Item
      /\ FileOf \in [Item -> File]
  BY LibraryItemAssumption
<1>1. CASE RequestRemoval(d)
  <2>1. itemStatus' = itemStatus \/ SetItemStatus(Victim[d], "deleted")
    BY <1>1 DEF RequestRemoval, DropRow
  <2>2. /\ itemStatus' \in [Item -> {"none", "uploading", "ready", "failed",
                                     "deleted"}]
        /\ \A j \in Item : itemStatus'[j] = "none" <=> itemStatus[j] = "none"
    BY <1>a, <2>1, SetStatusTypes
  <2>3. hasty' \subseteq Item
    BY <1>1, <1>a DEF RequestRemoval, DropRow, Disturbs
  <2> QED BY <1>1, <2>2, <2>3 DEF RequestRemoval, Shape, PutShape
<1>2. CASE ReadItem(d)
  <2>1. hasty' \subseteq Item
    BY <1>2, <1>a DEF ReadItem, Disturbs
  <2> QED BY <1>2, <1>a, <2>1 DEF ReadItem, NoteImage, Shape, PutShape
<1>3. CASE DeleteImage(d)
  <2>1. found[d] \in Image
    BY <1>3 DEF DeleteImage, DeleteRepo, Shape
  <2>2. /\ harbor' \in [Image -> Item \cup {NoItem}]
        /\ taken' \subseteq {Repo[q] : q \in Image}
                    \X ({"none", "container", "llm", "general"}
                          \X {Archive[i] : i \in Item})
    BY <1>3, <2>1, TakeOutTypes DEF DeleteImage
  <2>3. removal' = [removal EXCEPT ![d] = removal'[d]] /\ removal'[d] \in {"file", "repo"}
    BY <1>3 DEF DeleteImage
  <2>4. /\ removal[d] = "image"
        /\ UNCHANGED <<rowVars, stored, temp, pushVars, found, tries, hasty, untold,
                        stuck, mishaps, rushed>>
    BY <1>3 DEF DeleteImage
  <2> QED BY <2>1, <2>2, <2>3, <2>4 DEF Shape, PutShape
<1>4. CASE DeleteFile(d)
  <2>1. stored' \in [File -> Item \cup {NoItem}] /\ temp' \subseteq temp
    BY <1>4, <1>a DEF DeleteFile, Store
  <2> QED BY <1>4, <2>1 DEF DeleteFile, Shape, PutShape
<1>5. CASE DeleteRow(d)
  <2>1. /\ itemStatus' \in [Item -> {"none", "uploading", "ready", "failed",
                                     "deleted"}]
        /\ \A j \in Item : itemStatus'[j] = "none" <=> itemStatus[j] = "none"
    BY <1>5, <1>a, SetStatusTypes DEF DeleteRow
  <2> QED BY <1>5, <2>1 DEF DeleteRow, Shape, PutShape
<1>6. CASE RemovalFail(d)
  <2>1. mishaps' \in 0 .. MaxMishaps
    BY <1>6, MishapCount DEF RemovalFail
  <2>2. /\ harbor' \in [Image -> Item \cup {NoItem}]
        /\ taken' \subseteq {Repo[q] : q \in Image}
                    \X ({"none", "container", "llm", "general"}
                          \X {Archive[i] : i \in Item})
    BY <1>6, TakeOutTypes DEF RemovalFail, DropRepo, Shape
  <2>3. /\ tries[d] \in Nat /\ Attempts \in Nat /\ tries[d] < Attempts
        /\ tries' = [tries EXCEPT ![d] = tries[d] + 1]
    BY <1>6, LibraryItemAssumption DEF RemovalFail, Shape
  <2>4. tries' \in [Removal -> 0 .. Attempts]
    BY <2>3
  <2>5. \/ tries'[d] = Attempts /\ removal' = [removal EXCEPT ![d] = "given_up"]
        \/ tries'[d] < Attempts /\ removal' = [removal EXCEPT ![d] = "read"]
    <3>1. tries'[d] = tries[d] + 1 /\ tries[d] + 1 <= Attempts
      BY <2>3
    <3>2. removal' = [removal EXCEPT ![d] = IF tries'[d] = Attempts
                                              THEN "given_up" ELSE "read"]
      BY <1>6 DEF RemovalFail
    <3>3. CASE tries'[d] = Attempts
      BY <3>2, <3>3
    <3>4. CASE tries'[d] # Attempts
      <4>1. tries'[d] < Attempts
        BY <2>3, <3>1, <3>4
      <4> QED BY <3>2, <3>4, <4>1
    <3> QED BY <3>3, <3>4
  <2> QED BY <1>6, <2>1, <2>2, <2>3, <2>4, <2>5 DEF RemovalFail, Shape, PutShape
<1>7. CASE DeleteRepo(d)
  <2>1. harbor' \in [Image -> Item \cup {NoItem}]
    BY <1>7, TakeOutTypes DEF DeleteRepo, DropRepo, Shape
  <2> QED BY <1>7, <2>1 DEF DeleteRepo, Shape, PutShape
<1> QED BY <1>1, <1>2, <1>3, <1>4, <1>5, <1>6, <1>7 DEF DeletionStep, Removing

(* So does every step.                                                      *)
LEMMA StepTypes == TypeInv /\ [ItemNext]_itemVars => TypeInv'
<1> SUFFICES ASSUME TypeInv, [ItemNext]_itemVars PROVE TypeInv'
  OBVIOUS
<1>1. CASE UNCHANGED itemVars
  BY <1>1 DEF itemVars, rowVars, contentVars, pushVars, removalVars, auxVars,
              historyVars, TypeInv, ItemTypeOK, Shape, PutShape
<1>2. CASE AtRest
  BY <1>1, <1>2 DEF AtRest
<1>3. ASSUME NEW u \in Put, PutStep(u) PROVE TypeInv'
  BY <1>3, UploadingTypes, PushTypes DEF PutStep
<1> QED BY <1>1, <1>2, <1>3, CreateTypes, RemovalTypes
        DEF ItemNext, PutStep, DeletionStep

(* In every state each variable has its type.                               *)
THEOREM LibraryTypeCorrect == ItemSpec => []ItemTypeOK
<1>1. TypeInv => ItemTypeOK
  BY DEF TypeInv
<1> QED BY <1>1, InitTypes, StepTypes, PTL DEF ItemSpec

-----------------------------------------------------------------------------
(* "pushing".  A push that is over has written its verdict, or the item is  *)
(* stuck; what writes "pushing" is a push before its verdict, or a handler   *)
(* that looks whether it is.                                                *)

(* Steps that write no "pushing" and end no push.                           *)
LEMMA PushKept ==
  ASSUME PushingHasPush,
         \A i \in Item : Pushing(i)' => Pushing(i),
         stuck \subseteq stuck',
         \A u \in Put : pusher[u] \in BeforeVerdict =>
                          pusher'[u] \in BeforeVerdict /\ target'[u] = target[u]
  PROVE  PushingHasPush'
  BY DEF PushingHasPush

(* A row that is updated was there before.                                  *)
LEMMA SetStatusKeepsGone ==
  ASSUME ItemTypeOK, NEW i \in Item,
         NEW s \in {"uploading", "ready", "failed", "deleted"},
         SetItemStatus(i, s)
  PROVE  \A j \in Item : InLibrary(j)' => InLibrary(j)
  BY DEF ItemTypeOK, SetItemStatus, InLibrary

(* The handlers keep the invariant.                                         *)
LEMMA UploadingPush ==
  ASSUME TypeInv, PushingHasPush, NEW u \in Put, BeginPut(u) \/ Uploading(u)
  PROVE  PushingHasPush'
<1> USE DEF TypeInv, ItemTypeOK, HandlerStep, rowVars, auxVars, historyVars
<1>1. CASE BeginPut(u)
  <2>1. pusher[u] = "none"
    BY <1>1 DEF BeginPut, Shape, PutShape
  <2> QED BY <1>1, <2>1 DEF BeginPut, PushingHasPush, Pushing, InLibrary,
                            BeforeVerdict
<1> SUFFICES ASSUME Uploading(u) PROVE PushingHasPush'
  BY <1>1
<1>2. target[u] \in Item
  BY DEF Uploading, Receive, ReceiveFail, PutFile, PutFileFail, Ready, Vanished,
         StartPush, StartPushFail, RefusePush, RecordPush, Shape, PutShape
<1>3. ASSUME Receive(u) \/ PutFile(u) \/ Vanished(u) \/ StartPush(u) \/ StartPushFail(u)
      PROVE  PushingHasPush'
  <2>1. UNCHANGED <<pushStatus, itemStatus, target, stuck>>
    BY <1>3 DEF Receive, PutFile, Vanished, StartPush, StartPushFail
  <2>2. pusher' = pusher \/ Scheduled(u)
    BY <1>3 DEF Receive, PutFile, Vanished, StartPush, StartPushFail
  <2> QED BY <2>1, <2>2, PushKept DEF Scheduled, Pushing, InLibrary, BeforeVerdict
<1>4. ASSUME ReceiveFail(u) \/ PutFileFail(u) \/ Ready(u)
      PROVE  PushingHasPush'
  <2>1. UNCHANGED <<pushStatus, target, pusher, stuck>>
    BY <1>4 DEF ReceiveFail, PutFileFail, Ready
  <2>2. \E s \in {"ready", "failed", "deleted"} : SetItemStatus(target[u], s)
    BY <1>4 DEF ReceiveFail, DropRow, PutFileFail, Ready
  <2>3. \A j \in Item : InLibrary(j)' => InLibrary(j)
    BY <1>2, <2>2, SetStatusKeepsGone
  <2> QED BY <2>1, <2>3, PushKept DEF Pushing
<1>5. CASE RefusePush(u)
  <2>1. UNCHANGED <<itemStatus, target, pusher, stuck>>
    BY <1>5 DEF RefusePush
  <2>2. \A j \in Item : Pushing(j)' => Pushing(j)
    BY <1>2, <1>5, <2>1 DEF RefusePush, SetPushStatus, Pushing, InLibrary
  <2> QED BY <2>1, <2>2, PushKept
<1>6. CASE RecordPush(u)
  <2>1. UNCHANGED <<itemStatus, target, pusher>>
    BY <1>6 DEF RecordPush
  <2>2. CASE UNCHANGED <<pushStatus, stuck>>
    BY <2>1, <2>2, PushKept DEF Pushing, InLibrary
  <2>3. CASE /\ SetPushStatus(target[u], "pushing")
             /\ stuck' = IF pusher[u] \in BeforeVerdict
                           THEN stuck ELSE stuck \cup {target[u]}
    BY <1>2, <2>1, <2>3 DEF PushingHasPush, Pushing, InLibrary, SetPushStatus
  <2> QED BY <1>6, <2>2, <2>3 DEF RecordPush
<1> QED BY <1>3, <1>4, <1>5, <1>6 DEF Uploading

(* The pushes keep it.                                                      *)
LEMMA PushPush ==
  ASSUME TypeInv, PushingHasPush, NEW u \in Put, PushWork(u) \/ Die(u)
  PROVE  PushingHasPush'
<1> USE DEF TypeInv, ItemTypeOK, PushStep, rowVars, auxVars, historyVars
<1>a. pusher[u] # "none"
  BY DEF PushWork, Load, LoadFail, Push, PushFail, Tell, FailPush, Clean, Die,
         PushActive, BeforeVerdict
<1>b. target[u] \in Item
  BY <1>a DEF Shape, PutShape
<1>1. CASE Load(u)
  BY <1>1, <1>b DEF Load, PushingHasPush, Pushing, InLibrary, SetPushStatus,
                    BeforeVerdict
<1>2. ASSUME LoadFail(u) \/ Push(u) \/ PushFail(u) \/ Clean(u)
      PROVE  PushingHasPush'
  <2>1. UNCHANGED <<pushStatus, itemStatus, target, stuck>>
    BY <1>2 DEF LoadFail, Push, PushFail, Clean
  <2>2. \/ pusher[u] = "clean" /\ pusher' = [pusher EXCEPT ![u] = "ended"]
        \/ \E pc \in {"tell", "fail"} : pusher' = [pusher EXCEPT ![u] = pc]
    BY <1>2 DEF LoadFail, Push, PushFail, Clean
  <2> QED BY <2>1, <2>2, PushKept DEF Pushing, InLibrary, BeforeVerdict
<1>3. ASSUME Tell(u) \/ FailPush(u)
      PROVE  PushingHasPush'
  <2>1. /\ UNCHANGED <<itemStatus, target>>
        /\ pusher' = [pusher EXCEPT ![u] = "clean"]
    BY <1>3 DEF Tell, FailPush
  <2>2. \/ \E s \in {"pushed", "failed"} :
             SetPushStatus(target[u], s) /\ UNCHANGED stuck
        \/ ~InLibrary(target[u]) /\ UNCHANGED <<pushStatus, stuck>>
        \/ UNCHANGED pushStatus /\ stuck' = stuck \cup {target[u]}
    BY <1>3 DEF Tell, FailPush
  <2> QED BY <1>b, <2>1, <2>2 DEF PushingHasPush, Pushing, InLibrary, SetPushStatus,
                                  BeforeVerdict
<1>4. CASE Die(u)
  BY <1>4, <1>b DEF Die, PushingHasPush, Pushing, InLibrary, BeforeVerdict
<1> QED BY <1>1, <1>2, <1>3, <1>4 DEF PushWork

(* Deletions and creations keep it.                                         *)
LEMMA StepPush == TypeInv /\ PushingHasPush /\ [ItemNext]_itemVars => PushingHasPush'
<1> SUFFICES ASSUME TypeInv, PushingHasPush, [ItemNext]_itemVars
             PROVE  PushingHasPush'
  OBVIOUS
<1> USE DEF TypeInv, ItemTypeOK, rowVars, pushVars, auxVars, historyVars
<1>1. CASE UNCHANGED itemVars
  BY <1>1 DEF itemVars, PushingHasPush, Pushing, InLibrary
<1>2. CASE AtRest
  BY <1>1, <1>2 DEF AtRest
<1>3. ASSUME NEW i \in Item, CreateItem(i) PROVE PushingHasPush'
  BY <1>3 DEF CreateItem, PushingHasPush, Pushing, InLibrary
<1>4. ASSUME NEW u \in Put, PutStep(u) PROVE PushingHasPush'
  BY <1>4, UploadingPush, PushPush DEF PutStep
<1>5. ASSUME NEW d \in Removal, DeletionStep(d) PROVE PushingHasPush'
  <2>1. UNCHANGED <<pushStatus, target, pusher, stuck>>
    BY <1>5 DEF DeletionStep, Removing, RequestRemoval, ReadItem, DeleteImage, DeleteRepo,
                DeleteFile, DeleteRow, RemovalFail
  <2>2. itemStatus' = itemStatus \/ SetItemStatus(Victim[d], "deleted")
    BY <1>5 DEF DeletionStep, Removing, RequestRemoval, DropRow, ReadItem,
                DeleteImage, DeleteRepo, DeleteFile, DeleteRow, RemovalFail
  <2>3. \A j \in Item : InLibrary(j)' => InLibrary(j)
    BY <2>2, SetStatusKeepsGone, LibraryItemAssumption DEF InLibrary
  <2> QED BY <2>1, <2>3, PushKept DEF Pushing
<1> QED BY <1>1, <1>2, <1>3, <1>4, <1>5 DEF ItemNext, PutStep, DeletionStep

(* An item is shown as "pushing" while a push is on the way to its verdict, *)
(* or is one of those the model says are stuck.                             *)
THEOREM PushingIsPushed == ItemSpec => []PushingHasPush
<1>1. ItemInit => PushingHasPush
  BY DEF ItemInit, PushingHasPush, Pushing, InLibrary
<1> QED BY <1>1, InitTypes, StepTypes, StepPush, PTL DEF ItemSpec

-----------------------------------------------------------------------------
(* Temporary files.  Rows: what an item deleted, or about to be, says of     *)
(* the uploads for it.                                                      *)

TempShape(u) ==
    /\ u \in temp => handler[u] # "receive" /\ Type(u) # "container"
    /\ u \in temp /\ handler[u] = "ready" => Type(u) # "general"
    /\ pusher[u] = "ended" => u \notin temp
    /\ handler[u] \in {"record", "confirm"} => pusher[u] # "none"

TempInv == \A u \in Put : TempShape(u)

(* What a deletion has read of its item is what it goes by.                 *)
PastRead == {"image", "repo", "file", "row"}
Leaving(i) == \/ itemStatus[i] = "deleted"
              \/ \E d \in Removal : Victim[d] = i /\ removal[d] \in PastRead

(* Nobody uploads to an item that a deletion found ready; who was at work    *)
(* when it was read, or when its row went, has made it hasty.               *)
LeavingInv ==
    /\ \A i \in Item, u \in Put : Leaving(i) /\ target[u] = i /\ Busy(u) => i \in hasty
    /\ \A d \in Removal : removal[d] \in PastRead \cup {"read"} =>
            itemStatus[Victim[d]] \notin {"none", "uploading"}

(* Only an upload that begins is at work that was not before.               *)
LEMMA BusyBefore ==
  ASSUME TypeInv, NEW w \in Put, Uploading(w) \/ PushWork(w) \/ Die(w),
         NEW u \in Put, Busy(u)'
  PROVE  Busy(u) /\ target'[u] = target[u]
<1> USE DEF TypeInv, ItemTypeOK, HandlerStep, PushStep, PushActive, BeforeVerdict,
            Scheduled, Busy, rowVars, contentVars, removalVars, auxVars, historyVars
<1>1. UNCHANGED target
  BY DEF Uploading, PushWork, Receive, ReceiveFail, PutFile, PutFileFail, Ready,
         Vanished, StartPush, StartPushFail, RefusePush, RecordPush, Load,
         LoadFail, Push, PushFail, Tell, FailPush, Clean, Die
<1>2. \A v \in Put \ {w} : handler'[v] = handler[v] /\ pusher'[v] = pusher[v]
  BY DEF Uploading, PushWork, Receive, ReceiveFail, PutFile, PutFileFail, Ready,
         Vanished, StartPush, StartPushFail, RefusePush, RecordPush, Load,
         LoadFail, Push, PushFail, Tell, FailPush, Clean, Die
<1>3. ASSUME Uploading(w) PROVE Busy(w)
  BY <1>3 DEF Uploading, Receive, ReceiveFail, PutFile, PutFileFail, Ready,
         Vanished, StartPush, StartPushFail, RefusePush, RecordPush
<1>4. ASSUME PushWork(w) \/ Die(w) PROVE Busy(w)
  BY <1>4 DEF PushWork, Load, LoadFail, Push, PushFail, Tell, FailPush, Clean, Die
<1> QED BY <1>1, <1>2, <1>3, <1>4

(* A step that no item becomes hasty by, or ceases to be.                   *)
LEMMA HastyStays ==
  ASSUME [ItemNext]_itemVars
  PROVE  hasty \subseteq hasty'
  BY DEF ItemNext, itemVars, auxVars, historyVars, AtRest, CreateItem, BeginPut,
         Uploading, PushWork, Receive, ReceiveFail, DropRow, Disturbs, PutFile,
         PutFileFail, Ready, Vanished, StartPush, StartPushFail, RefusePush,
         RecordPush, Load, LoadFail, Push, PushFail, Tell, FailPush, Clean, Die,
         RequestRemoval, Removing, ReadItem, DeleteImage, DeleteRepo, DeleteFile, DeleteRow,
         RemovalFail

(* An upload's step makes nobody leave of whom it does not tell.            *)
LEMMA PutLeaving ==
  ASSUME TypeInv, LeavingInv, [ItemNext]_itemVars, NEW u \in Put, PutStep(u)
  PROVE  LeavingInv'
<1> USE DEF TypeInv, ItemTypeOK, rowVars, contentVars, removalVars, auxVars,
            historyVars
<1>a. UNCHANGED removal
  BY DEF PutStep, BeginPut, Uploading, PushWork, Receive, ReceiveFail, PutFile,
         PutFileFail, Ready, Vanished, StartPush, StartPushFail, RefusePush,
         RecordPush, Load, LoadFail, Push, PushFail, Tell, FailPush, Clean, Die
<1>1. CASE BeginPut(u)
  <2>1. PICK i \in Item : /\ itemStatus[i] = "uploading"
                          /\ target' = [target EXCEPT ![u] = i]
    BY <1>1, LibraryItemAssumption DEF BeginPut
  <2>2. UNCHANGED <<itemStatus, pusher, hasty>>
    BY <1>1 DEF BeginPut
  <2>3. ~Leaving(i)
    BY <2>1 DEF Leaving, LeavingInv
  <2>4. \A v \in Put \ {u} : handler'[v] = handler[v]
    BY <1>1 DEF BeginPut, HandlerStep
  <2> QED BY <1>a, <2>1, <2>2, <2>3, <2>4 DEF LeavingInv, Leaving, Busy
<1> SUFFICES ASSUME ~BeginPut(u) PROVE LeavingInv'
  BY <1>1
<1>b. hasty \subseteq hasty' /\ \A v \in Put : Busy(v)' => Busy(v) /\ target'[v] = target[v]
  BY HastyStays, BusyBefore DEF PutStep
<1>2. CASE ReceiveFail(u) /\ DropRow(target[u], Put \ {u})
  <2>1. target[u] \in Item /\ pusher[u] = "none"
    BY <1>2 DEF ReceiveFail, HandlerStep, Shape, PutShape
  <2>2. ~Busy(u)'
    BY <1>2, <2>1 DEF ReceiveFail, HandlerStep, Busy, PushActive, BeforeVerdict
  <2>3. \A j \in Item \ {target[u]} : itemStatus'[j] = itemStatus[j]
    BY <1>2, <2>1 DEF DropRow, SetItemStatus
  <2>4. \A v \in Put : target[v] = target[u] /\ Busy(v)' => target[u] \in hasty'
    BY <1>2, <1>b, <2>2 DEF DropRow, Disturbs, AtWork, Busy
  <2>5. itemStatus'[target[u]] \notin {"none", "uploading"}
           \/ itemStatus'[target[u]] = itemStatus[target[u]]
    BY <1>2, <2>1 DEF DropRow, SetItemStatus
  <2> QED BY <1>a, <1>b, <2>1, <2>3, <2>4, <2>5, LibraryItemAssumption
          DEF LeavingInv, Leaving
<1>3. CASE ~(ReceiveFail(u) /\ DropRow(target[u], Put \ {u}))
  <2>1. \/ UNCHANGED itemStatus
        \/ /\ \E s \in {"ready", "failed"} : SetItemStatus(target[u], s)
           /\ target[u] \in Item
    BY <1>3 DEF PutStep, Uploading, PushWork, Receive, ReceiveFail, PutFile,
         PutFileFail, Ready, Vanished, StartPush, StartPushFail, RefusePush,
         RecordPush, Load, LoadFail, Push, PushFail, Tell, FailPush, Clean, Die,
         Shape, PutShape, HandlerStep
  <2>2. \A j \in Item : \/ itemStatus'[j] = itemStatus[j]
                        \/ itemStatus'[j] \in {"ready", "failed"}
    BY <2>1 DEF SetItemStatus
  <2> QED BY <1>a, <1>b, <2>2, LibraryItemAssumption DEF LeavingInv, Leaving
<1> QED BY <1>2, <1>3

(* An update of one item's status.                                          *)
LEMMA SetStatusOnly ==
  ASSUME ItemTypeOK, NEW i \in Item,
         NEW s \in {"uploading", "ready", "failed", "deleted"},
         SetItemStatus(i, s)
  PROVE  \A j \in Item : itemStatus'[j] = itemStatus[j] \/ (j = i /\ itemStatus'[j] = s)
  BY DEF ItemTypeOK, SetItemStatus

(* A deletion notes who is at work before the item leaves.                  *)
LEMMA RemovalLeaving ==
  ASSUME TypeInv, LeavingInv, [ItemNext]_itemVars, NEW d \in Removal, DeletionStep(d)
  PROVE  LeavingInv'
<1> USE LibraryItemAssumption
    DEF TypeInv, ItemTypeOK, RemovalStep, PastRead, rowVars, contentVars, pushVars,
        auxVars, historyVars
<1>a. UNCHANGED <<target, handler, pusher>> /\ hasty \subseteq hasty'
  BY HastyStays DEF DeletionStep, Removing, RequestRemoval, ReadItem, DeleteImage, DeleteRepo,
                    DeleteFile, DeleteRow, RemovalFail
<1>b. Victim[d] \in Item
  OBVIOUS
<1>c. \A v \in Put : Busy(v)' <=> Busy(v)
  BY <1>a DEF Busy
<1>d. \A e \in Removal \ {d} : removal'[e] = removal[e]
  BY DEF DeletionStep, Removing, RequestRemoval, ReadItem, DeleteImage, DeleteRepo,
         DeleteFile, DeleteRow, RemovalFail
<1>1. CASE RequestRemoval(d)
  <2>1. CASE DropRow(Victim[d], Put) /\ removal'[d] = "done"
    <3>1. \A v \in Put : target[v] = Victim[d] /\ Busy(v) => Victim[d] \in hasty'
      BY <2>1, <1>a DEF DropRow, Disturbs, AtWork, Busy
    <3>2. \A j \in Item : itemStatus'[j] = itemStatus[j]
                          \/ (j = Victim[d] /\ itemStatus'[j] = "deleted")
      BY <2>1, <1>b, SetStatusOnly DEF DropRow
    <3> QED BY <2>1, <1>a, <1>c, <1>d, <3>1, <3>2 DEF LeavingInv, Leaving
  <2>2. CASE itemStatus[Victim[d]] = "ready" /\ removal'[d] = "read"
             /\ UNCHANGED <<itemStatus, hasty>>
    BY <2>2, <1>a, <1>c, <1>d DEF LeavingInv, Leaving
  <2> QED BY <1>1, <2>1, <2>2 DEF RequestRemoval
<1>2. CASE ReadItem(d)
  <2>1. UNCHANGED itemStatus /\ removal[d] = "read"
    BY <1>2 DEF ReadItem
  <2>2. CASE Disturbs(Victim[d], Put)
    <3>1. \A v \in Put : target[v] = Victim[d] /\ Busy(v) => Victim[d] \in hasty'
      BY <2>2, <1>a DEF Disturbs, AtWork, Busy
    <3> QED BY <2>1, <1>a, <1>c, <1>d, <3>1 DEF LeavingInv, Leaving
  <2>3. CASE removal'[d] = "done"
    BY <2>1, <2>3, <1>a, <1>c, <1>d DEF LeavingInv, Leaving
  <2> QED BY <1>2, <2>2, <2>3 DEF ReadItem
<1>3. CASE DeleteImage(d) \/ DeleteRepo(d) \/ DeleteFile(d) \/ RemovalFail(d)
  <2>1. UNCHANGED <<itemStatus, hasty>>
    BY <1>3 DEF DeleteImage, DeleteRepo, DeleteFile, RemovalFail
  <2>2. \/ removal[d] \in PastRead
        \/ removal[d] = "read" /\ removal'[d] \notin PastRead
    BY <1>3 DEF DeleteImage, DeleteRepo, DeleteFile, RemovalFail
  <2> QED BY <2>1, <2>2, <1>a, <1>c, <1>d DEF LeavingInv, Leaving
<1>4. CASE DeleteRow(d)
  <2>1. \A j \in Item : itemStatus'[j] = itemStatus[j]
                        \/ (j = Victim[d] /\ itemStatus'[j] = "deleted")
    BY <1>4, <1>b, SetStatusOnly DEF DeleteRow
  <2>2. removal[d] = "row" /\ removal'[d] = "done"
    BY <1>4 DEF DeleteRow
  <2> QED BY <2>1, <2>2, <1>a, <1>c, <1>d DEF LeavingInv, Leaving
<1> QED BY <1>1, <1>2, <1>3, <1>4 DEF DeletionStep, Removing

(* Every step.                                                              *)
LEMMA StepLeaving == TypeInv /\ LeavingInv /\ [ItemNext]_itemVars => LeavingInv'
<1> SUFFICES ASSUME TypeInv, LeavingInv, [ItemNext]_itemVars PROVE LeavingInv'
  OBVIOUS
<1> USE DEF TypeInv, ItemTypeOK, rowVars, contentVars, pushVars, removalVars, auxVars,
            historyVars
<1>1. CASE UNCHANGED itemVars
  BY <1>1 DEF itemVars, LeavingInv, Leaving, Busy
<1>2. CASE AtRest
  BY <1>1, <1>2 DEF AtRest
<1>3. ASSUME NEW i \in Item, CreateItem(i) PROVE LeavingInv'
  BY <1>3, LibraryItemAssumption DEF CreateItem, LeavingInv, Leaving, Busy
<1>4. ASSUME NEW u \in Put, PutStep(u) PROVE LeavingInv'
  BY <1>4, PutLeaving
<1>5. ASSUME NEW d \in Removal, DeletionStep(d) PROVE LeavingInv'
  BY <1>5, RemovalLeaving
<1> QED BY <1>1, <1>2, <1>3, <1>4, <1>5 DEF ItemNext, PutStep, DeletionStep

(* Temporary files keep their shape.                                        *)
LEMMA PutTemps ==
  ASSUME TypeInv, TempInv, NEW u \in Put, PutStep(u)
  PROVE  TempInv'
<1> USE DEF TypeInv, ItemTypeOK, TempInv, TempShape, Type, HandlerStep, PushStep,
            rowVars, contentVars, removalVars, auxVars, historyVars
<1>1. CASE BeginPut(u)
  <2>1. u \notin temp /\ pusher[u] = "none"
    BY <1>1 DEF BeginPut, Shape, PutShape
  <2>2. \A v \in Put \ {u} : target'[v] = target[v]
    BY <1>1 DEF BeginPut
  <2> QED BY <1>1, <2>1, <2>2 DEF BeginPut
<1> SUFFICES ASSUME ~BeginPut(u) PROVE TempInv'
  BY <1>1
<1>a. UNCHANGED <<target, itemType>>
  BY DEF PutStep, Uploading, PushWork, Receive, ReceiveFail, PutFile, PutFileFail,
         Ready, Vanished, StartPush, StartPushFail, RefusePush, RecordPush, Load,
         LoadFail, Push, PushFail, Tell, FailPush, Clean, Die
<1>2. CASE Receive(u)
  <2>1. pusher[u] = "none"
    BY <1>2 DEF Receive, Shape, PutShape
  <2> QED BY <1>2, <1>a, <2>1 DEF Receive
<1>3. CASE ReceiveFail(u)
  BY <1>3, <1>a DEF ReceiveFail
<1>4. CASE PutFile(u) \/ PutFileFail(u)
  BY <1>4, <1>a DEF PutFile, PutFileFail
<1>5. CASE Ready(u) \/ Vanished(u)
  BY <1>5, <1>a DEF Ready, Vanished
<1>6. CASE StartPush(u)
  BY <1>6, <1>a DEF StartPush, Scheduled
<1>7. CASE StartPushFail(u)
  BY <1>7, <1>a DEF StartPushFail, Scheduled
<1>8. CASE RefusePush(u) \/ RecordPush(u)
  BY <1>8, <1>a DEF RefusePush, RecordPush, Forget
<1>9. CASE Load(u) \/ LoadFail(u) \/ Push(u) \/ PushFail(u) \/ Tell(u)
             \/ FailPush(u) \/ Die(u)
  <2>1. UNCHANGED <<temp, handler>>
    BY <1>9 DEF Load, LoadFail, Push, PushFail, Tell, FailPush, Die
  <2>2. \E pc \in {"push", "fail", "tell", "clean", "dead"} :
            pusher' = [pusher EXCEPT ![u] = pc]
    BY <1>9 DEF Load, LoadFail, Push, PushFail, Tell, FailPush, Die
  <2> QED BY <1>a, <2>1, <2>2
<1>10. CASE Clean(u)
  <2>1. pusher[u] # "none" /\ pusher' = [pusher EXCEPT ![u] = "ended"]
    BY <1>10 DEF Clean
  <2>2. temp' \subseteq temp /\ u \notin temp'
    BY <1>10 DEF Clean
  <2> QED BY <1>10, <1>a, <2>1, <2>2 DEF Clean
<1> QED BY <1>2, <1>3, <1>4, <1>5, <1>6, <1>7, <1>8, <1>9, <1>10
        DEF PutStep, Uploading, PushWork

(* So does every step.                                                      *)
LEMMA StepTemps == TypeInv /\ TempInv /\ [ItemNext]_itemVars => TempInv'
<1> SUFFICES ASSUME TypeInv, TempInv, [ItemNext]_itemVars PROVE TempInv'
  OBVIOUS
<1> USE DEF TypeInv, ItemTypeOK, TempInv, TempShape, Type, rowVars, contentVars,
            pushVars, removalVars, auxVars, historyVars
<1>1. CASE UNCHANGED itemVars
  BY <1>1 DEF itemVars
<1>2. CASE AtRest
  BY <1>1, <1>2 DEF AtRest
<1>3. ASSUME NEW i \in Item, CreateItem(i) PROVE TempInv'
  <2>1. \A u \in temp : target[u] # i
    BY <1>3 DEF CreateItem, Shape, PutShape
  <2>2. itemType' = [itemType EXCEPT ![i] = itemType'[i]]
    BY <1>3 DEF CreateItem
  <2>3. \A u \in Put : u \in temp => Type(u)' = Type(u)
    <3>1. UNCHANGED target
      BY <1>3 DEF CreateItem
    <3>2. \A u \in temp : target[u] \in Item
      BY DEF Shape, PutShape
    <3> QED BY <2>1, <2>2, <3>1, <3>2
  <2> QED BY <1>3, <2>3 DEF CreateItem
<1>4. ASSUME NEW u \in Put, PutStep(u) PROVE TempInv'
  BY <1>4, PutTemps
<1>5. ASSUME NEW d \in Removal, DeletionStep(d) PROVE TempInv'
  <2>1. UNCHANGED <<itemType, target, handler, pusher>>
    BY <1>5 DEF DeletionStep, Removing, RequestRemoval, ReadItem, DeleteImage, DeleteRepo,
                DeleteFile, DeleteRow, RemovalFail
  <2>2. temp' \subseteq temp
    BY <1>5 DEF DeletionStep, Removing, RequestRemoval, ReadItem, DeleteImage, DeleteRepo,
                DeleteFile, DeleteRow, RemovalFail
  <2> QED BY <2>1, <2>2
<1> QED BY <1>1, <1>2, <1>3, <1>4, <1>5 DEF ItemNext, PutStep, DeletionStep

(* A handler that ends without removing its file has a push that will, or    *)
(* whose worker died, or finds its row gone.                                *)
LEMMA StepOwned ==
  TypeInv /\ TempInv /\ LeavingInv /\ TempHasOwner /\ [ItemNext]_itemVars
    => TempHasOwner'
<1> SUFFICES ASSUME TypeInv, TempInv, LeavingInv, TempHasOwner, [ItemNext]_itemVars
             PROVE  TempHasOwner'
  OBVIOUS
<1>h. hasty \subseteq hasty'
  BY HastyStays
<1> USE DEF TypeInv, ItemTypeOK, TempInv, TempShape, Type, TempHasOwner, HandlerStep,
            PushStep, rowVars, contentVars, pushVars, removalVars, auxVars, historyVars
<1>1. CASE UNCHANGED itemVars
  BY <1>1 DEF itemVars
<1>2. CASE AtRest
  BY <1>1, <1>2 DEF AtRest
<1>3. ASSUME NEW i \in Item, CreateItem(i) PROVE TempHasOwner'
  BY <1>3 DEF CreateItem
<1>5. ASSUME NEW d \in Removal, DeletionStep(d) PROVE TempHasOwner'
  <2>1. UNCHANGED <<target, handler, pusher>> /\ temp' \subseteq temp
    BY <1>5 DEF DeletionStep, Removing, RequestRemoval, ReadItem, DeleteImage, DeleteRepo,
                DeleteFile, DeleteRow, RemovalFail
  <2> QED BY <1>h, <2>1
<1>4. ASSUME NEW u \in Put, PutStep(u) PROVE TempHasOwner'
  <2>1. CASE BeginPut(u)
    <3>1. u \notin temp
      BY <2>1 DEF BeginPut, Shape, PutShape
    <3> QED BY <2>1, <3>1 DEF BeginPut
  <2>2. CASE Receive(u)
    BY <2>2 DEF Receive
  <2>3. CASE ReceiveFail(u)
    BY <1>h, <2>3 DEF ReceiveFail
  <2>4. CASE PutFile(u) \/ PutFileFail(u)
    BY <1>h, <2>4 DEF PutFile, PutFileFail
  <2>5. CASE Ready(u)
    BY <2>5 DEF Ready
  <2>6. CASE Vanished(u)
    <3>1. Busy(u) /\ target[u] \in Item /\ itemStatus[target[u]] = "deleted"
      BY <2>6 DEF Vanished, Busy, Shape, PutShape, InLibrary
    <3>2. target[u] \in hasty
      BY <3>1 DEF LeavingInv, Leaving
    <3> QED BY <1>h, <2>6, <3>2 DEF Vanished
  <2>7. CASE StartPush(u)
    BY <2>7 DEF StartPush, Scheduled, PushActive, BeforeVerdict
  <2>8. CASE StartPushFail(u)
    BY <2>8 DEF StartPushFail, Scheduled, PushActive, BeforeVerdict
  <2>9. CASE RefusePush(u)
    BY <2>9 DEF RefusePush, Forget
  <2>10. CASE RecordPush(u)
    BY <2>10 DEF RecordPush, Forget
  <2>11. CASE Load(u) \/ LoadFail(u) \/ Push(u) \/ PushFail(u) \/ Tell(u)
               \/ FailPush(u) \/ Die(u)
    <3>1. UNCHANGED <<temp, handler, target>>
      BY <2>11 DEF Load, LoadFail, Push, PushFail, Tell, FailPush, Die
    <3>2. \E pc \in {"push", "fail", "tell", "clean", "dead"} :
              pusher' = [pusher EXCEPT ![u] = pc]
      BY <2>11 DEF Load, LoadFail, Push, PushFail, Tell, FailPush, Die
    <3> QED BY <1>h, <3>1, <3>2 DEF PushActive, BeforeVerdict
  <2>12. CASE Clean(u)
    <3>1. temp' \subseteq temp \ {u}
      BY <2>12 DEF Clean
    <3> QED BY <2>12, <3>1 DEF Clean
  <2> QED BY <1>4, <2>1, <2>2, <2>3, <2>4, <2>5, <2>6, <2>7, <2>8, <2>9, <2>10,
             <2>11, <2>12 DEF PutStep, Uploading, PushWork
<1> QED BY <1>1, <1>2, <1>3, <1>4, <1>5 DEF ItemNext, PutStep, DeletionStep

(* upload_library_file, llm_push_activity: however an upload and its push    *)
(* end, the temporary file is removed, unless the worker of the push died    *)
(* or the item was deleted under it.                                        *)
THEOREM TempsAreOwned == ItemSpec => []TempHasOwner
<1>1. ItemInit => TempInv /\ LeavingInv /\ TempHasOwner
  BY DEF ItemInit, TempInv, TempShape, LeavingInv, Leaving, Busy, PushActive,
         BeforeVerdict, PastRead, TempHasOwner
<1> QED BY <1>1, InitTypes, StepTypes, StepTemps, StepLeaving, StepOwned, PTL
        DEF ItemSpec

-----------------------------------------------------------------------------
(* Images.  What a row names it may be pushed as; a deletion that nobody     *)
(* disturbed goes by the image the row still names.                         *)

ImageInv ==
    /\ \A i \in Item : image[i] # NoImage => image[i] \in Refs[i]
    /\ \A d \in Removal : removal[d] \in PastRead =>
            Victim[d] \in hasty \/ found[d] = image[Victim[d]]

(* The image column is a push's to write, and who is told is hasty if its    *)
(* deletion has read it.                                                    *)
LEMMA StepImage ==
  TypeInv /\ LeavingInv /\ ImageInv /\ [ItemNext]_itemVars => ImageInv'
<1> SUFFICES ASSUME TypeInv, LeavingInv, ImageInv, [ItemNext]_itemVars
             PROVE  ImageInv'
  OBVIOUS
<1>h. hasty \subseteq hasty'
  BY HastyStays
<1> USE DEF TypeInv, ItemTypeOK, ImageInv, PastRead, rowVars, contentVars,
            pushVars, removalVars, auxVars, historyVars
<1>1. CASE UNCHANGED itemVars
  BY <1>1 DEF itemVars
<1>2. CASE AtRest
  BY <1>1, <1>2 DEF AtRest
<1>3. ASSUME NEW i \in Item, CreateItem(i) PROVE ImageInv'
  BY <1>3 DEF CreateItem
<1>4. ASSUME NEW u \in Put, PutStep(u) PROVE ImageInv'
  <2>1. UNCHANGED <<removal, found>>
    BY <1>4 DEF PutStep, BeginPut, Uploading, PushWork, Receive, ReceiveFail,
         PutFile, PutFileFail, Ready, Vanished, StartPush, StartPushFail,
         RefusePush, RecordPush, Load, LoadFail, Push, PushFail, Tell, FailPush,
         Clean, Die
  <2>2. CASE Tell(u)
    <3>1. /\ Busy(u) /\ target[u] \in Item /\ ref[u] \in Refs[target[u]]
          /\ image' \in {image, [image EXCEPT ![target[u]] = ref[u]]}
      BY <2>2 DEF Tell, PushStep, Busy, PushActive, BeforeVerdict, Shape, PutShape
    <3>2. ASSUME NEW d \in Removal, removal[d] \in PastRead, Victim[d] = target[u]
          PROVE  target[u] \in hasty
      BY <3>1, <3>2 DEF LeavingInv, Leaving
    <3>3. \A i \in Item : image'[i] = image[i] \/ (i = target[u] /\ image'[i] = ref[u])
      BY <3>1
    <3> QED BY <1>h, <2>1, <3>1, <3>2, <3>3, LibraryItemAssumption
  <2>3. CASE ~Tell(u)
    <3>1. UNCHANGED image
      BY <1>4, <2>3 DEF PutStep, BeginPut, Uploading, PushWork, Receive,
         ReceiveFail, PutFile, PutFileFail, Ready, Vanished, StartPush,
         StartPushFail, RefusePush, RecordPush, Load, LoadFail, Push, PushFail,
         FailPush, Clean, Die
    <3> QED BY <1>h, <2>1, <3>1
  <2> QED BY <2>2, <2>3
<1>5. ASSUME NEW d \in Removal, DeletionStep(d) PROVE ImageInv'
  <2>1. UNCHANGED image
    BY <1>5 DEF DeletionStep, Removing, RequestRemoval, ReadItem, DeleteImage, DeleteRepo,
                DeleteFile, DeleteRow, RemovalFail
  <2>2. CASE ReadItem(d)
    BY <1>h, <2>1, <2>2 DEF ReadItem, NoteImage, RemovalStep
  <2>3. CASE ~ReadItem(d)
    <3>1. /\ UNCHANGED found
          /\ \A e \in Removal : removal'[e] \in PastRead => removal[e] \in PastRead
      BY <1>5, <2>3 DEF DeletionStep, Removing, RequestRemoval, DeleteImage, DeleteRepo,
                        DeleteFile, DeleteRow, RemovalFail, RemovalStep
    <3> QED BY <1>h, <2>1, <3>1
  <2> QED BY <2>2, <2>3
<1> QED BY <1>1, <1>2, <1>3, <1>4, <1>5 DEF ItemNext, PutStep, DeletionStep

(* A row that its deletion has not yet cleared Harbor for.                  *)
Names(i, r) ==
    /\ InLibrary(i) /\ image[i] = r
    /\ \A d \in Removal : Victim[d] = i => removal[d] \notin {"file", "row"}

Traced(r) ==
    \/ \E i \in Item : Names(i, r)
    \/ \E u \in Put : pusher[u] = "tell" /\ ref[u] = r
    \/ r \in untold
    \/ \E i \in hasty : r \in Refs[i]

TraceInv == \A r \in Image : harbor[r] # NoItem => Traced(r)

(* A step that puts nothing into Harbor and takes no trace away.            *)
LEMMA TraceKept ==
  ASSUME TraceInv, [ItemNext]_itemVars,
         \A r \in Image : harbor'[r] # NoItem => harbor[r] # NoItem,
         untold \subseteq untold',
         \A u \in Put : pusher[u] = "tell" => pusher'[u] = "tell" /\ ref'[u] = ref[u],
         \A i \in Item, r \in Image : Names(i, r) => Traced(r)'
  PROVE  TraceInv'
  BY HastyStays DEF TraceInv, Traced

(* What an upload does.                                                     *)
LEMMA UploadingTrace ==
  ASSUME TypeInv, LeavingInv, ImageInv, TraceInv, [ItemNext]_itemVars, NEW u \in Put,
         BeginPut(u) \/ Uploading(u)
  PROVE  TraceInv'
<1> USE DEF TypeInv, ItemTypeOK, HandlerStep, rowVars, contentVars, removalVars,
            auxVars, historyVars
<1>1. UNCHANGED <<image, harbor, ref, removal, untold>>
  BY DEF BeginPut, Uploading, Receive, ReceiveFail, PutFile, PutFileFail, Ready,
         Vanished, StartPush, StartPushFail, RefusePush, RecordPush
<1>2. \A v \in Put : pusher[v] = "tell" => pusher'[v] = "tell"
  BY DEF BeginPut, Uploading, Receive, ReceiveFail, PutFile, PutFileFail, Ready,
         Vanished, StartPush, StartPushFail, RefusePush, RecordPush, Scheduled,
         Shape, PutShape
<1>3. \/ UNCHANGED itemStatus
      \/ \E s \in {"ready", "failed"} : SetItemStatus(target[u], s)
      \/ ReceiveFail(u) /\ DropRow(target[u], Put \ {u})
  BY DEF BeginPut, Uploading, Receive, ReceiveFail, PutFile, PutFileFail, Ready,
         Vanished, StartPush, StartPushFail, RefusePush, RecordPush
<1>4. ASSUME NEW i \in Item, NEW r \in Image, Names(i, r) PROVE Traced(r)'
  <2>1. CASE InLibrary(i)'
    BY <1>1, <1>4, <2>1 DEF Names, Traced
  <2>2. CASE ~InLibrary(i)'
    <3>1. ReceiveFail(u) /\ DropRow(target[u], Put \ {u}) /\ i = target[u]
      BY <1>3, <1>4, <2>2 DEF Names, SetItemStatus, DropRow, InLibrary, ReceiveFail,
                              Shape, PutShape
    <3>2. image[i] = r /\ r # NoImage
      BY <1>4, LibraryItemAssumption DEF Names
    <3>3. i \in hasty'
      BY <3>1, <3>2 DEF DropRow
    <3> QED BY <3>2, <3>3 DEF Traced, ImageInv
  <2> QED BY <2>1, <2>2
<1> QED BY <1>1, <1>2, <1>4, TraceKept

(* What a push puts into Harbor it is about to tell, or has not told.       *)
LEMMA PushTrace ==
  ASSUME TypeInv, LeavingInv, ImageInv, TraceInv, [ItemNext]_itemVars, NEW u \in Put,
         PushWork(u) \/ Die(u)
  PROVE  TraceInv'
<1> USE DEF TypeInv, ItemTypeOK, PushStep, rowVars, contentVars, removalVars,
            auxVars, historyVars
<1>h. hasty \subseteq hasty'
  BY HastyStays
<1>a. UNCHANGED <<itemStatus, removal>> /\ untold \subseteq untold'
  BY DEF PushWork, Load, LoadFail, Push, PushFail, PushUnheard, Tell, FailPush, Clean,
         Die
<1>b. \A v \in Put \ {u} : pusher'[v] = pusher[v] /\ ref'[v] = ref[v]
  BY DEF PushWork, Load, LoadFail, Push, PushFail, Tell, FailPush, Clean, Die
<1>1. CASE Load(u) \/ LoadFail(u) \/ FailPush(u) \/ Clean(u)
  <2>1. UNCHANGED <<image, harbor>> /\ pusher[u] # "tell"
    BY <1>1 DEF Load, LoadFail, FailPush, Clean
  <2>2. \A i \in Item, r \in Image : Names(i, r) => Traced(r)'
    BY <1>a, <2>1 DEF Names, Traced, InLibrary
  <2> QED BY <1>a, <1>b, <2>1, <2>2, TraceKept
<1>2. CASE Push(u) \/ PushFail(u) \/ Die(u)
  <2>1. UNCHANGED image
    BY <1>2 DEF Push, PushFail, Die
  <2>2. \A r \in Image : Traced(r) => Traced(r)'
    <3>1. pusher[u] = "tell" => ref[u] \in untold'
      BY <1>2 DEF Push, PushFail, Die
    <3>2. \A i \in Item, r \in Image : Names(i, r) => Names(i, r)'
      BY <1>a, <2>1 DEF Names, InLibrary
    <3> QED BY <1>a, <1>b, <1>h, <3>1, <3>2 DEF Traced
  <2>3. \/ UNCHANGED harbor
        \/ /\ harbor' = [harbor EXCEPT ![ref[u]] = Source(u)]
           /\ ref[u] \in untold' \/ (pusher'[u] = "tell" /\ ref'[u] = ref[u])
    BY <1>2 DEF Push, PushFail, PushUnheard, Deliver, Die
  <2> QED BY <2>2, <2>3 DEF TraceInv, Traced
<1>3. CASE Tell(u)
  <2>1. /\ UNCHANGED <<harbor, ref>>
        /\ pusher[u] = "tell" /\ Busy(u) /\ target[u] \in Item
        /\ ref[u] \in Refs[target[u]]
    BY <1>3 DEF Tell, Busy, PushActive, BeforeVerdict, Shape, PutShape
  <2>2. CASE ref[u] \in untold' /\ UNCHANGED image
    <3>1. \A i \in Item, r \in Image : Names(i, r) => Names(i, r)'
      BY <1>a, <2>2 DEF Names, InLibrary
    <3> QED BY <1>a, <1>b, <1>h, <2>1, <2>2, <3>1 DEF TraceInv, Traced
  <2>3. CASE ~InLibrary(target[u]) /\ UNCHANGED image
    <3>1. Leaving(target[u])
      BY <2>1, <2>3 DEF Leaving, InLibrary, Shape, PutShape
    <3>2. target[u] \in hasty
      BY <2>1, <3>1 DEF LeavingInv
    <3>3. \A i \in Item, r \in Image : Names(i, r) => Names(i, r)'
      BY <1>a, <2>3 DEF Names, InLibrary
    <3> QED BY <1>a, <1>b, <1>h, <2>1, <3>2, <3>3 DEF TraceInv, Traced
  <2>4. CASE /\ InLibrary(target[u])
             /\ image' = [image EXCEPT ![target[u]] = ref[u]]
             /\ image[target[u]] # ref[u] =>
                    image[target[u]] \in untold' \cup {NoImage}
    <3>1. Traced(ref[u])'
      <4>1. CASE \E d \in Removal : /\ Victim[d] = target[u]
                                    /\ removal[d] \in {"file", "row"}
        <5>1. target[u] \in hasty
          BY <2>1, <4>1 DEF LeavingInv, Leaving, PastRead
        <5> QED BY <1>h, <2>1, <5>1 DEF Traced
      <4>2. CASE \A d \in Removal : Victim[d] = target[u] =>
                                        removal[d] \notin {"file", "row"}
        BY <1>a, <2>1, <2>4, <4>2 DEF Traced, Names, InLibrary
      <4> QED BY <4>1, <4>2
    <3>2. ASSUME NEW i \in Item, NEW r \in Image, Names(i, r) PROVE Traced(r)'
      <4>1. CASE i = target[u] /\ r # ref[u]
        BY <2>4, <3>2, <4>1, LibraryItemAssumption DEF Names, Traced
      <4>2. CASE i # target[u]
        BY <1>a, <2>4, <3>2, <4>2 DEF Names, Traced, InLibrary
      <4>3. CASE r = ref[u]
        BY <2>1, <3>1, <4>3
      <4> QED BY <4>1, <4>2, <4>3
    <3> QED BY <1>a, <1>b, <1>h, <2>1, <3>1, <3>2 DEF TraceInv, Traced
  <2> QED BY <1>3, <2>1, <2>2, <2>3, <2>4 DEF Tell
<1> QED BY <1>1, <1>2, <1>3 DEF PushWork

(* What a deletion does: it clears Harbor before the row may go.            *)
LEMMA RemovalTrace ==
  ASSUME TypeInv, ImageInv, TraceInv, [ItemNext]_itemVars, NEW d \in Removal,
         DeletionStep(d)
  PROVE  TraceInv'
<1> USE LibraryItemAssumption
    DEF TypeInv, ItemTypeOK, RemovalStep, rowVars, contentVars, pushVars, auxVars,
        historyVars
<1>h. hasty \subseteq hasty'
  BY HastyStays
<1>a. UNCHANGED <<image, pusher, ref, untold>>
  BY DEF DeletionStep, Removing, RequestRemoval, ReadItem, DeleteImage, DeleteRepo,
         DeleteFile, DeleteRow, RemovalFail
<1>b. \A e \in Removal \ {d} : removal'[e] = removal[e]
  BY DEF DeletionStep, Removing, RequestRemoval, ReadItem, DeleteImage, DeleteRepo,
         DeleteFile, DeleteRow, RemovalFail
<1>c. Victim[d] \in Item
  OBVIOUS
<1>1. CASE RequestRemoval(d)
  <2>1. /\ UNCHANGED harbor
        /\ removal[d] = "idle" /\ removal'[d] \in {"read", "done"}
        /\ DropRow(Victim[d], Put) \/ UNCHANGED itemStatus
    BY <1>1 DEF RequestRemoval
  <2>2. ASSUME NEW i \in Item, NEW r \in Image, Names(i, r) PROVE Traced(r)'
    <3>1. CASE InLibrary(i)'
      BY <1>a, <1>b, <2>1, <2>2, <3>1 DEF Names, Traced
    <3>2. CASE ~InLibrary(i)'
      <4>1. DropRow(Victim[d], Put) /\ i = Victim[d]
        BY <1>c, <2>1, <2>2, <3>2 DEF Names, SetItemStatus, DropRow, InLibrary
      <4>2. image[i] = r /\ r # NoImage
        BY <2>2 DEF Names
      <4>3. i \in hasty'
        BY <4>1, <4>2 DEF DropRow
      <4> QED BY <4>2, <4>3 DEF Traced, ImageInv
    <3> QED BY <3>1, <3>2
  <2> QED BY <1>a, <2>1, <2>2, TraceKept
<1>2. CASE ReadItem(d)
  <2>1. UNCHANGED <<harbor, itemStatus>> /\ removal[d] = "read"
    BY <1>2 DEF ReadItem
  <2>2. removal'[d] \in {"file", "row"} => image[Victim[d]] = NoImage
    BY <1>2 DEF ReadItem, NoteImage
  <2>3. \A i \in Item, r \in Image : Names(i, r) => Names(i, r)'
    BY <1>a, <1>b, <2>1, <2>2 DEF Names, InLibrary
  <2> QED BY <1>a, <2>1, <2>3, TraceKept DEF Traced
<1>r. ASSUME NEW r \in Image, harbor'[r] # NoItem PROVE harbor[r] # NoItem
  BY <1>r DEF DeletionStep, Removing, RequestRemoval, ReadItem, DeleteImage, DeleteRepo,
              DropRepo, TakeOut, Remaining, DeleteFile, DeleteRow, RemovalFail
<1>3. CASE DeleteImage(d) \/ DeleteRepo(d)
  <2>1. /\ UNCHANGED <<itemStatus, hasty>>
        /\ removal[d] \in {"image", "repo"} /\ found[d] \in Image
        /\ harbor'[found[d]] = NoItem
    BY <1>3 DEF DeleteImage, TakeOut, DeleteRepo, DropRepo, Remaining, Shape
  <2>2. ASSUME NEW r \in Image, harbor'[r] # NoItem
        PROVE  harbor[r] # NoItem /\ (Traced(r) => Traced(r)')
    <3>1. r # found[d] /\ harbor[r] # NoItem
      BY <1>r, <2>1, <2>2
    <3>2. ASSUME NEW i \in Item, Names(i, r) PROVE Traced(r)'
      <4>1. CASE i = Victim[d]
        <5>1. i \in hasty /\ r \in Refs[i]
          BY <2>1, <3>1, <3>2, <4>1 DEF ImageInv, PastRead, Names
        <5> QED BY <1>h, <5>1 DEF Traced
      <4>2. CASE i # Victim[d]
        BY <1>a, <1>b, <2>1, <3>2, <4>2 DEF Traced, Names, InLibrary
      <4> QED BY <4>1, <4>2
    <3> QED BY <1>a, <1>h, <3>1, <3>2 DEF Traced
  <2> QED BY <2>2 DEF TraceInv
<1>4. CASE DeleteFile(d) \/ RemovalFail(d)
  <2>1. /\ UNCHANGED itemStatus
        /\ \A r \in Image : harbor'[r] # NoItem => harbor[r] # NoItem
        /\ removal'[d] \in {"file", "row"} => removal[d] \in {"file", "row"}
    BY <1>4, <1>r DEF DeleteFile, RemovalFail
  <2>2. \A i \in Item, r \in Image : Names(i, r) => Names(i, r)'
    BY <1>a, <1>b, <2>1 DEF Names, InLibrary
  <2> QED BY <1>a, <2>1, <2>2, TraceKept DEF Traced
<1>5. CASE DeleteRow(d)
  <2>1. UNCHANGED harbor /\ removal[d] = "row" /\ removal'[d] = "done"
    BY <1>5 DEF DeleteRow
  <2>2. \A i \in Item : itemStatus'[i] = itemStatus[i] \/ i = Victim[d]
    BY <1>5, <1>c, SetStatusOnly DEF DeleteRow
  <2>3. \A i \in Item, r \in Image : Names(i, r) => Names(i, r)'
    BY <1>a, <1>b, <2>1, <2>2 DEF Names, InLibrary
  <2> QED BY <1>a, <2>1, <2>3, TraceKept DEF Traced
<1> QED BY <1>1, <1>2, <1>3, <1>4, <1>5 DEF DeletionStep, Removing

(* Every step.                                                              *)
LEMMA StepTrace ==
  TypeInv /\ LeavingInv /\ ImageInv /\ TraceInv /\ [ItemNext]_itemVars => TraceInv'
<1> SUFFICES ASSUME TypeInv, LeavingInv, ImageInv, TraceInv, [ItemNext]_itemVars
             PROVE  TraceInv'
  OBVIOUS
<1> USE DEF TypeInv, ItemTypeOK, rowVars, contentVars, pushVars, removalVars, auxVars,
            historyVars
<1>1. CASE UNCHANGED itemVars
  BY <1>1 DEF itemVars, TraceInv, Traced, Names, InLibrary
<1>2. CASE AtRest
  BY <1>1, <1>2 DEF AtRest
<1>3. ASSUME NEW i \in Item, CreateItem(i) PROVE TraceInv'
  <2>1. \A j \in Item, r \in Image : Names(j, r) => Names(j, r)'
    BY <1>3 DEF CreateItem, Names, InLibrary
  <2> QED BY <1>3, <2>1, TraceKept DEF CreateItem, Traced
<1>4. ASSUME NEW u \in Put, PutStep(u) PROVE TraceInv'
  BY <1>4, UploadingTrace, PushTrace DEF PutStep
<1>5. ASSUME NEW d \in Removal, DeletionStep(d) PROVE TraceInv'
  BY <1>5, RemovalTrace
<1> QED BY <1>1, <1>2, <1>3, <1>4, <1>5 DEF ItemNext, PutStep, DeletionStep

(* delete_library_file_activity removes the image, the file and the row in   *)
(* this order, so that whatever is in Harbor can be found: by a row, by the  *)
(* push that will tell its row, or it is among those that are known not to   *)
(* have been told or to have been disturbed.                                *)
THEOREM ImagesAreTraced == ItemSpec => []ImageTraced
<1>1. ItemInit => LeavingInv /\ ImageInv /\ TraceInv
  BY DEF ItemInit, LeavingInv, Leaving, Busy, PushActive, BeforeVerdict, PastRead,
         ImageInv, TraceInv
<1>2. TraceInv => ImageTraced
  BY DEF TraceInv, Traced, Names, ImageTraced
<1> QED BY <1>1, <1>2, InitTypes, StepTypes, StepLeaving, StepImage, StepTrace, PTL
        DEF ItemSpec

-----------------------------------------------------------------------------
(* What rows name is there.                                                 *)

InPlace(r) == harbor[r] \in Behind(r) /\ itemStatus[harbor[r]] # "none"

Excused(r) ==
    \/ \E j \in Behind(r) : itemStatus[j] # "none" /\ <<Repo[r], Digest(j)>> \in taken
    \/ r \in rushed

Kept(r) == InPlace(r) \/ Excused(r)

(* A file has the content of an item it belongs to; what a push will tell,   *)
(* or a row was told, is kept; and what is in a repository that is about to *)
(* be removed came in a rush.                                               *)
HeldInv ==
    /\ \A f \in File : stored[f] # NoItem =>
            FileOf[stored[f]] = f /\ itemStatus[stored[f]] # "none"
    /\ \A u \in Put, r \in Image : pusher[u] = "tell" /\ ref[u] = r => Kept(r)
    /\ \A i \in Item, r \in Image : image[i] = r => Kept(r)
    /\ \A d \in Removal, r \in Image : removal[d] = "repo" /\ Repo[r] = Repo[found[d]]
            => harbor[r] = NoItem \/ r \in rushed

(* An item that was created has its type for good.                          *)
LEMMA MadeStays ==
  ASSUME TypeInv, [ItemNext]_itemVars, NEW i \in Item, itemStatus[i] # "none"
  PROVE  itemStatus'[i] # "none" /\ itemType'[i] = itemType[i]
<1> USE DEF TypeInv, ItemTypeOK, rowVars, contentVars, pushVars, removalVars, auxVars,
            historyVars
<1>1. CASE UNCHANGED itemVars \/ AtRest
  BY <1>1 DEF itemVars, AtRest
<1>2. ASSUME NEW j \in Item, CreateItem(j)
      PROVE  itemStatus'[i] # "none" /\ itemType'[i] = itemType[i]
  BY <1>2 DEF CreateItem
<1>3. ASSUME NEW u \in Put, PutStep(u)
      PROVE  itemStatus'[i] # "none" /\ itemType'[i] = itemType[i]
  <2>1. UNCHANGED itemType
    BY <1>3 DEF PutStep, BeginPut, Uploading, PushWork, Receive, ReceiveFail,
         PutFile, PutFileFail, Ready, Vanished, StartPush, StartPushFail,
         RefusePush, RecordPush, Load, LoadFail, Push, PushFail, Tell, FailPush,
         Clean, Die
  <2>2. UNCHANGED itemStatus
          \/ \E s \in {"ready", "failed", "deleted"} : SetItemStatus(target[u], s)
    BY <1>3 DEF PutStep, BeginPut, Uploading, PushWork, Receive, ReceiveFail,
         DropRow, PutFile, PutFileFail, Ready, Vanished, StartPush, StartPushFail,
         RefusePush, RecordPush, Load, LoadFail, Push, PushFail, Tell, FailPush,
         Clean, Die
  <2> QED BY <2>1, <2>2 DEF SetItemStatus
<1>4. ASSUME NEW d \in Removal, DeletionStep(d)
      PROVE  itemStatus'[i] # "none" /\ itemType'[i] = itemType[i]
  <2>1. UNCHANGED itemType
    BY <1>4 DEF DeletionStep, Removing, RequestRemoval, ReadItem, DeleteImage,
                DeleteRepo, DeleteFile, DeleteRow, RemovalFail
  <2>2. UNCHANGED itemStatus \/ SetItemStatus(Victim[d], "deleted")
    BY <1>4 DEF DeletionStep, Removing, RequestRemoval, DropRow, ReadItem,
                DeleteImage, DeleteRepo, DeleteFile, DeleteRow, RemovalFail
  <2> QED BY <2>1, <2>2 DEF SetItemStatus
<1> QED BY <1>1, <1>2, <1>3, <1>4 DEF ItemNext, PutStep, DeletionStep

(* What Harbor still has, or lost to a deletion, stays kept.                *)
LEMMA KeptStays ==
  ASSUME TypeInv, [ItemNext]_itemVars, NEW r \in Image, Kept(r),
         taken \subseteq taken', r \in rushed => r \in rushed' \/ Kept(r)',
         harbor'[r] = harbor[r] \/ Kept(r)'
  PROVE  Kept(r)'
<1>1. Behind(r) \subseteq Item
  BY DEF Behind
<1>2. \A i \in Behind(r) : itemStatus[i] # "none" =>
            itemStatus'[i] # "none" /\ itemType'[i] = itemType[i]
  BY <1>1, MadeStays
<1>3. CASE InPlace(r) /\ harbor'[r] = harbor[r]
  BY <1>2, <1>3 DEF Kept, InPlace, Behind
<1>4. CASE \E j \in Behind(r) : itemStatus[j] # "none" /\ <<Repo[r], Digest(j)>> \in taken
  <2>1. PICK j \in Behind(r) : itemStatus[j] # "none" /\ <<Repo[r], Digest(j)>> \in taken
    BY <1>4
  <2>2. itemStatus'[j] # "none" /\ Digest(j)' = Digest(j)
    BY <1>2, <2>1 DEF Digest
  <2> QED BY <2>1, <2>2 DEF Kept, Excused, Behind
<1>5. CASE r \in rushed
  BY <1>5 DEF Kept, Excused
<1> QED BY <1>3, <1>4, <1>5 DEF Kept, Excused

(* A file has the content of one of its items, which was created.           *)
LEMMA StepStored ==
  ASSUME TypeInv, HeldInv, [ItemNext]_itemVars
  PROVE  \A f \in File : stored'[f] # NoItem =>
            FileOf[stored'[f]] = f /\ itemStatus'[stored'[f]] # "none"
<1> USE LibraryItemAssumption
    DEF TypeInv, ItemTypeOK, rowVars, contentVars, pushVars, removalVars, auxVars,
        historyVars, Store, Slot
<1>1. ASSUME NEW u \in Put, Receive(u) \/ ReceiveFail(u) \/ PutFile(u) \/ Clean(u)
      PROVE  \E f \in File, i \in Item \cup {NoItem} :
               /\ i = NoItem \/ (FileOf[i] = f /\ itemStatus[i] # "none")
               /\ stored' \in {stored, [stored EXCEPT ![f] = i]}
  <2>1. target[u] \in Item /\ itemStatus[target[u]] # "none"
    BY <1>1 DEF Receive, ReceiveFail, PutFile, Clean, HandlerStep, PushStep, Shape,
                PutShape
  <2> QED BY <1>1, <2>1 DEF Receive, ReceiveFail, PutFile, Clean
<1>2. ASSUME NEW d \in Removal, DeleteFile(d)
      PROVE  \E f \in File : stored' \in {stored, [stored EXCEPT ![f] = NoItem]}
  BY <1>2 DEF DeleteFile
<1>3. CASE UNCHANGED stored
  BY <1>3, MadeStays DEF HeldInv
<1>4. CASE ~UNCHANGED stored
  <2>1. \/ \E u \in Put : Receive(u) \/ ReceiveFail(u) \/ PutFile(u) \/ Clean(u)
        \/ \E d \in Removal : DeleteFile(d)
    BY <1>4 DEF ItemNext, itemVars, AtRest, CreateItem, BeginPut, Uploading, PushWork,
         PutFileFail, Ready, Vanished, StartPush, StartPushFail, RefusePush,
         RecordPush, Load, LoadFail, Push, PushFail, Tell, FailPush, Die,
         RequestRemoval, Removing, ReadItem, DeleteImage, DeleteRepo, DeleteRow,
         RemovalFail
  <2>2. ASSUME NEW f \in File, stored'[f] # NoItem
        PROVE  FileOf[stored'[f]] = f /\ itemStatus[stored'[f]] # "none"
               /\ stored'[f] \in Item
    BY <1>1, <1>2, <2>1, <2>2 DEF HeldInv
  <2> QED BY <2>2, MadeStays
<1> QED BY <1>3, <1>4

(* What the push tool delivers under a reference of the item.               *)
LEMMA DeliverKeeps ==
  ASSUME TypeInv, HeldInv, [ItemNext]_itemVars, NEW u \in Put, pusher[u] = "push",
         Deliver(u), UNCHANGED <<taken, removal, found>>
  PROVE  /\ \A r \in Image : Kept(r) \/ r = ref[u] => Kept(r)'
         /\ \A d \in Removal, r \in Image :
               removal'[d] = "repo" /\ Repo[r] = Repo[found'[d]]
                  => harbor'[r] = NoItem \/ r \in rushed'
<1> USE LibraryItemAssumption DEF TypeInv, ItemTypeOK
<1>1. /\ target[u] \in Item /\ ref[u] \in Image /\ ref[u] \in Refs[target[u]]
      /\ itemStatus[target[u]] # "none"
      /\ Source(u) # NoItem /\ harbor' = [harbor EXCEPT ![ref[u]] = Source(u)]
      /\ rushed' = IF Doomed(ref[u]) THEN rushed \cup {ref[u]} ELSE rushed \ {ref[u]}
  BY DEF Deliver, Shape, PutShape
<1>2. Source(u) \in Behind(ref[u]) /\ itemStatus[Source(u)] # "none"
  BY <1>1 DEF Source, Slot, HeldInv, Behind
<1>3. PICK q \in Image : q = ref[u]
  BY <1>1
<1>4. Kept(q)'
  <2>1. harbor'[q] = Source(u) /\ Source(u) \in Item
    BY <1>1, <1>2, <1>3 DEF Behind
  <2>2. harbor'[q] \in Behind(q) /\ itemStatus'[harbor'[q]] # "none"
    BY <1>2, <1>3, <2>1, MadeStays
  <2> QED BY <2>2 DEF Kept, InPlace, Behind
<1>5. ASSUME NEW r \in Image, Kept(r) \/ r = ref[u] PROVE Kept(r)'
  <2>1. CASE r = q
    BY <1>4, <2>1
  <2>2. CASE r # q
    <3>1. harbor'[r] = harbor[r] /\ (r \in rushed => r \in rushed')
      BY <1>1, <1>3, <2>2
    <3> QED BY <1>3, <1>5, <2>2, <3>1, KeptStays
  <2> QED BY <2>1, <2>2
<1>6. ASSUME NEW d \in Removal, NEW r \in Image, removal[d] = "repo",
             Repo[r] = Repo[found[d]]
      PROVE  harbor'[r] = NoItem \/ r \in rushed'
  <2>1. CASE r = q
    <3>1. Doomed(ref[u])
      BY <1>3, <1>6, <2>1 DEF Doomed
    <3> QED BY <1>1, <1>3, <2>1, <3>1
  <2>2. CASE r # q
    BY <1>1, <1>3, <1>6, <2>2 DEF HeldInv
  <2> QED BY <2>1, <2>2
<1> QED BY <1>5, <1>6

(* A step after which every image is as good as it was, or excused.         *)
LEMMA HeldKept ==
  ASSUME TypeInv, HeldInv, [ItemNext]_itemVars,
         \A r \in Image : Kept(r) => Kept(r)',
         \A u \in Put : pusher'[u] = "tell" =>
            \/ pusher[u] = "tell" /\ ref'[u] = ref[u]
            \/ \E r \in Image : ref'[u] = r /\ Kept(r)',
         \A i \in Item, r \in Image : image'[i] = r =>
            image[i] = r \/ \E u \in Put : pusher[u] = "tell" /\ ref[u] = r,
         \A d \in Removal, r \in Image : removal'[d] = "repo" /\ Repo[r] = Repo[found'[d]]
            => harbor'[r] = NoItem \/ r \in rushed'
  PROVE  HeldInv'
<1>1. \A f \in File : stored'[f] # NoItem =>
         FileOf[stored'[f]] = f /\ itemStatus'[stored'[f]] # "none"
  BY StepStored
<1>2. ASSUME NEW u \in Put, NEW r \in Image, pusher'[u] = "tell", ref'[u] = r
      PROVE  Kept(r)'
  BY <1>2 DEF HeldInv
<1>3. ASSUME NEW i \in Item, NEW r \in Image, image'[i] = r PROVE Kept(r)'
  BY <1>3 DEF HeldInv
<1> QED BY <1>1, <1>2, <1>3 DEF HeldInv

(* What a deletion takes out is excused, in whatever repository and under    *)
(* whatever tag.                                                            *)
LEMMA TakeOutKeeps ==
  ASSUME TypeInv, [ItemNext]_itemVars, NEW s \in Image, TakeOut(s), UNCHANGED rushed
  PROVE  \A r \in Image : Kept(r) => Kept(r)'
<1> SUFFICES ASSUME NEW r \in Image, Kept(r) PROVE Kept(r)'
  OBVIOUS
<1>1. /\ taken' = taken \cup {Artifact(s)}
      /\ harbor'[r] = harbor[r] \/ (harbor[r] # NoItem /\ Artifact(r) = Artifact(s))
  BY DEF TakeOut, Remaining
<1>2. CASE harbor'[r] = harbor[r]
  BY <1>1, <1>2, KeptStays
<1>3. CASE harbor[r] # NoItem /\ Artifact(r) = Artifact(s) /\ InPlace(r)
  <2>1. PICK j \in Item : j = harbor[r]
    BY <1>3 DEF InPlace, Behind
  <2>2. j \in Behind(r) /\ itemStatus[j] # "none" /\ <<Repo[r], Digest(j)>> \in taken'
    BY <1>1, <1>3, <2>1 DEF InPlace, Artifact
  <2>3. itemStatus'[j] # "none" /\ Digest(j)' = Digest(j)
    BY <2>2, MadeStays DEF Digest
  <2> QED BY <2>2, <2>3 DEF Kept, Excused, Behind
<1>4. CASE Excused(r)
  <2>1. CASE r \in rushed
    BY <2>1 DEF Kept, Excused
  <2>2. CASE \E j \in Behind(r) :
               itemStatus[j] # "none" /\ <<Repo[r], Digest(j)>> \in taken
    <3>1. PICK j \in Behind(r) :
            itemStatus[j] # "none" /\ <<Repo[r], Digest(j)>> \in taken
      BY <2>2
    <3>2. j \in Item
      BY DEF Behind
    <3>3. itemStatus'[j] # "none" /\ Digest(j)' = Digest(j)
      BY <3>1, <3>2, MadeStays DEF Digest
    <3> QED BY <1>1, <3>1, <3>3 DEF Kept, Excused, Behind
  <2> QED BY <1>4, <2>1, <2>2 DEF Excused
<1> QED BY <1>1, <1>2, <1>3, <1>4 DEF Kept

(* What is left in a repository that goes came in a rush.                   *)
LEMMA DropRepoKeeps ==
  ASSUME TypeInv, HeldInv, [ItemNext]_itemVars, NEW d \in Removal, removal[d] = "repo",
         DropRepo(d), UNCHANGED <<rushed, taken>>
  PROVE  \A r \in Image : Kept(r) => Kept(r)'
<1> SUFFICES ASSUME NEW r \in Image, Kept(r) PROVE Kept(r)'
  OBVIOUS
<1>1. harbor'[r] = harbor[r] \/ r \in rushed
  BY DEF DropRepo, Remaining, HeldInv, TypeInv, ItemTypeOK
<1>2. CASE r \in rushed
  BY <1>2 DEF Kept, Excused
<1>3. CASE harbor'[r] = harbor[r]
  BY <1>3, KeptStays
<1> QED BY <1>1, <1>2, <1>3

(* What Harbor is given, a deletion takes or a row is told.                 *)
LEMMA StepHeld == TypeInv /\ HeldInv /\ [ItemNext]_itemVars => HeldInv'
<1> SUFFICES ASSUME TypeInv, HeldInv, [ItemNext]_itemVars PROVE HeldInv'
  OBVIOUS
<1> USE DEF TypeInv, ItemTypeOK, rowVars, contentVars, pushVars, removalVars, auxVars,
            historyVars
<1>k. ASSUME UNCHANGED <<harbor, taken, rushed>>
      PROVE  \A r \in Image : Kept(r) => Kept(r)'
  BY <1>k, KeptStays
<1>1. CASE UNCHANGED itemVars \/ AtRest \/ (\E i \in Item : CreateItem(i))
  <2>1. UNCHANGED <<harbor, image, pusher, ref, removal, found, taken, rushed>>
    BY <1>1 DEF itemVars, AtRest, CreateItem
  <2> QED BY <1>k, <2>1, HeldKept DEF HeldInv
<1>2. ASSUME NEW u \in Put, BeginPut(u) \/ Uploading(u) PROVE HeldInv'
  <2>1. UNCHANGED <<harbor, image, ref, removal, found, taken, rushed>>
    BY <1>2 DEF BeginPut, Uploading, Receive, ReceiveFail, PutFile, PutFileFail,
         Ready, Vanished, StartPush, StartPushFail, RefusePush, RecordPush
  <2>2. \A v \in Put : pusher'[v] = "tell" => pusher[v] = "tell"
    BY <1>2 DEF BeginPut, Uploading, Receive, ReceiveFail, PutFile, PutFileFail,
         Ready, Vanished, StartPush, StartPushFail, RefusePush, RecordPush,
         Scheduled, HandlerStep, Shape, PutShape
  <2> QED BY <1>k, <2>1, <2>2, HeldKept DEF HeldInv
<1>3. ASSUME NEW u \in Put, PushWork(u) \/ Die(u) PROVE HeldInv'
  <2>a. UNCHANGED <<removal, found, taken>>
    BY <1>3 DEF PushWork, Load, LoadFail, Push, PushFail, Tell, FailPush, Clean, Die
  <2>b. \A v \in Put \ {u} : pusher'[v] = pusher[v] /\ ref'[v] = ref[v]
    BY <1>3 DEF PushWork, Load, LoadFail, Push, PushFail, Tell, FailPush, Clean, Die,
                PushStep
  <2>1. CASE Load(u) \/ LoadFail(u) \/ FailPush(u) \/ Clean(u)
    <3>1. UNCHANGED <<harbor, image, rushed>> /\ pusher'[u] # "tell"
      BY <2>1 DEF Load, LoadFail, FailPush, Clean, PushStep
    <3> QED BY <1>k, <2>a, <2>b, <3>1, HeldKept DEF HeldInv
  <2>2. CASE Push(u)
    <3>1. /\ UNCHANGED <<image, ref>> /\ pusher[u] = "push" /\ Deliver(u)
          /\ ref[u] \in Image
      BY <2>2, LibraryItemAssumption DEF Push, PushStep, Shape, PutShape
    <3>2. /\ \A r \in Image : Kept(r) \/ r = ref[u] => Kept(r)'
          /\ \A d \in Removal, r \in Image :
                removal'[d] = "repo" /\ Repo[r] = Repo[found'[d]]
                   => harbor'[r] = NoItem \/ r \in rushed'
      BY <2>a, <3>1, DeliverKeeps
    <3> QED BY <2>b, <3>1, <3>2, HeldKept
  <2>3. CASE PushFail(u) \/ Die(u)
    <3>1. UNCHANGED image /\ pusher'[u] # "tell"
      BY <2>3 DEF PushFail, Die, PushStep
    <3>2. UNCHANGED <<harbor, rushed>> \/ (pusher[u] = "push" /\ Deliver(u))
      BY <2>3 DEF PushFail, Die, PushStep, PushUnheard
    <3>3. CASE UNCHANGED <<harbor, rushed>>
      BY <1>k, <2>a, <2>b, <3>1, <3>3, HeldKept DEF HeldInv
    <3>4. CASE pusher[u] = "push" /\ Deliver(u)
      <4>1. /\ \A r \in Image : Kept(r) => Kept(r)'
            /\ \A d \in Removal, r \in Image :
                  removal'[d] = "repo" /\ Repo[r] = Repo[found'[d]]
                     => harbor'[r] = NoItem \/ r \in rushed'
        BY <2>a, <3>4, DeliverKeeps
      <4> QED BY <2>b, <3>1, <4>1, HeldKept
    <3> QED BY <3>2, <3>3, <3>4
  <2>4. CASE Tell(u)
    <3>1. /\ UNCHANGED <<harbor, ref, rushed>>
          /\ pusher[u] = "tell" /\ pusher'[u] = "clean"
          /\ target[u] \in Item
          /\ image' \in {image, [image EXCEPT ![target[u]] = ref[u]]}
      BY <2>4 DEF Tell, PushStep, Shape, PutShape
    <3>2. \A i \in Item, r \in Image : image'[i] = r => image[i] = r \/ ref[u] = r
      BY <3>1
    <3> QED BY <1>k, <2>a, <2>b, <3>1, <3>2, HeldKept DEF HeldInv
  <2> QED BY <1>3, <2>1, <2>2, <2>3, <2>4 DEF PushWork
<1>4. ASSUME NEW d \in Removal, DeletionStep(d) PROVE HeldInv'
  <2>1. UNCHANGED <<image, pusher, ref, rushed>>
    BY <1>4 DEF DeletionStep, Removing, RequestRemoval, ReadItem, DeleteImage,
                DeleteRepo, DeleteFile, DeleteRow, RemovalFail
  <2>2. \/ UNCHANGED <<harbor, taken>>
        \/ removal[d] = "image" /\ TakeOut(found[d]) /\ found[d] \in Image
        \/ removal[d] = "repo" /\ DropRepo(d) /\ UNCHANGED taken
    BY <1>4 DEF DeletionStep, Removing, RequestRemoval, ReadItem, DeleteImage,
                DeleteRepo, DeleteFile, DeleteRow, RemovalFail, RemovalStep, Shape
  <2>3. \A r \in Image : Kept(r) => Kept(r)'
    BY <1>k, <2>1, <2>2, TakeOutKeeps, DropRepoKeeps
  <2>4. \A r \in Image : harbor'[r] \in {harbor[r], NoItem}
    BY <2>2 DEF TakeOut, DropRepo, Remaining
  <2>5. ASSUME NEW e \in Removal, NEW r \in Image, removal'[e] = "repo",
               Repo[r] = Repo[found'[e]]
        PROVE  harbor'[r] = NoItem \/ r \in rushed'
    <3>1. CASE removal[e] = "repo" /\ found'[e] = found[e]
      BY <2>1, <2>4, <2>5, <3>1 DEF HeldInv
    <3>2. CASE ~(removal[e] = "repo" /\ found'[e] = found[e])
      <4>1. e = d /\ DeleteImage(d) /\ removal'[d] = "repo" /\ UNCHANGED found
        BY <1>4, <2>5, <3>2 DEF DeletionStep, Removing, RequestRemoval, ReadItem,
           DeleteImage, DeleteRepo, DeleteFile, DeleteRow, RemovalFail, RemovalStep,
           NoteImage
      <4> QED BY <2>5, <4>1 DEF DeleteImage, RemovalStep
    <3> QED BY <3>1, <3>2
  <2> QED BY <2>1, <2>3, <2>5, HeldKept
<1> QED BY <1>1, <1>2, <1>3, <1>4 DEF ItemNext, DeletionStep

(* harbor_push_activity, llm_push_activity: the image a row names is in      *)
(* Harbor, with the content of the row's item or of one that shares its file *)
(* name or its reference, unless a deletion removed the same content in the *)
(* same repository, or the repository itself while the image came.          *)
THEOREM PushedAreThere == ItemSpec => []PushedIsThere
<1>1. ItemInit => HeldInv
  BY LibraryItemAssumption DEF ItemInit, HeldInv
<1>2. TypeInv /\ HeldInv => PushedIsThere
  <2> SUFFICES ASSUME TypeInv, HeldInv, NEW i \in Item, image[i] # NoImage
               PROVE  Kept(image[i])
    BY DEF PushedIsThere, Kept, InPlace, Excused
  <2> QED BY DEF HeldInv, TypeInv, ItemTypeOK
<1> QED BY <1>1, <1>2, InitTypes, StepTypes, StepHeld, PTL DEF ItemSpec
=============================================================================
