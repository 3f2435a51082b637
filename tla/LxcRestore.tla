----------------------------- MODULE LxcRestore -----------------------------
(***************************************************************************)
(* Deployment of library items as LXC containers: _deploy_library_lxc,     *)
(* LXCRestoreWorkflow with its activities, and delete_deployment.          *)
(*                                                                         *)
(* Request handlers run on uvicorn's event loop and do not await between   *)
(* reading a free entry and committing it.  The activities are synchronous *)
(* functions on five threads, and reach Proxmox over SSH.  The thread of   *)
(* restore_lxc_container_activity is kept apart from its workflow: when    *)
(* the two hours are over the workflow goes on without it.                 *)
(***************************************************************************)
EXTENDS Naturals, Sequences, FiniteSets

CONSTANTS
    Job,           \* deploy requests
    VmIds,         \* vmids of the Proxmox cluster
    IPs,           \* ids of the Ip_Entries rows
    IpPools,       \* names of the rows of Ips_pools
    IpPoolOf,      \* the IP pool each entry belongs to
    IpPoolNames,   \* ip_pools of each request, in order
    Faults,        \* what may go wrong around each deployment
    NoJob, NoVm, NoIp

AllFaults == {"start_failed", "upload_failed", "restore_failed", "restore_late",
              "setup_failed", "oras_failed", "update_lost"}

ASSUME LxcAssumption ==
    /\ VmIds \subseteq Nat
    /\ IPs \subseteq Nat
    /\ IpPoolOf \in [IPs -> IpPools]
    /\ IpPoolNames \in [Job -> Seq(IpPools)]
    /\ Faults \in [Job -> SUBSET AllFaults]
    /\ NoJob \notin Job
    /\ NoVm \notin VmIds
    /\ NoIp \notin IPs

VARIABLES
    \* rows of the database
    record,      \* the lxc_restore_jobs row: none, live, deleted
    status,      \* its status
    jobIp,       \* its ip_address, also in the workflow's payload
    jobVm,       \* its vmid
    ipStatus,    \* Ip_Entries.status
    ipVm,        \* Ip_Entries.vm_id
    \* Proxmox
    ct,          \* what each vmid is
    ctOwner,     \* the request it was last made for
    \* LXCRestoreWorkflow
    wf,
    flag,        \* the failure it reports
    \* the thread of restore_lxc_container_activity
    thread,
    tmp, new     \* its tmp_vmid and clone_vmid

jobVars == <<record, status, jobIp, jobVm>>
ipVars == <<ipStatus, ipVm>>
ctVars == <<ct, ctOwner>>
wfVars == <<wf, flag>>
threadVars == <<thread, tmp, new>>
vars == <<jobVars, ipVars, ctVars, wfVars, threadVars>>

Flags == {"UPLOAD_FAILED", "RESTORE_FAILED", "SETUP_FAILED", "ORAS_FAILED"}
Statuses == Flags \cup {"none", "provisioning", "container_started",
                        "deployed_successfully"}
Ended == {"ok", "released", "unreleased", "lost", "unstarted"}
WfPcs == Ended \cup {"idle", "committed", "upload", "restore", "setup", "oras",
                     "finish", "fail", "release"}
ThreadPcs == {"idle", "tmp", "restore", "new", "clone", "drop", "start",
              "record", "entry", "ended"}

TypeOK ==
    /\ record \in [Job -> {"none", "live", "deleted"}]
    /\ status \in [Job -> Statuses]
    /\ jobIp \in [Job -> IPs \cup {NoIp}]
    /\ jobVm \in [Job -> VmIds \cup {NoVm}]
    /\ ipStatus \in [IPs -> {"unused", "used"}]
    /\ ipVm \in [IPs -> VmIds \cup {NoVm}]
    /\ ct \in [VmIds -> {"none", "template", "stopped", "running"}]
    /\ ctOwner \in [VmIds -> Job \cup {NoJob}]
    /\ wf \in [Job -> WfPcs]
    /\ flag \in [Job -> Flags \cup {"none"}]
    /\ thread \in [Job -> ThreadPcs]
    /\ tmp \in [Job -> VmIds \cup {NoVm}]
    /\ new \in [Job -> VmIds \cup {NoVm}]

Init ==
    /\ record = [j \in Job |-> "none"]
    /\ status = [j \in Job |-> "none"]
    /\ jobIp = [j \in Job |-> NoIp]
    /\ jobVm = [j \in Job |-> NoVm]
    /\ ipStatus = [i \in IPs |-> "unused"]
    /\ ipVm = [i \in IPs |-> NoVm]
    /\ ct = [v \in VmIds |-> "none"]
    /\ ctOwner = [v \in VmIds |-> NoJob]
    /\ wf = [j \in Job |-> "idle"]
    /\ flag = [j \in Job |-> "none"]
    /\ thread = [j \in Job |-> "idle"]
    /\ tmp = [j \in Job |-> NoVm]
    /\ new = [j \in Job |-> NoVm]

-----------------------------------------------------------------------------
(* The request handlers.                                                    *)

AnyEntry(i) == TRUE                                 \* mutant of Unused

Unused(i) == ipStatus[i] = "unused"

(* The lowest unused entry of the first pool that has one.                  *)
Chosen(j, i) ==
    /\ Unused(i)
    /\ \E k \in DOMAIN IpPoolNames[j] :
          /\ IpPoolNames[j][k] = IpPoolOf[i]
          /\ \A l \in 1 .. k - 1, e \in IPs :
                IpPoolOf[e] = IpPoolNames[j][l] => ~Unused(e)
    /\ \A e \in IPs : IpPoolOf[e] = IpPoolOf[i] /\ Unused(e) => i <= e

(* The entry and the record are committed together.                         *)
Deploy(j) ==
    /\ wf[j] = "idle"
    /\ \E i \in IPs :
          /\ Chosen(j, i)
          /\ ipStatus' = [ipStatus EXCEPT ![i] = "used"]
          /\ jobIp' = [jobIp EXCEPT ![j] = i]
    /\ record' = [record EXCEPT ![j] = "live"]
    /\ status' = [status EXCEPT ![j] = "provisioning"]
    /\ wf' = [wf EXCEPT ![j] = "committed"]
    /\ UNCHANGED <<jobVm, ipVm, ctVars, flag, threadVars>>

WfStep(j, from, to) ==
    /\ wf[j] = from
    /\ wf' = [wf EXCEPT ![j] = to]

StartWorkflow(j) ==
    /\ WfStep(j, "committed", "upload")
    /\ UNCHANGED <<jobVars, ipVars, ctVars, flag, threadVars>>

(* The handler answers 500; nothing it committed is undone.                 *)
StartFail(j) ==
    /\ "start_failed" \in Faults[j]
    /\ WfStep(j, "committed", "unstarted")
    /\ UNCHANGED <<jobVars, ipVars, ctVars, flag, threadVars>>

(* delete_deployment removes the tracking record and nothing else.          *)
DeleteRecord(j) ==
    /\ record[j] = "live"
    /\ record' = [record EXCEPT ![j] = "deleted"]
    /\ status' = [status EXCEPT ![j] = "none"]
    /\ jobVm' = [jobVm EXCEPT ![j] = NoVm]
    /\ UNCHANGED <<jobIp, ipVars, ctVars, wfVars, threadVars>>

-----------------------------------------------------------------------------
(* LXCRestoreWorkflow.  Its activities are not retried, except oras and the *)
(* last update, whose repetition changes nothing.                           *)

(* Mutant of FailWith: an activity without a RetryPolicy of its own, which  *)
(* Temporal repeats for ever.                                               *)
RetryForever(j, from, reason) ==
    /\ WfStep(j, from, from)
    /\ UNCHANGED flag

FailWith(j, from, reason) ==
    /\ WfStep(j, from, "fail")
    /\ flag' = [flag EXCEPT ![j] = reason]

Upload(j) ==
    /\ WfStep(j, "upload", "restore")
    /\ thread' = [thread EXCEPT ![j] = "tmp"]
    /\ UNCHANGED <<jobVars, ipVars, ctVars, flag, tmp, new>>

UploadFail(j) ==
    /\ "upload_failed" \in Faults[j]
    /\ FailWith(j, "upload", "UPLOAD_FAILED")
    /\ UNCHANGED <<jobVars, ipVars, ctVars, threadVars>>

(* The start_to_close timeout, or a worker that died: the workflow takes    *)
(* the restore for failed, its thread may still be at work.                 *)
RestoreTimeout(j) ==
    /\ "restore_late" \in Faults[j]
    /\ FailWith(j, "restore", "RESTORE_FAILED")
    /\ UNCHANGED <<jobVars, ipVars, ctVars, threadVars>>

ContainerRuns(j) == new[j] # NoVm /\ ct[new[j]] = "running"

Setup(j) ==
    /\ ContainerRuns(j)
    /\ WfStep(j, "setup", "oras")
    /\ UNCHANGED <<jobVars, ipVars, ctVars, flag, threadVars>>

SetupFail(j) ==
    /\ "setup_failed" \in Faults[j] \/ ~ContainerRuns(j)
    /\ FailWith(j, "setup", "SETUP_FAILED")
    /\ UNCHANGED <<jobVars, ipVars, ctVars, threadVars>>

Oras(j) ==
    /\ ContainerRuns(j)
    /\ WfStep(j, "oras", "finish")
    /\ UNCHANGED <<jobVars, ipVars, ctVars, flag, threadVars>>

OrasFail(j) ==
    /\ "oras_failed" \in Faults[j] \/ ~ContainerRuns(j)
    /\ FailWith(j, "oras", "ORAS_FAILED")
    /\ UNCHANGED <<jobVars, ipVars, ctVars, threadVars>>

Finish(j) ==
    /\ WfStep(j, "finish", "ok")
    /\ status' = [status EXCEPT ![j] = IF record[j] = "live"
                                       THEN "deployed_successfully" ELSE @]
    /\ UNCHANGED <<record, jobIp, jobVm, ipVars, ctVars, flag, threadVars>>

OrasForgotten == Flags \ {"ORAS_FAILED"}            \* mutant of FailureStatuses

FailureStatuses == Flags                            \* _FAILURE_STATUSES

(* update_lxc_job_status_activity commits the status first ...              *)
FailStatus(j) ==
    /\ WfStep(j, "fail", IF record[j] = "live" /\ flag[j] \in FailureStatuses
                         THEN "release" ELSE "unreleased")
    /\ status' = [status EXCEPT ![j] = IF record[j] = "live" THEN flag[j] ELSE @]
    /\ flag' = [flag EXCEPT ![j] = "none"]
    /\ UNCHANGED <<record, jobIp, jobVm, ipVars, ctVars, threadVars>>

EntriesOfVm(j) == {i \in IPs : ipVm[i] = jobVm[j]}  \* mutant of EntriesOf

EntriesOf(j) == {i \in IPs : i = jobIp[j]}

(* ... and then frees the entry; reading the job again raises when its row  *)
(* was deleted in between.                                                  *)
FailRelease(j) ==
    /\ record[j] = "live"
    /\ WfStep(j, "release", "released")
    /\ ipStatus' = [i \in IPs |-> IF i \in EntriesOf(j) THEN "unused"
                                  ELSE ipStatus[i]]
    /\ ipVm' = [i \in IPs |-> IF i \in EntriesOf(j) THEN NoVm ELSE ipVm[i]]
    /\ UNCHANGED <<jobVars, ctVars, flag, threadVars>>

UpdateLost(j) ==
    /\ \/ "update_lost" \in Faults[j] /\ WfStep(j, "fail", "lost")
       \/ "update_lost" \in Faults[j] /\ WfStep(j, "finish", "lost")
       \/ "update_lost" \in Faults[j] /\ WfStep(j, "release", "lost")
       \/ record[j] = "deleted" /\ WfStep(j, "release", "lost")
    /\ flag' = [flag EXCEPT ![j] = "none"]
    /\ UNCHANGED <<jobVars, ipVars, ctVars, threadVars>>

-----------------------------------------------------------------------------
(* The thread of restore_lxc_container_activity.                            *)

ThreadStep(j, from, to) ==
    /\ thread[j] = from
    /\ thread' = [thread EXCEPT ![j] = to]

(* /cluster/nextid: the lowest vmid nothing exists under.  It reserves      *)
(* nothing.                                                                 *)
NextId(v) == ct[v] = "none" /\ \A w \in VmIds : ct[w] = "none" => v <= w

Made(j, v, what) ==
    /\ ct' = [ct EXCEPT ![v] = what]
    /\ ctOwner' = [ctOwner EXCEPT ![v] = IF what = "none" THEN NoJob ELSE j]

PickTmp(j) ==
    /\ ThreadStep(j, "tmp", "restore")
    /\ \E v \in VmIds : NextId(v) /\ tmp' = [tmp EXCEPT ![j] = v]
    /\ UNCHANGED <<jobVars, ipVars, ctVars, wfVars, new>>

(* pct stop and pct destroy of whatever has the vmid by now, pct restore.   *)
RestoreTemplate(j) ==
    /\ ThreadStep(j, "restore", "new")
    /\ Made(j, tmp[j], "template")
    /\ UNCHANGED <<jobVars, ipVars, wfVars, tmp, new>>

PickNew(j) ==
    /\ ThreadStep(j, "new", "clone")
    /\ \E v \in VmIds : NextId(v) /\ new' = [new EXCEPT ![j] = v]
    /\ UNCHANGED <<jobVars, ipVars, ctVars, wfVars, tmp>>

CanClone(j) == ct[tmp[j]] # "none" /\ ct[new[j]] = "none"

CloneTemplate(j) ==
    /\ ThreadStep(j, "clone", "drop")
    /\ CanClone(j)
    /\ Made(j, new[j], "stopped")
    /\ UNCHANGED <<jobVars, ipVars, wfVars, tmp, new>>

DropTemplate(j) ==
    /\ ThreadStep(j, "drop", "start")
    /\ ct[tmp[j]] # "none"
    /\ Made(j, tmp[j], "none")
    /\ tmp' = [tmp EXCEPT ![j] = NoVm]
    /\ UNCHANGED <<jobVars, ipVars, wfVars, new>>

StartContainer(j) ==
    /\ ThreadStep(j, "start", "record")
    /\ ct[new[j]] # "none"
    /\ ct' = [ct EXCEPT ![new[j]] = "running"]
    /\ UNCHANGED <<jobVars, ipVars, ctOwner, wfVars, tmp, new>>

RecordJob(j) ==
    /\ ThreadStep(j, "record", "entry")
    /\ IF record[j] = "live"
         THEN /\ jobVm' = [jobVm EXCEPT ![j] = new[j]]
              /\ status' = [status EXCEPT ![j] = "container_started"]
         ELSE UNCHANGED <<jobVm, status>>
    /\ UNCHANGED <<record, jobIp, ipVars, ctVars, wfVars, tmp, new>>

RecordEntry(j) ==
    /\ ThreadStep(j, "entry", "ended")
    /\ ipVm' = [ipVm EXCEPT ![jobIp[j]] = new[j]]
    /\ wf' = [wf EXCEPT ![j] = IF @ = "restore" THEN "setup" ELSE @]
    /\ UNCHANGED <<jobVars, ipStatus, ctVars, flag, tmp, new>>

CommandFails(j) ==
    \/ "restore_failed" \in Faults[j]
       /\ thread[j] \in {"tmp", "restore", "new", "clone", "drop", "start"}
    \/ thread[j] = "clone" /\ ~CanClone(j)
    \/ thread[j] = "drop" /\ ct[tmp[j]] = "none"
    \/ thread[j] = "start" /\ ct[new[j]] = "none"

FailSeen(j) ==
    IF wf[j] = "restore" THEN FailWith(j, "restore", "RESTORE_FAILED")
                         ELSE UNCHANGED wfVars

ThreadGone(j) ==
    /\ thread' = [thread EXCEPT ![j] = "ended"]
    /\ tmp' = [tmp EXCEPT ![j] = NoVm]
    /\ new' = [new EXCEPT ![j] = NoVm]

(* A command fails: what was made so far stays on the hypervisor.           *)
ThreadFail(j) ==
    /\ CommandFails(j)
    /\ ThreadGone(j)
    /\ FailSeen(j)
    /\ UNCHANGED <<jobVars, ipVars, ctVars>>

(* Of an activity that timed out the worker cancels the thread, or it died. *)
ThreadCancelled(j) ==
    /\ wf[j] # "restore"
    /\ thread[j] \notin {"idle", "ended"}
    /\ ThreadGone(j)
    /\ UNCHANGED <<jobVars, ipVars, ctVars, wfVars>>

-----------------------------------------------------------------------------
Request(j) == Deploy(j) \/ StartWorkflow(j) \/ StartFail(j) \/ DeleteRecord(j)

Restore(j) == \/ PickTmp(j) \/ RestoreTemplate(j) \/ PickNew(j)
              \/ CloneTemplate(j) \/ DropTemplate(j) \/ StartContainer(j)
              \/ RecordJob(j) \/ RecordEntry(j)
              \/ ThreadFail(j) \/ ThreadCancelled(j)

Workflow(j) == \/ Upload(j) \/ UploadFail(j) \/ RestoreTimeout(j)
               \/ Setup(j) \/ SetupFail(j) \/ Oras(j) \/ OrasFail(j)
               \/ Finish(j) \/ FailStatus(j) \/ FailRelease(j) \/ UpdateLost(j)

(* Nothing is left to do; a request may have found no free entry.           *)
Finished ==
    /\ \A j \in Job : wf[j] \in Ended \cup {"idle"}
    /\ UNCHANGED vars

Next == (\E j \in Job : Request(j) \/ Restore(j) \/ Workflow(j)) \/ Finished

Spec == Init /\ [][Next]_vars

(* A worker thread runs until its function returns, and Temporal hands each *)
(* scheduled activity to a worker or times it out.                          *)
Fairness == \A j \in Job : WF_vars(Restore(j)) /\ WF_vars(Workflow(j))

FairSpec == Spec /\ Fairness

-----------------------------------------------------------------------------
(* Properties.                                                              *)

(* The request that holds an entry: until its workflow released it.         *)
Holds(j, i) == jobIp[j] = i /\ wf[j] # "released"

Held == [j \in Job |-> {i \in IPs : Holds(j, i)}]

R == INSTANCE IpReservation WITH Holder <- Job, Wanted <- [j \in Job |-> 1],
                                 held <- Held

(* _deploy_library_lxc reserves: no address is given to a deployment while  *)
(* another holds it, whatever fails, is retried, deleted or late.           *)
ReservesIps == R!Spec

(* update_lxc_job_status_activity releases the address on failure: one in   *)
(* use is that of a deployment that has not failed, or whose release is the *)
(* next step of its workflow, or was lost with the worker (it is not        *)
(* retried).  A deployment without record has no status.                    *)
FailureFreesIp ==
    \A i \in IPs : ipStatus[i] = "used" =>
        \E j \in Job : /\ jobIp[j] = i
                       /\ wf[j] # "released"
                       /\ status[j] \in Flags => wf[j] \in {"release", "lost"}

(* A deployment reported as successful keeps its address: neither the       *)
(* failure of another one nor a restore that comes too late frees it.       *)
DeployedKeepsIp ==
    \A j \in Job : status[j] = "deployed_successfully" =>
        ipStatus[jobIp[j]] = "used"

(* Every started workflow ends, with its job in a final state or its update *)
(* lost, although nothing is retried.                                       *)
WorkflowEnds == \A j \in Job : wf[j] = "upload" ~> wf[j] \in Ended

(* The comment above pct destroy: what has the vmid is left from a previous *)
(* failed attempt, not from a deployment in progress or in service.         *)
ClearsFailedOnly ==
    [][\A j, k \in Job :
          /\ thread[j] = "restore" /\ thread'[j] = "new"
          /\ ct[tmp[j]] # "none"
          /\ ctOwner[tmp[j]] = k
          => wf[k] \notin {"restore", "setup", "oras", "finish", "ok"}]_vars
=============================================================================
