---------------------------- MODULE LlmInference ----------------------------
(***************************************************************************)
(* LLM inference pools: create_llm_inference_job, pool_vm_action and       *)
(* delete_llm_inference_job with their workflows and activities.           *)
(*                                                                         *)
(* A pool has one machine per node, each with an address of Ip_Entries.    *)
(* The activities are threads, so the clones of a pool, its deletion, a    *)
(* power action and the work of other pools interleave.                    *)
(***************************************************************************)
EXTENDS Naturals, FiniteSets

CONSTANTS
    Job,         \* pools that are created, each once
    Size,        \* number of nodes of each
    Harbor,      \* those whose template comes from a Harbor registry
    Ip,          \* ids of the entries of the IP pools, in the pools' order
    Vmid,        \* ids the hypervisor gives to machines and templates
    Deletion,    \* requests to delete a pool
    Target,      \* the pool each of them deletes
    Faults,      \* what may go wrong, or be asked for, around each pool
    NoJob

AllFaults ==
    {"start_failed", "start_unconfirmed", "import_failed", "clone_failed",
     "template_stays", "setup_failed", "update_failed", "delete_failed",
     "power_failed", "start", "stop", "cluster_removed"}

ASSUME LlmAssumption ==
    /\ Size \in [Job -> Nat \ {0}]
    /\ Harbor \subseteq Job
    /\ Ip \subseteq Nat \ {0}
    /\ Vmid \subseteq Nat \ {0}
    /\ Target \in [Deletion -> Job]
    /\ Faults \in [Job -> SUBSET AllFaults]
    /\ NoJob \notin Job

None == 0

VARIABLES
    \* the database
    job,         \* status of each row of llm_inferences, or none, or deleted
    ips,         \* its ip_addresses
    template,    \* its template, if the pool made it
    recorded,    \* rows that have their vmids and machines_name
    used,        \* entries of Ip_Entries that are "used"
    entryVm,     \* vm_id of each entry
    \* create_llm_inference_job and CreateMultiNodeLLMWorkflow
    handler, wf,
    tmpl,        \* vmid chosen for the template
    plan,        \* vmids reserved for the machines
    clone,       \* clone_and_configure_vm_activity, per node
    \* pool_vm_action, delete_llm_inference_job and their workflows
    power, del,
    knows,       \* deletions whose payload has the vmids
    cut,         \* pools whose cluster_id is that of no row of clusters
    \* the hypervisor
    vm,          \* the pool that made each machine or template
    on,          \* machines that run
    \* auxiliary: pools whose row was dropped by a deletion that knew no
    \* vmids, although the pool had machines or could still make them; and
    \* pools of which a deletion left the machines, for want of a cluster
    lost, stranded

rowVars == <<job, ips, template, recorded>>
ipVars == <<used, entryVm>>
createVars == <<handler, wf, tmpl, plan, clone>>
deleteVars == <<del, knows, cut, lost, stranded>>
vmVars == <<vm, on>>
vars == <<rowVars, ipVars, createVars, power, deleteVars, vmVars>>

Slots(j) == 1 .. Size[j]
IpsOf(j) == {ips[j][i] : i \in Slots(j)}
VmsOf(j) == {plan[j][i] : i \in Slots(j)}

PowerStatuses == {"starting", "stopping", "stopped", "start_failed", "stop_failed"}
Statuses == {"provisioning", "running", "failed", "deleting", "delete_failed"}
              \cup PowerStatuses
Live(j) == job[j] \in Statuses

WfPcs == {"none", "pull", "import", "template", "reserve", "clones", "record",
          "setup", "fail", "ended"}
ClonePcs == {"none", "clone", "mark", "done", "failed"}

TypeOK ==
    /\ job \in [Job -> Statuses \cup {"none", "deleted"}]
    /\ \A j \in Job :
          /\ ips[j] \in [Slots(j) -> Ip \cup {None}]
          /\ plan[j] \in [Slots(j) -> Vmid \cup {None}]
          /\ clone[j] \in [Slots(j) -> ClonePcs]
    /\ template \in [Job -> Vmid \cup {None}]
    /\ recorded \in SUBSET Job
    /\ used \in SUBSET Ip
    /\ entryVm \in [Ip -> Vmid \cup {None}]
    /\ handler \in [Job -> {"idle", "start", "done"}]
    /\ wf \in [Job -> WfPcs]
    /\ tmpl \in [Job -> Vmid \cup {None}]
    /\ power \in [Job -> [{"start", "stop"} -> {"none", "vms", "status"}]]
    /\ del \in [Deletion -> {"none", "begin", "vms", "finish", "release", "done"}]
    /\ knows \in SUBSET Deletion
    /\ vm \in [Vmid -> Job \cup {NoJob}]
    /\ on \in SUBSET Vmid
    /\ cut \in SUBSET Job
    /\ lost \in SUBSET Job /\ stranded \in SUBSET Job

Init ==
    /\ job = [j \in Job |-> "none"]
    /\ ips = [j \in Job |-> [i \in Slots(j) |-> None]]
    /\ template = [j \in Job |-> None]
    /\ recorded = {}
    /\ used = {}
    /\ entryVm = [e \in Ip |-> None]
    /\ handler = [j \in Job |-> "idle"]
    /\ wf = [j \in Job |-> "none"]
    /\ tmpl = [j \in Job |-> None]
    /\ plan = [j \in Job |-> [i \in Slots(j) |-> None]]
    /\ clone = [j \in Job |-> [i \in Slots(j) |-> "none"]]
    /\ power = [j \in Job |-> [a \in {"start", "stop"} |-> "none"]]
    /\ del = [d \in Deletion |-> "none"]
    /\ knows = {}
    /\ vm = [v \in Vmid |-> NoJob]
    /\ on = {}
    /\ cut = {}
    /\ lost = {} /\ stranded = {}

-----------------------------------------------------------------------------
(* update_llm_inference_job_activity raises for a row that is gone, three   *)
(* times; what a caller does then is its own affair.                        *)
SetStatus(j, s) == job' = [job EXCEPT ![j] = IF Live(j) THEN s ELSE @]

(* The least members of S, in order.                                        *)
Lowest(f, S) ==
    /\ \A i, k \in DOMAIN f : i < k => f[i] < f[k]
    /\ \A x \in S, i \in DOMAIN f : x < f[i] => \E k \in DOMAIN f : f[k] = x

FreeVmids == {v \in Vmid : vm[v] = NoJob}

(* /cluster/nextid reserves nothing.                                        *)
NextId(v) == v \in FreeVmids /\ \A w \in FreeVmids : v <= w

(* A machine that runs cannot be removed; what is gone already counts as    *)
(* removed.                                                                 *)
Destroy(V) == vm' = [v \in Vmid |-> IF v \in V \ on THEN NoJob ELSE vm[v]]

(* delete_cluster_activity does not look for pools on the cluster, and their *)
(* rows keep its id.  The same hypervisor may be registered again, with      *)
(* another id, for pools that are created afterwards.                       *)
RemoveCluster ==
    /\ \A j \in Job : handler[j] # "idle" => "cluster_removed" \in Faults[j]
    /\ cut' = {j \in Job : handler[j] # "idle"}
    /\ UNCHANGED <<rowVars, ipVars, createVars, power, del, knows, lost, stranded,
                   vmVars>>

-----------------------------------------------------------------------------
(* create_llm_inference_job.                                                *)

(* The entries and the row are committed together.                          *)
Create(j) ==
    /\ handler[j] = "idle"
    /\ \E f \in [Slots(j) -> Ip \ used] :
          /\ Lowest(f, Ip \ used)
          /\ used' = used \cup {f[i] : i \in Slots(j)}
          /\ ips' = [ips EXCEPT ![j] = f]
    /\ job' = [job EXCEPT ![j] = "provisioning"]
    /\ handler' = [handler EXCEPT ![j] = "start"]
    /\ UNCHANGED <<template, recorded, entryVm, wf, tmpl, plan, clone, power,
                   deleteVars, vmVars>>

Started(j) ==
    wf' = [wf EXCEPT ![j] = IF j \in Harbor THEN "pull" ELSE "reserve"]

StartWorkflow(j) ==
    /\ handler[j] = "start"
    /\ handler' = [handler EXCEPT ![j] = "done"]
    /\ Started(j)
    /\ UNCHANGED <<rowVars, ipVars, tmpl, plan, clone, power, deleteVars, vmVars>>

(* The error is answered; the row stays as it is.                           *)
StartFail(j) ==
    /\ handler[j] = "start"
    /\ handler' = [handler EXCEPT ![j] = "done"]
    /\ \/ "start_failed" \in Faults[j] /\ UNCHANGED wf
       \/ "start_unconfirmed" \in Faults[j] /\ Started(j)
    /\ UNCHANGED <<rowVars, ipVars, tmpl, plan, clone, power, deleteVars, vmVars>>

-----------------------------------------------------------------------------
(* CreateMultiNodeLLMWorkflow: the template.                                *)

WfStep(j, from, to) ==
    /\ wf[j] = from
    /\ wf' = [wf EXCEPT ![j] = to]

(* The vmid is chosen here, hours before anything is made with it.          *)
Pull(j) ==
    /\ WfStep(j, "pull", "import") /\ j \notin cut
    /\ \E v \in Vmid : NextId(v) /\ tmpl' = [tmpl EXCEPT ![j] = v]
    /\ UNCHANGED <<rowVars, ipVars, handler, plan, clone, power, deleteVars, vmVars>>

Import(j) ==
    /\ WfStep(j, "import", "template") /\ j \notin cut
    /\ vm[tmpl[j]] = NoJob
    /\ vm' = [vm EXCEPT ![tmpl[j]] = j]
    /\ UNCHANGED <<rowVars, ipVars, handler, tmpl, plan, clone, power, deleteVars, on>>

(* The vmid was taken meanwhile: another one, and again.                    *)
ImportCollides(j) ==
    /\ wf[j] = "import" /\ j \notin cut
    /\ vm[tmpl[j]] # NoJob
    /\ \E v \in Vmid : NextId(v) /\ tmpl' = [tmpl EXCEPT ![j] = v]
    /\ UNCHANGED <<rowVars, ipVars, handler, wf, plan, clone, power, deleteVars, vmVars>>

(* A step of the template fails for good.  A failed import removes whatever *)
(* has the vmid, if it was reached at all.                                  *)
ImportFail(j) ==
    /\ \/ "import_failed" \in Faults[j]
       \/ wf[j] = "template" /\ ~Live(j)
       \/ FreeVmids = {} \/ j \in cut
    /\ wf[j] \in {"pull", "import", "template"}
    /\ wf' = [wf EXCEPT ![j] = "fail"]
    /\ \/ wf[j] = "import" /\ Destroy({tmpl[j]})
       \/ UNCHANGED vm
    /\ UNCHANGED <<rowVars, ipVars, handler, tmpl, plan, clone, power, deleteVars, on>>

(* convert_to_template_activity, and the row is told.                       *)
Templatize(j) ==
    /\ Live(j) /\ j \notin cut
    /\ WfStep(j, "template", "reserve")
    /\ template' = [template EXCEPT ![j] = tmpl[j]]
    /\ UNCHANGED <<job, ips, recorded, ipVars, handler, tmpl, plan, clone, power,
                   deleteVars, vmVars>>

-----------------------------------------------------------------------------
(* CreateMultiNodeLLMWorkflow: the machines.                                *)

(* One reservation for all nodes; another pool may be told the same vmids   *)
(* until they are made.                                                     *)
ReserveVmids(j) ==
    /\ WfStep(j, "reserve", "clones") /\ j \notin cut
    /\ \E f \in [Slots(j) -> FreeVmids] :
          Lowest(f, FreeVmids) /\ plan' = [plan EXCEPT ![j] = f]
    /\ clone' = [clone EXCEPT ![j] = [i \in Slots(j) |-> "clone"]]
    /\ UNCHANGED <<rowVars, ipVars, handler, tmpl, power, deleteVars, vmVars>>

ReserveFail(j) ==
    /\ Cardinality(FreeVmids) < Size[j] \/ "clone_failed" \in Faults[j] \/ j \in cut
    /\ WfStep(j, "reserve", "fail")
    /\ UNCHANGED <<rowVars, ipVars, handler, tmpl, plan, clone, power, deleteVars, vmVars>>

CloneStep(j, i, from, to) ==
    /\ clone[j][i] = from
    /\ clone' = [clone EXCEPT ![j][i] = to]

CanClone(j, i) ==
    /\ j \notin cut
    /\ vm[plan[j][i]] = NoJob
    /\ j \in Harbor => vm[tmpl[j]] = j

(* The machine is cloned, given its address and booted.                     *)
Clone(j, i) ==
    /\ CloneStep(j, i, "clone", "mark")
    /\ CanClone(j, i)
    /\ vm' = [vm EXCEPT ![plan[j][i]] = j]
    /\ on' = on \cup {plan[j][i]}
    /\ UNCHANGED <<rowVars, ipVars, handler, wf, tmpl, plan, power, deleteVars>>

(* It answers on SSH and has been rebooted: the entry is told, whatever has *)
(* become of the pool.                                                      *)
Mark(j, i) ==
    /\ CloneStep(j, i, "mark", "done")
    /\ used' = used \cup {ips[j][i]}
    /\ entryVm' = [entryVm EXCEPT ![ips[j][i]] = plan[j][i]]
    /\ UNCHANGED <<rowVars, handler, wf, tmpl, plan, power, deleteVars, vmVars>>

(* Nobody removes a machine whose configuration fails.                      *)
CloneFail(j, i) ==
    /\ \/ "clone_failed" \in Faults[j]
       \/ clone[j][i] = "clone" /\ ~CanClone(j, i)
       \/ clone[j][i] = "mark" /\ plan[j][i] \notin on
    /\ \E pc \in {"clone", "mark"} : CloneStep(j, i, pc, "failed")
    /\ UNCHANGED <<rowVars, ipVars, handler, wf, tmpl, plan, power, deleteVars, vmVars>>

SomeDone(j) == \E i \in Slots(j) : clone[j][i] = "done"     \* mutant of AllDone

AllDone(j) == \A i \in Slots(j) : clone[j][i] = "done"

(* The template goes, and the row is told of the machines.                  *)
Record(j) ==
    /\ AllDone(j)
    /\ WfStep(j, "clones", IF Live(j) THEN "setup" ELSE "fail")
    /\ recorded' = IF Live(j) THEN recorded \cup {j} ELSE recorded
    /\ \/ j \in Harbor \ cut /\ Destroy({tmpl[j]})
       \/ (j \notin Harbor \ cut \/ "template_stays" \in Faults[j]) /\ UNCHANGED vm
    /\ UNCHANGED <<job, ips, template, ipVars, handler, tmpl, plan, clone, power,
                   deleteVars, on>>

(* gather raises with the first failure; the other clones go on.            *)
ClonesFail(j) ==
    /\ \E i \in Slots(j) : clone[j][i] = "failed"
    /\ WfStep(j, "clones", "fail")
    /\ UNCHANGED <<rowVars, ipVars, handler, tmpl, plan, clone, power, deleteVars, vmVars>>

(* Drivers, model, Ray and vLLM on the machines, and the row is told.       *)
Setup(j) ==
    /\ Live(j) /\ j \notin cut
    /\ WfStep(j, "setup", "ended")
    /\ SetStatus(j, "running")
    /\ UNCHANGED <<ips, template, recorded, ipVars, handler, tmpl, plan, clone, power,
                   deleteVars, vmVars>>

SetupFail(j) ==
    /\ \/ "setup_failed" \in Faults[j]
       \/ ~Live(j) \/ j \in cut
       \/ ~(VmsOf(j) \subseteq on)
    /\ WfStep(j, "setup", "fail")
    /\ UNCHANGED <<rowVars, ipVars, handler, tmpl, plan, clone, power, deleteVars, vmVars>>

FailSilently(j) == WfStep(j, "fail", "ended") /\ UNCHANGED job  \* mutant of TellFailure

TellFailure(j) ==
    /\ WfStep(j, "fail", "ended")
    /\ \/ SetStatus(j, "failed")
       \/ "update_failed" \in Faults[j] /\ UNCHANGED job

Fail(j) ==
    /\ TellFailure(j)
    /\ UNCHANGED <<ips, template, recorded, ipVars, handler, tmpl, plan, clone, power,
                   deleteVars, vmVars>>

-----------------------------------------------------------------------------
(* pool_vm_action and PoolVMActionWorkflow; a restart is a start here.      *)

Pending == [start |-> "starting", stop |-> "stopping"]
Reached == [start |-> "running", stop |-> "stopped"]
Broken == [start |-> "start_failed", stop |-> "stop_failed"]

(* Only the vmids are looked at, not the status.                            *)
RequestPower(j, a) ==
    /\ a \in Faults[j]
    /\ Live(j) /\ j \in recorded
    /\ power[j][a] = "none"
    /\ SetStatus(j, Pending[a])
    /\ power' = [power EXCEPT ![j][a] = "vms"]
    /\ UNCHANGED <<ips, template, recorded, ipVars, createVars, deleteVars, vmVars>>

PowerVms(j, a) ==
    /\ power[j][a] = "vms" /\ j \notin cut
    /\ \A v \in VmsOf(j) : vm[v] # NoJob
    /\ on' = IF a = "start" THEN on \cup VmsOf(j) ELSE on \ VmsOf(j)
    /\ power' = [power EXCEPT ![j][a] = "status"]
    /\ UNCHANGED <<rowVars, ipVars, createVars, deleteVars, vm>>

PowerDone(j, a) ==
    /\ power[j][a] = "status"
    /\ power' = [power EXCEPT ![j][a] = "none"]
    /\ SetStatus(j, Reached[a])
    /\ UNCHANGED <<ips, template, recorded, ipVars, createVars, deleteVars, vmVars>>

(* Some machines have done it.  The start of the workflow fails, too, but   *)
(* then nobody says so.                                                     *)
PowerFail(j, a) ==
    /\ power[j][a] # "none"
    /\ \/ "power_failed" \in Faults[j]
       \/ power[j][a] = "vms" /\ (j \in cut \/ \E v \in VmsOf(j) : vm[v] = NoJob)
    /\ power' = [power EXCEPT ![j][a] = "none"]
    /\ \E V \in SUBSET VmsOf(j) :
          /\ V # {} => power[j][a] = "vms" /\ \A v \in V : vm[v] # NoJob
          /\ on' = IF a = "start" THEN on \cup V ELSE on \ V
    /\ SetStatus(j, Broken[a]) \/ ("power_failed" \in Faults[j] /\ UNCHANGED job)
    /\ UNCHANGED <<ips, template, recorded, ipVars, createVars, deleteVars, vm>>

-----------------------------------------------------------------------------
(* delete_llm_inference_job and delete_llm_pool_activity.                   *)

Asked(j) == {d \in Deletion : Target[d] = j /\ del[d] # "none"}

(* Any status will do; the payload has the vmids the row has by now.        *)
RequestDelete(d) ==
    LET j == Target[d]
    IN /\ del[d] = "none"
       /\ Live(j)
       /\ del' = [del EXCEPT ![d] = "begin"]
       /\ knows' = IF j \in recorded THEN knows \cup {d} ELSE knows
       /\ UNCHANGED <<rowVars, ipVars, createVars, power, cut, lost, stranded, vmVars>>

DelBegin(d) ==
    /\ del[d] = "begin"
    /\ del' = [del EXCEPT ![d] = IF Live(Target[d]) THEN "vms" ELSE "done"]
    /\ SetStatus(Target[d], "deleting")
    /\ UNCHANGED <<ips, template, recorded, ipVars, createVars, power, knows, cut,
                   lost, stranded, vmVars>>

Listed(d) == IF d \in knows THEN VmsOf(Target[d]) ELSE {}

(* Each is stopped first; whose it is by now does not matter.               *)
Removed(V) ==
    /\ vm' = [v \in Vmid |-> IF v \in V THEN NoJob ELSE vm[v]]
    /\ on' = on \ V

(* Without the cluster's row no machine is touched, and none has failed.    *)
DelVms(d) ==
    LET j == Target[d]
    IN /\ del[d] = "vms"
       /\ del' = [del EXCEPT ![d] = "finish"]
       /\ \/ j \notin cut /\ Removed(Listed(d)) /\ UNCHANGED stranded
          \/ j \in cut /\ stranded' = stranded \cup {j} /\ UNCHANGED vmVars
       /\ UNCHANGED <<rowVars, ipVars, createVars, power, knows, cut, lost>>

ReleaseAnyway(d) == used' = used \ IpsOf(Target[d])      \* mutant of KeepEntries

KeepEntries(d) == UNCHANGED used

GoOn(d) == [del EXCEPT ![d] = "finish"]                  \* mutant of GiveUp

GiveUp(d) == [del EXCEPT ![d] = "done"]

(* Some machine cannot be deleted: the row and its entries are kept.  Or a  *)
(* request raises, and the row says "deleting" for good.                    *)
DelVmsFail(d) ==
    /\ "delete_failed" \in Faults[Target[d]]
    /\ del[d] = "vms" /\ Listed(d) # {} /\ Target[d] \notin cut
    /\ \E V \in SUBSET Listed(d) : V # Listed(d) /\ Removed(V)
    /\ del' = GiveUp(d)
    /\ SetStatus(Target[d], "delete_failed") \/ UNCHANGED job
    /\ KeepEntries(d)
    /\ UNCHANGED <<ips, template, recorded, entryVm, createVars, power, knows, cut,
                   lost, stranded>>

(* The template, if the row names one that the pool made.  The row is read  *)
(* again: it may be gone.                                                   *)
DelTemplate(d) ==
    LET j == Target[d]
    IN /\ del[d] = "finish"
       /\ del' = [del EXCEPT ![d] = IF Live(j) THEN "release" ELSE "done"]
       /\ \/ Live(j) /\ j \in Harbor \ cut /\ Destroy({template[j]})
          \/ (~Live(j) \/ j \notin Harbor \ cut \/ "delete_failed" \in Faults[j]) /\ UNCHANGED vm
       /\ UNCHANGED <<rowVars, ipVars, createVars, power, knows, cut, lost, stranded, on>>

(* The pool has machines the row does not know, or may still make some.     *)
MayHaveMore(j) ==
    \/ handler[j] = "start"
    \/ wf[j] \in {"pull", "import", "template", "reserve"}
    \/ \E i \in Slots(j) : clone[j][i] # "none"

FreedByVm(d) == {e \in Ip : entryVm[e] \in Listed(d)}    \* mutant of Freed

(* The row has the addresses from its creation on.                          *)
Freed(d) == IpsOf(Target[d])

DelRelease(d) ==
    LET j == Target[d]
    IN /\ del[d] = "release"
       /\ del' = [del EXCEPT ![d] = "done"]
       /\ used' = used \ Freed(d)
       /\ entryVm' = [e \in Ip |-> IF e \in Freed(d) THEN None ELSE entryVm[e]]
       /\ job' = [job EXCEPT ![j] = "deleted"]
       /\ lost' = IF Live(j) /\ d \notin knows /\ MayHaveMore(j)
                    THEN lost \cup {j} ELSE lost
       /\ UNCHANGED <<ips, template, recorded, createVars, power, knows, cut, stranded,
                      vmVars>>

-----------------------------------------------------------------------------
Workflow(j) ==
    \/ Pull(j) \/ Import(j) \/ ImportCollides(j) \/ ImportFail(j) \/ Templatize(j)
    \/ ReserveVmids(j) \/ ReserveFail(j) \/ Record(j) \/ ClonesFail(j)
    \/ Setup(j) \/ SetupFail(j) \/ Fail(j)

CloneVm(j, i) == Clone(j, i) \/ Mark(j, i) \/ CloneFail(j, i)

Power(j, a) == PowerVms(j, a) \/ PowerDone(j, a) \/ PowerFail(j, a)

Delete(d) == \/ DelBegin(d) \/ DelVms(d) \/ DelVmsFail(d)
             \/ DelTemplate(d) \/ DelRelease(d)

Next ==
    \/ \E j \in Job :
          \/ Create(j) \/ StartWorkflow(j) \/ StartFail(j) \/ Workflow(j)
          \/ \E i \in Slots(j) : CloneVm(j, i)
          \/ \E a \in {"start", "stop"} : RequestPower(j, a) \/ Power(j, a)
    \/ \E d \in Deletion : RequestDelete(d) \/ Delete(d)
    \/ RemoveCluster

Spec == Init /\ [][Next]_vars

(* An activity ends or is timed out, and a workflow goes on.                *)
Fairness ==
    \A j \in Job :
        /\ WF_vars(Workflow(j))
        /\ \A i \in Slots(j) : WF_vars(CloneVm(j, i))

FairSpec == Spec /\ Fairness

-----------------------------------------------------------------------------
(* Properties.                                                              *)

Twice == \E j \in Job : \E d, e \in Asked(j) : d # e

(* create_llm_inference_job and delete_llm_pool_activity: an entry in use   *)
(* is named by a pool's row, so deleting the pool frees it; but a clone may *)
(* mark it again when the pool was deleted at work.                         *)
AddressHeld ==
    \A e \in used : \E j \in Job : e \in IpsOf(j) /\ (Live(j) \/ j \in lost)

(* delete_llm_pool_activity frees no entry of a pool it could not remove:   *)
(* no two pools have the same address, unless one is deleted twice.         *)
AddressNotShared ==
    \/ Twice
    \/ \A j, k \in Job : Live(j) /\ Live(k) /\ j # k => IpsOf(j) \cap IpsOf(k) = {}

(* create_llm_inference_job and delete_llm_pool_activity reserve: a row     *)
(* holds its addresses from its creation until it is dropped, all of them   *)
(* or none, and no other row is given one of them, whatever fails, is       *)
(* deleted at work or comes late (as long as no pool is deleted twice).     *)
RowHolds == [j \in Job |-> IF Live(j) THEN IpsOf(j) ELSE {}]

Rows == INSTANCE IpReservation WITH Holder <- Job, IPs <- Ip, Wanted <- Size,
                                    held <- RowHolds

ReservesAddresses == Rows!Spec

(* delete_llm_pool_activity: when a pool is deleted by a request that knew  *)
(* its machines, none is left to run on an address that is free again, but  *)
(* if its cluster's row was gone; "only reached if every VM was confirmed   *)
(* deleted" (line 2165) does not say so.                                    *)
DeletedAreGone ==
    \A j \in Job : job[j] = "deleted" /\ j \notin lost \cup stranded =>
        \A v \in VmsOf(j) \cap Vmid : vm[v] # j

(* "running": every machine is there, recorded, and its entry names it, as  *)
(* long as no pool was deleted twice, or while it was being made.           *)
RunningIsComplete ==
    \A j \in Job :
        /\ job[j] = "running"
        /\ Asked(j) = {} /\ lost = {} /\ ~Twice
        => /\ j \in recorded
           /\ \A i \in Slots(j) :
                 /\ vm[plan[j][i]] = j
                 /\ ips[j][i] \in used
                 /\ entryVm[ips[j][i]] = plan[j][i]

(* CreateMultiNodeLLMWorkflow: a row does not say "provisioning" for ever   *)
(* once its workflow runs, unless the update of the row fails.              *)
ProvisioningEnds ==
    \A j \in Job :
        job[j] = "provisioning" /\ wf[j] \notin {"none", "ended"}
          ~> job[j] # "provisioning" \/ "update_failed" \in Faults[j]

(* delete_llm_pool_activity: 'A "proxmox" source means the user picked a    *)
(* pre-existing cluster template that may back other pools -- deleting it   *)
(* would break them, so only ever touch "harbor"': a deletion leaves the    *)
(* machines of other pools alone.                                           *)
OthersUntouched ==
    \A j \in Job : j \in recorded /\ Asked(j) = {} =>
        \A i \in Slots(j) : vm[plan[j][i]] = j
=============================================================================
