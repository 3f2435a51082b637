-------------------------- MODULE PoolProvisioning --------------------------
(***************************************************************************)
(* Provisioning of Automated VM pools on Proxmox: create_pool_activity,    *)
(* the CloneVMWorkflow it starts and awaits, finalize_cloned_machine_      *)
(* activity, and delete_pool_activity, all over one PostgreSQL database at *)
(* READ COMMITTED and one hypervisor.                                      *)
(*                                                                         *)
(* create_pool_activity and delete_pool_activity run on the event loop of  *)
(* the Core worker thread, the clone and finalize activities on the loop   *)
(* of the Infrastructure thread (main.py).  Database and Proxmox calls are *)
(* synchronous inside coroutines: a coroutine keeps its loop from one      *)
(* await to the next, also while PostgreSQL makes it wait for a row lock.  *)
(* The variables core and infra say which coroutine is inside such a       *)
(* segment.                                                                *)
(***************************************************************************)
EXTENDS Naturals, Sequences, FiniteSets

CONSTANTS
    Pool,          \* pool-creation requests, each for a pool_name of its own
    VmIds,         \* vmids the hypervisor may hand out
    IPs,           \* ids of the Ip_Entries rows
    IpPools,       \* names of the rows of Ips_pools
    IpPoolOf,      \* the IP pool each entry belongs to
    IpPoolNames,   \* pool_ip_pool_names of each request, in order
    Count,         \* pool_number_of_vms of each request, one batch of 10 at most
    MaxAttempts,   \* attempts of create_pool_activity (5 in the code)
    MaxTries,      \* attempts of the activities of CloneVMWorkflow (5 and 3)
    MaxDeletes,    \* bound: deletion requests for each pool
    Faults,        \* what may go wrong around the program
    NoPool, NoVm, Nobody

AllFaults == {"cluster_missing", "clone_failed", "clone_lost", "name_skipped",
              "name_collision", "register_failed", "finalize_lost",
              "boot_failed", "delete_failed", "connection_kept"}

ASSUME NumbersAssumption ==
    /\ VmIds \subseteq Nat
    /\ IPs \subseteq Nat
    /\ IsFiniteSet(VmIds)
    /\ IsFiniteSet(IPs)
    /\ Count \in [Pool -> 1 .. 10]
    /\ MaxAttempts \in Nat \ {0}
    /\ MaxTries \in Nat \ {0}
    /\ MaxDeletes \in Nat

ASSUME IpPoolAssumption ==
    /\ IpPoolOf \in [IPs -> IpPools]
    /\ IpPoolNames \in [Pool -> Seq(IpPools)]
    /\ Faults \subseteq AllFaults

ASSUME NullAssumption ==
    /\ NoPool \notin Pool
    /\ NoVm \notin VmIds
    /\ Nobody \notin Pool \X {"create", "delete"}
    /\ Nobody \notin Pool

VARIABLES
    \* rows of the database, as committed
    row,        \* the pools row: not created, present, deleted
    vmids,      \* its pool_vmids
    machines,   \* the machines rows with its pool_id (and its pool_machines)
    ipStatus,   \* Ip_Entries.status
    ipVm,       \* Ip_Entries.vm_id
    \* the hypervisor
    vm,         \* which request each vmid was cloned for
    \* create_pool_activity and its open session
    pc, attempt,
    alloc,      \* entries it set to "used", not committed
    flushed,    \* those of alloc already sent as UPDATE: it holds their locks
    outcome,    \* what PoolCreationWorkflow returned
    \* CloneVMWorkflow
    wfPc, wfTry,
    wfVms,      \* the VMs of clone_vm_activity's answer
    wfTodo,     \* those not finalized yet
    wfFailed,   \* those recorded with an error
    \* delete_pool_activity
    delPc, deletes,
    delVms, delMachines,  \* its pool_vmids and what is left of pool_machines
    delGone, delFailed,   \* the VMs it has deleted, and failed to delete
    \* who is inside a synchronous segment of each event loop
    core, infra

dbVars == <<row, vmids, machines, ipStatus, ipVm>>
actVars == <<pc, attempt, alloc, flushed, outcome>>
wfVars == <<wfPc, wfTry, wfVms, wfTodo, wfFailed>>
delVars == <<delPc, deletes, delVms, delMachines, delGone, delFailed>>
loopVars == <<core, infra>>
vars == <<dbVars, vm, actVars, wfVars, delVars, loopVars>>

Pcs == {"idle", "begin", "alloc", "flush", "abort", "cloning", "finish", "done"}
Outcomes == {"none", "created", "already_exists", "pool_exists_no_machines",
             "cluster_not_found", "insufficient_ips", "failed"}
WfPcs == {"idle", "clone", "post", "finalize", "record", "register", "cleanup",
          "boot", "ok", "error"}
DelPcs == {"idle", "begin", "vms", "machines", "done", "error"}
Coroutine == Pool \X {"create", "delete"}

TypeOK ==
    /\ row \in [Pool -> {"none", "live", "dropped"}]
    /\ vmids \in [Pool -> SUBSET VmIds]
    /\ machines \in [Pool -> SUBSET VmIds]
    /\ ipStatus \in [IPs -> {"unused", "used"}]
    /\ ipVm \in [IPs -> VmIds \cup {NoVm}]
    /\ vm \in [VmIds -> Pool \cup {NoPool}]
    /\ pc \in [Pool -> Pcs]
    /\ attempt \in [Pool -> 0 .. MaxAttempts]
    /\ alloc \in [Pool -> SUBSET IPs]
    /\ flushed \in [Pool -> SUBSET IPs]
    /\ outcome \in [Pool -> Outcomes]
    /\ wfPc \in [Pool -> WfPcs]
    /\ wfTry \in [Pool -> 1 .. MaxTries]
    /\ wfVms \in [Pool -> SUBSET VmIds]
    /\ wfTodo \in [Pool -> SUBSET VmIds]
    /\ wfFailed \in [Pool -> SUBSET VmIds]
    /\ delPc \in [Pool -> DelPcs]
    /\ delVms \in [Pool -> SUBSET VmIds]
    /\ delGone \in [Pool -> SUBSET VmIds]
    /\ delMachines \in [Pool -> SUBSET VmIds]
    /\ delFailed \in [Pool -> SUBSET VmIds]
    /\ deletes \in [Pool -> 0 .. MaxDeletes]
    /\ core \in Coroutine \cup {Nobody}
    /\ infra \in Pool \cup {Nobody}

Init ==
    /\ row = [p \in Pool |-> "none"]
    /\ vmids = [p \in Pool |-> {}]
    /\ machines = [p \in Pool |-> {}]
    /\ ipStatus = [i \in IPs |-> "unused"]
    /\ ipVm = [i \in IPs |-> NoVm]
    /\ vm = [v \in VmIds |-> NoPool]
    /\ pc = [p \in Pool |-> "idle"]
    /\ attempt = [p \in Pool |-> 0]
    /\ alloc = [p \in Pool |-> {}]
    /\ flushed = [p \in Pool |-> {}]
    /\ outcome = [p \in Pool |-> "none"]
    /\ wfPc = [p \in Pool |-> "idle"]
    /\ wfTry = [p \in Pool |-> 1]
    /\ wfVms = [p \in Pool |-> {}]
    /\ wfTodo = [p \in Pool |-> {}]
    /\ wfFailed = [p \in Pool |-> {}]
    /\ delPc = [p \in Pool |-> "idle"]
    /\ delVms = [p \in Pool |-> {}]
    /\ delGone = [p \in Pool |-> {}]
    /\ delMachines = [p \in Pool |-> {}]
    /\ delFailed = [p \in Pool |-> {}]
    /\ deletes = [p \in Pool |-> 0]
    /\ core = Nobody
    /\ infra = Nobody

-----------------------------------------------------------------------------
(* allocate_ips_across_pools: pools are drained in the order of the         *)
(* request, entries by id, until Count are taken.  The loop's query for the *)
(* next pool autoflushes what was set to "used" so far, and so locks it.    *)

Position(p, i) == CHOOSE k \in DOMAIN IpPoolNames[p] :
                     /\ IpPoolNames[p][k] = IpPoolOf[i]
                     /\ \A l \in 1 .. k - 1 : IpPoolNames[p][l] # IpPoolOf[i]

Before(p, i, j) == \/ Position(p, i) < Position(p, j)
                   \/ Position(p, i) = Position(p, j) /\ i < j

Unused(p) == {i \in IPs : /\ ipStatus[i] = "unused"
                          /\ \E k \in DOMAIN IpPoolNames[p] :
                                IpPoolNames[p][k] = IpPoolOf[i]}

Allocated(p) ==
    {i \in Unused(p) :
        Cardinality({j \in Unused(p) : Before(p, j, i)}) < Count[p]}

Autoflushed(p) ==
    {i \in alloc[p] :
        /\ Position(p, i) < Len(IpPoolNames[p])
        /\ Cardinality({j \in alloc[p] : Position(p, j) <= Position(p, i)})
              < Count[p]}

(* Rows whose lock a session other than p's create session holds.           *)
LockedForCreate(p) == UNION {flushed[q] : q \in Pool \ {p}}
Locked == UNION {flushed[q] : q \in Pool}

(* zip(vms, ip_list): the n-th cloned VM gets the n-th allocated entry.      *)
Paired(p, v, i) ==
    /\ v \in wfVms[p]
    /\ i \in alloc[p]
    /\ Cardinality({w \in wfVms[p] : w < v})
          = Cardinality({j \in alloc[p] : Before(p, j, i)})

(* used_ip_values: the entries of every VM the workflow answered with, the   *)
(* ones recorded with an error included.                                     *)
AllocatedIps(p) == alloc[p]                         \* mutant of UsedIps

UsedIps(p) == {i \in alloc[p] : \E v \in wfVms[p] : Paired(p, v, i)}

First(S, v) == v \in S /\ \A w \in S : v <= w

-----------------------------------------------------------------------------
(* create_pool_activity, on the Core loop.                                  *)

EndActivity(p, result) ==
    /\ outcome' = [outcome EXCEPT ![p] = result]
    /\ pc' = [pc EXCEPT ![p] = "done"]
    /\ alloc' = [alloc EXCEPT ![p] = {}]
    /\ flushed' = [flushed EXCEPT ![p] = {}]
    /\ core' = Nobody
    /\ UNCHANGED attempt

(* Rollback, raise, and Temporal tries again while attempts are left.        *)
AttemptsLeft(p) == attempt[p] < MaxAttempts

RetryActivity(p) ==
    IF AttemptsLeft(p)
      THEN /\ attempt' = [attempt EXCEPT ![p] = @ + 1]
           /\ pc' = [pc EXCEPT ![p] = "begin"]
           /\ alloc' = [alloc EXCEPT ![p] = {}]
           /\ flushed' = [flushed EXCEPT ![p] = {}]
           /\ core' = Nobody
           /\ UNCHANGED outcome
      ELSE EndActivity(p, "failed")

(* controllers.create_pool starts PoolCreationWorkflow.                      *)
Request(p) ==
    /\ pc[p] = "idle"
    /\ pc' = [pc EXCEPT ![p] = "begin"]
    /\ attempt' = [attempt EXCEPT ![p] = 1]
    /\ UNCHANGED <<dbVars, vm, alloc, flushed, outcome, wfVars, delVars,
                   loopVars>>

(* A pool of that name exists: an earlier attempt made it.                   *)
PoolHasMachines(p) ==                               \* mutant of PoolExists
    row[p] = "live" /\ machines[p] # {}

PoolExists(p) == row[p] = "live"

CreateAgain(p) ==
    /\ core = Nobody
    /\ pc[p] = "begin"
    /\ PoolExists(p)
    /\ EndActivity(p, IF machines[p] # {} THEN "already_exists"
                                          ELSE "pool_exists_no_machines")
    /\ UNCHANGED <<dbVars, vm, wfVars, delVars, infra>>

(* The row is inserted and committed, then the cluster is looked up.         *)
CreateRow(p) ==
    /\ core = Nobody
    /\ pc[p] = "begin"
    /\ ~PoolExists(p)
    /\ row' = [row EXCEPT ![p] = "live"]
    /\ vmids' = [vmids EXCEPT ![p] = {}]
    /\ machines' = [machines EXCEPT ![p] = {}]
    /\ \/ /\ pc' = [pc EXCEPT ![p] = "alloc"]
          /\ core' = <<p, "create">>
          /\ UNCHANGED <<attempt, alloc, flushed, outcome>>
       \/ /\ "cluster_missing" \in Faults
          /\ EndActivity(p, "cluster_not_found")
    /\ UNCHANGED <<ipStatus, ipVm, vm, wfVars, delVars, infra>>

(* Every pool's entries are read before the first UPDATE is sent.            *)
CreateAllocate(p) ==
    /\ pc[p] = "alloc"
    /\ alloc' = [alloc EXCEPT ![p] = Allocated(p)]
    /\ pc' = [pc EXCEPT ![p] = "flush"]
    /\ UNCHANGED <<dbVars, vm, attempt, flushed, outcome, wfVars, delVars,
                   loopVars>>

(* The autoflush waits for the rows' locks, whatever their status by then.   *)
(* With enough entries the clone workflow is started and awaited, the        *)
(* session left open; with too few the session rolls back.                   *)
CreateFlush(p) ==
    /\ pc[p] = "flush"
    /\ Autoflushed(p) \cap LockedForCreate(p) = {}
    /\ IF Cardinality(alloc[p]) < Count[p]
         THEN /\ pc' = [pc EXCEPT ![p] = "abort"]
              /\ UNCHANGED <<flushed, wfPc, wfTry, core>>
         ELSE /\ pc' = [pc EXCEPT ![p] = "cloning"]
              /\ flushed' = [flushed EXCEPT ![p] = Autoflushed(p)]
              /\ wfPc' = [wfPc EXCEPT ![p] = "clone"]
              /\ wfTry' = [wfTry EXCEPT ![p] = 1]
              /\ core' = Nobody
    /\ UNCHANGED <<dbVars, vm, attempt, alloc, outcome, wfVms, wfTodo, wfFailed,
                   delVars, infra>>

(* After the rollback every entry is read afresh and set to "unused", which  *)
(* is an UPDATE only of those another session made "used" meanwhile.         *)
CreateAbort(p) ==
    /\ pc[p] = "abort"
    /\ \A i \in alloc[p] : ipStatus[i] = "used" => i \notin Locked
    /\ ipStatus' = [i \in IPs |-> IF i \in alloc[p] THEN "unused" ELSE ipStatus[i]]
    /\ EndActivity(p, "insufficient_ips")
    /\ UNCHANGED <<row, vmids, machines, ipVm, vm, wfVars, delVars, infra>>

(* clone_vm answered {"error": ...}.                                         *)
CreateFail(p) ==
    /\ core = Nobody
    /\ pc[p] = "cloning"
    /\ wfPc[p] = "error"
    /\ wfPc' = [wfPc EXCEPT ![p] = "idle"]
    /\ RetryActivity(p)
    /\ UNCHANGED <<dbVars, vm, wfTry, wfVms, wfTodo, wfFailed, delVars, infra>>

(* The answer arrives; the coroutine holds the loop until it has committed.  *)
CreateResume(p) ==
    /\ core = Nobody
    /\ pc[p] = "cloning"
    /\ wfPc[p] = "ok"
    /\ wfPc' = [wfPc EXCEPT ![p] = "idle"]
    /\ pc' = [pc EXCEPT ![p] = "finish"]
    /\ core' = <<p, "create">>
    /\ UNCHANGED <<dbVars, vm, attempt, alloc, flushed, outcome, wfTry,
                   wfVms, wfTodo, wfFailed, delVars, infra>>

(* The session sends status "used" for every entry it allocated; those no VM *)
(* got are then read back and freed.  The refresh of the pool row after the  *)
(* commit raises when the pool was deleted meanwhile.                        *)
CreateFinish(p) ==
    /\ pc[p] = "finish"
    /\ alloc[p] \cap LockedForCreate(p) = {}
    /\ ipStatus' = [i \in IPs |-> IF i \notin alloc[p] THEN ipStatus[i]
                                  ELSE IF i \in UsedIps(p) THEN "used"
                                  ELSE "unused"]
    /\ ipVm' = [i \in IPs |-> IF i \in alloc[p] \ UsedIps(p) THEN NoVm
                              ELSE ipVm[i]]
    /\ IF row[p] = "live" THEN EndActivity(p, "created") ELSE RetryActivity(p)
    /\ UNCHANGED <<row, vmids, machines, vm, wfVars, delVars, infra>>

-----------------------------------------------------------------------------
(* CloneVMWorkflow and its activities, on the Infrastructure loop.          *)

WfStep(p, from, to) ==
    /\ wfPc[p] = from
    /\ wfPc' = [wfPc EXCEPT ![p] = to]

FreeVmIds == {v \in VmIds : vm[v] = NoPool}

(* get_free_vmids: the lowest unused ones; a name that turned up in the      *)
(* machines table meanwhile drops out together with its vmid.  The vmids are *)
(* chosen before the await on Guacamole, the clones are posted after it.     *)
CloneList(p) ==
    /\ infra = Nobody
    /\ WfStep(p, "clone", "post")
    /\ LET lowest == {v \in FreeVmIds :
                        Cardinality({w \in FreeVmIds : w < v}) < Count[p]}
       IN  /\ Cardinality(lowest) = Count[p]
           /\ \E chosen \in SUBSET lowest :
                 /\ chosen = lowest \/ "name_skipped" \in Faults
                 /\ wfVms' = [wfVms EXCEPT ![p] = chosen]
    /\ UNCHANGED <<dbVars, vm, actVars, wfTry, wfTodo, wfFailed, delVars, loopVars>>

VmsCloned(p, cloned) ==
    vm' = [v \in VmIds |-> IF v \in cloned \cap FreeVmIds THEN p ELSE vm[v]]

AnyAnswer(p) == TRUE                                \* mutant of Accepted

(* Proxmox accepts every clone of the batch.                                 *)
Accepted(p) == wfVms[p] \subseteq FreeVmIds

ClonePost(p) ==
    /\ infra = Nobody
    /\ WfStep(p, "post", "finalize")
    /\ Accepted(p)
    /\ VmsCloned(p, wfVms[p])
    /\ wfTodo' = [wfTodo EXCEPT ![p] = wfVms[p]]
    /\ wfFailed' = [wfFailed EXCEPT ![p] = {}]
    /\ wfTry' = [wfTry EXCEPT ![p] = 1]
    /\ UNCHANGED <<dbVars, actVars, wfVms, delVars, loopVars>>

(* Proxmox refuses one of the clones, because the vmid is taken or for any   *)
(* other reason: the answer is an error and drops the VMs cloned before it.  *)
ClonePostFail(p) ==
    /\ infra = Nobody
    /\ WfStep(p, "post", "error")
    /\ \E v \in wfVms[p] :
          LET earlier == {w \in wfVms[p] : w < v}
          IN  /\ v \notin FreeVmIds \/ "clone_failed" \in Faults
              /\ earlier \subseteq FreeVmIds
              /\ VmsCloned(p, earlier)
    /\ UNCHANGED <<dbVars, actVars, wfTry, wfVms, wfTodo, wfFailed, delVars, loopVars>>

(* The clones are made, but the worker dies or the ten minutes pass before   *)
(* the completion is recorded: the activity runs again from its start.       *)
ClonePostLost(p) ==
    /\ infra = Nobody
    /\ "clone_lost" \in Faults
    /\ Accepted(p)
    /\ VmsCloned(p, wfVms[p])
    /\ IF wfTry[p] < MaxTries
         THEN /\ WfStep(p, "post", "clone")
              /\ wfTry' = [wfTry EXCEPT ![p] = @ + 1]
         ELSE /\ WfStep(p, "post", "error")
              /\ UNCHANGED wfTry
    /\ UNCHANGED <<dbVars, actVars, wfVms, wfTodo, wfFailed, delVars, loopVars>>

NextVmUnmarked(p, v, failed) ==                     \* mutant of NextVm
    /\ wfTodo' = [wfTodo EXCEPT ![p] = @ \ {v}]
    /\ wfTry' = [wfTry EXCEPT ![p] = 1]
    /\ UNCHANGED wfFailed

(* The VM is done with: its row is made, or it is recorded with an error.    *)
NextVm(p, v, failed) ==
    /\ wfTodo' = [wfTodo EXCEPT ![p] = @ \ {v}]
    /\ wfFailed' = [wfFailed EXCEPT ![p] = IF failed THEN @ \cup {v} ELSE @]
    /\ wfTry' = [wfTry EXCEPT ![p] = 1]

FinalizeForever(p, from) ==                         \* mutant of FinalizeAgain
    WfStep(p, from, "finalize") /\ UNCHANGED <<wfTry, wfVms, wfTodo, wfFailed>>

(* finalize_cloned_machine_activity raises: it is retried, and when the      *)
(* attempts are used up the workflow fails.                                  *)
FinalizeAgain(p, from) ==
    /\ IF wfTry[p] < MaxTries
         THEN /\ WfStep(p, from, "finalize")
              /\ wfTry' = [wfTry EXCEPT ![p] = @ + 1]
         ELSE /\ WfStep(p, from, "error")
              /\ UNCHANGED wfTry
    /\ UNCHANGED <<wfVms, wfTodo, wfFailed>>

(* finalize_cloned_machine_activity opens its own session.                   *)
FinalizeBegin(p) ==
    /\ infra = Nobody
    /\ wfTodo[p] # {}
    /\ WfStep(p, "finalize", "record")
    /\ infra' = p
    /\ UNCHANGED <<dbVars, vm, actVars, wfTry, wfVms, wfTodo, wfFailed, delVars, core>>

FinalizeNoPool(p) ==
    /\ infra = p
    /\ row[p] # "live"
    /\ WfStep(p, "record", "finalize")
    /\ \E v \in VmIds : First(wfTodo[p], v) /\ NextVm(p, v, TRUE)
    /\ infra' = Nobody
    /\ UNCHANGED <<dbVars, vm, actVars, wfVms, delVars, core>>

VmidReplaced(p, v) ==                               \* mutant of VmidListed
    vmids' = [vmids EXCEPT ![p] = {v}]

VmidListed(p, v) == vmids' = [vmids EXCEPT ![p] = @ \cup {v}]

(* The entry becomes used by the VM and the vmid joins pool_vmids, committed *)
(* before create_machine_activity is awaited.  The commit waits for the      *)
(* entry's row lock.                                                         *)
FinalizeRecord(p) ==
    /\ infra = p
    /\ row[p] = "live"
    /\ WfStep(p, "record", "register")
    /\ \E v \in VmIds, i \in IPs :
          /\ First(wfTodo[p], v)
          /\ Paired(p, v, i)
          /\ i \notin Locked
          /\ ipStatus' = [ipStatus EXCEPT ![i] = "used"]
          /\ ipVm' = [ipVm EXCEPT ![i] = v]
          /\ VmidListed(p, v)
    /\ infra' = Nobody
    /\ UNCHANGED <<row, machines, vm, actVars, wfTry, wfVms, wfTodo, wfFailed,
                   delVars, core>>

(* A Guacamole connection of the VM's name exists, surely so when an earlier *)
(* attempt made it.                                                          *)
NameTaken(p, v) == v \in machines[p] \/ "name_collision" \in Faults

(* create_machine_activity: Guacamole connection, machines row,              *)
(* pool_machines.                                                            *)
Register(p) ==
    /\ infra = Nobody
    /\ row[p] = "live"
    /\ \E v \in VmIds :
          /\ First(wfTodo[p], v)
          /\ v \notin machines[p]
          /\ machines' = [machines EXCEPT ![p] = @ \cup {v}]
          /\ NextVm(p, v, FALSE)
    /\ WfStep(p, "register", "finalize")
    /\ UNCHANGED <<row, vmids, ipStatus, ipVm, vm, actVars, wfVms, delVars, loopVars>>

(* The same, but the completion is lost: the next attempt meets its own      *)
(* connection.                                                               *)
RegisterLost(p) ==
    /\ infra = Nobody
    /\ "finalize_lost" \in Faults
    /\ row[p] = "live"
    /\ \E v \in VmIds : /\ First(wfTodo[p], v)
                        /\ v \notin machines[p]
                        /\ machines' = [machines EXCEPT ![p] = @ \cup {v}]
    /\ FinalizeAgain(p, "register")
    /\ UNCHANGED <<row, vmids, ipStatus, ipVm, vm, actVars, delVars, loopVars>>

(* Guacamole fails, or the pool row is gone.                                 *)
RegisterFail(p) ==
    /\ infra = Nobody
    /\ row[p] # "live" \/ "register_failed" \in Faults
    /\ FinalizeAgain(p, "register")
    /\ UNCHANGED <<dbVars, vm, actVars, delVars, loopVars>>

RegisterCollision(p) ==
    /\ infra = Nobody
    /\ WfStep(p, "register", "cleanup")
    /\ row[p] = "live"
    /\ \E v \in VmIds : First(wfTodo[p], v) /\ NameTaken(p, v)
    /\ infra' = p
    /\ UNCHANGED <<dbVars, vm, actVars, wfTry, wfVms, wfTodo, wfFailed, delVars, core>>

(* _cleanup_unregisterable_vm: the VM is deleted if Proxmox does it, the     *)
(* entry and the vmid are given back in any case.                            *)
Cleanup(p) ==
    /\ infra = p
    /\ WfStep(p, "cleanup", "finalize")
    /\ infra' = Nobody
    /\ \E v \in VmIds :
          /\ First(wfTodo[p], v)
          /\ NextVm(p, v, TRUE)
          /\ IF row[p] = "live"
               THEN /\ \/ vm' = [vm EXCEPT ![v] = NoPool]
                       \/ "delete_failed" \in Faults /\ UNCHANGED vm
                    /\ \E i \in IPs :
                          /\ Paired(p, v, i)
                          /\ i \notin Locked
                          /\ ipStatus' = [ipStatus EXCEPT ![i] = "unused"]
                          /\ ipVm' = [ipVm EXCEPT ![i] = NoVm]
                    /\ vmids' = [vmids EXCEPT ![p] = @ \ {v}]
               ELSE UNCHANGED <<vm, ipStatus, ipVm, vmids>>
    /\ UNCHANGED <<row, machines, actVars, wfVms, delVars, core>>

Ready(p) == wfVms[p] \ wfFailed[p]

(* The provisioning steps look a machine up by its vm_id alone.              *)
OneRow(v) == Cardinality({q \in Pool : v \in machines[q]}) <= 1

(* Every VM of the batch has been through finalize.  wait_for_vm_ready needs *)
(* the pool row, assign_ip_to_vm the VM, the status steps a unique row.      *)
BootAssign(p) ==
    /\ infra = Nobody
    /\ wfTodo[p] = {}
    /\ WfStep(p, "finalize", "boot")
    /\ Ready(p) # {} => row[p] = "live"
    /\ \A v \in Ready(p) : vm[v] # NoPool /\ OneRow(v)
    /\ UNCHANGED <<dbVars, vm, actVars, wfTry, wfVms, wfTodo, wfFailed, delVars,
                   loopVars>>

BootFail(p) ==
    /\ infra = Nobody
    /\ wfTodo[p] = {}
    /\ WfStep(p, "finalize", "error")
    /\ Ready(p) # {}
    /\ \/ "boot_failed" \in Faults
       \/ row[p] # "live"
       \/ \E v \in Ready(p) : vm[v] = NoPool \/ ~OneRow(v)
    /\ UNCHANGED <<dbVars, vm, actVars, wfTry, wfVms, wfTodo, wfFailed, delVars,
                   loopVars>>

(* Domain join and power-on report their errors without failing the workflow.*)
BootDone(p) ==
    /\ infra = Nobody
    /\ WfStep(p, "boot", "ok")
    /\ UNCHANGED <<dbVars, vm, actVars, wfTry, wfVms, wfTodo, wfFailed, delVars,
                   loopVars>>

-----------------------------------------------------------------------------
(* delete_pool_activity, on the Core loop.  Deleting VMs never suspends it.  *)

DelStep(p, from, to) ==
    /\ delPc[p] = from
    /\ delPc' = [delPc EXCEPT ![p] = to]

(* controllers.delete_pool answers 404 without a row and does not wait.      *)
RequestDelete(p) ==
    /\ row[p] = "live"
    /\ delPc[p] \in {"idle", "done", "error"}
    /\ deletes[p] < MaxDeletes
    /\ deletes' = [deletes EXCEPT ![p] = @ + 1]
    /\ delPc' = [delPc EXCEPT ![p] = "begin"]
    /\ UNCHANGED <<dbVars, vm, actVars, wfVars, delVms, delMachines, delGone,
                   delFailed, loopVars>>

DeleteBegin(p) ==
    /\ core = Nobody
    /\ IF row[p] = "live"
         THEN /\ DelStep(p, "begin", "vms")
              /\ core' = <<p, "delete">>
         ELSE /\ DelStep(p, "begin", "error")
              /\ UNCHANGED core
    /\ delVms' = [delVms EXCEPT ![p] = vmids[p]]
    /\ delMachines' = [delMachines EXCEPT ![p] = machines[p]]
    /\ delGone' = [delGone EXCEPT ![p] = {}]
    /\ delFailed' = [delFailed EXCEPT ![p] = {}]
    /\ UNCHANGED <<dbVars, vm, actVars, wfVars, deletes, infra>>

DelTodo(p) == delVms[p] \ (delGone[p] \cup delFailed[p])

EntriesOf(v) == {i \in IPs : ipVm[i] = v /\ ipStatus[i] = "used"}

(* The VM goes and then its entries; the commit waits for their locks.       *)
DeleteVm(p) ==
    /\ delPc[p] = "vms"
    /\ \E v \in VmIds :
          /\ First(DelTodo(p), v)
          /\ vm[v] # NoPool
          /\ EntriesOf(v) \cap Locked = {}
          /\ vm' = [vm EXCEPT ![v] = NoPool]
          /\ ipStatus' = [i \in IPs |-> IF i \in EntriesOf(v) THEN "unused"
                                        ELSE ipStatus[i]]
          /\ ipVm' = [i \in IPs |-> IF i \in EntriesOf(v) THEN NoVm ELSE ipVm[i]]
          /\ delGone' = [delGone EXCEPT ![p] = @ \cup {v}]
    /\ UNCHANGED <<row, vmids, machines, actVars, wfVars, delPc, deletes, delVms,
                   delMachines, delFailed, loopVars>>

(* delete_proxmox_vm raises, also when no node knows the vmid any more.      *)
DeleteVmFail(p) ==
    /\ delPc[p] = "vms"
    /\ \E v \in VmIds :
          /\ First(DelTodo(p), v)
          /\ vm[v] = NoPool \/ "delete_failed" \in Faults
          /\ delFailed' = [delFailed EXCEPT ![p] = @ \cup {v}]
    /\ UNCHANGED <<dbVars, vm, actVars, wfVars, delPc, deletes, delVms,
                   delMachines, delGone, loopVars>>

AllVmsTried(p) == DelTodo(p) = {}                   \* mutant of AllVmsGone

(* vm_deletion_failed: nothing of the pool is deleted, pool_vmids included.  *)
AllVmsGone(p) == DelTodo(p) = {} /\ delFailed[p] = {}

DeleteGiveUp(p) ==
    /\ DelTodo(p) = {}
    /\ ~AllVmsGone(p)
    /\ DelStep(p, "vms", "error")
    /\ core' = Nobody
    /\ UNCHANGED <<dbVars, vm, actVars, wfVars, deletes, delVms, delMachines,
                   delGone, delFailed, infra>>

(* delete_connection suspends the coroutine before each machine.             *)
LoopKeptFor(p, left) == core' = IF left = {} THEN <<p, "delete">> ELSE Nobody

DeleteVmsDone(p) ==
    /\ AllVmsGone(p)
    /\ DelStep(p, "vms", "machines")
    /\ LoopKeptFor(p, delMachines[p])
    /\ UNCHANGED <<dbVars, vm, actVars, wfVars, deletes, delVms, delMachines,
                   delGone, delFailed, infra>>

(* The machines listed when the activity began, each after its Guacamole     *)
(* connection; an error there is swallowed and leaves the row.               *)
DeleteMachine(p) ==
    /\ core = Nobody
    /\ delPc[p] = "machines"
    /\ \E v \in VmIds :
          /\ First(delMachines[p], v)
          /\ delMachines' = [delMachines EXCEPT ![p] = @ \ {v}]
          /\ \/ machines' = [machines EXCEPT ![p] = @ \ {v}]
             \/ "connection_kept" \in Faults /\ UNCHANGED machines
          /\ LoopKeptFor(p, delMachines[p] \ {v})
    /\ UNCHANGED <<row, vmids, ipStatus, ipVm, vm, actVars, wfVars, delPc,
                   deletes, delVms, delGone, delFailed, infra>>

DeleteRow(p) ==
    /\ delMachines[p] = {}
    /\ DelStep(p, "machines", "done")
    /\ row' = [row EXCEPT ![p] = "dropped"]
    /\ core' = Nobody
    /\ UNCHANGED <<vmids, machines, ipStatus, ipVm, vm, actVars, wfVars, deletes,
                   delVms, delMachines, delGone, delFailed, infra>>

-----------------------------------------------------------------------------
Create(p) == \/ CreateAgain(p) \/ CreateRow(p) \/ CreateAllocate(p)
             \/ CreateFlush(p) \/ CreateAbort(p) \/ CreateFail(p)
             \/ CreateResume(p) \/ CreateFinish(p)

Clone(p) == \/ CloneList(p) \/ ClonePost(p) \/ ClonePostFail(p) \/ ClonePostLost(p)
            \/ FinalizeBegin(p) \/ FinalizeNoPool(p) \/ FinalizeRecord(p)
            \/ Register(p) \/ RegisterLost(p) \/ RegisterFail(p)
            \/ RegisterCollision(p) \/ Cleanup(p)
            \/ BootAssign(p) \/ BootFail(p) \/ BootDone(p)

Delete(p) == \/ DeleteBegin(p) \/ DeleteVm(p) \/ DeleteVmFail(p)
             \/ DeleteGiveUp(p) \/ DeleteVmsDone(p) \/ DeleteMachine(p)
             \/ DeleteRow(p)

(* Nothing is left to do: without this a wait for a row lock that nobody     *)
(* will release would look like the end.                                     *)
Finished ==
    /\ \A p \in Pool : /\ pc[p] = "done"
                       /\ delPc[p] \in {"idle", "done", "error"}
    /\ UNCHANGED vars

Next == \/ \E p \in Pool : \/ Request(p) \/ RequestDelete(p)
                         \/ Create(p) \/ Clone(p) \/ Delete(p)
        \/ Finished

Spec == Init /\ [][Next]_vars

(* Both loops serve every coroutine that can go on, and Temporal hands every *)
(* scheduled activity to a worker.  Nobody has to ask for anything.          *)
Fairness == \A p \in Pool : WF_vars(Create(p)) /\ WF_vars(Clone(p))
                            /\ WF_vars(Delete(p))

FairSpec == Spec /\ Fairness

-----------------------------------------------------------------------------
(* Properties.                                                              *)

(* Every registered machine of a pool is one delete_pool_activity would find *)
(* on the hypervisor: create_machine_activity never registers a VM that      *)
(* finalize has not recorded in pool_vmids, and _cleanup_unregisterable_vm   *)
(* never takes back the vmid of a registered one.                            *)
MachineReachable ==
    \A p \in Pool : row[p] = "live" => machines[p] \subseteq vmids[p]

(* The retries of create_pool_activity never clone a second time: until its  *)
(* pool is deleted a request costs at most the VMs it asked for.             *)
ClonesBounded ==
    \A p \in Pool : deletes[p] = 0 =>
        Cardinality({v \in VmIds : vm[v] = p}) <= Count[p]

(* The comment in delete_pool_activity: the pool row, the only pointer to    *)
(* its VMs, goes only when each VM it listed is gone from the hypervisor.    *)
DropLeavesNoListedVm ==
    [][\A p \in Pool : row[p] = "live" /\ row'[p] = "dropped" =>
          \A v \in delVms[p] : vm[v] # p]_vars

(* As long as no deletion was asked for twice, delete_pool_activity removes  *)
(* no VM of another pool, although get_free_vmids reuses vmids.              *)
DeletionSparesOthers ==
    [][\A p \in Pool, v \in VmIds :
          /\ \A q \in Pool : deletes[q] <= 1
          /\ v \in delGone'[p] \ delGone[p]
          => vm[v] = p]_vars

(* What a "created" answer promises, collisions and retries included: every  *)
(* VM reported without an error exists, is registered, is listed for         *)
(* deletion and has an IP of its own.                                        *)
CreatedIsComplete ==
    \A p \in Pool : outcome[p] = "created" /\ deletes[p] = 0 =>
        \A v \in Ready(p) :
            /\ vm[v] = p
            /\ v \in machines[p] \cap vmids[p]
            /\ \E i \in IPs : ipStatus[i] = "used" /\ ipVm[i] = v

(* While nothing was deleted and no VM was given up, an entry marked "used"  *)
(* names a VM in the pool_vmids of an existing pool, whose deletion will     *)
(* free it: neither a failed nor a repeated creation leaks an IP.            *)
UsedIpReclaimable ==
    (\A p \in Pool : deletes[p] = 0 /\ wfFailed[p] = {}) =>
        \A i \in IPs : ipStatus[i] = "used" =>
            \E p \in Pool : row[p] = "live" /\ ipVm[i] \in vmids[p]

(* Every accepted request is answered: PoolCreationWorkflow ends, and so     *)
(* does PoolDeletionWorkflow.                                                *)
RequestsEnd ==
    \A p \in Pool :
        /\ pc[p] = "begin" ~> pc[p] = "done"
        /\ delPc[p] = "begin" ~> delPc[p] \in {"done", "error"}

(* The docstring of finalize_cloned_machine_activity: run on a VM of a pool  *)
(* that is there, it marks the IP, records the vmid and goes on.             *)
FinalizeCompletes == \A p \in Pool : wfPc[p] = "record" ~> wfPc[p] # "record"

(* The docstring of allocate_ips_across_pools: it allocates unused IPs, so   *)
(* two pools never register machines that were given the same one.           *)
NoSharedIp ==
    \A p, q \in Pool : p # q =>
        \A v \in machines[p], w \in machines[q], i \in IPs :
            ~(Paired(p, v, i) /\ Paired(q, w, i))

(* The message of delete_pool_activity: the pool was kept so that the VMs it *)
(* names can be retried, so one of them is still there.                      *)
GiveUpIsRetriable ==
    [][\A p \in Pool : delPc[p] = "vms" /\ delPc'[p] = "error" =>
          \E v \in delFailed[p] : vm[v] = p]_vars

(* The comment above _cleanup_unregisterable_vm's call: the IP of a VM that  *)
(* cannot be registered is released, so a used entry names its VM.           *)
UsedIpNamesVm == \A i \in IPs : ipStatus[i] = "used" => ipVm[i] # NoVm
=============================================================================
