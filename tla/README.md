# Formal models of the DaaS backend

TLA+ specifications of the parts of this repository that keep state across
processes: they are checked on small instances with TLC and, where it matters
most, proved for every instance with TLAPS. The code is the reference:
`PROJECT.json` names, for every definition, the lines it stands for.

| module | models | proofs |
|---|---|---|
| `PoolProvisioning` | creation and deletion of Automated VM pools on Proxmox | `PoolProvisioning_proofs` |
| `HyperVPool` | growth, rebuild and deletion of an Automated pool on Hyper-V | `HyperVPool_proofs` |
| `MachineControl` | rebuild, power and the status poller of pool machines | `MachineControl_proofs` |
| `MachineAccess` | machines of a Manual pool, their users, Guacamole | `MachineAccess_proofs` |
| `LxcRestore` | deployment of library items as LXC containers | `Library_proofs` |
| `IpReservation` | what a reservation of addresses promises (abstract) | `Library_proofs`, `LlmInference_proofs` |
| `LibraryItem` | upload, push to Harbor and deletion of library items | `Library_proofs` |
| `HarborDeploy` | Harbor on a Kubernetes cluster | `HarborDeploy_proofs` |
| `LlmInference` | LLM inference pools: rows, addresses, templates, machines | `LlmInference_proofs` |
| `LlmServing` | what the machines of such a pool are made to serve | `LlmInference_proofs` |
| `OpenWebUi` | the LLM, vector database and Keycloak connections of an OpenWebUI | `OpenWebUi_proofs` |

Each `MC<module>` gives one of them the constants of an instance. `MCPools`,
`MCPoolMachines`, `MCLibrary`, `MCLlmPools` and `MCPortal` put two of them into
one run; the parts of such a run share no variable, and each is explored
while the other rests in one of its initial states.

## 1. Inventory

One FastAPI process serves HTTP on uvicorn's event loop and starts, at startup
(`src/main.py:115-199`), worker threads for Temporal, each with an event loop of
its own: Core (pools, machines), Identity, Infrastructure (Proxmox, Hyper-V,
clusters), Reporting, and one for each kind of long job (library, LXC, Harbor,
Kubernetes, LLM...). Handlers start a workflow and await it, or answer 202.
Activities read and write PostgreSQL through SQLAlchemy sessions of their own
(READ COMMITTED, autoflush; `src/db_configuration/config.py`) and call Proxmox,
Hyper-V, Kubernetes, Harbor, Guacamole and Keycloak.

Database and hypervisor calls are synchronous. Inside an `async` activity they
keep the event loop, so such an activity runs without interruption from one
`await` to the next, even while PostgreSQL lets it wait for a row lock.
Synchronous activities run on a thread pool and interleave at every call. What
several components share is mainly the table `Ip_Entries` (status "unused" or
"used", `vm_id`) and the vmids of the hypervisor.

| component | state | operations | interaction | what is hard | what makes it correct |
|---|---|---|---|---|---|
| Pool creation and deletion | rows `pools`, `machines`, entries of `Ip_Entries` | create, update, delete | starts and awaits `CloneVMWorkflow`; Guacamole connections | a session open across a workflow; retries of work done in part; vmids reused; two event loops | every machine can be found and deleted, no address leaked or shared, no VM of another pool touched, every request ends |
| Hyper-V pools | the same rows, VMs of a host | update, rebuild of one or all, delete | an agent on the host | attempts that outlive their time limit; lists and counts written back whole | every machine's VM is listed; no VM is lost without a trace in somebody's answer or in a workflow's result |
| LXC deployment | `lxc_restore_jobs`, entries, containers | deploy, the workflow's four phases, delete record | SSH to Proxmox from five threads; library items | a timeout whose thread goes on; nextid reserves nothing; two commits for one failure | an address has one holder; failure frees it, success keeps it |
| IP pools | `Ips_pools`, `Ip_Entries` | create, list, allocate, release, delete | used by pools, LXC, LLM inference | check and use in different transactions | an entry in use belongs to something that can release it |
| Database sessions | open transactions, row locks | flush, commit, rollback | all components | autoflush takes locks early | no wait for a lock whose owner waits |
| Worker loops | which coroutine has the loop | start, restart of a dead thread | all workflows | a synchronous wait blocks all | every scheduled activity runs |
| Machine lifecycle | `machines`, `pool_machines`, `workflow_status`, users | create, update, delete, assign, rebuild, power | Guacamole, pools, poller | read, await, write back of whole lists and dictionaries | list, rows and connections agree; who is assigned can open the machine; a lost machine is shown as lost |
| Status polling | a cron workflow, `workflow_status` | ensure running, fold statuses | machines | asked, awaited, written back | tracking ends, the power state is shown |
| Library items, Harbor push | `library_items` (status, push_status), files, images | create, upload, push, delete | WebDAV, Harbor, Temporal | the handler writes the status after it started the workflow that writes it too | a status tells the truth in the end; no orphaned image or file |
| Kubernetes deployment | a row, a namespace, an importer DaemonSet | deploy, poll, delete | library, external clusters | deletion during a deployment; a thread that outlives its workflow | nothing in the cluster without a row; "deployed" means installed |
| LLM inference pools | a row, machines, a template, entries | create, start, stop, restart, delete | Harbor, hypervisor, SSH | several activities at once on several machines; cut connections that look like success; vmids reused | addresses held and not shared; deletion leaves nothing; "running" serves the model |
| App deployment, LLM and Keycloak connection | a row, the pod's environment, a config table | connect, disconnect, sync, repair | OpenWebUI, Keycloak, LLM pools | three copies, two users, patches that replace the whole Deployment | the copies agree; somebody can log in |
| Change listener | one LISTEN connection | update of a connection | Guacamole | notifications lost while disconnected | connections follow rows |
| Guacamole, clusters, schedules, retention, RBAC/LDAP/Keycloak, SSL, IPMI, telemetry, help, pod storage, HTTP layer, encryption | rows of their own or none | create, read, update, delete | one external service each | little that a test would not reach | - |

`components` in `PROJECT.json` lists each with its files and status.

## 2. PoolProvisioning

### State and actions

Each element of `Pool` is one creation request with a name of its own. The state
is what the program keeps: the committed rows (`row`, `vmids`, `machines`,
`ipStatus`, `ipVm`), the hypervisor (`vm`: for which request a vmid was
cloned), the local state of `create_pool_activity` and its **open session**
(`pc`, `attempt`, `alloc`, `flushed`), of `CloneVMWorkflow` (`wf...`) and of
`delete_pool_activity` (`del...`), and who is inside a synchronous segment of
the Core and Infrastructure loops (`core`, `infra`). A segment between two awaits is one
action, unless another loop or thread can act in between; then it is cut at
each commit.

| actions | code |
|---|---|
| `Request`, `RequestDelete` | `controllers.create_pool`, `delete_pool` |
| `CreateAgain`, `CreateRow` | the check for an existing pool, the insert, the cluster lookup |
| `CreateAllocate`, `CreateFlush`, `CreateAbort` | `allocate_ips_across_pools`, the flush before the clone workflow is awaited, too few addresses |
| `CreateFail`, `CreateResume`, `CreateFinish` | the answer of the clone workflow; release of entries left over, commit, refresh |
| `CloneList`, `ClonePost*` | `clone_vm_activity`: names, free vmids, then the clone requests |
| `FinalizeBegin` ... `Cleanup` | `finalize_cloned_machine_activity`, `create_machine_activity`, `_cleanup_unregisterable_vm`, one VM after the other |
| `BootAssign`, `BootFail`, `BootDone` | steps 2-5 of the workflow: boot, address, status |
| `DeleteBegin` ... `DeleteRow` | `delete_pool_activity`: each VM with its entries, each machine, the row |

Uncommitted writes are visible to their own session only: `alloc` is not part
of `ipStatus` until `CreateFinish`. `flushed` are the entries whose UPDATE was
sent and whose row lock the session keeps; an action of another session that
writes such a row is not enabled, and while it waits its loop is taken.

### Properties

Checked on the runs `pool_two` (two pools, one of one VM and one of two, three
addresses, six vmids, clones and VM deletions that fail) and `pool_one` (one pool
of two VMs, every fault, fairness):

* `MachineReachable`: a machine's VM is always in the pool's `pool_vmids`, the
  only thing deletion goes by.
* `ClonesBounded`: retries never clone twice.
* `DropLeavesNoListedVm`: a pool's row goes only when every VM it lists is gone.
* `DeletionSparesOthers`: deletion removes no VM of another pool, although the
  hypervisor reuses vmids and clone lists them before an await.
* `CreatedIsComplete`: what the answer "created" promises of each VM.
* `UsedIpReclaimable`: no address is leaked by failed or repeated creations.
* `RequestsEnd`: every accepted creation and deletion is answered.

Four statements of the repository are **not** what the code does; each has a run
that TLC refutes and an entry in `findings`:

* `pool_shared_ip`: `allocate_ips_across_pools` commits nothing, so a second
  creation is given the same addresses while the first is cloning.
* `pool_lock_wait`: with two IP pools the second query autoflushes the first
  pool's UPDATEs; `finalize` then waits for the row lock of the session that
  awaits it. Nobody gives way.
* `pool_delete_retry`: after a deletion that failed for one VM, the VMs that are
  gone count as failures of every retry.
* `pool_collision`: the address released for a VM whose name collides is set to
  "used" again by the pending write of the creating session.

### Bounds

Two retries instead of five (one is enough to meet the state another attempt
left, two would repeat it), one or two VMs, three entries so that two pools
contend and one of the three can stay free, as many vmids as two attempts can
use (eight under every fault, where clones are left behind), one deletion per
pool (two in `pool_delete_retry`). Two pools meet only the two faults that leave
work for a second attempt and VMs for a second deletion; with one more fault the
run has 4.9 million states. `MaxDeletes` is the only bound in a guard.
`VmIds` bounds what the hypervisor hands out: a clone that finds none left
fails, as an exhausted storage would make it.

### Fairness

`WF` of the creation, the clone workflow and the deletion of each pool. Each
event loop serves its ready coroutines in turn, Temporal hands every scheduled
activity to a worker or times it out, and PostgreSQL grants a lock once it is
free. Requests are not fair. An action disabled by a lock is not owed anything:
that is how `pool_lock_wait` can fail under the same fairness.

## 3. The other modules

### HyperVPool

`GrowthStep` is one update of the pool with its attempts and the clone workflow
it awaits, `RebuildStep` a rebuild of one machine or of all, `Removal` the deletion.
An activity that exceeds its time limit is not cancelled: `CloneLate` and
`AttemptLate` are steps of attempts Temporal has given up, which may come after
any later one. `host` is what the agent has; ids are never reused, names may be.

Checked in `pool_two` on ten mixes of two updates, two rebuilds and a deletion,
with up to two mishaps each, two machines that one update makes three, six ids:

* `RowsAreListed`: the id in a machine's row is in the pool's list, the only thing
  deletion goes by, but for ids that a write of the whole list dropped (`mislaid`).
* `LossHasReport`: a machine that rebuilds of it alone left without its VM was
  answered with an error (`told`). Of what is lost with the whole pool nobody is
  told: `pool_rebuild` and `delete_pool` answer when the workflow has started, and
  `HyperVPoolRebuildWorkflow` ends with "success" and the errors inside
  `machine_results`, which nothing reads. There the property says only that the loss
  is in such a result (`buried`), or that a rebuild or deletion is still at work.

All mixes at once with one mishap were explored to 6.8 million states without
a violation, but not to the end.

What a reader of the code should know, each of it behaviour of the model:
`_cleanup_unregisterable_vm` asks Proxmox to delete a Hyper-V VM, which stays;
`delete_pool_activity` ignores the agent's answer and raises for a listed id that
has no machine, so that such a pool can never be deleted; two updates at once
choose the same names and lose a count; a retried update clones again, since
the count is written at the end; the id of the clone workflow has a resolution
of one second and does not name the pool; after a rebuild that lost its VM every
later one fails at the deletion; a pool rebuild stores a missing id as "None",
raises at the start and leaves the remaining machines as they are; a timed-out
attempt may finish after its user was told "error".

### MachineControl

The rows of an Automated pool's machines, written by `rebuild_vm` and by the
power handlers (`HandlerStep`, `PowerRequest`), by the activities
(`WorkflowStep`) and by the poller that visits each machine every minute
(`PollSees`, `PollMisses`, `PollStep`). Each has a session and writes back what it read before
an await: `workflow_status` as a whole, the other columns only where they
changed. Temporal may give up an attempt that goes on (`LateClone`), and the
backend may restart at any moment.

`pool_one` checks one machine with one rebuild or with every power request, two
attempts (five in the code) and one restart, which finds the creation of the
machine under way or its rebuild, not both:

* `LossIsShown`: a machine whose VM a rebuild removed and did not make again is
  not shown as completed, unless its tracking was overwritten or died (`untracked`).
* `TrackingEnds`: a rebuild that ended is no longer shown as running.
* `PowerIsShown`: what the hypervisor says of a machine is shown again and again.

Also explored, offline: rebuild, start and restart together with liveness (650
thousand states), two rebuilds without the poller (518 thousand), and two with it
(20 million, not finished): no violation. Fairness: event loops run what is ready, Temporal
retries and times out, the hypervisor ends its tasks; `SF` of `PollSees` says
that the cluster answers some of the polls, however often it does not.

Behaviour a reader should know: `workflowId`, an ARRAY, is changed in place, so that the id of
a rebuild is never stored and never polled; an old FAILED entry of the dictionary
keeps a machine FAILED for ever; a failed start of a VM is swallowed and shown as
"completed"; the poller overwrites a failure's message with the power state;
`assign_ip` ignores the status of its PUT; ids of rebuilds have a resolution of
one second and do not name the machine.

### MachineAccess

`AccessStep(c)` is a request of administrator `c` to create, delete or update a
machine or to add or remove a user: its handler, its workflow and the attempts of
its activities, from one await to the next. `machines`, `assigned` and `listed`
are what PostgreSQL keeps, `connections`, `accounts` and `grants` what Guacamole keeps. The
reason for everything that may fall apart is named: `mislisted` (the list was
written back from an older copy), `stranded` (the connection of a creation or
deletion that failed for good), `disturbed` (users that overlapping requests or a
lasting failure left between the two).

`portal` checks two administrators over two machines and two users in five
combinations of requests (without combinations, 21.5 million states offline):
`MachinesAgree` and `AccessAgrees`. No liveness: nobody has to ask.

### LxcRestore and IpReservation

Each `Job` is one deploy request. `Deploy` is `_deploy_library_lxc` up to its
commit: it does not await between the query for an unused entry and the commit,
so it is one action. The workflow has a program counter `wf`; the thread of
`restore_lxc_container_activity` has its own, `thread`, since Temporal gives up on
an activity after its timeout (`RestoreTimeout`) while the thread may go on:
every step of the thread can come before or after every later step of the
workflow, of another job, of a deletion of the record. `FailStatus` and
`FailRelease` are the two commits of `update_lxc_job_status_activity`. `ct` is
what the hypervisor has under each vmid; `NextId` (external) returns the lowest
one without a container and reserves nothing.

`library` checks two jobs over two IP pools of one address each, four vmids
(two per job), all seven faults, of which each job meets six (`Split`: only one
restore outlives its timeout, only the other's last write is lost):

* `ReservesIps`: the model implements `IpReservation`, where a holder gets as many
  addresses as it wants at once or none, and an address goes from one holder to
  another only by way of being free. The mapping computes what each job holds: the
  entry it was given, if its workflow did not release it; a job wants one. The code
  stores only the flag "used", so that no job is given what another holds, and that
  no other write frees it, is the content of the check.
* `FailureFreesIp`, `DeployedKeepsIp`: an address in use is one of a deployment
  that has not failed, is about to release it, or lost the update with its worker;
  that of a successful one stays in use.
* `WorkflowEnds`: under `WF` of each workflow and thread (a started thread runs
  until its function returns, Temporal times out what it does not hear of).

`lxc_vmid_race` refutes the comment that what the pre-check destroys is left
from "a previous failed attempt": two threads get the same vmid from nextid and
the second destroys the template the first just restored, without any fault.

Not in the model: the contents of dumps and templates (so not what a clone of the
wrong template would run), the request's 404 and 409 answers, the later
commit of `workflow_id`, the repetitions of oras and of the last update, which
change nothing. The finished system stops when no request is left; `Finished`
stutters there so that a real deadlock would still be reported.

### LibraryItem

`BeginPut`, `Uploading` and `PushWork` follow one PUT of a file through
its handler, the storage and the workflow that pushes it; `RequestRemoval` and
`Removing` are deletion; `Die` ends a worker. No row is locked; a write to a row
that is gone raises in a handler and is skipped by an activity. Which reference a
push uses is any of `Refs` (the code derives it from metadata).

`_harbor_delete_image` resolves the tag to a digest and deletes the artifact, so
that all its tags in that repository go: `Digest` is the type and the archive of an
item, since the same archive pushed twice is the same artifact, and `TakeOut` removes
every reference in the repository with that digest. `_harbor_delete_repo_if_empty`
then lists the repository and removes it if it is empty (`DeleteImage`, `DeleteRepo`);
what is pushed in between goes with it (`rushed`).

`library` checks two items made from one archive: the first a container or a general
file, the second a container or an LLM, so that they are one artifact or two. Both
are pushed into one repository, under the same tag or two. There are two uploads, one
deletion with two attempts (five in the code) and one of nine mishaps, or two if both
are containers and the deletion fails once (`FewMishaps`, `ImagesInPairs`):

* `ImageTraced`: what Harbor has under a reference can still be found by somebody.
* `PushedIsThere`: what a row names is in Harbor with the content of the item, or of
  one that shares its file name or its reference; unless a deletion removed an
  artifact of the same content from the same repository, under whatever tag
  (`taken`), or the repository itself (`rushed`). The exceptions are what the
  docstring of `_harbor_delete_repo_if_empty` denies: "if other versions/tags are
  pushed in the same repo, don't touch them". Without either the run fails; a tag
  of another digest stays, and that is what is left of the promise.
* `TempHasOwner`: no temporary file is left without an upload or push to remove it.
* `PushingHasPush`: "pushing" is said only of an item that is being pushed.

Each names its exceptions, and they are real: two uploads of one item at once, or
its deletion in the middle of one (`hasty`), can lose the row of an image that was
pushed. No liveness.

### HarborDeploy

Two requests for one namespace, each of which may be deleted again: the handler,
the workflow, the thread of `k8s_harbor_deploy_activity` (which goes on after a
timeout), deletion, the cluster's own deletion of a namespace, and the removal of
the cluster's row. `harbor_deploy` checks `NamespaceHasRow`, `ImporterHasOwner`,
`DeployedIsInstalled` (a deployment alone in its namespace and shown as deployed
is the one installed there) and, under `WF` of the thread and of the time limit
that ends a workflow, `WorkflowEnds`. Handlers, deletions and Kubernetes are owed
nothing: a finalizer may hold a namespace for ever. Each fault belongs to one of
the two requests, and users delete deployments or remove the cluster, not both
(`HarborNext`), so that the interleaving, not the number of faults, decides the size.

`ImporterHasOwner`: a failed step or a timeout leaves no privileged importer behind,
for its thread has its removal ahead. But `_delete_import_daemonset` passes over
every `ApiException`, and the thread takes the importer for removed: it stays if the
cluster refuses (`removal_refused`) or the worker dies. The property names the
thread that was refused (`leftBehind`), and says that it is past its
last attempt; nobody comes back for such an importer until the namespace is deleted
or deployed to again. A refusal is explored with the cluster registered and
without a timeout (`OneRefusal`); the theorem has no such bound.

### LlmInference

Pools, their rows and addresses, the template of a Harbor pool, the clones (one
activity per node, in parallel), shutdown, start and deletion. `llm_inference`
checks a pool of two nodes with a template from Harbor beside one of one node with
a template of the cluster, three addresses, four vmids, one deletion and twelve
faults of which each pool meets its own (`Split`: the second has the failed start, the
failed update and the failed power action, the first the others), the second pool
being started while the first is neither stopped nor deleted (`OneRequest`):
`AddressHeld`, `AddressNotShared`, `DeletedAreGone`, `RunningIsComplete`,
under `WF` of workflows and clones `ProvisioningEnds`, and

* `ReservesAddresses`: the rows of the pools implement the same `IpReservation`. A
  row holds the addresses of all its nodes from the commit that creates it until it
  is dropped. A second deletion of the same pool frees the addresses it read before
  the first one ended, which a newer pool may hold by then (`Twice`): it is excluded
  here, where there is one deletion, and by the theorem.

`DeletedAreGone` says that a deletion that knew the pool's machines frees no address
of one that still runs. It excepts pools deleted while they were made (`lost`) and
those whose cluster was removed before (`RemoveCluster`, `stranded`):
`delete_cluster_activity` looks for no pools, `cluster_id` is no foreign key, and
without the cluster's row `delete_llm_pool_activity` touches no machine, finds none
that failed, frees the addresses and drops the row, although the comment says "only
reached if every VM was confirmed deleted" (line 2165). The machines then run on
addresses the next pool is given.

`llm_template_reuse` refutes the comment that deletion removes only "the
Harbor-restored template if it's somehow still around": the row keeps the vmid of
a template removed long ago, and that vmid may have been given to a machine of
another pool, which goes if it is shut down. The counterexample has no failure.

### LlmServing

Phases 2.5 to 8 of the same workflow (drivers, the volume for the model, NFS from
the head, Ray, the launch of vLLM and its health poll) and the three power actions.
A phase runs one activity per machine; the workflow raises at the first failure
while the others go on (`StrayEnds`). `llm_inference` checks pools of one and of two
machines, with and without a model of the template's own, one power request at
any moment and two upsets, or one if there are two machines (offline also two
requests and one upset, 1.5 million states, not finished, no violation):

* `ShownIsTrue`: a pool shown as running serves its model from all its machines, one
  shown as stopped has none that runs. Two workflows at once (`pool_vm_action`
  never looks at the status: `alone`, `crowded`) and machines that reboot late are excepted.
* `OperationEnds`: no pending status stays, but when the power workflow could not
  be started (`stuck`).

Behaviour a reader should know: `run_commands` raises nothing for exit code -1, so a dropped
connection passes as healthy; `restart` polls "running" before the reboot; a
second configuration never rewrites the path of the model; `restart` never reads
the edited model, although the docstring of the update says so; a pool whose setup
failed may become "running" by a restart, without an endpoint; `RETRY_ONCE` is one
attempt; NFS mounts are lost when a worker boots before the head.

### OpenWebUi

The row of one deployed OpenWebUI, its pod's environment (replaced as a whole, and
refused when the Deployment changed since it was read: `fresh`) and its config
table. `Request` and `Handler` are the routes, which run in threads, `Activity` the
LLM workflows, `Die` a worker or database that is lost. `portal` checks two users in
eight mixes of requests with one LLM and one vector database (offline also every
pair of requests, two LLMs and up to four requests):

* `PatchesKept`: no patch takes back what another wrote.
* `DbUrlStays`: none loses `DATABASE_URL`.
* `LlmsAgree`: the three places name the same LLMs when nothing is under way.
* `LoginPossible`: the login form is hidden only while the pod knows Keycloak.
* `WorkflowSettles`: an LLM workflow does not leave the row in progress for ever.

What overlapping or half-failed operations disturbed is recorded in `upset` and
excepted. Rows are those of earlier versions: `create_app_deployment` fails for
every request at `cluster.username`, a column that does not exist
(`app_deploy_controller.py:320`), and `delete_app_deployment` as long as the cluster exists.

## 4. What is proved

All proofs are for arbitrary constants that meet the named assumptions of the
modules: any numbers of pools, requests, machines, users, addresses and attempts,
any sets of faults. `tlapm` checks them with Z3, Zenon and LS4. Every theorem
about a state is `Spec => []Inv` from an inductive invariant; nothing is assumed
but what the second column says.

| theorem | from | argument |
|---|---|---|
| `TypeCorrect`, `LxcTypeCorrect`, `HarborTypeCorrect`, `LlmTypeCorrect`, `ServingTypeCorrect`, `OpenWebUiTypeCorrect`, `AccessTypeCorrect`, `ControlTypeCorrect`, `LibraryTypeCorrect`, `HyperVTypeCorrect` | - | the types, with the shape of local state where they need it (`ServingShape`, `Phase`); `llm_inference` does not check the type of `LlmServing` |
| `MachinesAreReachable` | no completion of `finalize` is lost | `Lifecycle` and `Reach`: a VM still to be finalized has no machine, and the one about to be registered is listed |
| `DropsAreClean` | - | `Gone`: what a deletion removed stays removed, since the pool itself clones nothing while its deletion has VMs to remove |
| `DeletionsSpareOthers` | no name collision, no lost completion | `Owned`: until a deletion has read them, the vmids a pool lists are VMs of its own |
| `ClonesAreBounded` | no completion of `clone_vm_activity` is lost | `Cost`: a pool's row is made once, a pool that never had one has no VMs, a batch has at most as many as were asked for |
| `CreatedAreComplete` | IP pools of their own; nothing deleted or, if no name collides and no completion of `finalize` is lost, each pool at most once | `Complete` with `Owned`, below |
| `OneCreationIsComplete` | one request | the same, with any deletions |
| `NoVmIsLeftOver` | - | `Enough`: an awaited clone workflow has as many entries as were asked for and no more VMs; `Ranks` (pigeonhole): then every VM has an entry at its own position |
| `AllocationIsExact` | - | `Ranks` and `RankOfEntry`: in the order of IP pools and ids each position is taken once |
| `UsedIpsAreReclaimable` | IP pools of their own | `Reclaim`, inductive together with `Complete` |
| `RowsStayListed` | - | `NamedInv`: an id belongs to the machine its VM was made for, ids are never reused, and a rebuild drops from the list the id of its own machine only |
| `LossesHaveReports` | - | `TellInv`: a late attempt takes a VM only from a machine whose loss has a report, or whose present attempt can no longer succeed |
| `LossesAreShown` | - | `LossInv` (a machine without VM is excused or its failure is awaited) over `TrackInv` (what each session read against what the row says now) |
| `MachinesStayTogether` | - | `OwnerInv`, `ListInv`: who may still connect, undo or drop a machine; each copy of a list differs from the row by what its owner is about |
| `AccessStaysTogether` | - | `GrantInv`, below |
| `IpsAreReserved` | - | `Reservation`: an entry is used exactly when one job, and no other, holds it; then only `Deploy` and `FailRelease` change what a job holds |
| `FailedAreFreed`, `DeployedAreKept` | - | `Reservation` and `Outcome`, which ties the status of a job to where its workflow is |
| `PushingIsPushed`, `TempsAreOwned`, `ImagesAreTraced`, `PushedAreThere` | - | where each upload and its push are, against what the row of the item says and what deletions have read: an invariant for each (`TempInv`, `ImageInv`, `TraceInv`, `HeldInv`); for the last, an item that was created keeps its digest (`MadeStays`), and a repository about to be removed holds only what came in a rush |
| `NamespacesHaveRows`, `ImportersAreOwned`, `DeployedMeansInstalled` | - | thread against workflow against deletion; for the second, a thread refused its removal passes no other; for the third, who else was at work in the namespace since |
| `RunningAreComplete` | no pool is shut down beside another with a template from Harbor | `Ordered`, `Standing`, `Entered`: a template and a machine of one pool differ; a machine that no deletion has touched is its pool's, and runs or has a vmid that is no template's; an address is marked for one machine |
| `AddressesAreHeld`, `AddressesAreNotShared`, `DeletedPoolsAreGone` | - | `Past`, `Apart`: what a pool's row, handler, workflow and clones hold of addresses and vmids, and that no two hold the same; for the third, `StrandedStay`: only a deletion without a cluster's row leaves machines |
| `AddressesAreReserved` | nobody deletes a pool twice | `Apart`: what a row holds is marked used, so that a creation chooses from what nobody holds; it chooses as many as it has nodes, since the lowest unused entries are all different (`AsMany`, a fact on cardinalities) |
| `ShownCorrect` | - | phases as sequences; `Stage`, `Solo`, `Cleared`, `Stopping`, `Seen`, `Shown` for a workflow that was alone all the time |
| `PatchesAreKept`, `SomebodyCanLogIn`, `LlmsKeepAgreeing`, `DatabaseUrlIsKept` | - | `VectorInv`, `KeycloakInv`, `LlmInv`: what a client holding a fresh copy will write agrees with the row, or the aspect is in `upset` |

`Lifecycle` says that the clone workflow runs only while its creation awaits it,
that a deletion past its first query holds an existing row, and that a pool lists
nothing before its clones are made. None of the properties of pools is inductive without it:
`MachineReachable` alone would allow a deletion and a finalize to meet in states
the program is never in.

`CreatedIsComplete` relates four things made by different activities and by
different attempts. What was completed is of a pool that is not deleted itself, but
other pools may be, and their vmids handed out again: `Owned` says that such a
deletion still has only VMs of its own to remove, and it frees the entries recorded
in their names, none of which is one of this pool (`DeletionKeeps`). `Complete` follows each VM of the batch: those not given up
are the pool's (`Live`, `Settled`), and those `finalize` is through with have a
machine, are listed and have an entry recorded in their name (`Through`). That
each VM is paired with an address of its own needs that the `zip` of the batch with
the allocated entries is injective, which is a fact on cardinalities
(`PairedVm`, `PairedIp`). `NoVmIsLeftOver` adds that it is total: `zip` stops silently
at the shorter list, and a VM beyond it would be cloned and then forgotten.

`AccessAgrees` says that assignments and permissions are the same relation. Both
are written by one activity in different segments, so `GrantInv` says who may
still write either: a request is about one machine and one user (`Single`), a
permission needs an account and a connection (`Linked`), and whoever is between
the two is so because an attempt failed half way and its next attempt will see to
it (`HalfRemoved`, `HalfAdded`), because the machine is about to be dropped
(`Dropping`), or is named in `disturbed`.

The provisos are real. With a lost completion the retry of `finalize` takes its
own Guacamole connection for a collision and deletes a registered VM, and the
retry of `clone_vm_activity` clones again. For `CreatedIsComplete` beside deletions TLC
finds a counterexample without each of the three provisos, and none with them (two
requests, 7.5 million states, offline): with a name collision or a lost completion
both the deletion of a pool and the clean-up of its creation remove one vmid, which
another pool was given in between, and the second deletion of a pool retries the
vmids of VMs that the first one removed. With IP pools that two requests share
"created" promises an address that another pool was given too
(`pool_shared_ip`), and a deletion frees what the other creation has counted on.
A pool that is shut down beside one with a template from Harbor may lose a machine
to the latter's deletion, which destroys whatever has the vmid of its former
template and does not run; if that happens while the former is set up, it is shown as
running all the same. `RunningIsComplete` is false there, so `RunningAreComplete`
excludes it (`OwnTemplates`), as the instance of `llm_inference` does.

Model-checked only are the liveness properties (`RequestsEnd`, `TrackingEnds`,
`PowerIsShown`, `WorkflowEnds`, `ProvisioningEnds`, `OperationEnds`,
`WorkflowSettles`), which need fairness and ENABLED, out of this prover's reach.
Every invariant and every action property that a passing run checks has its theorem.

## 5. What the models leave out

* PoolProvisioning: restart of the process and the 30-minute timeout of
  `create_pool_activity` (a single lost completion is modelled: `clone_lost`,
  `finalize_lost`), `update_pool_activity` of Proxmox pools, more than one batch of
  ten VMs, the script that joins a domain. Names of pools and workflow ids are
  distinct. Reading the entries of one allocation is atomic; steps 2-5 of the
  clone workflow are one; a clone request is accepted for the whole batch or up
  to some VM. Machine rows left by a dropped pool are forgotten when a retried
  creation inserts the row anew (it has a new id).
* HyperVPool: addresses, provisioning and power states, template paths, the choice
  of a node, domain join, synchronisation per machine in an update, an update
  that dies while its clone workflow goes on, failures to delete a connection;
  the `DeleteVM` and `DeleteDisk` workflows, which no worker registers.
* MachineControl: the Hyper-V branches, a describe that fails (UNKNOWN), database
  outages, domain join, `provisioning_status`. `Summaries` chooses any of the open
  rebuilds where the code depends on the order of a dictionary.
* MachineAccess: attempts that time out and go on, users sent with a creation,
  automated machines, listings, a database that fails between commit and refresh.
* LibraryItem: metadata, renaming (`update_library_item`), `upload_library_direct`
  (no route), `HarborImageWorkflow` (nobody starts it), a failed start of
  the delete workflow, whatever moves a tag between its resolution and the deletion of
  the digest. TLC has one repository, the theorem any. Items that share a file name
  share its content. Files of general items are never deleted, since `file_path` is a URL.
* HarborDeploy: the WebDAV copy, PersistentVolumes (Retain), the limit of three
  threads, update, test and addition of clusters, a DaemonSet whose creation was not
  answered. Conditions of the cluster between two statuses are one "in_progress".
* LlmInference: clone, configuration and boot of a machine are one; template
  deletion and the update of Phase 2 are one; restart is a start; the removal of
  staged files, `PUT` of a row's fields, other holders of `Ip_Entries`. Entries are
  told apart by their id, where the code looks them up by address: that differs
  only if IP pools overlap. The removal of a cluster strands pools
  here, but is not part of the other modules.
* LlmServing: retried idempotent activities are one step; deletion of the pool,
  environment variables, high availability; a shutdown is a stop.
* OpenWebUi: the order of urls, keys and names; LLM rows deleted meanwhile; users
  and roles; the background deletion of Keycloak users; the Keycloak workflows,
  which nobody starts. HTTP and database writes of `SyncConfig` are one.
* Whole components: clusters (but for their removal under LLM pools) and nodes, RBAC, LDAP and Keycloak, schedules, reports,
  retention, certificates, IPMI: wrappers of one external service with a row of
  their own, where nothing interleaves.
* The holders of addresses are not composed: VM pools, LXC and LLM pools are each
  modelled alone over the same table. LXC deployments and LLM pools each implement
  `IpReservation`; VM pools do not, since what they allocate is not committed until
  they are created (`pool_shared_ip`).

## 6. Plan

1. **done** `PoolProvisioning`: creation against deletion; all safety proved.
2. **done** `LxcRestore` over `IpReservation`, with the refinement proved; the same
   for `LlmInference`.
3. **done** `LibraryItem`, `HarborDeploy`, `LlmInference`, `LlmServing`, `OpenWebUi`,
   `MachineAccess`, `MachineControl`, `HyperVPool`, each with proofs.
4. **done** Proofs about the operators that allocate and pair addresses of
   `PoolProvisioning` (`AllocationIsExact`, `NoVmIsLeftOver`); the lowest entries that
   `LlmInference` takes are covered by its refinement of `IpReservation`.
5. **open** An abstract specification of a pool's life for `PoolProvisioning`, and that it is
   implemented; the same for the status of a deployment in `HarborDeploy`.

## 7. Running

    tlc -config PoolTwo.cfg MCPools.tla                 # about one minute
    tlc -config PoolOne.cfg MCPoolMachines.tla          # about one minute
    tlc -config Library.cfg MCLibrary.tla               # about one minute
    tlc -config HarborDeploy.cfg MCHarborDeploy.tla     # about one minute
    tlc -config LlmInference.cfg MCLlmPools.tla         # about one minute
    tlc -config Portal.cfg MCPortal.tla                 # about one minute
    tlapm PoolProvisioning_proofs.tla                   # and the other *_proofs

A run listed as "violation" in `PROJECT.json` is expected to end with a
counterexample. Operators commented as mutants are not part of the
specifications: each is a plausible mistake in one definition, which the
property it is listed with must notice.

Of the passing runs all but `harbor_deploy`, `llm_inference` and `portal` check for
deadlock; there nobody has to ask for anything, and the system may really stop.
