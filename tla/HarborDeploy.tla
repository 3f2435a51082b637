---------------------------- MODULE HarborDeploy ----------------------------
(***************************************************************************)
(* Harbor on Kubernetes: deploy_harbor_to_k8s and delete_k8s_deployment,   *)
(* K8sHarborDeployWorkflow and K8sHarborDeleteWorkflow with their          *)
(* activities, on one registered cluster.                                  *)
(*                                                                         *)
(* The handlers share uvicorn's loop and give it up only while they wait   *)
(* for Temporal.  The activities are threads: each call to the cluster or  *)
(* to the database may come before or after any step of another.           *)
(***************************************************************************)
EXTENDS Naturals

CONSTANTS
    Request,     \* deploy requests, each makes one kubernetes_deployments row
    Namespace,   \* names of namespaces
    Target,      \* the namespace each request asks for
    Faults,      \* what may go wrong around each of them
    NoRequest

AllFaults == {"start_failed", "start_unconfirmed", "step_failed", "late",
              "worker_died", "delete_failed", "removal_refused"}

ASSUME HarborAssumption ==
    /\ Target \in [Request -> Namespace]
    /\ Faults \in [Request -> SUBSET AllFaults]
    /\ NoRequest \notin Request

VARIABLES
    \* the database
    cluster,     \* the kubernetes_clusters row is there
    row,         \* status of each deployment, or none, or deleted
    \* the program
    handler,     \* deploy_harbor_to_k8s
    wf,          \* K8sHarborDeployWorkflow
    thread,      \* k8s_harbor_deploy_activity
    del,         \* delete_k8s_deployment and its workflow
    \* Kubernetes
    ns,          \* phase of each namespace
    importer,    \* whose importer DaemonSet is in it
    harbor,      \* who applied the manifests in it last
    \* auxiliary: deployments at work when their deletion reached the cluster,
    \* and those that were refused the removal of their own importer
    early,
    leftBehind

rowVars == <<cluster, row>>
deployVars == <<handler, wf, thread>>
deleteVars == <<del, early>>
k8sVars == <<ns, importer, harbor, leftBehind>>
vars == <<rowVars, deployVars, deleteVars, k8sVars>>

Final == {"deployed", "failed"}

(* What a status says before that, from "pending" to "waiting_ready", is    *)
(* for the progress bar only.                                               *)
Statuses == Final \cup {"in_progress"}

Steps == {"load", "check", "prepare", "create", "wait", "apply", "report"}

TypeOK ==
    /\ cluster \in BOOLEAN
    /\ row \in [Request -> Statuses \cup {"none", "deleted"}]
    /\ handler \in [Request -> {"idle", "start", "write", "done"}]
    /\ wf \in [Request -> Final \cup {"none", "running", "timed_out"}]
    /\ thread \in [Request -> Steps \cup {"none", "finally", "ended", "dead"}]
    /\ del \in [Request -> {"none", "delete", "poll", "answer", "done"}]
    /\ ns \in [Namespace -> {"absent", "active", "terminating"}]
    /\ importer \in [Namespace -> Request \cup {NoRequest}]
    /\ harbor \in [Namespace -> Request \cup {NoRequest}]
    /\ early \in SUBSET Request
    /\ leftBehind \in SUBSET Request

Init ==
    /\ cluster = TRUE
    /\ row = [r \in Request |-> "none"]
    /\ handler = [r \in Request |-> "idle"]
    /\ wf = [r \in Request |-> "none"]
    /\ thread = [r \in Request |-> "none"]
    /\ del = [r \in Request |-> "none"]
    /\ ns = [n \in Namespace |-> "absent"]
    /\ importer = [n \in Namespace |-> NoRequest]
    /\ harbor = [n \in Namespace |-> NoRequest]
    /\ early = {}
    /\ leftBehind = {}

-----------------------------------------------------------------------------
(* The database and the cluster, as every part uses them.                   *)

Exists(r) == row[r] \in Statuses

(* _db_update, and the handlers' commits: nothing is written to a row that  *)
(* is gone.                                                                 *)
SetStatus(r, s) == row' = [row EXCEPT ![r] = IF Exists(r) THEN s ELSE @]

HasPods(n) == importer[n] # NoRequest \/ harbor[n] # NoRequest

(* _delete_import_daemonset for the thread of r: whatever the cluster        *)
(* answers is passed over, that there is no importer or that it stays.      *)
RemoveImporter(r) ==
    \/ /\ importer' = [importer EXCEPT ![Target[r]] = NoRequest]
       /\ UNCHANGED leftBehind
    \/ /\ "removal_refused" \in Faults[r]
       /\ importer[Target[r]] # NoRequest
       /\ leftBehind' = leftBehind \cup ({importer[Target[r]]} \cap {r})
       /\ UNCHANGED importer

(* delete_k8s_cluster does not look for deployments on the cluster.         *)
RemoveCluster ==
    /\ cluster
    /\ cluster' = FALSE
    /\ UNCHANGED <<row, deployVars, deleteVars, k8sVars>>

-----------------------------------------------------------------------------
(* deploy_harbor_to_k8s.                                                    *)

(* The namespace is looked up and the row committed without an await; the   *)
(* namespace itself is made by the activity, much later.                    *)
Deploy(r) ==
    /\ handler[r] = "idle"
    /\ cluster
    /\ ns[Target[r]] = "absent"
    /\ row' = [row EXCEPT ![r] = "in_progress"]
    /\ handler' = [handler EXCEPT ![r] = "start"]
    /\ UNCHANGED <<cluster, wf, thread, deleteVars, k8sVars>>

Started(r) ==
    /\ wf' = [wf EXCEPT ![r] = "running"]
    /\ thread' = [thread EXCEPT ![r] = "load"]

StartWorkflow(r) ==
    /\ handler[r] = "start"
    /\ handler' = [handler EXCEPT ![r] = "write"]
    /\ Started(r)
    /\ UNCHANGED <<rowVars, deleteVars, k8sVars>>

(* The start raises, before or after Temporal has accepted the workflow.    *)
StartFail(r) ==
    /\ handler[r] = "start"
    /\ handler' = [handler EXCEPT ![r] = "done"]
    /\ SetStatus(r, "failed")
    /\ \/ "start_failed" \in Faults[r] /\ UNCHANGED <<wf, thread>>
       \/ "start_unconfirmed" \in Faults[r] /\ Started(r)
    /\ UNCHANGED <<cluster, deleteVars, k8sVars>>

(* The status is written over whatever the activity has reported by now.    *)
WriteDeploying(r) ==
    /\ handler[r] = "write"
    /\ handler' = [handler EXCEPT ![r] = "done"]
    /\ SetStatus(r, "in_progress")
    /\ UNCHANGED <<cluster, wf, thread, deleteVars, k8sVars>>

-----------------------------------------------------------------------------
(* k8s_harbor_deploy_activity.                                              *)

Move(r, from, to) ==
    /\ thread[r] = from
    /\ thread' = [thread EXCEPT ![r] = to]

(* The workflow hears of the result unless the 30 minutes are over.         *)
Return(r, result) == wf' = [wf EXCEPT ![r] = IF @ = "running" THEN result ELSE @]

(* Steps 1 to 4: the rows are read, the archive is fetched and parsed.      *)
Load(r) ==
    /\ Exists(r) /\ cluster
    /\ Move(r, "load", "check")
    /\ SetStatus(r, "in_progress")
    /\ UNCHANGED <<cluster, handler, wf, deleteVars, k8sVars>>

(* Step 5: any pod counts as an installation.  While a namespace is         *)
(* terminating its pods may be gone already.                                *)
Check(r) ==
    LET n == Target[r]
    IN /\ \/ /\ HasPods(n)
             /\ Move(r, "check", "report")
          \/ /\ ~HasPods(n) \/ ns[n] = "terminating"
             /\ Move(r, "check", "prepare")
       /\ SetStatus(r, "in_progress")
       /\ UNCHANGED <<cluster, handler, wf, deleteVars, k8sVars>>

(* Steps 6 to 9: a namespace that is terminating counts as existing.  The   *)
(* DaemonSet's name is fixed: an old one is removed ...                     *)
Prepare(r) ==
    LET n == Target[r]
    IN /\ Move(r, "prepare", "create")
       /\ SetStatus(r, "in_progress")
       /\ ns' = [ns EXCEPT ![n] = IF @ = "absent" THEN "active" ELSE @]
       /\ RemoveImporter(r)
       /\ UNCHANGED <<cluster, handler, wf, harbor, deleteVars>>

(* ... and five seconds later the new one is created.                       *)
CanCreate(r) == ns[Target[r]] = "active" /\ importer[Target[r]] = NoRequest

CreateImporter(r) ==
    /\ CanCreate(r)
    /\ Move(r, "create", "wait")
    /\ importer' = [importer EXCEPT ![Target[r]] = r]
    /\ UNCHANGED <<rowVars, handler, wf, ns, harbor, leftBehind, deleteVars>>

(* Steps 10 and 11: the pods of whatever DaemonSet has the name are done,   *)
(* and it is removed, for all the thread cares: ds_created is FALSE.         *)
WaitImporter(r) ==
    /\ importer[Target[r]] # NoRequest
    /\ Move(r, "wait", "apply")
    /\ SetStatus(r, "in_progress")
    /\ RemoveImporter(r)
    /\ UNCHANGED <<cluster, handler, wf, ns, harbor, deleteVars>>

(* What was applied is patched until its pods can run; a patch that fails   *)
(* is passed over.                                                          *)
Installs(r) == harbor' = [harbor EXCEPT ![Target[r]] = r]

(* Steps 11b to 12b: volumes, manifests, patches.                           *)
Apply(r) ==
    /\ ns[Target[r]] = "active"
    /\ Move(r, "apply", "report")
    /\ SetStatus(r, "in_progress")
    /\ Installs(r)
    /\ UNCHANGED <<cluster, handler, wf, ns, importer, leftBehind, deleteVars>>

(* Steps 13 to 15: neither a missing address nor a Harbor that does not     *)
(* answer fails the deployment.                                             *)
Report(r) ==
    /\ Move(r, "report", "ended")
    /\ SetStatus(r, "deployed")
    /\ Return(r, "deployed")
    /\ UNCHANGED <<cluster, handler, k8sVars, deleteVars>>

(* What a step cannot do, faults apart.                                     *)
Refused(r) ==
    \/ thread[r] = "load" /\ ~(Exists(r) /\ cluster)
    \/ thread[r] = "create" /\ ~CanCreate(r)
    \/ thread[r] = "apply" /\ ns[Target[r]] # "active"

(* A call of the step raises, or the worker interrupts the thread because   *)
(* its time is over.                                                        *)
Raises(r) ==
    /\ thread[r] \in Steps
    /\ Refused(r) \/ "step_failed" \in Faults[r] \/ wf[r] = "timed_out"

NoFinally == {}                                     \* mutant of NeedsFinally

(* ds_created: the importer is the thread's to remove.                      *)
NeedsFinally == {"wait"}

FailSwallowed(r) ==                                 \* mutant of ThreadFail
    /\ Raises(r)
    /\ thread' = [thread EXCEPT ![r] = "report"]
    /\ UNCHANGED <<rowVars, handler, wf, k8sVars, deleteVars>>

(* except: the status, and then finally.                                    *)
ThreadFail(r) ==
    /\ Raises(r)
    /\ SetStatus(r, "failed")
    /\ IF thread[r] \in NeedsFinally
         THEN thread' = [thread EXCEPT ![r] = "finally"] /\ UNCHANGED wf
         ELSE thread' = [thread EXCEPT ![r] = "ended"] /\ Return(r, "failed")
    /\ UNCHANGED <<cluster, handler, k8sVars, deleteVars>>

Finally(r) ==
    /\ Move(r, "finally", "ended")
    /\ RemoveImporter(r)
    /\ Return(r, "failed")
    /\ UNCHANGED <<rowVars, handler, ns, harbor, deleteVars>>

WorkerDies(r) ==
    /\ "worker_died" \in Faults[r]
    /\ thread[r] \in Steps \cup {"finally"}
    /\ thread' = [thread EXCEPT ![r] = "dead"]
    /\ UNCHANGED <<rowVars, handler, wf, k8sVars, deleteVars>>

(* Mutant of Stuck: a heartbeat timeout in place of start_to_close; the     *)
(* thread that waits sends heartbeats.                                      *)
Silent(r) == thread[r] = "dead"

(* Nothing will come of it: waiting for the pods of a DaemonSet that        *)
(* another thread removed takes as long as the whole activity may.          *)
Stuck(r) ==
    \/ thread[r] = "dead"
    \/ thread[r] = "wait" /\ importer[Target[r]] = NoRequest

(* start_to_close is over, there is one attempt; nobody tells the row.      *)
TimeOut(r) ==
    /\ wf[r] = "running"
    /\ Stuck(r) \/ "late" \in Faults[r]
    /\ wf' = [wf EXCEPT ![r] = "timed_out"]
    /\ UNCHANGED <<rowVars, handler, thread, k8sVars, deleteVars>>

-----------------------------------------------------------------------------
(* delete_k8s_deployment, K8sHarborDeleteWorkflow and                       *)
(* k8s_harbor_delete_activity.                                              *)

(* The id of the workflow is fixed, so one deletion runs at a time; the     *)
(* status of the deployment does not matter.                                *)
RequestDelete(r) ==
    /\ Exists(r) /\ cluster
    /\ del[r] = "none"
    /\ del' = [del EXCEPT ![r] = "delete"]
    /\ UNCHANGED <<rowVars, deployVars, early, k8sVars>>

(* The deployment may still make the namespace the deletion is to remove.   *)
Deploying(r) ==
    \/ handler[r] = "start"
    \/ thread[r] \in Steps

DelStep(r, from, to) ==
    /\ del[r] = from
    /\ del' = [del EXCEPT ![r] = to]

Noted(r) == early' = IF Deploying(r) THEN early \cup {r} ELSE early

NotFound(r) ==
    /\ ns[Target[r]] = "absent"
    /\ DelStep(r, "delete", "answer")
    /\ Noted(r)
    /\ UNCHANGED <<rowVars, deployVars, k8sVars>>

DeleteNamespace(r) ==
    /\ ns[Target[r]] # "absent"
    /\ DelStep(r, "delete", "poll")
    /\ Noted(r)
    /\ ns' = [ns EXCEPT ![Target[r]] = "terminating"]
    /\ UNCHANGED <<rowVars, deployVars, importer, harbor, leftBehind>>

(* The polls end when the namespace is gone ("deleted") or after five       *)
(* minutes ("deleting"): either counts as success.                          *)
Polled(r) ==
    /\ DelStep(r, "poll", "answer")
    /\ UNCHANGED <<rowVars, deployVars, early, k8sVars>>

DeleteRow(r) == row' = [row EXCEPT ![r] = "deleted"]

KeepRow(r) == UNCHANGED row

ForgetRow(r) == DeleteRow(r)                        \* mutant of KeptOnFailure

(* The record is kept when the deletion fails.                              *)
KeptOnFailure(r) == KeepRow(r)

DeleteFail(r) ==
    /\ "delete_failed" \in Faults[r]
    /\ del[r] \in {"delete", "poll"}
    /\ del' = [del EXCEPT ![r] = "none"]
    /\ KeptOnFailure(r)
    /\ UNCHANGED <<cluster, deployVars, early, k8sVars>>

Answer(r) ==
    /\ DelStep(r, "answer", "done")
    /\ DeleteRow(r)
    /\ UNCHANGED <<cluster, deployVars, early, k8sVars>>

(* Kubernetes: the last finalizer of a namespace is done.                   *)
NamespaceGone(n) ==
    /\ ns[n] = "terminating"
    /\ ns' = [ns EXCEPT ![n] = "absent"]
    /\ importer' = [importer EXCEPT ![n] = NoRequest]
    /\ harbor' = [harbor EXCEPT ![n] = NoRequest]
    /\ UNCHANGED <<rowVars, deployVars, deleteVars, leftBehind>>

-----------------------------------------------------------------------------
Handler(r) == StartWorkflow(r) \/ StartFail(r) \/ WriteDeploying(r)

Thread(r) == \/ Load(r) \/ Check(r) \/ Prepare(r)
             \/ CreateImporter(r) \/ WaitImporter(r) \/ Apply(r) \/ Report(r)
             \/ ThreadFail(r) \/ Finally(r)

Deletion(r) == \/ NotFound(r) \/ DeleteNamespace(r) \/ Polled(r)
               \/ DeleteFail(r) \/ Answer(r)

Next ==
    \/ \E r \in Request :
          \/ Deploy(r) \/ Handler(r) \/ Thread(r) \/ WorkerDies(r)
          \/ TimeOut(r) \/ RequestDelete(r) \/ Deletion(r)
    \/ \E n \in Namespace : NamespaceGone(n)
    \/ RemoveCluster

Spec == Init /\ [][Next]_vars

(* A thread runs until its function returns, and Temporal times out what it *)
(* does not hear of.  Kubernetes owes nothing: a finalizer may hold a       *)
(* namespace for ever; nor do the handlers and the deletions.               *)
Fairness ==
    \A r \in Request : WF_vars(Thread(r)) /\ WF_vars(Stuck(r) /\ TimeOut(r))

FairSpec == Spec /\ Fairness

-----------------------------------------------------------------------------
(* Properties.                                                              *)

(* delete_k8s_deployment: no namespace is left on a cluster without a row   *)
(* that says so, unless the deletion reached the cluster while the          *)
(* deployment was still at work, and makes the namespace afterwards.        *)
NamespaceHasRow ==
    \A n \in Namespace : ns[n] = "active" =>
        \E r \in Request : Target[r] = n /\ (Exists(r) \/ r \in early)

(* ds_created and the finally of k8s_harbor_deploy_activity: a privileged    *)
(* importer is left behind by a thread that went on or ended only if the    *)
(* cluster refused that thread's own removal of it, which nobody notices, or *)
(* if the worker died; and such a thread is past its last removal.          *)
ImporterHasOwner ==
    \A n \in Namespace, r \in Request : importer[n] = r =>
        \/ thread[r] \in {"wait", "finally", "dead"}
        \/ r \in leftBehind /\ thread[r] \in {"apply", "report", "ended"}

(* A deployment that has a namespace to itself and says "deployed" is       *)
(* installed there, as long as the namespace is.                            *)
DeployedIsInstalled ==
    \A r \in Request :
        /\ row[r] = "deployed"
        /\ \A q \in Request \ {r} : Target[q] # Target[r] \/ handler[q] = "idle"
        /\ ns[Target[r]] = "active"
        => harbor[Target[r]] = r

(* Every deployment that was started ends, for Temporal too, although a     *)
(* thread may wait for an importer that another thread has removed.         *)
WorkflowEnds ==
    \A r \in Request : wf[r] = "running" ~> wf[r] \in Final \cup {"timed_out"}
=============================================================================
