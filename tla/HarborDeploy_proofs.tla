------------------------- MODULE HarborDeploy_proofs -------------------------
(***************************************************************************)
(* What HarborDeploy does for every set of requests and namespaces, every  *)
(* assignment of one to the other and all faults: its types, that a        *)
(* namespace has a row, that no importer is left behind, and that          *)
(* "deployed" means installed.                                             *)
(***************************************************************************)
EXTENDS HarborDeploy, TLAPS

(* One request's step, as Next has it.                                      *)
StepOf(r) == \/ Deploy(r) \/ Handler(r) \/ Thread(r) \/ WorkerDies(r)
             \/ TimeOut(r) \/ RequestDelete(r) \/ Deletion(r)

-----------------------------------------------------------------------------
(* Types.                                                                   *)

(* The first state has its types.                                           *)
LEMMA InitTypes == Init => TypeOK
  BY HarborAssumption DEF Init, TypeOK

(* The request handlers keep the types.                                     *)
LEMMA HandlerTypes ==
  ASSUME TypeOK, NEW r \in Request, Deploy(r) \/ Handler(r)
  PROVE  TypeOK'
<1> USE DEF SetStatus, Exists, Started, Statuses, Final, Steps, rowVars,
            deployVars, deleteVars, k8sVars
<1>1. CASE Deploy(r)
  BY <1>1 DEF Deploy, TypeOK
<1>2. CASE StartWorkflow(r)
  BY <1>2 DEF StartWorkflow, TypeOK
<1>3. CASE StartFail(r)
  BY <1>3 DEF StartFail, TypeOK
<1>4. CASE WriteDeploying(r)
  BY <1>4 DEF WriteDeploying, TypeOK
<1> QED BY <1>1, <1>2, <1>3, <1>4 DEF Handler

(* A thread keeps the types.                                                *)
LEMMA ThreadTypes ==
  ASSUME TypeOK, NEW r \in Request, Thread(r)
  PROVE  TypeOK'
<1>t. Target[r] \in Namespace
  BY HarborAssumption
<1> USE <1>t DEF SetStatus, Exists, Move, Return, RemoveImporter, Statuses,
            Final, Steps, rowVars, deployVars, deleteVars, k8sVars
<1>1. CASE Load(r)
  BY <1>1 DEF Load, TypeOK
<1>2. CASE Check(r)
  BY <1>2 DEF Check, TypeOK
<1>3. CASE Prepare(r)
  BY <1>3 DEF Prepare, TypeOK
<1>4. CASE CreateImporter(r)
  BY <1>4 DEF CreateImporter, TypeOK
<1>5. CASE WaitImporter(r)
  BY <1>5 DEF WaitImporter, TypeOK
<1>6. CASE Apply(r)
  BY <1>6 DEF Apply, Installs, TypeOK
<1>7. CASE Report(r)
  BY <1>7 DEF Report, TypeOK
<1>8. CASE ThreadFail(r)
  BY <1>8 DEF ThreadFail, TypeOK
<1>9. CASE Finally(r)
  BY <1>9 DEF Finally, TypeOK
<1> QED BY <1>1, <1>2, <1>3, <1>4, <1>5, <1>6, <1>7, <1>8, <1>9 DEF Thread

(* A deletion keeps the types.                                              *)
LEMMA DeletionTypes ==
  ASSUME TypeOK, NEW r \in Request, RequestDelete(r) \/ Deletion(r)
  PROVE  TypeOK'
<1>t. Target[r] \in Namespace
  BY HarborAssumption
<1> USE <1>t DEF DelStep, Noted, DeleteRow, rowVars, deployVars, deleteVars,
            k8sVars
<1>1. CASE RequestDelete(r)
  BY <1>1 DEF RequestDelete, TypeOK
<1>2. CASE NotFound(r)
  BY <1>2 DEF NotFound, TypeOK
<1>3. CASE DeleteNamespace(r)
  BY <1>3 DEF DeleteNamespace, TypeOK
<1>4. CASE Polled(r)
  BY <1>4 DEF Polled, TypeOK
<1>5. CASE DeleteFail(r)
  BY <1>5 DEF DeleteFail, KeptOnFailure, KeepRow, TypeOK
<1>6. CASE Answer(r)
  BY <1>6 DEF Answer, TypeOK
<1> QED BY <1>1, <1>2, <1>3, <1>4, <1>5, <1>6 DEF Deletion

(* Every step keeps the types.                                              *)
LEMMA NextTypes == TypeOK /\ [Next]_vars => TypeOK'
<1> SUFFICES ASSUME TypeOK, [Next]_vars PROVE TypeOK'
  OBVIOUS
<1> USE DEF rowVars, deployVars, deleteVars, k8sVars
<1>1. ASSUME NEW r \in Request, StepOf(r) PROVE TypeOK'
  <2>1. CASE WorkerDies(r)
    BY <2>1 DEF WorkerDies, TypeOK
  <2>2. CASE TimeOut(r)
    BY <2>2 DEF TimeOut, TypeOK
  <2> QED BY <1>1, <2>1, <2>2, HandlerTypes, ThreadTypes, DeletionTypes
          DEF StepOf
<1>2. ASSUME NEW n \in Namespace, NamespaceGone(n) PROVE TypeOK'
  BY <1>2 DEF NamespaceGone, TypeOK
<1>3. CASE RemoveCluster
  BY <1>3 DEF RemoveCluster, TypeOK
<1>4. CASE UNCHANGED vars
  BY <1>4 DEF vars, TypeOK
<1> QED BY <1>1, <1>2, <1>3, <1>4 DEF Next, StepOf

(* Every variable keeps its type: rows, handlers, workflows, threads and    *)
(* what is in the cluster.                                                  *)
THEOREM HarborTypeCorrect == Spec => []TypeOK
<1>1. Init => TypeOK
  BY InitTypes
<1>2. TypeOK /\ [Next]_vars => TypeOK'
  BY NextTypes
<1> QED BY <1>1, <1>2, PTL DEF Spec

-----------------------------------------------------------------------------
(* What is noted of a deployment.                                           *)

(* A deployment whose thread may still run is noted once its deletion is    *)
(* past the cluster, and a row is there until its deletion is done.         *)
Noticed ==
    \A r \in Request :
        /\ handler[r] = "idle" =>
              row[r] = "none" /\ del[r] = "none" /\ thread[r] = "none"
        /\ handler[r] = "start" => thread[r] = "none"
        /\ handler[r] # "idle" /\ del[r] # "done" => Exists(r)
        /\ Deploying(r) /\ del[r] \notin {"none", "delete"} => r \in early

(* Before the first request there is nothing to note.                       *)
LEMMA InitNoticed == Init => Noticed
  BY DEF Init, Noticed, Deploying, Exists, Steps

(* What a handler or a thread does to its own request.                      *)
LEMMA DeployNoticed ==
  ASSUME TypeOK, Noticed, NEW r \in Request, Deploy(r) \/ Handler(r) \/ Thread(r)
  PROVE  Noticed'
<1> USE DEF Noticed, TypeOK, SetStatus, Exists, Started, Move, Deploying,
            Statuses, Final, Steps, rowVars, deployVars, deleteVars, k8sVars
<1>1. CASE Deploy(r)
  BY <1>1 DEF Deploy
<1>2. CASE StartWorkflow(r)
  BY <1>2 DEF StartWorkflow
<1>3. CASE StartFail(r)
  BY <1>3 DEF StartFail
<1>4. CASE WriteDeploying(r)
  BY <1>4 DEF WriteDeploying
<1>5. CASE Thread(r)
  <2>1. /\ thread[r] \in Steps \cup {"finally"}
        /\ thread'[r] \in Steps => thread[r] \in Steps
        /\ \A q \in Request \ {r} : thread'[q] = thread[q]
    BY <1>5 DEF Thread, Load, Check, Prepare, CreateImporter, WaitImporter,
                Apply, Installs, Report, ThreadFail, Raises, NeedsFinally, Finally
  <2>2. UNCHANGED <<handler, deleteVars>>
    BY <1>5 DEF Thread, Load, Check, Prepare, CreateImporter, WaitImporter,
                Apply, Installs, Report, ThreadFail, Finally
  <2>3. \A q \in Request : /\ row'[q] \in Statuses <=> row[q] \in Statuses
                           /\ q # r => row'[q] = row[q]
    BY <1>5 DEF Thread, Load, Check, Prepare, CreateImporter, WaitImporter,
                Apply, Installs, Report, ThreadFail, Finally
  <2> QED BY <2>1, <2>2, <2>3
<1> QED BY <1>1, <1>2, <1>3, <1>4, <1>5 DEF Handler

(* What a deletion does.                                                    *)
LEMMA DeletionNoticed ==
  ASSUME TypeOK, Noticed, NEW r \in Request, RequestDelete(r) \/ Deletion(r)
  PROVE  Noticed'
<1> USE DEF Noticed, TypeOK, Exists, DelStep, Noted, Deploying, DeleteRow,
            Statuses, Final, Steps, rowVars, deployVars, deleteVars, k8sVars
<1>1. CASE RequestDelete(r)
  BY <1>1 DEF RequestDelete
<1>2. CASE NotFound(r)
  BY <1>2 DEF NotFound
<1>3. CASE DeleteNamespace(r)
  BY <1>3 DEF DeleteNamespace
<1>4. CASE Polled(r)
  BY <1>4 DEF Polled
<1>5. CASE DeleteFail(r)
  BY <1>5 DEF DeleteFail, KeptOnFailure, KeepRow
<1>6. CASE Answer(r)
  BY <1>6 DEF Answer
<1> QED BY <1>1, <1>2, <1>3, <1>4, <1>5, <1>6 DEF Deletion

(* Every step.                                                              *)
LEMMA NextNoticed == TypeOK /\ Noticed /\ [Next]_vars => Noticed'
<1> SUFFICES ASSUME TypeOK, Noticed, [Next]_vars PROVE Noticed'
  OBVIOUS
<1> USE DEF rowVars, deployVars, deleteVars, k8sVars
<1>1. ASSUME NEW r \in Request, StepOf(r) PROVE Noticed'
  <2>1. CASE WorkerDies(r)
    BY <2>1 DEF WorkerDies, Noticed, TypeOK, Exists, Deploying, Steps
  <2>2. CASE TimeOut(r)
    BY <2>2 DEF TimeOut, Noticed, Exists, Deploying
  <2> QED BY <1>1, <2>1, <2>2, DeployNoticed, DeletionNoticed DEF StepOf
<1>2. ASSUME NEW n \in Namespace, NamespaceGone(n) PROVE Noticed'
  BY <1>2 DEF NamespaceGone, Noticed, Exists, Deploying
<1>3. CASE RemoveCluster
  BY <1>3 DEF RemoveCluster, Noticed, Exists, Deploying
<1>4. CASE UNCHANGED vars
  BY <1>4 DEF vars, Noticed, Exists, Deploying
<1> QED BY <1>1, <1>2, <1>3, <1>4 DEF Next, StepOf

-----------------------------------------------------------------------------
(* No importer is left behind, but by a removal that was refused.           *)

(* Inductive: the importer of a namespace is that of a request for it.      *)
Owned ==
    \A n \in Namespace, r \in Request : importer[n] = r =>
        /\ Target[r] = n
        /\ \/ thread[r] \in {"wait", "finally", "dead"}
           \/ r \in leftBehind /\ thread[r] \in {"apply", "report", "ended"}

(* What a thread does to importers keeps them owned.                        *)
LEMMA ThreadOwned ==
  ASSUME TypeOK, Owned, NEW r \in Request, Thread(r)
  PROVE  Owned'
<1>t. Target[r] \in Namespace /\ NoRequest \notin Request
  BY HarborAssumption
<1>0. ASSUME NEW pc \in {"apply", "ended"}, RemoveImporter(r),
             thread' = [thread EXCEPT ![r] = pc], thread[r] \in {"wait", "finally"}
      PROVE  Owned'
  <2> SUFFICES ASSUME NEW n \in Namespace, NEW q \in Request, importer'[n] = q
               PROVE  /\ Target[q] = n
                      /\ \/ thread'[q] \in {"wait", "finally", "dead"}
                         \/ q \in leftBehind' /\ thread'[q] \in {"apply", "report", "ended"}
    BY DEF Owned
  <2>1. importer[n] = q /\ Target[q] = n /\ leftBehind \subseteq leftBehind'
    BY <1>0, <1>t DEF RemoveImporter, TypeOK, Owned
  <2>2. CASE q # r
    BY <1>0, <2>1, <2>2 DEF Owned, TypeOK
  <2>3. CASE q = r
    <3>1. r \in leftBehind'
      <4>1. n = Target[r] /\ importer[Target[r]] = r /\ importer'[Target[r]] # NoRequest
        BY <1>t, <2>1, <2>3
      <4>2. leftBehind' = leftBehind \cup ({importer[Target[r]]} \cap {r})
        BY <1>0, <1>t, <4>1 DEF RemoveImporter, TypeOK
      <4> QED BY <4>1, <4>2
    <3> QED BY <1>0, <2>1, <2>3, <3>1 DEF TypeOK
  <2> QED BY <2>2, <2>3
<1> USE <1>t DEF Move, RemoveImporter, TypeOK, Steps, Owned, k8sVars
<1>1. CASE Load(r)
  BY <1>1 DEF Load
<1>2. CASE Check(r)
  BY <1>2 DEF Check
<1>3. CASE Prepare(r)
  BY <1>3 DEF Prepare
<1>4. CASE CreateImporter(r)
  BY <1>4 DEF CreateImporter
<1>5. CASE WaitImporter(r)
  BY <1>5, <1>0 DEF WaitImporter
<1>6. CASE Apply(r)
  BY <1>6 DEF Apply, Installs
<1>7. CASE Report(r)
  BY <1>7 DEF Report
<1>8. CASE ThreadFail(r)
  BY <1>8 DEF ThreadFail, Raises, NeedsFinally
<1>9. CASE Finally(r)
  BY <1>9, <1>0 DEF Finally
<1> QED BY <1>1, <1>2, <1>3, <1>4, <1>5, <1>6, <1>7, <1>8, <1>9 DEF Thread

(* No other step makes an importer or ends the thread that has one.         *)
LEMMA NextOwned == TypeOK /\ Noticed /\ Owned /\ [Next]_vars => Owned'
<1> SUFFICES ASSUME TypeOK, Noticed, Owned, [Next]_vars PROVE Owned'
  OBVIOUS
<1>t. NoRequest \notin Request
  BY HarborAssumption
<1> USE <1>t DEF Owned, TypeOK, rowVars, deployVars, deleteVars, k8sVars
<1>1. ASSUME NEW r \in Request, StepOf(r) PROVE Owned'
  <2>1. CASE Deploy(r)
    BY <2>1 DEF Deploy
  <2>2. CASE StartWorkflow(r) \/ StartFail(r)
    BY <2>2 DEF StartWorkflow, StartFail, Started, Noticed
  <2>3. CASE WriteDeploying(r)
    BY <2>3 DEF WriteDeploying
  <2>4. CASE WorkerDies(r)
    BY <2>4 DEF WorkerDies
  <2>5. CASE TimeOut(r)
    BY <2>5 DEF TimeOut
  <2>6. CASE RequestDelete(r)
    BY <2>6 DEF RequestDelete
  <2>7. CASE Deletion(r)
    BY <2>7 DEF Deletion, NotFound, DeleteNamespace, Polled, DeleteFail, Answer
  <2> QED BY <1>1, <2>1, <2>2, <2>3, <2>4, <2>5, <2>6, <2>7, ThreadOwned
          DEF StepOf, Handler
<1>2. ASSUME NEW n \in Namespace, NamespaceGone(n) PROVE Owned'
  BY <1>2 DEF NamespaceGone
<1>3. CASE RemoveCluster
  BY <1>3 DEF RemoveCluster
<1>4. CASE UNCHANGED vars
  BY <1>4 DEF vars
<1> QED BY <1>1, <1>2, <1>3, <1>4 DEF Next, StepOf

(* The finally of the deploy activity: a privileged importer belongs to a   *)
(* thread that will remove it, that died with its worker, or whose removal   *)
(* of it the cluster refused, which the activity passes over.               *)
THEOREM ImportersAreOwned == Spec => []ImporterHasOwner
<1>1. Init => Owned
  BY HarborAssumption DEF Init, Owned
<1>2. Init => Noticed
  BY InitNoticed
<1>3. Owned => ImporterHasOwner
  BY DEF Owned, ImporterHasOwner
<1> QED BY <1>1, <1>2, <1>3, InitTypes, NextTypes, NextNoticed, NextOwned, PTL
        DEF Spec

-----------------------------------------------------------------------------
(* No namespace without a row.                                              *)

(* A request a namespace is known by: by its row, which its deletion will   *)
(* not remove before it has asked for the namespace's.                      *)
Keeper(r) == r \in early \/ (Exists(r) /\ del[r] \in {"none", "delete"})

Kept ==
    \A n \in Namespace : ns[n] = "active" =>
        \E r \in Request : Target[r] = n /\ Keeper(r)

(* A step after which no namespace is active that was not, and every keeper *)
(* still is one.                                                            *)
LEMMA KeptSame ==
  ASSUME Kept,
         \A n \in Namespace : ns'[n] = "active" => ns[n] = "active",
         \A r \in Request : Keeper(r) => Keeper(r)'
  PROVE  Kept'
  BY DEF Kept

(* The thread that makes a namespace active is a keeper of it.              *)
LEMMA ThreadKept ==
  ASSUME TypeOK, Noticed, Kept, NEW r \in Request, Thread(r)
  PROVE  Kept'
<1>t. Target[r] \in Namespace
  BY HarborAssumption
<1>1. UNCHANGED deleteVars
  BY DEF Thread, Load, Check, Prepare, CreateImporter, WaitImporter, Apply, Installs,
         Report, ThreadFail, Finally
<1>2. \A q \in Request : Exists(q)' <=> Exists(q)
  BY DEF Thread, Load, Check, Prepare, CreateImporter, WaitImporter, Apply, Installs,
         Report, ThreadFail, Finally, SetStatus, Exists, TypeOK, Statuses,
         Final, rowVars
<1>3. \A q \in Request : Keeper(q) => Keeper(q)'
  BY <1>1, <1>2 DEF Keeper, deleteVars
<1>4. CASE Prepare(r)
  <2>1. Deploying(r) /\ handler[r] # "idle"
    BY <1>4 DEF Prepare, Move, Deploying, Steps, Noticed
  <2>2. Keeper(r)
    BY <2>1 DEF Noticed, Keeper, TypeOK
  <2>3. \A n \in Namespace : ns'[n] = "active" =>
            ns[n] = "active" \/ n = Target[r]
    BY <1>4, <1>t DEF Prepare, TypeOK
  <2> QED BY <1>3, <2>2, <2>3 DEF Kept
<1>5. CASE ~Prepare(r)
  <2>1. UNCHANGED ns
    BY <1>5 DEF Thread, Load, Check, CreateImporter, WaitImporter, Apply, Installs,
                Report, ThreadFail, Finally, k8sVars
  <2> QED BY <1>3, <2>1, KeptSame
<1> QED BY <1>4, <1>5

(* A deletion stops being a keeper only with the namespace not active.      *)
LEMMA DeletionKept ==
  ASSUME TypeOK, Noticed, Kept, NEW r \in Request, RequestDelete(r) \/ Deletion(r)
  PROVE  Kept'
<1>t. Target[r] \in Namespace
  BY HarborAssumption
<1> USE <1>t DEF Keeper, TypeOK, Exists, DelStep, Noted, rowVars, deployVars,
                 deleteVars, k8sVars
<1>1. CASE RequestDelete(r)
  BY <1>1, KeptSame DEF RequestDelete
<1>2. CASE NotFound(r)
  BY <1>2 DEF NotFound, Kept
<1>3. CASE DeleteNamespace(r)
  BY <1>3 DEF DeleteNamespace, Kept
<1>4. CASE Polled(r)
  BY <1>4, KeptSame DEF Polled
<1>5. CASE DeleteFail(r)
  BY <1>5, KeptSame DEF DeleteFail, KeptOnFailure, KeepRow
<1>6. CASE Answer(r)
  BY <1>6, KeptSame DEF Answer, DeleteRow
<1> QED BY <1>1, <1>2, <1>3, <1>4, <1>5, <1>6 DEF Deletion

(* Every step.                                                              *)
LEMMA NextKept == TypeOK /\ Noticed /\ Kept /\ [Next]_vars => Kept'
<1> SUFFICES ASSUME TypeOK, Noticed, Kept, [Next]_vars PROVE Kept'
  OBVIOUS
<1> USE DEF Keeper, Exists, rowVars, deployVars, deleteVars, k8sVars
<1>1. ASSUME NEW r \in Request, StepOf(r) PROVE Kept'
  <2>1. CASE Deploy(r) \/ Handler(r)
    <3>1. UNCHANGED <<ns, del, early>>
      BY <2>1 DEF Deploy, Handler, StartWorkflow, StartFail, WriteDeploying
    <3>2. \A q \in Request : Exists(q) => Exists(q)'
      BY <2>1 DEF Deploy, Handler, StartWorkflow, StartFail, WriteDeploying,
                  SetStatus, TypeOK, Statuses, Final
    <3> QED BY <3>1, <3>2, KeptSame
  <2>2. CASE WorkerDies(r)
    BY <2>2, KeptSame DEF WorkerDies
  <2>3. CASE TimeOut(r)
    BY <2>3, KeptSame DEF TimeOut
  <2> QED BY <1>1, <2>1, <2>2, <2>3, ThreadKept, DeletionKept DEF StepOf
<1>2. ASSUME NEW n \in Namespace, NamespaceGone(n) PROVE Kept'
  BY <1>2, KeptSame DEF NamespaceGone, TypeOK
<1>3. CASE RemoveCluster
  BY <1>3, KeptSame DEF RemoveCluster
<1>4. CASE UNCHANGED vars
  BY <1>4, KeptSame DEF vars
<1> QED BY <1>1, <1>2, <1>3, <1>4 DEF Next, StepOf

(* delete_k8s_deployment leaves no namespace without a row, unless it came  *)
(* while the deployment was at work: whatever fails, is late or lost, and   *)
(* however many requests share the namespace.                               *)
THEOREM NamespacesHaveRows == Spec => []NamespaceHasRow
<1>1. Init => Noticed /\ Kept
  BY InitNoticed DEF Init, Kept
<1>2. Kept => NamespaceHasRow
  BY DEF Kept, Keeper, NamespaceHasRow
<1> QED BY <1>1, <1>2, InitTypes, NextTypes, NextNoticed, NextKept, PTL DEF Spec

-----------------------------------------------------------------------------
(* "deployed".                                                              *)

(* No other request has been made for the namespace of r.                   *)
Alone(r) == \A q \in Request \ {r} : Target[q] # Target[r] \/ handler[q] = "idle"

(* Inductive: what is in a namespace was applied by a thread that asked for  *)
(* it and is past the applying; a thread that is about to report, or has     *)
(* reported, success had applied its own.                                   *)
AppliedBy ==
    \A n \in Namespace, r \in Request : harbor[n] = r =>
        Target[r] = n /\ thread[r] \in {"report", "ended", "dead"}

Reported ==
    \A r \in Request :
        /\ row[r] = "deployed" => thread[r] = "ended"
        /\ /\ thread[r] = "report" \/ row[r] = "deployed"
           /\ Alone(r)
           /\ ns[Target[r]] = "active"
           => harbor[Target[r]] = r

(* Who is not alone never is again.                                         *)
LEMMA AloneBefore ==
  ASSUME TypeOK, [Next]_vars, NEW r \in Request, Alone(r)'
  PROVE  Alone(r)
<1>1. \A q \in Request : handler'[q] = "idle" => handler[q] = "idle"
  BY DEF Next, vars, Handler, Thread, Deletion, Deploy, StartWorkflow,
         StartFail, WriteDeploying, Load, Check, Prepare, CreateImporter,
         WaitImporter, Apply, Installs, Report, ThreadFail, Finally, WorkerDies, TimeOut,
         RequestDelete, NotFound, DeleteNamespace, Polled, DeleteFail, Answer,
         NamespaceGone, RemoveCluster, TypeOK, deployVars
<1> QED BY <1>1 DEF Alone

(* A request that is alone, or whose thread is not there, is not the one     *)
(* whose thread runs for the same namespace.                                *)
LEMMA AloneThread ==
  ASSUME Noticed, NEW r \in Request, NEW q \in Request, Alone(r),
         thread[q] # "none", Target[q] = Target[r]
  PROVE  q = r
  BY DEF Noticed, Alone

(* A step that leaves the thread, or moves it out of "report", and neither   *)
(* makes the namespace active nor the row "deployed".                       *)
LEMMA ReportedSame ==
  ASSUME Reported, Noticed, TypeOK, [Next]_vars, UNCHANGED harbor,
         \A n \in Namespace : ns'[n] = "active" => ns[n] = "active",
         \A r \in Request : /\ row'[r] = "deployed" => row[r] = "deployed"
                            /\ thread'[r] = "report" => thread[r] = "report"
                            /\ thread[r] = "ended" => thread'[r] = "ended"
  PROVE  Reported'
  BY AloneBefore, HarborAssumption DEF Reported

(* Who applied stays past the applying, until the namespace is gone.        *)
LEMMA NextApplied ==
  TypeOK /\ Noticed /\ AppliedBy /\ [Next]_vars => AppliedBy'
<1> SUFFICES ASSUME TypeOK, Noticed, AppliedBy, [Next]_vars PROVE AppliedBy'
  OBVIOUS
<1>t. NoRequest \notin Request
  BY HarborAssumption
<1> USE <1>t DEF AppliedBy, TypeOK, rowVars, deployVars, deleteVars, k8sVars
<1>1. ASSUME NEW r \in Request, StepOf(r) PROVE AppliedBy'
  <2>0. Target[r] \in Namespace
    BY HarborAssumption
  <2>1. CASE StartWorkflow(r) \/ StartFail(r)
    BY <2>1 DEF StartWorkflow, StartFail, Started, Noticed
  <2>2. CASE WorkerDies(r)
    BY <2>2 DEF WorkerDies, Steps
  <2>3. CASE Apply(r)
    BY <2>0, <2>3 DEF Apply, Installs, Move
  <2>4. CASE Thread(r) /\ ~Apply(r)
    <3>1. UNCHANGED harbor
      BY <2>4 DEF Thread, Load, Check, Prepare, CreateImporter, WaitImporter,
                  Report, ThreadFail, Finally, k8sVars
    <3>2. thread[r] # "ended" /\ thread[r] # "dead"
      BY <2>4 DEF Thread, Load, Check, Prepare, CreateImporter, WaitImporter,
                  Report, ThreadFail, Raises, Steps, Finally, Move
    <3>3. thread[r] = "report" => thread'[r] = "ended"
      BY <2>4 DEF Thread, Load, Check, Prepare, CreateImporter, WaitImporter,
                  Report, ThreadFail, NeedsFinally, Finally, Move
    <3>4. \A q \in Request \ {r} : thread'[q] = thread[q]
      BY <2>4 DEF Thread, Load, Check, Prepare, CreateImporter, WaitImporter,
                  Report, ThreadFail, Finally, Move
    <3> QED BY <3>1, <3>2, <3>3, <3>4
  <2>5. CASE Deploy(r) \/ WriteDeploying(r) \/ TimeOut(r) \/ RequestDelete(r)
             \/ Deletion(r)
    BY <2>5 DEF Deploy, WriteDeploying, TimeOut, RequestDelete, Deletion,
                NotFound, DeleteNamespace, Polled, DeleteFail, Answer
  <2> QED BY <1>1, <2>1, <2>2, <2>3, <2>4, <2>5 DEF StepOf, Handler
<1>2. ASSUME NEW n \in Namespace, NamespaceGone(n) PROVE AppliedBy'
  BY <1>2 DEF NamespaceGone
<1>3. CASE RemoveCluster
  BY <1>3 DEF RemoveCluster
<1>4. CASE UNCHANGED vars
  BY <1>4 DEF vars
<1> QED BY <1>1, <1>2, <1>3, <1>4 DEF Next, StepOf

(* What a thread does.                                                      *)
LEMMA ThreadReported ==
  ASSUME TypeOK, Noticed, Owned, AppliedBy, Reported, [Next]_vars,
         NEW r \in Request, Thread(r)
  PROVE  Reported'
<1>t. Target[r] \in Namespace
  BY HarborAssumption
<1> USE <1>t DEF Move, SetStatus, Exists, Statuses, Final, TypeOK, rowVars,
                 deployVars, deleteVars, k8sVars
<1>1. CASE Load(r)
  BY <1>1, ReportedSame DEF Load
<1>2. CASE Check(r)
  <2>1. CASE HasPods(Target[r]) /\ Alone(r)
    <3>1. PICK q \in Request : importer[Target[r]] = q \/ harbor[Target[r]] = q
      BY <2>1, HarborAssumption DEF HasPods
    <3>2. /\ Target[q] = Target[r]
          /\ thread[q] \in {"wait", "finally", "dead", "apply", "report", "ended"}
      BY <3>1 DEF Owned, AppliedBy
    <3>3. q = r
      BY <2>1, <3>2, AloneThread
    <3> QED BY <1>2, <3>2, <3>3 DEF Check
  <2>2. CASE ~Alone(r)
    BY <1>2, <2>2, AloneBefore DEF Check, Reported
  <2>3. CASE ~HasPods(Target[r])
    BY <1>2, <2>3, ReportedSame DEF Check
  <2> QED BY <2>1, <2>2, <2>3
<1>3. CASE Prepare(r)
  <2>1. thread[r] # "none"
    BY <1>3 DEF Prepare
  <2>2. ASSUME NEW q \in Request, Alone(q), Target[q] = Target[r]
        PROVE  q = r
    BY <2>1, <2>2, AloneThread
  <2> QED BY <1>3, <2>2, AloneBefore, HarborAssumption DEF Prepare, Reported
<1>4. CASE CreateImporter(r)
  BY <1>4, ReportedSame DEF CreateImporter
<1>5. CASE WaitImporter(r)
  BY <1>5, ReportedSame DEF WaitImporter
<1>6. CASE Apply(r)
  <2>1. thread[r] # "none"
    BY <1>6 DEF Apply, Installs
  <2>2. ASSUME NEW q \in Request, Alone(q), Target[q] = Target[r]
        PROVE  q = r
    BY <2>1, <2>2, AloneThread
  <2> QED BY <1>6, <2>2, AloneBefore, HarborAssumption DEF Apply, Installs, Reported
<1>7. CASE Report(r)
  BY <1>7, AloneBefore DEF Report, Reported
<1>8. CASE ThreadFail(r)
  BY <1>8, ReportedSame DEF ThreadFail, Raises, Steps, NeedsFinally
<1>9. CASE Finally(r)
  BY <1>9, ReportedSame DEF Finally
<1> QED BY <1>1, <1>2, <1>3, <1>4, <1>5, <1>6, <1>7, <1>8, <1>9 DEF Thread

(* Every step: only a report writes "deployed", and only a thread makes a    *)
(* namespace active.                                                        *)
LEMMA NextReported ==
  TypeOK /\ Noticed /\ Owned /\ AppliedBy /\ Reported /\ [Next]_vars
    => Reported'
<1> SUFFICES ASSUME TypeOK, Noticed, Owned, AppliedBy, Reported, [Next]_vars
             PROVE  Reported'
  OBVIOUS
<1> USE DEF SetStatus, TypeOK, rowVars, deployVars, deleteVars, k8sVars
<1>1. ASSUME NEW r \in Request, StepOf(r) PROVE Reported'
  <2>1. CASE Deploy(r)
    BY <2>1, ReportedSame DEF Deploy
  <2>2. CASE StartWorkflow(r) \/ StartFail(r)
    BY <2>2, ReportedSame DEF StartWorkflow, StartFail, Started, Noticed
  <2>3. CASE WriteDeploying(r)
    BY <2>3, ReportedSame DEF WriteDeploying
  <2>4. CASE WorkerDies(r)
    BY <2>4, ReportedSame DEF WorkerDies, Steps
  <2>5. CASE TimeOut(r)
    BY <2>5, ReportedSame DEF TimeOut
  <2>6. CASE RequestDelete(r)
    BY <2>6, ReportedSame DEF RequestDelete
  <2>7. CASE Deletion(r)
    BY <2>7, ReportedSame DEF Deletion, NotFound, DeleteNamespace, Polled,
                              DeleteFail, KeptOnFailure, KeepRow, Answer,
                              DeleteRow, DelStep
  <2> QED BY <1>1, <2>1, <2>2, <2>3, <2>4, <2>5, <2>6, <2>7, ThreadReported
          DEF StepOf, Handler
<1>2. ASSUME NEW n \in Namespace, NamespaceGone(n) PROVE Reported'
  BY <1>2, AloneBefore, HarborAssumption DEF NamespaceGone, Reported
<1>3. CASE RemoveCluster
  BY <1>3, ReportedSame DEF RemoveCluster
<1>4. CASE UNCHANGED vars
  BY <1>4, ReportedSame DEF vars
<1> QED BY <1>1, <1>2, <1>3, <1>4 DEF Next, StepOf

(* "deployed" of a deployment that has the namespace to itself means that    *)
(* its own manifests are in the namespace, as long as that exists; none of   *)
(* the failures around the thread, the workflow and a deletion change this. *)
THEOREM DeployedMeansInstalled == Spec => []DeployedIsInstalled
<1>1. Init => Noticed /\ Owned /\ AppliedBy /\ Reported
  BY InitNoticed, HarborAssumption DEF Init, Owned, AppliedBy, Reported
<1>2. Reported => DeployedIsInstalled
  BY DEF Reported, Alone, DeployedIsInstalled
<1> QED BY <1>1, <1>2, InitTypes, NextTypes, NextNoticed, NextOwned,
           NextApplied, NextReported, PTL DEF Spec
=============================================================================
