------------------------ MODULE LlmInference_proofs ------------------------
(***************************************************************************)
(* What LlmInference does for every set of pools, nodes, addresses, vmids  *)
(* and deletions and under all faults: its types, that addresses in use    *)
(* have a pool, that pools do not share them, that deleted pools leave no  *)
(* machine, and that a pool that runs is complete.  And what LlmServing    *)
(* does for pools of every size and any number of power requests and       *)
(* upsets: its types, and that a status that is shown is true.             *)
(***************************************************************************)
EXTENDS LlmInference, LlmServing, FiniteSetTheorems, SequenceTheorems, TLAPS

(* One pool's step and one deletion's step, as Next has them.               *)
PoolStep(j) ==
    \/ Create(j) \/ StartWorkflow(j) \/ StartFail(j) \/ Workflow(j)
    \/ \E i \in Slots(j) : CloneVm(j, i)
    \/ \E a \in {"start", "stop"} : RequestPower(j, a) \/ Power(j, a)

DeleteStep(d) == RequestDelete(d) \/ Delete(d)

(* What the removal of a cluster leaves as it is.                           *)
Still == UNCHANGED <<rowVars, ipVars, createVars, power, del, knows, lost, stranded,
                     vmVars>>

(* A step is one of a pool or of a deletion, or has no effect on either.    *)
LEMMA StepKinds ==
  ASSUME [Next]_vars
  PROVE  \/ \E j \in Job : PoolStep(j)
         \/ \E d \in Deletion : DeleteStep(d)
         \/ Still
<1>1. CASE UNCHANGED vars
  BY <1>1 DEF vars, deleteVars, Still
<1>2. CASE RemoveCluster
  BY <1>2 DEF RemoveCluster, Still
<1> QED BY <1>1, <1>2, ZenonT(60) DEF Next, PoolStep, DeleteStep

-----------------------------------------------------------------------------
(* Types.                                                                   *)

(* The variables that differ from pool to pool are functions of the pools.  *)
Shape ==
    /\ ips = [j \in Job |-> ips[j]]
    /\ plan = [j \in Job |-> plan[j]]
    /\ clone = [j \in Job |-> clone[j]]

(* What a pool has once it is past a stage.                                 *)
Made ==
    \A j \in Job :
        /\ handler[j] # "idle" => \A i \in Slots(j) : ips[j][i] \in Ip
        /\ wf[j] # "none" => handler[j] = "done"
        /\ \A i \in Slots(j) : clone[j][i] # "none" =>
              plan[j][i] \in Vmid /\ handler[j] # "idle"
        /\ j \in recorded => \A i \in Slots(j) : plan[j][i] \in Vmid
        /\ \A a \in {"start", "stop"} : power[j][a] # "none" => j \in recorded

TypeInv == TypeOK /\ Shape /\ Made

(* The first state has its types.                                           *)
LEMMA InitTypes == Init => TypeInv
<1> SUFFICES ASSUME Init PROVE TypeInv
  OBVIOUS
<1> USE LlmAssumption DEF Init, Slots
<1>1. TypeOK
  BY DEF TypeOK, ClonePcs, WfPcs, Statuses, PowerStatuses
<1>2. Shape
  BY DEF Shape
<1>3. Made
  BY DEF Made
<1> QED BY <1>1, <1>2, <1>3 DEF TypeInv

(* The statuses the code gives a row are statuses.                          *)
LEMMA StatusTypes ==
  ASSUME TypeOK, NEW j \in Job, NEW s \in Statuses, SetStatus(j, s)
  PROVE  job' \in [Job -> Statuses \cup {"none", "deleted"}]
BY DEF TypeOK, SetStatus

(* The creation of a row, and the start of its workflow.                    *)
LEMMA HandlerTypes ==
  ASSUME TypeInv, NEW j \in Job, Create(j) \/ StartWorkflow(j) \/ StartFail(j)
  PROVE  TypeInv'
<1> USE LlmAssumption DEF TypeInv, rowVars, ipVars, createVars, deleteVars,
        vmVars, Statuses, PowerStatuses
<1>1. CASE Create(j)
  <2>1. PICK f \in [Slots(j) -> Ip \ used] : ips' = [ips EXCEPT ![j] = f]
                                          /\ used' = used \cup {f[i] : i \in Slots(j)}
    BY <1>1 DEF Create
  <2>2. TypeOK'
    BY <1>1, <2>1 DEF Create, TypeOK, Shape, Slots
  <2>3. Shape'
    BY <1>1, <2>1 DEF Create, Shape
  <2>4. /\ handler' = [handler EXCEPT ![j] = "start"]
        /\ \A i \in Slots(j) : ips'[j][i] \in Ip
        /\ \A k \in Job \ {j} : ips'[k] = ips[k]
        /\ UNCHANGED <<recorded, wf, plan, clone, power>>
    BY <1>1, <2>1 DEF Create, Shape
  <2>5. wf[j] = "none"
    BY <1>1 DEF Create, Made
  <2>6. Made'
    BY <2>4, <2>5 DEF Made, TypeOK, Slots
  <2> QED BY <2>2, <2>3, <2>6
<1>2. CASE StartWorkflow(j) \/ StartFail(j)
  <2>1. handler' = [handler EXCEPT ![j] = "done"]
    BY <1>2 DEF StartWorkflow, StartFail
  <2>2. wf' = wf \/ Started(j)
    BY <1>2 DEF StartWorkflow, StartFail
  <2>3. UNCHANGED <<rowVars, ipVars, tmpl, plan, clone, power, deleteVars, vmVars>>
    BY <1>2 DEF StartWorkflow, StartFail
  <2>4. handler[j] = "start"
    BY <1>2 DEF StartWorkflow, StartFail
  <2>5. TypeOK'
    BY <2>1, <2>2, <2>3 DEF TypeOK, Started, WfPcs, Slots
  <2>6. Shape' /\ Made'
    BY <2>1, <2>2, <2>3, <2>4 DEF Shape, Made, TypeOK, Started, Slots
  <2> QED BY <2>5, <2>6
<1> QED BY <1>1, <1>2

(* The steps of the workflow.                                               *)
LEMMA WorkflowTypes ==
  ASSUME TypeInv, NEW j \in Job, Workflow(j)
  PROVE  TypeInv'
<1> USE LlmAssumption DEF TypeInv, WfStep, rowVars, ipVars, createVars,
        deleteVars, vmVars
<1>1. CASE Pull(j)
  BY <1>1 DEF Pull, TypeOK, Shape, Made, WfPcs, Slots
<1>2. CASE Import(j)
  BY <1>2 DEF Import, TypeOK, Shape, Made, WfPcs, Slots
<1>3. CASE ImportCollides(j)
  BY <1>3 DEF ImportCollides, TypeOK, Shape, Made, Slots
<1>4. CASE ImportFail(j)
  BY <1>4 DEF ImportFail, Destroy, TypeOK, Shape, Made, WfPcs, Slots
<1>5. CASE Templatize(j)
  BY <1>5 DEF Templatize, TypeOK, Shape, Made, WfPcs, Slots
<1>6. CASE ReserveVmids(j)
  <2>1. PICK f \in [Slots(j) -> FreeVmids] : plan' = [plan EXCEPT ![j] = f]
    BY <1>6 DEF ReserveVmids
  <2>2. clone' = [clone EXCEPT ![j] = [i \in Slots(j) |-> "clone"]]
    BY <1>6 DEF ReserveVmids
  <2>3. \A k \in Job : clone'[k] \in [Slots(k) -> ClonePcs]
    BY <2>2 DEF Shape, TypeOK, ClonePcs
  <2>4. \A k \in Job : plan'[k] \in [Slots(k) -> Vmid \cup {None}]
    BY <2>1 DEF Shape, TypeOK, FreeVmids
  <2>5. TypeOK'
    BY <1>6, <2>3, <2>4 DEF ReserveVmids, TypeOK, WfPcs, Slots
  <2>6. Shape' /\ Made'
    BY <1>6, <2>1 DEF ReserveVmids, FreeVmids, TypeOK, Shape, Made, Slots
  <2> QED BY <2>5, <2>6
<1>7. CASE ReserveFail(j)
  BY <1>7 DEF ReserveFail, TypeOK, Shape, Made, WfPcs, Slots
<1>8. CASE Record(j)
  <2>1. TypeOK'
    BY <1>8 DEF Record, Destroy, TypeOK, WfPcs, Slots
  <2>2. Shape' /\ Made'
    BY <1>8 DEF Record, AllDone, TypeOK, Shape, Made, Slots
  <2> QED BY <2>1, <2>2
<1>9. CASE ClonesFail(j)
  BY <1>9 DEF ClonesFail, TypeOK, Shape, Made, WfPcs, Slots
<1>10. CASE Setup(j)
  <2>1. job' \in [Job -> Statuses \cup {"none", "deleted"}]
    BY <1>10, StatusTypes DEF Setup, Statuses
  <2> QED BY <1>10, <2>1 DEF Setup, TypeOK, Shape, Made, WfPcs, Slots
<1>11. CASE SetupFail(j)
  BY <1>11 DEF SetupFail, TypeOK, Shape, Made, WfPcs, Slots
<1>12. CASE Fail(j)
  <2>1. job' \in [Job -> Statuses \cup {"none", "deleted"}]
    BY <1>12, StatusTypes DEF Fail, TellFailure, Statuses, TypeOK
  <2> QED BY <1>12, <2>1 DEF Fail, TellFailure, TypeOK, Shape, Made, WfPcs, Slots
<1> QED BY <1>1, <1>2, <1>3, <1>4, <1>5, <1>6, <1>7, <1>8, <1>9, <1>10, <1>11,
           <1>12 DEF Workflow

(* What a step of one clone does to clone.                                  *)
LEMMA CloneStepTypes ==
  ASSUME TypeOK, Shape, NEW j \in Job, NEW i \in Slots(j),
         NEW from \in ClonePcs, NEW to \in ClonePcs, CloneStep(j, i, from, to)
  PROVE  /\ clone' = [k \in Job |-> clone'[k]]
         /\ \A k \in Job : clone'[k] \in [Slots(k) -> ClonePcs]
         /\ \A k \in Job \ {j} : clone'[k] = clone[k]
         /\ \A m \in Slots(j) \ {i} : clone'[j][m] = clone[j][m]
         /\ clone[j][i] = from /\ clone'[j][i] = to
<1>1. clone[j] \in [Slots(j) -> ClonePcs]
  BY DEF TypeOK
<1>2. clone' = [clone EXCEPT ![j] = [clone[j] EXCEPT ![i] = to]]
  BY DEF CloneStep
<1>3. clone' = [k \in Job |-> IF k = j THEN [clone[j] EXCEPT ![i] = to] ELSE clone[k]]
  BY <1>2 DEF Shape
<1>4. [clone[j] EXCEPT ![i] = to] \in [Slots(j) -> ClonePcs]
  BY <1>1
<1> QED BY <1>1, <1>3, <1>4, ZenonT(60) DEF TypeOK, CloneStep

(* The clones.                                                              *)
LEMMA CloneTypes ==
  ASSUME TypeInv, NEW j \in Job, NEW i \in Slots(j), CloneVm(j, i)
  PROVE  TypeInv'
<1>0. PICK from \in {"clone", "mark"}, to \in {"mark", "done", "failed"} :
         CloneStep(j, i, from, to)
  BY DEF CloneVm, Clone, Mark, CloneFail
<1>s. /\ clone' = [k \in Job |-> clone'[k]]
      /\ \A k \in Job : clone'[k] \in [Slots(k) -> ClonePcs]
      /\ \A k \in Job \ {j} : clone'[k] = clone[k]
      /\ \A m \in Slots(j) \ {i} : clone'[j][m] = clone[j][m]
      /\ clone[j][i] = from /\ clone'[j][i] = to
  BY <1>0, CloneStepTypes DEF TypeInv, ClonePcs
<1>p. plan[j][i] \in Vmid /\ ips[j][i] \in Ip
  BY <1>s DEF TypeInv, Made
<1>u. UNCHANGED <<rowVars, handler, wf, tmpl, plan, power, deleteVars>>
  BY DEF CloneVm, Clone, Mark, CloneFail, ipVars, vmVars
<1>1. /\ used' \in SUBSET Ip
      /\ entryVm' \in [Ip -> Vmid \cup {None}]
      /\ vm' \in [Vmid -> Job \cup {NoJob}]
      /\ on' \in SUBSET Vmid
  BY <1>p, ZenonT(60) DEF CloneVm, Clone, Mark, CloneFail, TypeInv, TypeOK, ipVars, vmVars
<1>2. TypeOK'
  BY <1>s, <1>u, <1>1 DEF TypeInv, TypeOK, Slots, rowVars, deleteVars
<1>3. Shape'
  BY <1>s, <1>u DEF TypeInv, Shape, rowVars
<1>4. Made'
  BY <1>s, <1>p, <1>u DEF TypeInv, Made, Slots, rowVars
<1> QED BY <1>2, <1>3, <1>4 DEF TypeInv

(* The power actions.                                                       *)
LEMMA PowerTypes ==
  ASSUME TypeInv, NEW j \in Job, NEW a \in {"start", "stop"},
         RequestPower(j, a) \/ Power(j, a)
  PROVE  TypeInv'
<1> USE LlmAssumption DEF TypeInv, Pending, Reached, Broken, rowVars, ipVars,
        createVars, deleteVars, vmVars
<1>1. Pending[a] \in Statuses /\ Reached[a] \in Statuses /\ Broken[a] \in Statuses
  BY DEF Statuses, PowerStatuses
<1>2. CASE RequestPower(j, a)
  <2>1. job' \in [Job -> Statuses \cup {"none", "deleted"}]
    BY <1>1, <1>2, StatusTypes DEF RequestPower
  <2> QED BY <1>2, <2>1, ZenonT(60) DEF RequestPower, TypeOK, Shape, Made, Slots
<1>3. CASE PowerVms(j, a)
  <2>1. VmsOf(j) \subseteq Vmid
    BY <1>3 DEF PowerVms, Made, VmsOf
  <2> QED BY <1>3, <2>1 DEF PowerVms, TypeOK, Shape, Made, Slots
<1>4. CASE PowerDone(j, a)
  <2>1. job' \in [Job -> Statuses \cup {"none", "deleted"}]
    BY <1>1, <1>4, StatusTypes DEF PowerDone
  <2> QED BY <1>4, <2>1, ZenonT(60) DEF PowerDone, TypeOK, Shape, Made, Slots
<1>5. CASE PowerFail(j, a)
  <2>1. job' \in [Job -> Statuses \cup {"none", "deleted"}]
    BY <1>1, <1>5, StatusTypes DEF PowerFail, TypeOK
  <2>2. VmsOf(j) \subseteq Vmid
    BY <1>5 DEF PowerFail, Made, VmsOf
  <2>3. on' \in SUBSET Vmid
    BY <1>5, <2>2 DEF PowerFail, TypeOK
  <2> QED BY <1>5, <2>1, <2>3, ZenonT(60) DEF PowerFail, TypeOK, Shape, Made, Slots
<1> QED BY <1>2, <1>3, <1>4, <1>5 DEF Power

(* The deletions.                                                           *)
LEMMA DeletionTypes ==
  ASSUME TypeInv, NEW d \in Deletion, DeleteStep(d)
  PROVE  TypeInv'
<1>t. Target[d] \in Job
  BY LlmAssumption
<1> USE LlmAssumption, <1>t DEF TypeInv, Removed, GiveUp, KeepEntries, rowVars,
        ipVars, createVars, deleteVars, vmVars
<1>1. CASE RequestDelete(d)
  BY <1>1 DEF RequestDelete, TypeOK, Shape, Made, Slots
<1>2. CASE DelBegin(d)
  <2>1. job' \in [Job -> Statuses \cup {"none", "deleted"}]
    BY <1>2, StatusTypes DEF DelBegin, Statuses
  <2> QED BY <1>2, <2>1 DEF DelBegin, TypeOK, Shape, Made, Slots
<1>3. CASE DelVms(d)
  BY <1>3 DEF DelVms, TypeOK, Shape, Made, Slots
<1>4. CASE DelVmsFail(d)
  <2>1. job' \in [Job -> Statuses \cup {"none", "deleted"}]
    BY <1>4, StatusTypes DEF DelVmsFail, Statuses, TypeOK
  <2> QED BY <1>4, <2>1 DEF DelVmsFail, TypeOK, Shape, Made, Slots
<1>5. CASE DelTemplate(d)
  BY <1>5 DEF DelTemplate, Destroy, TypeOK, Shape, Made, Slots
<1>6. CASE DelRelease(d)
  BY <1>6 DEF DelRelease, TypeOK, Shape, Made, Slots
<1> QED BY <1>1, <1>2, <1>3, <1>4, <1>5, <1>6 DEF DeleteStep, Delete

(* Every step keeps the types.                                              *)
LEMMA NextTypes == TypeInv /\ [Next]_vars => TypeInv'
<1> SUFFICES ASSUME TypeInv, [Next]_vars PROVE TypeInv'
  OBVIOUS
<1>1. ASSUME NEW j \in Job, PoolStep(j) PROVE TypeInv'
  BY <1>1, HandlerTypes, WorkflowTypes, CloneTypes, PowerTypes DEF PoolStep
<1>2. ASSUME NEW d \in Deletion, DeleteStep(d) PROVE TypeInv'
  BY <1>2, DeletionTypes
<1>3. ASSUME Still, cut' \in SUBSET Job PROVE TypeInv'
  BY <1>3 DEF Still, rowVars, ipVars, createVars, vmVars, TypeInv, TypeOK, Shape,
              Made, Slots
<1>4. CASE RemoveCluster
  BY <1>3, <1>4 DEF RemoveCluster, Still
<1>5. CASE UNCHANGED vars
  BY <1>3, <1>5 DEF vars, deleteVars, Still, TypeInv, TypeOK
<1> QED BY <1>1, <1>2, <1>4, <1>5, ZenonT(60) DEF Next, PoolStep, DeleteStep

(* Every variable keeps its type: rows, addresses, workflows, clones, power *)
(* actions, deletions and the hypervisor's machines.                        *)
THEOREM LlmTypeCorrect == Spec => []TypeOK
<1>1. Init => TypeInv
  BY InitTypes
<1>2. TypeInv /\ [Next]_vars => TypeInv'
  BY NextTypes
<1>3. TypeInv => TypeOK
  BY DEF TypeInv
<1> QED BY <1>1, <1>2, <1>3, PTL DEF Spec
-----------------------------------------------------------------------------
(* Rows and their pasts.                                                    *)

Early == {"pull", "import", "template", "reserve"}
Late == {"setup", "fail", "ended"}

(* Nothing of a pool's creation will touch an address or make a machine.    *)
Quiet(j) ==
    /\ handler[j] = "done"
    /\ wf[j] \notin Early
    /\ \A i \in Slots(j) : clone[j][i] \notin {"clone", "mark"}

(* What the state of a pool says of its past.                               *)
Past ==
    /\ \A j \in Job :
          /\ handler[j] = "idle" <=> job[j] = "none"
          /\ j \in lost => job[j] # "none"
          /\ j \in recorded => AllDone(j) /\ wf[j] \in Late
          /\ job[j] = "deleted" /\ j \notin lost => Quiet(j)
          /\ \A i \in Slots(j) : clone[j][i] = "none" => plan[j][i] = None
    /\ \A d \in Deletion :
          /\ del[d] # "none" => handler[Target[d]] # "idle"
          /\ d \in knows => Target[d] \in recorded

(* No row comes or goes.                                                    *)
KeepsRows ==
    \A k \in Job : /\ Live(k)' <=> Live(k)
                   /\ job'[k] = "none" <=> job[k] = "none"
                   /\ job'[k] = "deleted" <=> job[k] = "deleted"

(* A status is set only where there is a row.                               *)
LEMMA StatusKeepsRows ==
  ASSUME TypeOK, NEW j \in Job, NEW s \in Statuses, SetStatus(j, s)
  PROVE  KeepsRows
BY DEF TypeOK, SetStatus, KeepsRows, Live, Statuses, PowerStatuses

(* Only a request makes a row, and only a deletion drops one.               *)
LEMMA RowsKept ==
  ASSUME TypeInv
  PROVE  /\ \A j \in Job : PoolStep(j) /\ ~Create(j) => KeepsRows
         /\ \A d \in Deletion : DeleteStep(d) /\ ~DelRelease(d) => KeepsRows
<1> USE DEF TypeInv, rowVars
<1>s. "running" \in Statuses /\ "failed" \in Statuses /\ "deleting" \in Statuses
      /\ "delete_failed" \in Statuses
  BY DEF Statuses
<1>a. \A a \in {"start", "stop"} :
         Pending[a] \in Statuses /\ Reached[a] \in Statuses /\ Broken[a] \in Statuses
  BY DEF Statuses, PowerStatuses, Pending, Reached, Broken
<1>u. UNCHANGED job => KeepsRows
  BY DEF KeepsRows, Live
<1>1. ASSUME NEW j \in Job, PoolStep(j), ~Create(j) PROVE KeepsRows
  <2>1. CASE Workflow(j)
    <3>1. UNCHANGED job \/ SetStatus(j, "running") \/ SetStatus(j, "failed")
      BY <2>1 DEF Workflow, Pull, Import, ImportCollides, ImportFail, Templatize,
                  ReserveVmids, ReserveFail, Record, ClonesFail, Setup, SetupFail,
                  Fail, TellFailure
    <3> QED BY <3>1, <1>s, <1>u, StatusKeepsRows
  <2>2. CASE \E a \in {"start", "stop"} : RequestPower(j, a) \/ Power(j, a)
    <3>1. PICK a \in {"start", "stop"} : RequestPower(j, a) \/ Power(j, a)
      BY <2>2
    <3>2. \/ UNCHANGED job \/ SetStatus(j, Pending[a])
          \/ SetStatus(j, Reached[a]) \/ SetStatus(j, Broken[a])
      BY <3>1 DEF RequestPower, Power, PowerVms, PowerDone, PowerFail
    <3> QED BY <3>2, <1>a, <1>u, StatusKeepsRows
  <2>3. CASE StartWorkflow(j) \/ StartFail(j)
    BY <2>3, <1>u DEF StartWorkflow, StartFail
  <2>4. CASE \E i \in Slots(j) : CloneVm(j, i)
    BY <2>4, <1>u DEF CloneVm, Clone, Mark, CloneFail
  <2> QED BY <1>1, <2>1, <2>2, <2>3, <2>4 DEF PoolStep
<1>2. ASSUME NEW d \in Deletion, DeleteStep(d), ~DelRelease(d) PROVE KeepsRows
  <2>1. Target[d] \in Job
    BY LlmAssumption
  <2>2. \/ UNCHANGED job \/ SetStatus(Target[d], "deleting")
        \/ SetStatus(Target[d], "delete_failed")
    BY <1>2 DEF DeleteStep, Delete, RequestDelete, DelBegin, DelVms, DelVmsFail,
                DelTemplate
  <2> QED BY <2>1, <2>2, <1>s, <1>u, StatusKeepsRows
<1> QED BY <1>1, <1>2

(* Nothing has happened yet.                                                *)
LEMMA InitPast == Init => Past
  BY LlmAssumption DEF Init, Past

(* The creation of a row, and the start of its workflow.                    *)
LEMMA HandlerPast ==
  ASSUME TypeInv, Past, NEW j \in Job, Create(j) \/ StartWorkflow(j) \/ StartFail(j)
  PROVE  Past'
<1> USE LlmAssumption DEF TypeInv, TypeOK, Past, Quiet, Early, AllDone, Slots,
        rowVars, ipVars, createVars, deleteVars, vmVars
<1>1. CASE Create(j)
  BY <1>1 DEF Create
<1>2. CASE StartWorkflow(j) \/ StartFail(j)
  <2>1. /\ handler[j] = "start" /\ handler' = [handler EXCEPT ![j] = "done"]
        /\ \A k \in Job \ {j} : wf'[k] = wf[k]
        /\ UNCHANGED <<rowVars, plan, clone, del, knows, lost>>
    BY <1>2 DEF StartWorkflow, StartFail, Started
  <2>2. j \notin recorded
    BY <2>1 DEF Made, Late
  <2>3. job[j] = "deleted" => j \in lost
    BY <2>1
  <2> QED BY <2>1, <2>2, <2>3
<1> QED BY <1>1, <1>2

(* The steps of the workflow.                                               *)
LEMMA WorkflowPast ==
  ASSUME TypeInv, Past, NEW j \in Job, Workflow(j)
  PROVE  Past'
<1>1. KeepsRows
  <2>1. wf[j] # "none"
    BY DEF Workflow, Pull, Import, ImportCollides, ImportFail, Templatize,
           ReserveVmids, ReserveFail, Record, ClonesFail, Setup, SetupFail, Fail,
           TellFailure, WfStep
  <2>2. ~Create(j)
    BY <2>1 DEF Create, TypeInv, Made
  <2> QED BY <2>2, RowsKept DEF PoolStep
<1>2. /\ UNCHANGED <<handler, deleteVars>>
      /\ \A k \in Job \ {j} : wf'[k] = wf[k]
      /\ wf[j] \in Late => wf'[j] \in Late
      /\ wf[j] \notin Early => wf'[j] \notin Early
  BY DEF Workflow, Pull, Import, ImportCollides, ImportFail, Templatize,
         ReserveVmids, ReserveFail, Record, ClonesFail, Setup, SetupFail, Fail,
         TellFailure, WfStep, TypeInv, TypeOK, Early, Late, createVars
<1>3. CASE ReserveVmids(j)
  <2>1. PICK f \in [Slots(j) -> FreeVmids] : plan' = [plan EXCEPT ![j] = f]
    BY <1>3 DEF ReserveVmids
  <2>2. /\ wf[j] = "reserve" /\ UNCHANGED rowVars
        /\ clone' = [clone EXCEPT ![j] = [i \in Slots(j) |-> "clone"]]
    BY <1>3 DEF ReserveVmids, WfStep
  <2>3. /\ \A k \in Job \ {j} : clone'[k] = clone[k] /\ plan'[k] = plan[k]
        /\ \A i \in Slots(j) : clone'[j][i] = "clone"
    BY <2>1, <2>2 DEF TypeInv, Shape
  <2>4. j \notin recorded /\ (job[j] = "deleted" => j \in lost)
    BY <2>2 DEF Past, Quiet, Early, Late
  <2> QED BY <1>2, <2>2, <2>3, <2>4 DEF Past, Quiet, AllDone, Slots, rowVars, deleteVars
<1>4. CASE ~ReserveVmids(j)
  <2>1. UNCHANGED <<clone, plan>>
    BY <1>4 DEF Workflow, Pull, Import, ImportCollides, ImportFail, Templatize,
         ReserveFail, Record, ClonesFail, Setup, SetupFail, Fail, createVars
  <2>2. recorded' = recorded \/ (recorded' = recorded \cup {j} /\ AllDone(j)
                                   /\ wf'[j] \in Late)
    BY <1>4 DEF Workflow, Pull, Import, ImportCollides, ImportFail, Templatize,
         ReserveFail, Record, ClonesFail, Setup, SetupFail, Fail, rowVars, WfStep,
         TypeInv, TypeOK, Late
  <2> QED BY <1>1, <1>2, <2>1, <2>2 DEF Past, Quiet, AllDone, Slots, deleteVars,
             KeepsRows
<1> QED BY <1>3, <1>4

(* A clone, once begun, is never as it was before.                          *)
LEMMA ClonePast ==
  ASSUME TypeInv, Past, NEW j \in Job, NEW i \in Slots(j), CloneVm(j, i)
  PROVE  Past'
<1>1. PICK from \in {"clone", "mark"}, to \in {"mark", "done", "failed"} :
         CloneStep(j, i, from, to)
  BY DEF CloneVm, Clone, Mark, CloneFail
<1>2. /\ \A k \in Job \ {j} : clone'[k] = clone[k]
      /\ \A m \in Slots(j) \ {i} : clone'[j][m] = clone[j][m]
      /\ clone[j][i] = from /\ clone'[j][i] = to
  BY <1>1, CloneStepTypes DEF TypeInv, ClonePcs
<1>3. UNCHANGED <<rowVars, handler, wf, plan, deleteVars>>
  BY DEF CloneVm, Clone, Mark, CloneFail
<1>4. j \notin recorded /\ (job[j] = "deleted" => j \in lost)
  BY <1>2 DEF Past, Quiet, AllDone
<1> QED BY <1>2, <1>3, <1>4 DEF Past, Quiet, AllDone, Slots, rowVars, deleteVars

(* The power actions leave all of this alone.                               *)
LEMMA PowerPast ==
  ASSUME TypeInv, Past, NEW j \in Job, NEW a \in {"start", "stop"},
         RequestPower(j, a) \/ Power(j, a)
  PROVE  Past'
<1>1. UNCHANGED <<recorded, createVars, deleteVars>>
  BY DEF RequestPower, Power, PowerVms, PowerDone, PowerFail, rowVars
<1>2. KeepsRows
  <2>1. CASE Create(j)
    BY <1>1, <2>1 DEF Create, createVars, TypeInv, TypeOK
  <2> QED BY <2>1, RowsKept DEF PoolStep
<1> QED BY <1>1, <1>2 DEF Past, Quiet, AllDone, Slots, KeepsRows, createVars,
           deleteVars

(* A pool is dropped without being lost only when it is quiet.              *)
LEMMA ReleasePast ==
  ASSUME TypeInv, Past, NEW d \in Deletion, DelRelease(d)
  PROVE  Past'
<1>t. Target[d] \in Job
  BY LlmAssumption
<1>1. handler[Target[d]] # "idle"
  BY DEF Past, DelRelease
<1>2. /\ UNCHANGED <<recorded, createVars, knows>>
      /\ job' = [job EXCEPT ![Target[d]] = "deleted"]
      /\ \A e \in Deletion : del'[e] # "none" => del[e] # "none"
  BY DEF DelRelease, TypeInv, TypeOK
<1>3. Target[d] \notin lost' => Quiet(Target[d])
  <2> SUFFICES ASSUME Target[d] \notin lost' PROVE Quiet(Target[d])
    OBVIOUS
  <2>1. CASE ~Live(Target[d])
    <3>1. job[Target[d]] = "deleted" /\ Target[d] \notin lost
      BY <1>t, <1>1, <2>1 DEF DelRelease, Past, TypeInv, TypeOK, Live
    <3> QED BY <1>t, <3>1 DEF Past
  <2>2. CASE Live(Target[d]) /\ d \in knows
    <3>1. AllDone(Target[d]) /\ wf[Target[d]] \in Late
      BY <1>t, <2>2 DEF Past
    <3> QED BY <1>t, <3>1 DEF AllDone, Quiet, Early, Late, TypeInv, Made
  <2>3. CASE Live(Target[d]) /\ d \notin knows
    <3>1. ~MayHaveMore(Target[d])
      BY <2>3 DEF DelRelease
    <3>2. handler[Target[d]] = "done"
      BY <1>t, <1>1, <3>1 DEF MayHaveMore, TypeInv, TypeOK
    <3> QED BY <3>1, <3>2 DEF MayHaveMore, Quiet, Early
  <2> QED BY <2>1, <2>2, <2>3
<1>4. lost \subseteq lost' /\ lost' \subseteq lost \cup {Target[d]}
  BY DEF DelRelease
<1>5. /\ \A k \in Job \ {Target[d]} : job'[k] = job[k]
      /\ job[Target[d]] # "none" /\ job'[Target[d]] = "deleted"
  BY <1>t, <1>1, <1>2 DEF Past, TypeInv, TypeOK
<1>6. ASSUME NEW j \in Job
      PROVE  /\ handler[j] = "idle" <=> job'[j] = "none"
             /\ j \in lost' => job'[j] # "none"
             /\ job'[j] = "deleted" /\ j \notin lost' => Quiet(j)
  BY <1>1, <1>3, <1>4, <1>5 DEF Past
<1> QED BY <1>2, <1>6 DEF Past, Quiet, AllDone, Slots, createVars

(* The deletions.                                                           *)
LEMMA DeletionPast ==
  ASSUME TypeInv, Past, NEW d \in Deletion, DeleteStep(d)
  PROVE  Past'
<1>t. Target[d] \in Job
  BY LlmAssumption
<1>1. CASE RequestDelete(d)
  <2>1. handler[Target[d]] # "idle"
    BY <1>t, <1>1 DEF RequestDelete, Live, Past, Statuses, PowerStatuses
  <2>2. /\ UNCHANGED <<rowVars, createVars, lost>>
        /\ \A e \in Deletion \ {d} : del'[e] = del[e]
        /\ \A e \in Deletion : e \in knows' =>
              e \in knows \/ (e = d /\ Target[d] \in recorded)
    BY <1>1 DEF RequestDelete, TypeInv, TypeOK
  <2> QED BY <1>t, <2>1, <2>2 DEF Past, Quiet, AllDone, Slots, rowVars, createVars
<1>2. CASE DelRelease(d)
  BY <1>2, ReleasePast
<1>3. CASE ~RequestDelete(d) /\ ~DelRelease(d)
  <2>1. /\ UNCHANGED <<recorded, createVars, knows, lost>>
        /\ \A e \in Deletion : del'[e] # "none" => del[e] # "none"
    BY <1>3 DEF DeleteStep, Delete, DelBegin, DelVms, DelVmsFail, DelTemplate,
                GiveUp, rowVars, TypeInv, TypeOK
  <2>2. KeepsRows
    BY <1>3, RowsKept
  <2> QED BY <2>1, <2>2 DEF Past, Quiet, AllDone, Slots, KeepsRows, createVars
<1> QED BY <1>1, <1>2, <1>3

(* Every step.                                                              *)
LEMMA NextPast == TypeInv /\ Past /\ [Next]_vars => Past'
<1> SUFFICES ASSUME TypeInv, Past, [Next]_vars PROVE Past'
  OBVIOUS
<1>1. ASSUME NEW j \in Job, PoolStep(j) PROVE Past'
  BY <1>1, HandlerPast, WorkflowPast, ClonePast, PowerPast DEF PoolStep
<1>2. ASSUME NEW d \in Deletion, DeleteStep(d) PROVE Past'
  BY <1>2, DeletionPast
<1>3. CASE Still
  BY <1>3 DEF Still, rowVars, createVars, deleteVars, Past, Quiet, AllDone, Slots
<1> QED BY <1>1, <1>2, <1>3, StepKinds

-----------------------------------------------------------------------------
(* Addresses in use have a pool.                                            *)

HeldInv == TypeInv /\ Past /\ AddressHeld

(* Only a creation, a clone that marks its entry and a deletion touch the   *)
(* entries.                                                                 *)
LEMMA UsedKept ==
  ASSUME TypeInv
  PROVE  /\ \A j \in Job :
              PoolStep(j) /\ ~Create(j) /\ (\A i \in Slots(j) : ~Mark(j, i))
                => UNCHANGED <<used, ips, lost, del>>
         /\ \A d \in Deletion :
              DeleteStep(d) /\ ~DelRelease(d) => UNCHANGED <<used, ips, lost>>
<1> USE DEF rowVars, ipVars, createVars, deleteVars
<1>1. ASSUME NEW j \in Job, PoolStep(j), ~Create(j),
             \A i \in Slots(j) : ~Mark(j, i)
      PROVE  UNCHANGED <<used, ips, lost, del>>
  <2>1. CASE Workflow(j)
    BY <2>1 DEF Workflow, Pull, Import, ImportCollides, ImportFail, Templatize,
                ReserveVmids, ReserveFail, Record, ClonesFail, Setup, SetupFail, Fail
  <2>2. CASE \E i \in Slots(j) : CloneVm(j, i)
    BY <1>1, <2>2 DEF CloneVm, Clone, CloneFail
  <2>3. CASE \E a \in {"start", "stop"} : RequestPower(j, a) \/ Power(j, a)
    BY <2>3 DEF RequestPower, Power, PowerVms, PowerDone, PowerFail
  <2>4. CASE StartWorkflow(j) \/ StartFail(j)
    BY <2>4 DEF StartWorkflow, StartFail
  <2> QED BY <1>1, <2>1, <2>2, <2>3, <2>4 DEF PoolStep
<1>2. ASSUME NEW d \in Deletion, DeleteStep(d), ~DelRelease(d)
      PROVE  UNCHANGED <<used, ips, lost>>
  BY <1>2 DEF DeleteStep, Delete, RequestDelete, DelBegin, DelVms, DelVmsFail,
              DelTemplate, KeepEntries
<1> QED BY <1>1, <1>2

(* What a creation does to entries and rows.                                *)
LEMMA Creation ==
  ASSUME TypeInv, Past, NEW j \in Job, Create(j)
  PROVE  /\ job[j] = "none" /\ j \notin lost /\ Live(j)'
         /\ used' = used \cup IpsOf(j)' /\ IpsOf(j)' \cap used = {}
         /\ \A k \in Job \ {j} : job'[k] = job[k] /\ ips'[k] = ips[k]
         /\ UNCHANGED <<lost, del>>
<1>1. PICK f \in [Slots(j) -> Ip \ used] :
         ips' = [ips EXCEPT ![j] = f] /\ used' = used \cup {f[i] : i \in Slots(j)}
  BY DEF Create
<1>2. ips'[j] = f /\ \A k \in Job \ {j} : ips'[k] = ips[k]
  BY <1>1 DEF TypeInv, Shape
<1>3. IpsOf(j)' = {f[i] : i \in Slots(j)}
  BY <1>2 DEF IpsOf, Slots
<1>4. job' = [job EXCEPT ![j] = "provisioning"] /\ handler[j] = "idle"
      /\ UNCHANGED <<lost, del>>
  BY DEF Create, deleteVars
<1> QED BY <1>1, <1>2, <1>3, <1>4 DEF Past, TypeInv, TypeOK, Live, Statuses

(* A clone marks an address of a pool that is there, or lost.               *)
LEMMA Marking ==
  ASSUME TypeInv, Past, NEW j \in Job, NEW i \in Slots(j), Mark(j, i)
  PROVE  /\ used' = used \cup {ips[j][i]} /\ ips[j][i] \in IpsOf(j)
         /\ Live(j) \/ j \in lost
         /\ UNCHANGED <<job, ips, lost, del>>
<1>1. clone[j][i] = "mark"
  BY DEF Mark, CloneStep
<1>2. handler[j] # "idle"
  BY <1>1 DEF TypeInv, Made
<1>3. Live(j) \/ job[j] = "deleted"
  BY <1>2 DEF Past, TypeInv, TypeOK, Live
<1>4. job[j] = "deleted" => j \in lost
  BY <1>1 DEF Past, Quiet
<1> QED BY <1>3, <1>4 DEF Mark, IpsOf, rowVars, deleteVars

(* A deletion frees the addresses of its pool, and of no other.             *)
LEMMA Releasing ==
  ASSUME TypeInv, NEW d \in Deletion, DelRelease(d)
  PROVE  /\ Target[d] \in Job
         /\ used' = used \ IpsOf(Target[d])
         /\ \A k \in Job \ {Target[d]} : job'[k] = job[k]
         /\ job'[Target[d]] = "deleted"
         /\ lost \subseteq lost' /\ UNCHANGED ips
  BY LlmAssumption DEF DelRelease, Freed, TypeInv, TypeOK

(* Every step keeps the entries in use held.                                *)
LEMMA NextHeld == HeldInv /\ [Next]_vars => AddressHeld'
<1> SUFFICES ASSUME TypeInv, Past, AddressHeld, [Next]_vars PROVE AddressHeld'
  BY DEF HeldInv
<1> USE DEF AddressHeld, IpsOf, Slots
<1>k. ASSUME KeepsRows, UNCHANGED <<used, ips, lost>> PROVE AddressHeld'
  BY <1>k DEF KeepsRows
<1>1. ASSUME NEW j \in Job, PoolStep(j) PROVE AddressHeld'
  <2>1. CASE Create(j)
    <3>1. /\ job[j] = "none" /\ j \notin lost /\ Live(j)'
          /\ used' = used \cup IpsOf(j)'
          /\ \A k \in Job \ {j} : job'[k] = job[k] /\ ips'[k] = ips[k]
          /\ UNCHANGED lost
      BY <2>1, Creation
    <3>2. ASSUME NEW e \in used
          PROVE  \E k \in Job \ {j} : e \in IpsOf(k) /\ (Live(k) \/ k \in lost)
      BY <3>1, <3>2 DEF Live, Statuses, PowerStatuses
    <3> QED BY <3>1, <3>2 DEF Live
  <2>2. ASSUME NEW i \in Slots(j), Mark(j, i) PROVE AddressHeld'
    BY <2>2, Marking DEF Live
  <2>3. CASE ~Create(j) /\ \A i \in Slots(j) : ~Mark(j, i)
    BY <1>1, <1>k, <2>3, RowsKept, UsedKept
  <2> QED BY <2>1, <2>2, <2>3
<1>2. ASSUME NEW d \in Deletion, DeleteStep(d) PROVE AddressHeld'
  <2>1. CASE DelRelease(d)
    BY <2>1, Releasing DEF Live
  <2>2. CASE ~DelRelease(d)
    BY <1>2, <1>k, <2>2, RowsKept, UsedKept
  <2> QED BY <2>1, <2>2
<1>3. CASE Still
  BY <1>3, <1>k DEF Still, rowVars, ipVars, deleteVars, KeepsRows, Live
<1> QED BY <1>1, <1>2, <1>3, StepKinds

(* An entry in use is named by a pool whose row is there, or that was lost  *)
(* to a deletion at work: what the comment of create_llm_inference_job says *)
(* of addresses recorded at creation.                                       *)
THEOREM AddressesAreHeld == Spec => []AddressHeld
<1>1. Init => HeldInv
  BY InitTypes, InitPast DEF HeldInv, AddressHeld, Init
<1>2. HeldInv /\ [Next]_vars => HeldInv'
  BY NextTypes, NextPast, NextHeld DEF HeldInv
<1>3. HeldInv => AddressHeld
  BY DEF HeldInv
<1> QED BY <1>1, <1>2, <1>3, PTL DEF Spec

-----------------------------------------------------------------------------
(* Addresses are not shared.                                                *)

(* As long as no pool is deleted twice, a row's addresses are in use, and a *)
(* deletion about to free some still has its row.                           *)
Apart ==
    /\ AddressNotShared
    /\ Twice \/ \A j \in Job : Live(j) => IpsOf(j) \subseteq used
    /\ Twice \/ \A d \in Deletion : del[d] = "release" => Live(Target[d])

(* A deletion that was asked for stays so, and takes its steps in order.    *)
LEMMA DelForward ==
  ASSUME TypeInv, [Next]_vars, NEW e \in Deletion
  PROVE  /\ del[e] # "none" => del'[e] # "none"
         /\ del'[e] = "release" => del[e] = "release" \/ Live(Target[e])
         /\ DelRelease(e) => del[e] = "release" /\ del'[e] = "done"
<1>1. ASSUME NEW j \in Job, PoolStep(j) PROVE UNCHANGED del
  <2>1. CASE Create(j)
    BY <2>1 DEF Create, deleteVars
  <2>2. ASSUME NEW i \in Slots(j), Mark(j, i) PROVE UNCHANGED del
    BY <2>2 DEF Mark, deleteVars
  <2> QED BY <1>1, <2>1, <2>2, UsedKept
<1>2. ASSUME NEW d \in Deletion, DeleteStep(d)
      PROVE  /\ del'[d] # "none"
             /\ \A x \in Deletion \ {d} : del'[x] = del[x]
             /\ del'[d] = "release" => Live(Target[d])
  BY <1>2 DEF DeleteStep, Delete, RequestDelete, DelBegin, DelVms, DelVmsFail,
              GiveUp, DelTemplate, DelRelease, TypeInv, TypeOK
<1>3. DelRelease(e) => del[e] = "release" /\ del'[e] = "done"
  BY DEF DelRelease, TypeInv, TypeOK
<1>4. CASE Still
  BY <1>3, <1>4 DEF Still, deleteVars
<1> QED BY <1>1, <1>2, <1>3, <1>4, StepKinds

(* Every step keeps them apart.                                             *)
LEMMA NextApart == TypeInv /\ Past /\ Apart /\ [Next]_vars => Apart'
<1> SUFFICES ASSUME TypeInv, Past, Apart, [Next]_vars, ~Twice' PROVE Apart'
  BY DEF Apart, AddressNotShared
<1> USE DEF IpsOf, Slots
<1>w. \A d, e \in Deletion :
         d # e /\ Target[d] = Target[e] /\ del[d] # "none" => del'[e] = "none"
  BY DelForward, LlmAssumption DEF Twice, Asked
<1>a. /\ \A j, k \in Job : Live(j) /\ Live(k) /\ j # k => IpsOf(j) \cap IpsOf(k) = {}
      /\ \A j \in Job : Live(j) => IpsOf(j) \subseteq used
      /\ \A d \in Deletion : del[d] = "release" => Live(Target[d])
  <2>1. ~Twice
    BY DelForward DEF Twice, Asked
  <2> QED BY <2>1 DEF Apart, AddressNotShared
<1>g. /\ \A j, k \in Job : Live(j)' /\ Live(k)' /\ j # k => IpsOf(j)' \cap IpsOf(k)' = {}
      /\ \A j \in Job : Live(j)' => IpsOf(j)' \subseteq used'
      /\ \A d \in Deletion : del'[d] = "release" => Live(Target[d])'
      => Apart'
  BY LlmAssumption DEF Apart, AddressNotShared
<1>k. ASSUME KeepsRows, UNCHANGED ips, used \subseteq used' PROVE Apart'
  <2>1. \A d \in Deletion : del'[d] = "release" => Live(Target[d])'
    BY <1>a, <1>k, DelForward, LlmAssumption DEF KeepsRows
  <2>2. \A j \in Job : Live(j)' => IpsOf(j)' \subseteq used'
    BY <1>a, <1>k DEF KeepsRows
  <2>3. \A j, k \in Job : Live(j)' /\ Live(k)' /\ j # k => IpsOf(j)' \cap IpsOf(k)' = {}
    BY <1>a, <1>k DEF KeepsRows
  <2> QED BY <1>g, <2>1, <2>2, <2>3
<1>1. ASSUME NEW j \in Job, PoolStep(j) PROVE Apart'
  <2>1. CASE Create(j)
    <3>1. /\ job[j] = "none" /\ Live(j)'
          /\ used' = used \cup IpsOf(j)' /\ IpsOf(j)' \cap used = {}
          /\ \A k \in Job \ {j} : job'[k] = job[k] /\ ips'[k] = ips[k]
          /\ UNCHANGED del
      BY <2>1, Creation
    <3>2. \A k \in Job \ {j} : /\ Live(k)' <=> Live(k)
                               /\ IpsOf(k)' = IpsOf(k)
      BY <3>1 DEF Live
    <3>3. \A d \in Deletion : del'[d] = "release" => Live(Target[d])'
      BY <1>a, <3>1, <3>2, LlmAssumption
    <3>4. \A k \in Job : Live(k)' => IpsOf(k)' \subseteq used'
      BY <1>a, <3>1, <3>2
    <3>5. \A k, m \in Job : Live(k)' /\ Live(m)' /\ k # m => IpsOf(k)' \cap IpsOf(m)' = {}
      <4> SUFFICES ASSUME NEW k \in Job, NEW m \in Job, Live(k)', Live(m)', k # m
                   PROVE  IpsOf(k)' \cap IpsOf(m)' = {}
        OBVIOUS
      <4>1. CASE k # j /\ m # j
        <5>1. /\ Live(k) /\ IpsOf(k)' = IpsOf(k)
              /\ Live(m) /\ IpsOf(m)' = IpsOf(m)
          BY <3>2, <4>1
        <5>2. IpsOf(k) \cap IpsOf(m) = {}
          BY <1>a, <5>1
        <5> QED BY <5>1, <5>2
      <4>2. CASE k = j
        <5>1. Live(m) /\ IpsOf(m)' = IpsOf(m) /\ IpsOf(m) \subseteq used
          BY <1>a, <3>2, <4>2
        <5> QED BY <3>1, <4>2, <5>1
      <4>3. CASE m = j
        <5>1. Live(k) /\ IpsOf(k)' = IpsOf(k) /\ IpsOf(k) \subseteq used
          BY <1>a, <3>2, <4>3
        <5> QED BY <3>1, <4>3, <5>1
      <4> QED BY <4>1, <4>2, <4>3
    <3> QED BY <1>g, <3>3, <3>4, <3>5
  <2>2. ASSUME NEW i \in Slots(j), Mark(j, i) PROVE Apart'
    BY <1>k, <2>2, Marking DEF KeepsRows, Live
  <2>3. CASE ~Create(j) /\ \A i \in Slots(j) : ~Mark(j, i)
    BY <1>1, <1>k, <2>3, RowsKept, UsedKept
  <2> QED BY <2>1, <2>2, <2>3
<1>2. ASSUME NEW d \in Deletion, DeleteStep(d) PROVE Apart'
  <2>1. CASE DelRelease(d)
    <3>1. /\ Target[d] \in Job
          /\ used' = used \ IpsOf(Target[d])
          /\ \A k \in Job \ {Target[d]} : job'[k] = job[k]
          /\ job'[Target[d]] = "deleted" /\ UNCHANGED ips
      BY <2>1, Releasing
    <3>2. del[d] = "release" /\ del'[d] = "done" /\ Live(Target[d])
      BY <1>a, <2>1, DelForward
    <3>3. \A k \in Job : Live(k)' => k # Target[d] /\ Live(k) /\ IpsOf(k)' = IpsOf(k)
      BY <3>1 DEF Live, Statuses, PowerStatuses
    <3>4. \A e \in Deletion : del'[e] = "release" => Live(Target[e])'
      <4> SUFFICES ASSUME NEW e \in Deletion, del'[e] = "release"
                   PROVE  Live(Target[e])'
        OBVIOUS
      <4>1. e # d /\ Target[e] # Target[d]
        BY <1>w, <3>2
      <4>2. Live(Target[e])
        BY <1>a, DelForward
      <4> QED BY <3>1, <4>1, <4>2, LlmAssumption DEF Live
    <3>5. \A k \in Job : Live(k)' => IpsOf(k)' \subseteq used'
      BY <1>a, <3>1, <3>2, <3>3
    <3>6. \A k, m \in Job : Live(k)' /\ Live(m)' /\ k # m => IpsOf(k)' \cap IpsOf(m)' = {}
      BY <1>a, <3>3
    <3> QED BY <1>g, <3>4, <3>5, <3>6
  <2>2. CASE ~DelRelease(d)
    BY <1>2, <1>k, <2>2, RowsKept, UsedKept
  <2> QED BY <2>1, <2>2
<1>3. CASE Still
  BY <1>3, <1>k DEF Still, rowVars, ipVars, KeepsRows, Live
<1> QED BY <1>1, <1>2, <1>3, StepKinds

(* delete_llm_pool_activity keeps the entries of what it could not remove:  *)
(* unless a pool is deleted twice, no two pools have the same address.      *)
THEOREM AddressesAreNotShared == Spec => []AddressNotShared
<1> DEFINE Inv == TypeInv /\ Past /\ Apart
<1>1. Init => Inv
  BY InitTypes, InitPast DEF Init, Apart, AddressNotShared, Live, Statuses, PowerStatuses
<1>2. Inv /\ [Next]_vars => Inv'
  BY NextTypes, NextPast, NextApart
<1>3. Inv => AddressNotShared
  BY DEF Apart
<1> QED BY <1>1, <1>2, <1>3, PTL DEF Spec

-----------------------------------------------------------------------------
(* The refinement of IpReservation.                                         *)

(* As many addresses are chosen as there are nodes: Lowest takes none twice. *)
LEMMA AsMany ==
  ASSUME NEW n \in Nat, NEW f \in [1 .. n -> Nat], NEW T,
         \A i, k \in 1 .. n : i < k => f[i] < f[k],
         \A i \in 1 .. n : f[i] \in T,
         \A y \in T : \E i \in 1 .. n : y = f[i]
  PROVE  Cardinality(T) = n
<1>1. f \in Surjection(1 .. n, T)
  BY DEF Surjection
<1>2. \A i, k \in 1 .. n : i # k => f[i] # f[k]
  <2> SUFFICES ASSUME NEW i \in 1 .. n, NEW k \in 1 .. n, i < k PROVE f[i] # f[k]
    OBVIOUS
  <2>1. f[i] < f[k] /\ f[i] \in Nat /\ f[k] \in Nat
    OBVIOUS
  <2> QED BY <2>1
<1>3. f \in Injection(1 .. n, T)
  BY <1>1, <1>2 DEF Injection, IsInjective, Surjection
<1>4. IsFiniteSet(1 .. n) /\ Cardinality(1 .. n) = n
  BY FS_Interval
<1> QED BY <1>1, <1>3, <1>4, FS_Surjection

(* What a row holds, now and after the step.                                *)
LEMMA RowHoldsIs ==
  /\ RowHolds = [j \in Job |-> RowHolds[j]]
  /\ RowHolds' = [j \in Job |-> RowHolds'[j]]
  /\ \A j \in Job : /\ RowHolds[j] = IF Live(j) THEN IpsOf(j) ELSE {}
                    /\ RowHolds'[j] = IF Live(j)' THEN IpsOf(j)' ELSE {}
  BY DEF RowHolds

(* A creation reserves what no row holds.                                   *)
LEMMA CreationReserves ==
  ASSUME TypeInv, Past, Apart, ~Twice, NEW j \in Job, Create(j)
  PROVE  Rows!Reserve(j)
<1>1. /\ job[j] = "none" /\ Live(j)'
      /\ IpsOf(j)' \cap used = {}
      /\ \A k \in Job \ {j} : job'[k] = job[k] /\ ips'[k] = ips[k]
  BY Creation
<1>2. PICK f \in [Slots(j) -> Ip \ used] :
         Lowest(f, Ip \ used) /\ ips' = [ips EXCEPT ![j] = f]
  BY DEF Create
<1>3. IpsOf(j)' = {f[i] : i \in 1 .. Size[j]}
  BY <1>2 DEF IpsOf, Slots, TypeInv, Shape
<1>4. Cardinality(IpsOf(j)') = Size[j]
  <2>1. Size[j] \in Nat /\ Ip \subseteq Nat
    BY LlmAssumption
  <2>2. \A i, k \in 1 .. Size[j] : i < k => f[i] < f[k]
    BY <1>2 DEF Lowest, Slots
  <2>3. f \in [1 .. Size[j] -> Nat]
    BY <2>1 DEF Slots
  <2>4. \A i \in 1 .. Size[j] : f[i] \in IpsOf(j)'
    BY <1>3
  <2>5. \A y \in IpsOf(j)' : \E i \in 1 .. Size[j] : y = f[i]
    BY <1>3
  <2> QED BY <2>1, <2>2, <2>3, <2>4, <2>5, AsMany
<1>5. RowHolds[j] = {} /\ RowHolds'[j] = IpsOf(j)'
  BY <1>1, RowHoldsIs DEF Live, Statuses, PowerStatuses
<1>6. \A k \in Job : RowHolds[k] \subseteq used
  BY RowHoldsIs DEF Apart
<1>7. IpsOf(j)' \in SUBSET Rows!Free
  BY <1>1, <1>3, <1>6 DEF Rows!Free, Slots
<1>8. \A k \in Job \ {j} : RowHolds'[k] = RowHolds[k]
  <2>1. \A k \in Job \ {j} : Live(k)' = Live(k) /\ IpsOf(k)' = IpsOf(k)
    BY <1>1 DEF Live, IpsOf, Slots
  <2> QED BY <2>1, RowHoldsIs
<1>9. RowHolds' = [RowHolds EXCEPT ![j] = IpsOf(j)']
  BY <1>5, <1>8, RowHoldsIs
<1>10. Rows!Cardinality(IpsOf(j)') = Size[j]
  <2>1. Rows!Cardinality(IpsOf(j)') = Cardinality(IpsOf(j)')
    BY DEF Rows!Cardinality, Cardinality
  <2> QED BY <1>4, <2>1
<1> QED BY <1>5, <1>7, <1>9, <1>10 DEF Rows!Reserve

(* A deletion that drops a row releases what the row held.                  *)
LEMMA DroppingReleases ==
  ASSUME TypeInv, Apart, ~Twice, NEW d \in Deletion, DelRelease(d)
  PROVE  Rows!Release(Target[d])
<1> DEFINE j == Target[d]
<1>1. /\ j \in Job /\ job'[j] = "deleted" /\ UNCHANGED ips
      /\ \A k \in Job \ {j} : job'[k] = job[k]
  BY Releasing
<1>2. Live(j)
  BY DEF Apart, DelRelease
<1>3. ips[j][1] \in IpsOf(j)
  BY <1>1, LlmAssumption DEF IpsOf, Slots
<1>4. RowHolds[j] # {} /\ RowHolds'[j] = {}
  BY <1>1, <1>2, <1>3, RowHoldsIs DEF Live, Statuses, PowerStatuses
<1>5. \A k \in Job \ {j} : RowHolds'[k] = RowHolds[k]
  <2>1. \A k \in Job \ {j} : Live(k)' = Live(k) /\ IpsOf(k)' = IpsOf(k)
    BY <1>1 DEF Live, IpsOf, Slots
  <2> QED BY <2>1, RowHoldsIs
<1>6. RowHolds' = [RowHolds EXCEPT ![j] = {}]
  BY <1>1, <1>4, <1>5, RowHoldsIs
<1> QED BY <1>4, <1>6 DEF Rows!Release

(* A step is one of IpReservation, or none.                                 *)
LEMMA RowsRefine ==
  ASSUME TypeInv, Past, Apart, ~Twice, [Next]_vars
  PROVE  [Rows!Next]_RowHolds
<1>k. ASSUME KeepsRows, UNCHANGED ips PROVE UNCHANGED RowHolds
  <2>1. \A j \in Job : RowHolds'[j] = RowHolds[j]
    BY <1>k, RowHoldsIs DEF KeepsRows, IpsOf, Slots
  <2> QED BY <2>1, RowHoldsIs
<1>1. ASSUME NEW j \in Job, PoolStep(j) PROVE [Rows!Next]_RowHolds
  <2>1. CASE Create(j)
    BY <2>1, CreationReserves DEF Rows!Next
  <2>2. ASSUME NEW i \in Slots(j), Mark(j, i) PROVE UNCHANGED RowHolds
    <3>1. KeepsRows
      BY <1>1, RowsKept, <2>2 DEF Mark, rowVars, KeepsRows, Live
    <3> QED BY <1>k, <2>2, <3>1 DEF Mark, rowVars
  <2>3. CASE ~Create(j) /\ \A i \in Slots(j) : ~Mark(j, i)
    BY <1>1, <1>k, <2>3, RowsKept, UsedKept
  <2> QED BY <2>1, <2>2, <2>3
<1>2. ASSUME NEW d \in Deletion, DeleteStep(d) PROVE [Rows!Next]_RowHolds
  <2>1. CASE DelRelease(d)
    BY <2>1, DroppingReleases, LlmAssumption DEF Rows!Next
  <2>2. CASE ~DelRelease(d)
    BY <1>2, <1>k, <2>2, RowsKept, UsedKept
  <2> QED BY <2>1, <2>2
<1>3. CASE Still
  BY <1>3, <1>k DEF Still, rowVars, KeepsRows, Live
<1> QED BY <1>1, <1>2, <1>3, StepKinds

(* No row, no address.                                                      *)
LEMMA RowsInit == Init => Rows!Init
<1> SUFFICES ASSUME Init PROVE Rows!Init
  OBVIOUS
<1>1. \A j \in Job : RowHolds[j] = {}
  BY RowHoldsIs DEF Init, Live, Statuses, PowerStatuses
<1> QED BY <1>1, RowHoldsIs DEF Rows!Init

(* create_llm_inference_job and delete_llm_pool_activity implement           *)
(* IpReservation as long as no pool is deleted twice: a row has as many      *)
(* addresses as the pool has nodes, all at once and until it is dropped, and *)
(* none of them is another's before it is free.                              *)
THEOREM AddressesAreReserved == Spec /\ []~Twice => ReservesAddresses
<1> DEFINE Inv == TypeInv /\ Past /\ Apart
<1>1. Init => Inv
  BY InitTypes, InitPast DEF Init, Apart, AddressNotShared, Live, Statuses, PowerStatuses
<1>2. Inv /\ [Next]_vars => Inv'
  BY NextTypes, NextPast, NextApart
<1>3. Inv /\ ~Twice /\ [Next]_vars => [Rows!Next]_RowHolds
  BY RowsRefine
<1> QED BY <1>1, <1>2, <1>3, RowsInit, PTL DEF Spec, ReservesAddresses, Rows!Spec

-----------------------------------------------------------------------------
(* Deleted pools leave no machine.                                          *)

NoneLeft(j) == \A v \in VmsOf(j) \cap Vmid : vm[v] # j

(* A deletion that knows the machines has removed them when it goes on, if  *)
(* it could.                                                                *)
Gone ==
    /\ DeletedAreGone
    /\ \A d \in knows : del[d] \in {"finish", "release"} /\ Target[d] \notin stranded
                         => NoneLeft(Target[d])

(* What a deletion could not remove counts as left for good.                *)
LEMMA StrandedStay ==
  ASSUME [Next]_vars
  PROVE  stranded \subseteq stranded'
<1>1. ASSUME NEW j \in Job, PoolStep(j) PROVE stranded' = stranded
  BY <1>1 DEF PoolStep, Create, StartWorkflow, StartFail, Workflow, Pull,
       Import, ImportCollides, ImportFail, Templatize, ReserveVmids,
       ReserveFail, Record, ClonesFail, Setup, SetupFail, Fail, CloneVm,
       Clone, Mark, CloneFail, RequestPower, Power, PowerVms, PowerDone,
       PowerFail, deleteVars
<1>2. ASSUME NEW d \in Deletion, DeleteStep(d) PROVE stranded \subseteq stranded'
  BY <1>2 DEF DeleteStep, Delete, RequestDelete, DelBegin, DelVms, DelVmsFail,
       DelTemplate, DelRelease
<1>3. CASE Still
  BY <1>3 DEF Still
<1> QED BY <1>1, <1>2, <1>3, StepKinds

(* A recorded pool makes no more machines.                                  *)
LEMMA RecordedIsQuiet ==
  ASSUME TypeInv, Past, NEW j \in recorded, j \in Job
  PROVE  Quiet(j)
BY DEF Past, AllDone, Quiet, Early, Late, TypeInv, Made

(* Nor does one whose creation has come to rest.                            *)
LEMMA QuietMakesNone ==
  ASSUME TypeInv, [Next]_vars, NEW j \in Job, Quiet(j)
  PROVE  /\ plan'[j] = plan[j]
         /\ \A v \in Vmid : vm'[v] = j => vm[v] = j
<1>n. NoJob # j
  BY LlmAssumption
<1> USE <1>n DEF rowVars, ipVars, createVars, deleteVars, vmVars
<1>1. ASSUME NEW k \in Job, Workflow(k)
      PROVE  plan'[j] = plan[j] /\ \A v \in Vmid : vm'[v] = j => vm[v] = j
  <2>1. CASE ReserveVmids(k)
    <3>1. k # j
      BY <2>1 DEF ReserveVmids, WfStep, Quiet, Early
    <3> QED BY <2>1, <3>1 DEF ReserveVmids, TypeInv, Shape
  <2>2. CASE Import(k)
    <3>1. k # j
      BY <2>2 DEF Import, WfStep, Quiet, Early
    <3> QED BY <2>2, <3>1 DEF Import, TypeInv, TypeOK
  <2>3. CASE ~ReserveVmids(k) /\ ~Import(k)
    BY <1>1, <2>3 DEF Workflow, Pull, ImportCollides, ImportFail, Templatize,
         ReserveFail, Record, ClonesFail, Setup, SetupFail, Fail, Destroy
  <2> QED BY <2>1, <2>2, <2>3
<1>2. ASSUME NEW k \in Job, NEW i \in Slots(k), CloneVm(k, i)
      PROVE  plan'[j] = plan[j] /\ \A v \in Vmid : vm'[v] = j => vm[v] = j
  <2>1. CASE Clone(k, i)
    <3>1. k # j
      BY <2>1 DEF Clone, CloneStep, Quiet
    <3> QED BY <2>1, <3>1 DEF Clone, TypeInv, TypeOK
  <2> QED BY <1>2, <2>1 DEF CloneVm, Mark, CloneFail
<1>3. ASSUME NEW k \in Job, NEW a \in {"start", "stop"},
             RequestPower(k, a) \/ Power(k, a)
      PROVE  plan'[j] = plan[j] /\ \A v \in Vmid : vm'[v] = j => vm[v] = j
  BY <1>3 DEF RequestPower, Power, PowerVms, PowerDone, PowerFail
<1>4. ASSUME NEW k \in Job, Create(k) \/ StartWorkflow(k) \/ StartFail(k)
      PROVE  plan'[j] = plan[j] /\ \A v \in Vmid : vm'[v] = j => vm[v] = j
  BY <1>4 DEF Create, StartWorkflow, StartFail
<1>5. ASSUME NEW d \in Deletion, DeleteStep(d)
      PROVE  plan'[j] = plan[j] /\ \A v \in Vmid : vm'[v] = j => vm[v] = j
  BY <1>5 DEF DeleteStep, Delete, RequestDelete, DelBegin, DelVms, DelVmsFail,
              DelTemplate, DelRelease, Removed, Destroy
<1>6. ASSUME NEW k \in Job, PoolStep(k)
      PROVE  plan'[j] = plan[j] /\ \A v \in Vmid : vm'[v] = j => vm[v] = j
  BY <1>1, <1>2, <1>3, <1>4, <1>6 DEF PoolStep
<1>7. CASE Still
  BY <1>7 DEF Still
<1> QED BY <1>5, <1>6, <1>7, StepKinds

(* What is gone stays gone.                                                 *)
LEMMA NoneLeftStays ==
  ASSUME TypeInv, [Next]_vars, NEW j \in Job, Quiet(j), NoneLeft(j)
  PROVE  NoneLeft(j)'
<1>1. VmsOf(j)' = VmsOf(j)
  BY QuietMakesNone DEF VmsOf, Slots
<1> QED BY <1>1, QuietMakesNone DEF NoneLeft

(* Every step leaves the machines of deleted pools gone.                    *)
LEMMA NextGone == TypeInv /\ Past /\ Gone /\ [Next]_vars => Gone'
<1> SUFFICES ASSUME TypeInv, Past, Gone, [Next]_vars PROVE Gone'
  OBVIOUS
<1>1. ASSUME NEW d \in Deletion, d \in knows', del'[d] \in {"finish", "release"},
             Target[d] \notin stranded'
      PROVE  NoneLeft(Target[d])'
  <2>t. Target[d] \in Job
    BY LlmAssumption
  <2>1. CASE DelVms(d)
    <3>1. d \in knows /\ vm' = [v \in Vmid |-> IF v \in VmsOf(Target[d])
                                             THEN NoJob ELSE vm[v]]
          /\ UNCHANGED plan
      BY <1>1, <2>1 DEF DelVms, Listed, Removed, createVars
    <3> QED BY <3>1, <2>t, LlmAssumption DEF NoneLeft, VmsOf, Slots
  <2>2. CASE ~DelVms(d)
    <3>1. d \in knows /\ del[d] \in {"finish", "release"}
      <4>1. CASE UNCHANGED <<del, knows>>
        BY <1>1, <4>1
      <4>2. ASSUME NEW e \in Deletion, DeleteStep(e)
            PROVE  d \in knows /\ del[d] \in {"finish", "release"}
        BY <1>1, <2>2, <4>2 DEF DeleteStep, Delete, RequestDelete, DelBegin,
             DelVms, DelVmsFail, GiveUp, DelTemplate, DelRelease, TypeInv, TypeOK
      <4>3. ASSUME NEW j \in Job, PoolStep(j) PROVE UNCHANGED <<del, knows>>
        BY <4>3 DEF PoolStep, Create, StartWorkflow, StartFail, Workflow, Pull,
             Import, ImportCollides, ImportFail, Templatize, ReserveVmids,
             ReserveFail, Record, ClonesFail, Setup, SetupFail, Fail, CloneVm,
             Clone, Mark, CloneFail, RequestPower, Power, PowerVms, PowerDone,
             PowerFail, deleteVars
      <4> QED BY <4>1, <4>2, <4>3, StepKinds DEF Still, deleteVars
    <3>2. NoneLeft(Target[d]) /\ Quiet(Target[d])
      BY <1>1, <3>1, <2>t, RecordedIsQuiet, StrandedStay DEF Gone, Past
    <3> QED BY <2>t, <3>2, NoneLeftStays
  <2> QED BY <2>1, <2>2
<1>2. ASSUME NEW j \in Job, job'[j] = "deleted", j \notin lost' \cup stranded'
      PROVE  NoneLeft(j)'
  <2>s. j \notin stranded
    BY <1>2, StrandedStay
  <2>1. CASE job[j] = "deleted" /\ j \notin lost
    <3>1. Quiet(j) /\ NoneLeft(j)
      BY <2>s, <2>1 DEF Past, Gone, DeletedAreGone, NoneLeft
    <3> QED BY <3>1, NoneLeftStays
  <2>2. ASSUME NEW d \in Deletion, DelRelease(d), Target[d] = j, job[j] # "deleted"
        PROVE  NoneLeft(j)'
    <3>1. Live(j)
      BY <2>2 DEF DelRelease, Past, TypeInv, TypeOK, Live
    <3>2. CASE d \in knows
      BY <2>s, <2>2, <3>2, RecordedIsQuiet, NoneLeftStays DEF DelRelease, Gone, Past
    <3>3. CASE d \notin knows
      <4>1. ~MayHaveMore(j)
        BY <1>2, <2>2, <3>1, <3>3 DEF DelRelease
      <4>2. \A i \in Slots(j) : plan[j][i] = None
        BY <4>1 DEF MayHaveMore, Past
      <4>3. VmsOf(j)' \cap Vmid = {}
        BY <2>2, <4>2, LlmAssumption DEF DelRelease, createVars, VmsOf, Slots, None
      <4> QED BY <4>3 DEF NoneLeft
    <3> QED BY <3>2, <3>3
  <2>3. \/ job[j] = "deleted" /\ j \notin lost
        \/ \E d \in Deletion : DelRelease(d) /\ Target[d] = j /\ job[j] # "deleted"
    <3>1. CASE Still
      BY <1>2, <3>1 DEF Still, rowVars, deleteVars
    <3>2. ASSUME NEW k \in Job, PoolStep(k) PROVE job[j] = "deleted" /\ j \notin lost
      <4>1. CASE Create(k)
        BY <1>2, <4>1, Creation DEF Live, Statuses, PowerStatuses
      <4>2. ASSUME NEW i \in Slots(k), Mark(k, i) PROVE job[j] = "deleted" /\ j \notin lost
        BY <1>2, <4>2, Marking
      <4> QED BY <1>2, <3>2, <4>1, <4>2, RowsKept, UsedKept DEF KeepsRows
    <3>3. ASSUME NEW d \in Deletion, DeleteStep(d), ~DelRelease(d)
          PROVE  job[j] = "deleted" /\ j \notin lost
      BY <1>2, <3>3, RowsKept, UsedKept DEF KeepsRows
    <3>4. ASSUME NEW d \in Deletion, DelRelease(d)
          PROVE  \/ job[j] = "deleted" /\ j \notin lost
                 \/ DelRelease(d) /\ Target[d] = j /\ job[j] # "deleted"
      <4>1. CASE Target[d] = j
        <5>1. lost \subseteq lost'
          BY <3>4, Releasing
        <5> QED BY <1>2, <3>4, <4>1, <5>1
      <4>2. CASE Target[d] # j
        <5>1. job'[j] = job[j] /\ lost \subseteq lost'
          BY <3>4, <4>2, Releasing
        <5> QED BY <1>2, <5>1
      <4> QED BY <4>1, <4>2
    <3> QED BY <3>1, <3>2, <3>3, <3>4, StepKinds
  <2> QED BY <2>1, <2>2, <2>3
<1>3. knows' \subseteq Deletion
  BY NextTypes DEF TypeInv, TypeOK
<1> QED BY <1>1, <1>2, <1>3 DEF Gone, DeletedAreGone, NoneLeft

(* A pool that was deleted by a request that knew its machines, or before   *)
(* it could make any, has none left on an address that is free again, if    *)
(* the deletion found its cluster.                                          *)
THEOREM DeletedPoolsAreGone == Spec => []DeletedAreGone
<1> DEFINE Inv == TypeInv /\ Past /\ Gone
<1>1. Init => Inv
  BY InitTypes, InitPast DEF Init, Gone, DeletedAreGone
<1>2. Inv /\ [Next]_vars => Inv'
  BY NextTypes, NextPast, NextGone
<1>3. Inv => DeletedAreGone
  BY DEF Gone
<1> QED BY <1>1, <1>2, <1>3, PTL DEF Spec

-----------------------------------------------------------------------------
(* A pool that runs is complete.                                            *)

(* Beside a pool with a template from Harbor no other is ever shut down.    *)
(* Else the deletion of the former may destroy a machine of the latter that *)
(* does not run, for the template that had its vmid before.                 *)
OwnTemplates ==
    \A h \in Harbor : \A j \in Job \ {h} : "stop" \notin Faults[j]

Cloned(j, i) == clone[j][i] \in {"mark", "done"}

(* Templates and machines of a pool differ.                                 *)
Ordered ==
    \A j \in Job :
        /\ wf[j] \in {"pull", "import", "template"} => j \in Harbor
        /\ wf[j] \in {"none"} \cup Early =>
              \A i \in Slots(j) : clone[j][i] = "none"
        /\ template[j] # None =>
              template[j] = tmpl[j] /\ wf[j] \notin {"none", "pull", "import", "template"}
        /\ j \in Harbor => \A i \in Slots(j) : Cloned(j, i) => tmpl[j] # plan[j][i]
        /\ wf[j] = "setup" \/ job[j] = "running" => j \in recorded
        /\ power[j]["stop"] # "none" => "stop" \in Faults[j]

(* No deletion has touched the machines yet.                                *)
Untouched(j) == \A d \in Asked(j) : del[d] \in {"begin", "vms"}

(* No template has this vmid, or will have it.                              *)
NoTemplate(v) == \A h \in Harbor : h \in recorded /\ tmpl[h] # v

(* A machine is its pool's, and runs or has an id no template has.          *)
Standing ==
    Twice \/ \A k \in Job : Untouched(k) =>
        \A i \in Slots(k) : Cloned(k, i) =>
            /\ vm[plan[k][i]] = k
            /\ plan[k][i] \in on \/ NoTemplate(plan[k][i])

(* A machine that is ready has the entry of its address, which no other     *)
(* has, as long as its pool was not deleted.                                *)
Entered ==
    /\ \A k \in Job : handler[k] # "idle" =>
          \A i, m \in Slots(k) : i # m => ips[k][i] # ips[k][m]
    /\ \A k \in Job : job[k] = "deleted" => Asked(k) # {}
    /\ \/ Twice \/ lost # {}
       \/ \A k \in Job : Asked(k) = {} =>
             \A i \in Slots(k) : clone[k][i] = "done" => entryVm[ips[k][i]] = plan[k][i]

(* Templates come before machines: the creation and the start.              *)
LEMMA HandlerOrdered ==
  ASSUME TypeInv, Ordered, NEW j \in Job, Create(j) \/ StartWorkflow(j) \/ StartFail(j)
  PROVE  Ordered'
<1> USE DEF TypeInv, TypeOK, Ordered, Cloned, Early, Slots, rowVars, ipVars,
        createVars, deleteVars, vmVars
<1>1. CASE Create(j)
  BY <1>1 DEF Create
<1>2. CASE StartWorkflow(j) \/ StartFail(j)
  <2>1. /\ wf' = wf \/ (wf' = [wf EXCEPT ![j] = IF j \in Harbor THEN "pull" ELSE "reserve"]
                         /\ wf[j] = "none")
        /\ UNCHANGED <<rowVars, tmpl, plan, clone, power>>
    BY <1>2 DEF StartWorkflow, StartFail, Started, Made
  <2> QED BY <2>1
<1> QED BY <1>1, <1>2

(* The steps of the workflow.                                               *)
LEMMA WorkflowOrdered ==
  ASSUME TypeInv, Past, Ordered, NEW j \in Job, Workflow(j)
  PROVE  Ordered'
<1> USE DEF TypeInv, TypeOK, Ordered, Cloned, Early, Slots, WfStep, rowVars, ipVars,
        createVars, deleteVars, vmVars
<1>1. CASE Pull(j)
  BY <1>1 DEF Pull
<1>2. CASE Import(j)
  BY <1>2 DEF Import
<1>3. CASE ImportCollides(j)
  BY <1>3 DEF ImportCollides
<1>4. CASE ImportFail(j)
  BY <1>4 DEF ImportFail
<1>5. CASE Templatize(j)
  BY <1>5 DEF Templatize
<1>6. CASE ReserveVmids(j)
  <2>1. /\ wf[j] = "reserve" /\ wf' = [wf EXCEPT ![j] = "clones"]
        /\ UNCHANGED <<job, template, recorded, tmpl, power>>
        /\ \A k \in Job \ {j} : clone'[k] = clone[k] /\ plan'[k] = plan[k]
        /\ \A i \in Slots(j) : clone'[j][i] = "clone"
    BY <1>6 DEF ReserveVmids, Shape
  <2> QED BY <2>1
<1>7. CASE ReserveFail(j) \/ ClonesFail(j) \/ SetupFail(j)
  BY <1>7 DEF ReserveFail, ClonesFail, SetupFail
<1>8. CASE Record(j)
  BY <1>8 DEF Record
<1>9. CASE Setup(j)
  BY <1>9 DEF Setup, SetStatus
<1>10. CASE Fail(j)
  BY <1>10 DEF Fail, TellFailure, SetStatus
<1> QED BY <1>1, <1>2, <1>3, <1>4, <1>5, <1>6, <1>7, <1>8, <1>9, <1>10 DEF Workflow

(* A machine cloned from a template is another one.                         *)
LEMMA CloneOrdered ==
  ASSUME TypeInv, Past, Ordered, NEW j \in Job, NEW i \in Slots(j), CloneVm(j, i)
  PROVE  Ordered'
<1>1. PICK from \in {"clone", "mark"}, to \in {"mark", "done", "failed"} :
         /\ CloneStep(j, i, from, to)
         /\ from = "clone" /\ to # "failed" => CanClone(j, i)
  BY DEF CloneVm, Clone, Mark, CloneFail, CloneStep
<1>2. /\ \A k \in Job \ {j} : clone'[k] = clone[k]
      /\ \A m \in Slots(j) \ {i} : clone'[j][m] = clone[j][m]
      /\ clone[j][i] = from /\ clone'[j][i] = to
  BY <1>1, CloneStepTypes DEF TypeInv, ClonePcs
<1>3. UNCHANGED <<rowVars, handler, wf, tmpl, plan, power>>
  BY DEF CloneVm, Clone, Mark, CloneFail
<1>4. j \in Harbor /\ to # "failed" => tmpl[j] # plan[j][i]
  <2>1. CASE from = "clone"
    BY <1>1, <2>1, LlmAssumption DEF CanClone
  <2>2. CASE from = "mark"
    BY <1>2, <2>2 DEF Ordered, Cloned
  <2> QED BY <2>1, <2>2
<1>5. wf[j] \notin {"none"} \cup Early
  BY <1>2 DEF Ordered
<1> QED BY <1>2, <1>3, <1>4, <1>5 DEF Ordered, Cloned, Slots, rowVars

(* A power action is about recorded machines.                               *)
LEMMA PowerOrdered ==
  ASSUME TypeInv, Ordered, NEW j \in Job, NEW a \in {"start", "stop"},
         RequestPower(j, a) \/ Power(j, a)
  PROVE  Ordered'
<1>1. UNCHANGED <<template, recorded, createVars>>
  BY DEF RequestPower, Power, PowerVms, PowerDone, PowerFail, rowVars
<1>2. /\ j \in recorded
      /\ \A k \in Job \ {j} : job'[k] = job[k] /\ power'[k] = power[k]
  BY DEF RequestPower, Power, PowerVms, PowerDone, PowerFail, SetStatus, rowVars,
         TypeInv, TypeOK, Made
<1>3. power'[j]["stop"] # "none" => "stop" \in Faults[j]
  BY DEF RequestPower, Power, PowerVms, PowerDone, PowerFail, TypeInv, TypeOK, Ordered
<1> QED BY <1>1, <1>2, <1>3 DEF Ordered, Cloned, Slots, createVars

(* A deletion touches none of this.                                         *)
LEMMA DeletionOrdered ==
  ASSUME TypeInv, Ordered, NEW d \in Deletion, DeleteStep(d)
  PROVE  Ordered'
<1>1. UNCHANGED <<template, recorded, createVars, power>>
  BY DEF DeleteStep, Delete, RequestDelete, DelBegin, DelVms, DelVmsFail, DelTemplate,
         DelRelease, rowVars
<1>2. \A k \in Job : job'[k] = "running" => job[k] = "running"
  BY LlmAssumption DEF DeleteStep, Delete, RequestDelete, DelBegin, DelVms, DelVmsFail,
     DelTemplate, DelRelease, rowVars, SetStatus, TypeInv, TypeOK
<1> QED BY <1>1, <1>2 DEF Ordered, Cloned, Slots, createVars

(* Every step.                                                              *)
LEMMA NextOrdered == TypeInv /\ Past /\ Ordered /\ [Next]_vars => Ordered'
<1> SUFFICES ASSUME TypeInv, Past, Ordered, [Next]_vars PROVE Ordered'
  OBVIOUS
<1>1. ASSUME NEW j \in Job, PoolStep(j) PROVE Ordered'
  BY <1>1, HandlerOrdered, WorkflowOrdered, CloneOrdered, PowerOrdered DEF PoolStep
<1>2. ASSUME NEW d \in Deletion, DeleteStep(d) PROVE Ordered'
  BY <1>2, DeletionOrdered
<1>3. CASE Still
  BY <1>3 DEF Still, rowVars, createVars, Ordered, Cloned, Slots
<1> QED BY <1>1, <1>2, <1>3, StepKinds

(* A deletion that takes its steps has been asked for before.               *)
LEMMA UntouchedBefore ==
  ASSUME TypeInv, [Next]_vars, ~Twice'
  PROVE  /\ ~Twice
         /\ \A k \in Job : Untouched(k)' => Untouched(k)
<1>1. ~Twice
  BY DelForward DEF Twice, Asked
<1>2. ASSUME NEW k \in Job, Untouched(k)', NEW e \in Asked(k) PROVE del[e] \in {"begin", "vms"}
  <2>1. e \in Deletion /\ del[e] # "none" /\ Target[e] = k
    BY DEF Asked
  <2>2. del'[e] \in {"begin", "vms"}
    BY <1>2, <2>1, DelForward DEF Untouched, Asked
  <2>3. CASE UNCHANGED del
    BY <2>2, <2>3
  <2>4. ASSUME NEW d \in Deletion, DeleteStep(d) PROVE del[e] \in {"begin", "vms"}
    BY <2>1, <2>2, <2>4 DEF DeleteStep, Delete, RequestDelete, DelBegin, DelVms,
       DelVmsFail, GiveUp, DelTemplate, DelRelease, TypeInv, TypeOK
  <2>5. ASSUME NEW j \in Job, PoolStep(j) PROVE UNCHANGED del
    <3>1. CASE Create(j)
      BY <3>1 DEF Create, deleteVars
    <3>2. ASSUME NEW i \in Slots(j), Mark(j, i) PROVE UNCHANGED del
      BY <3>2 DEF Mark, deleteVars
    <3> QED BY <2>5, <3>1, <3>2, UsedKept
  <2> QED BY <2>3, <2>4, <2>5, StepKinds DEF Still, deleteVars
<1> QED BY <1>1, <1>2 DEF Untouched

Stands(k, i) ==
    /\ vm[plan[k][i]] = k
    /\ plan[k][i] \in on \/ NoTemplate(plan[k][i])

(* What a deletion stops is not a machine of another pool.                  *)
LEMMA ListedStand ==
  ASSUME TypeInv, Past, Standing, ~Twice, NEW d \in Deletion, del[d] = "vms",
         NEW v \in Listed(d)
  PROVE  vm[v] = Target[d]
<1> DEFINE j == Target[d]
<1>1. j \in Job
  BY LlmAssumption
<1>2. PICK m \in Slots(j) : v = plan[j][m] /\ d \in knows
  BY DEF Listed, VmsOf
<1>3. clone[j][m] = "done"
  BY <1>1, <1>2 DEF Past, AllDone
<1>4. Untouched(j)
  BY <1>1 DEF Twice, Asked, Untouched
<1> QED BY <1>1, <1>2, <1>3, <1>4 DEF Standing, Cloned

(* A deletion leaves the machines of other pools standing.                  *)
LEMMA DeletionStands ==
  ASSUME TypeInv, Past, Ordered, Standing, ~Twice, NEW d \in Deletion, DeleteStep(d),
         NEW k \in Job, Untouched(k), Untouched(k)', NEW i \in Slots(k), Cloned(k, i)
  PROVE  Stands(k, i)'
<1> DEFINE v == plan[k][i]
<1>s. vm[v] = k /\ (v \in on \/ NoTemplate(v))
  BY DEF Standing
<1>v. v \in Vmid /\ v # None
  BY LlmAssumption DEF Cloned, TypeInv, Made, None
<1>u. UNCHANGED <<recorded, tmpl, plan>>
  BY DEF DeleteStep, Delete, RequestDelete, DelBegin, DelVms, DelVmsFail, DelTemplate,
         DelRelease, rowVars, createVars
<1>n. NoTemplate(v) => NoTemplate(v)'
  BY <1>u DEF NoTemplate
<1>1. CASE DelVms(d)
  <2>1. del[d] = "vms" /\ del'[d] = "finish" /\ (Removed(Listed(d)) \/ UNCHANGED vmVars)
    BY <1>1 DEF DelVms, TypeInv, TypeOK
  <2>2. Target[d] # k
    BY <2>1 DEF Untouched, Asked
  <2>3. v \notin Listed(d)
    BY <1>s, <2>1, <2>2, ListedStand
  <2>4. vm'[v] = k /\ (v \in on => v \in on')
    BY <1>s, <1>v, <2>1, <2>3 DEF Removed, vmVars
  <2> QED BY <1>s, <1>u, <1>n, <2>4 DEF Stands
<1>2. CASE DelVmsFail(d)
  <2>1. del[d] = "vms" /\ del'[d] = "done"
    BY <1>2 DEF DelVmsFail, GiveUp, TypeInv, TypeOK
  <2>2. PICK V \in SUBSET Listed(d) : Removed(V)
    BY <1>2 DEF DelVmsFail
  <2>3. Target[d] # k
    BY <2>1 DEF Untouched, Asked
  <2>4. v \notin V
    BY <1>s, <2>1, <2>2, <2>3, ListedStand
  <2>5. vm'[v] = k /\ (v \in on => v \in on')
    BY <1>s, <1>v, <2>2, <2>4 DEF Removed
  <2> QED BY <1>s, <1>u, <1>n, <2>5 DEF Stands
<1>3. CASE DelTemplate(d)
  <2>1. vm' = vm \/ (Target[d] \in Harbor /\ Destroy({template[Target[d]]}))
    BY <1>3 DEF DelTemplate
  <2>2. Target[d] \in Harbor /\ v \notin on => template[Target[d]] # v
    BY <1>s, <1>v, LlmAssumption DEF NoTemplate, Ordered
  <2>3. vm'[v] = k
    BY <1>s, <1>v, <2>1, <2>2 DEF Destroy
  <2>4. UNCHANGED on
    BY <1>3 DEF DelTemplate
  <2> QED BY <1>s, <1>u, <1>n, <2>3, <2>4 DEF Stands
<1>4. CASE RequestDelete(d) \/ DelBegin(d) \/ DelRelease(d)
  <2>1. UNCHANGED vmVars
    BY <1>4 DEF RequestDelete, DelBegin, DelRelease
  <2> QED BY <1>s, <1>u, <1>n, <2>1 DEF Stands, vmVars
<1> QED BY <1>1, <1>2, <1>3, <1>4 DEF DeleteStep, Delete

(* The workflow of a pool destroys and replaces templates, and no machine.  *)
LEMMA WorkflowStands ==
  ASSUME TypeInv, Past, Ordered, NEW j \in Job, Workflow(j),
         NEW k \in Job, NEW i \in Slots(k), Cloned(k, i), Cloned(k, i)', Stands(k, i)
  PROVE  Stands(k, i)'
<1> DEFINE v == plan[k][i]
<1>s. vm[v] = k /\ k # NoJob /\ (v \in on \/ NoTemplate(v))
  BY LlmAssumption DEF Stands
<1>v. v \in Vmid
  BY DEF Cloned, TypeInv, Made
<1>h. wf[j] \in {"pull", "import", "template"} => j \in Harbor /\ j \notin recorded
  BY DEF Ordered, Past, Late
<1> USE DEF WfStep, rowVars, ipVars, createVars, vmVars
<1>1. CASE Pull(j) \/ ImportCollides(j)
  <2>1. UNCHANGED <<vm, on, plan>> /\ wf[j] \in {"pull", "import"}
    BY <1>1 DEF Pull, ImportCollides
  <2>2. v \in on
    BY <1>s, <1>h, <2>1 DEF NoTemplate
  <2> QED BY <1>s, <2>1, <2>2 DEF Stands
<1>2. CASE Import(j)
  <2>1. /\ vm[tmpl[j]] = NoJob /\ vm' = [vm EXCEPT ![tmpl[j]] = j]
        /\ UNCHANGED <<recorded, on, plan, tmpl>>
    BY <1>2 DEF Import
  <2>2. vm'[v] = k
    BY <1>s, <1>v, <2>1 DEF TypeInv, TypeOK
  <2> QED BY <1>s, <2>1, <2>2 DEF Stands, NoTemplate
<1>3. CASE ImportFail(j)
  <2>1. /\ wf[j] \in {"pull", "import", "template"}
        /\ Destroy({tmpl[j]}) \/ UNCHANGED vm
        /\ UNCHANGED <<on, plan>>
    BY <1>3 DEF ImportFail
  <2>2. v \in on
    BY <1>s, <1>h, <2>1 DEF NoTemplate
  <2>3. vm'[v] = k
    BY <1>s, <1>v, <2>1, <2>2 DEF Destroy
  <2> QED BY <2>1, <2>2, <2>3 DEF Stands
<1>4. CASE ReserveVmids(j)
  <2>1. PICK f \in [Slots(j) -> FreeVmids] : plan' = [plan EXCEPT ![j] = f]
    BY <1>4 DEF ReserveVmids
  <2>2. clone' = [clone EXCEPT ![j] = [m \in Slots(j) |-> "clone"]]
        /\ UNCHANGED <<recorded, vm, on, tmpl>>
    BY <1>4 DEF ReserveVmids
  <2>3. k # j
    BY <2>2 DEF Cloned, TypeInv, Shape
  <2>4. plan'[k] = plan[k]
    BY <2>1, <2>3 DEF TypeInv, Shape
  <2> QED BY <1>s, <2>2, <2>4 DEF Stands, NoTemplate
<1>5. CASE Record(j)
  <2>1. /\ vm' = vm \/ (j \in Harbor /\ Destroy({tmpl[j]}))
        /\ recorded \subseteq recorded'
        /\ UNCHANGED <<on, plan, tmpl>>
    BY <1>5 DEF Record
  <2>2. j \in Harbor /\ v \notin on => tmpl[j] # v
    BY <1>s DEF NoTemplate
  <2>3. vm'[v] = k
    BY <1>s, <1>v, <2>1, <2>2 DEF Destroy
  <2> QED BY <1>s, <2>1, <2>3 DEF Stands, NoTemplate
<1>6. CASE \/ Templatize(j) \/ ReserveFail(j) \/ ClonesFail(j) \/ Setup(j)
           \/ SetupFail(j) \/ Fail(j)
  <2>1. UNCHANGED <<recorded, vm, on, plan, tmpl>>
    BY <1>6 DEF Templatize, ReserveFail, ClonesFail, Setup, SetupFail, Fail
  <2> QED BY <1>s, <2>1 DEF Stands, NoTemplate
<1> QED BY <1>1, <1>2, <1>3, <1>4, <1>5, <1>6 DEF Workflow

(* A clone takes an id nobody has.                                          *)
LEMMA CloneStands ==
  ASSUME TypeInv, NEW j \in Job, NEW m \in Slots(j), CloneVm(j, m),
         NEW k \in Job, NEW i \in Slots(k), Cloned(k, i)', Cloned(k, i) => Stands(k, i)
  PROVE  Stands(k, i)'
<1>1. PICK from \in {"clone", "mark"}, to \in {"mark", "done", "failed"} :
         CloneStep(j, m, from, to) /\ (from = "clone" => to \in {"mark", "failed"})
  BY DEF CloneVm, Clone, Mark, CloneFail, CloneStep
<1>2. /\ \A h \in Job \ {j} : clone'[h] = clone[h]
      /\ \A n \in Slots(j) \ {m} : clone'[j][n] = clone[j][n]
      /\ clone[j][m] = from /\ clone'[j][m] = to
  BY <1>1, CloneStepTypes DEF TypeInv, ClonePcs
<1>u. UNCHANGED <<recorded, tmpl, plan>>
  BY DEF CloneVm, Clone, Mark, CloneFail, rowVars
<1>3. CASE Clone(j, m)
  <2>1. /\ vm[plan[j][m]] = NoJob /\ vm' = [vm EXCEPT ![plan[j][m]] = j]
        /\ on' = on \cup {plan[j][m]} /\ clone[j][m] = "clone"
    BY <1>3 DEF Clone, CanClone, CloneStep
  <2>2. plan[j][m] \in Vmid
    BY <2>1 DEF TypeInv, Made
  <2>3. CASE k = j /\ i = m
    BY <1>u, <2>1, <2>2, <2>3 DEF Stands, TypeInv, TypeOK
  <2>4. CASE ~(k = j /\ i = m)
    <3>1. Cloned(k, i)
      BY <1>2, <2>4 DEF Cloned
    <3>2. vm[plan[k][i]] = k /\ plan[k][i] # plan[j][m]
      BY <2>1, <3>1, LlmAssumption DEF Stands
    <3>3. vm'[plan[k][i]] = k
      BY <2>1, <3>2
    <3> QED BY <1>u, <2>1, <3>1, <3>3 DEF Stands, NoTemplate
  <2> QED BY <2>3, <2>4
<1>4. CASE Mark(j, m) \/ CloneFail(j, m)
  <2>1. UNCHANGED vmVars
    BY <1>4 DEF Mark, CloneFail
  <2>2. CASE k = j /\ i = m
    <3>1. clone[j][m] = "mark"
      <4>1. CASE Mark(j, m)
        BY <4>1 DEF Mark, CloneStep
      <4>2. CASE CloneFail(j, m)
        <5>1. PICK pc \in {"clone", "mark"} : CloneStep(j, m, pc, "failed")
          BY <4>2 DEF CloneFail
        <5>2. clone'[j][m] = "failed"
          BY <5>1, CloneStepTypes DEF TypeInv, ClonePcs
        <5> QED BY <2>2, <5>2 DEF Cloned
      <4> QED BY <1>4, <4>1, <4>2
    <3> QED BY <1>u, <2>1, <2>2, <3>1 DEF Stands, NoTemplate, Cloned, vmVars
  <2>3. CASE ~(k = j /\ i = m)
    <3>1. Cloned(k, i)
      BY <1>2, <2>3 DEF Cloned
    <3> QED BY <1>u, <2>1, <3>1 DEF Stands, NoTemplate, vmVars
  <2> QED BY <2>2, <2>3
<1> QED BY <1>3, <1>4 DEF CloneVm

(* Who shuts down machines, even of another pool that has their ids by now, *)
(* has the only template, and its vmid is another.                          *)
LEMMA PowerStands ==
  ASSUME OwnTemplates, TypeInv, Past, Ordered, NEW j \in Job, NEW a \in {"start", "stop"},
         RequestPower(j, a) \/ Power(j, a),
         NEW k \in Job, NEW i \in Slots(k), Stands(k, i)
  PROVE  Stands(k, i)'
<1>u. UNCHANGED <<recorded, tmpl, plan, vm>>
  BY DEF RequestPower, Power, PowerVms, PowerDone, PowerFail, rowVars, createVars, vmVars
<1>1. \/ on \subseteq on'
      \/ a = "stop" /\ power[j][a] # "none" /\ on \ VmsOf(j) \subseteq on'
  BY DEF RequestPower, Power, PowerVms, PowerDone, PowerFail, vmVars
<1>2. CASE on \subseteq on'
  BY <1>u, <1>2 DEF Stands, NoTemplate
<1>3. CASE a = "stop" /\ power[j][a] # "none" /\ on \ VmsOf(j) \subseteq on'
  <2>1. j \in recorded /\ "stop" \in Faults[j]
    BY <1>3 DEF TypeInv, Made, Ordered
  <2>2. \A m \in Slots(j) : clone[j][m] = "done"
    BY <2>1 DEF Past, AllDone
  <2>3. ASSUME NEW v \in VmsOf(j) PROVE NoTemplate(v)
    <3>1. \A h \in Harbor : h = j
      BY <2>1 DEF OwnTemplates
    <3> QED BY <2>1, <2>2, <3>1 DEF NoTemplate, VmsOf, Ordered, Cloned
  <2>4. plan[k][i] \in on' \/ NoTemplate(plan[k][i])
    BY <1>3, <2>3 DEF Stands
  <2> QED BY <1>u, <2>4 DEF Stands, NoTemplate
<1> QED BY <1>1, <1>2, <1>3

(* Every step leaves them standing.                                         *)
LEMMA NextStanding ==
  ASSUME OwnTemplates, TypeInv, Past, Ordered, Standing, [Next]_vars
  PROVE  Standing'
<1> SUFFICES ASSUME ~Twice', NEW k \in Job, Untouched(k)', NEW i \in Slots(k)',
                    Cloned(k, i)'
             PROVE  Stands(k, i)'
  BY DEF Standing, Stands
<1>i. i \in Slots(k)
  BY DEF Slots
<1>1. ~Twice /\ Untouched(k)
  BY UntouchedBefore
<1>2. Cloned(k, i) => Stands(k, i)
  BY <1>1, <1>i DEF Standing, Stands
<1>4. ASSUME NEW j \in Job, PoolStep(j) PROVE Stands(k, i)'
  <2>1. CASE Workflow(j)
    <3>1. Cloned(k, i)
      BY <1>i, <2>1 DEF Workflow, Cloned, Pull, Import, ImportCollides, ImportFail,
         Templatize, ReserveVmids, ReserveFail, Record, ClonesFail, Setup, SetupFail,
         Fail, createVars, TypeInv, Shape
    <3> QED BY <1>2, <1>i, <2>1, <3>1, WorkflowStands
  <2>2. ASSUME NEW m \in Slots(j), CloneVm(j, m) PROVE Stands(k, i)'
    BY <1>2, <1>i, <2>2, CloneStands
  <2>3. ASSUME NEW a \in {"start", "stop"}, RequestPower(j, a) \/ Power(j, a)
        PROVE  Stands(k, i)'
    <3>1. Cloned(k, i)
      BY <2>3 DEF Cloned, RequestPower, Power, PowerVms, PowerDone, PowerFail, createVars
    <3> QED BY <1>2, <1>i, <2>3, <3>1, PowerStands
  <2>4. CASE Create(j) \/ StartWorkflow(j) \/ StartFail(j)
    <3>1. UNCHANGED <<recorded, tmpl, plan, clone, vmVars>>
      BY <2>4 DEF Create, StartWorkflow, StartFail, rowVars
    <3> QED BY <1>2, <3>1 DEF Stands, Cloned, NoTemplate, vmVars
  <2> QED BY <1>4, <2>1, <2>2, <2>3, <2>4 DEF PoolStep
<1>5. ASSUME NEW d \in Deletion, DeleteStep(d) PROVE Stands(k, i)'
  <2>1. Cloned(k, i)
    BY <1>5 DEF Cloned, DeleteStep, Delete, RequestDelete, DelBegin, DelVms, DelVmsFail,
       DelTemplate, DelRelease, createVars
  <2> QED BY <1>1, <1>5, <1>i, <2>1, DeletionStands
<1>6. CASE Still
  BY <1>2, <1>6 DEF Still, rowVars, createVars, vmVars, Stands, Cloned, NoTemplate
<1> QED BY <1>4, <1>5, <1>6, StepKinds

(* A pool's addresses are different ones: a creation takes the lowest.      *)
LEMMA AddressesDiffer ==
  ASSUME TypeInv, NEW j \in Job, Create(j),
         NEW i \in Slots(j), NEW m \in Slots(j), i # m
  PROVE  ips'[j][i] # ips'[j][m]
<1>1. PICK f \in [Slots(j) -> Ip \ used] :
         Lowest(f, Ip \ used) /\ ips' = [ips EXCEPT ![j] = f]
  BY DEF Create
<1>2. ips'[j] = f
  BY <1>1 DEF TypeInv, Shape
<1>3. \A n \in Slots(j) : f[n] \in Nat
  BY LlmAssumption
<1>4. \A n, o \in Slots(j) : n < o => f[n] < f[o]
  BY <1>1 DEF Lowest
<1>5. i \in Nat /\ m \in Nat /\ (i < m \/ m < i)
  BY LlmAssumption DEF Slots
<1> QED BY <1>2, <1>3, <1>4, <1>5

(* A pool that was deleted had been asked for.                              *)
LEMMA AskedStay ==
  ASSUME TypeInv, [Next]_vars, NEW k \in Job
  PROVE  Asked(k) # {} => Asked(k)' # {}
BY DelForward DEF Asked

(* What is not deleted, and was created, is there.                          *)
LEMMA UnaskedLive ==
  ASSUME TypeInv, Past, Entered, NEW k \in Job, Asked(k) = {}, handler[k] # "idle"
  PROVE  Live(k)
BY DEF Past, Entered, TypeInv, TypeOK, Live

(* What concerns the rows and addresses of Entered.                         *)
LEMMA NextDiffer ==
  ASSUME TypeInv, Past, Entered, [Next]_vars
  PROVE  /\ \A k \in Job : handler'[k] # "idle" =>
               \A i, m \in Slots(k) : i # m => ips'[k][i] # ips'[k][m]
         /\ \A k \in Job : job'[k] = "deleted" => Asked(k)' # {}
<1>1. ASSUME NEW j \in Job, PoolStep(j)
      PROVE  /\ \A k \in Job : handler'[k] # "idle" =>
                   \A i, m \in Slots(k) : i # m => ips'[k][i] # ips'[k][m]
             /\ \A k \in Job : job'[k] = "deleted" => job[k] = "deleted"
  <2>1. CASE Create(j)
    <3>1. \A k \in Job \ {j} : ips'[k] = ips[k] /\ handler'[k] = handler[k]
      BY <2>1 DEF Create, TypeInv, TypeOK, Shape
    <3>2. \A i, m \in Slots(j) : i # m => ips'[j][i] # ips'[j][m]
      BY <2>1, AddressesDiffer
    <3>3. \A k \in Job : job'[k] = "deleted" => job[k] = "deleted"
      BY <2>1 DEF Create, TypeInv, TypeOK
    <3> QED BY <3>1, <3>2, <3>3 DEF Entered
  <2>2. CASE ~Create(j)
    <3>1. KeepsRows
      BY <1>1, <2>2, RowsKept
    <3>2. UNCHANGED ips
      <4>1. ASSUME NEW i \in Slots(j), Mark(j, i) PROVE UNCHANGED ips
        BY <4>1 DEF Mark, rowVars
      <4> QED BY <1>1, <2>2, <4>1, UsedKept
    <3>3. \A k \in Job : handler[k] = "idle" => handler'[k] = "idle"
      BY <1>1, <2>2 DEF PoolStep, StartWorkflow, StartFail, Workflow, Pull, Import,
         ImportCollides, ImportFail, Templatize, ReserveVmids, ReserveFail, Record,
         ClonesFail, Setup, SetupFail, Fail, CloneVm, Clone, Mark, CloneFail,
         RequestPower, Power, PowerVms, PowerDone, PowerFail, createVars, TypeInv, TypeOK
    <3> QED BY <3>1, <3>2, <3>3 DEF KeepsRows, Entered
  <2> QED BY <2>1, <2>2
<1>2. ASSUME NEW d \in Deletion, DeleteStep(d)
      PROVE  /\ UNCHANGED <<ips, handler>>
             /\ \A k \in Job : job'[k] = "deleted" => job[k] = "deleted" \/ Asked(k) # {}
  <2>1. UNCHANGED <<ips, handler>>
    BY <1>2 DEF DeleteStep, Delete, RequestDelete, DelBegin, DelVms, DelVmsFail,
       DelTemplate, DelRelease, rowVars, createVars
  <2>2. CASE DelRelease(d)
    <3>1. del[d] = "release"
      BY <2>2 DEF DelRelease
    <3>2. d \in Asked(Target[d])
      BY <3>1 DEF Asked
    <3> QED BY <2>1, <2>2, <3>2, Releasing
  <2>3. CASE ~DelRelease(d)
    BY <1>2, <2>1, <2>3, RowsKept DEF KeepsRows
  <2> QED BY <2>1, <2>2, <2>3
<1>3. CASE Still
  BY <1>3, AskedStay DEF Still, rowVars, createVars, Entered
<1> QED BY <1>1, <1>2, <1>3, AskedStay, StepKinds DEF Entered

(* Every step leaves the entries of machines that are ready alone.          *)
LEMMA NextEntered ==
  ASSUME TypeInv, Past, Apart, Entered, [Next]_vars
  PROVE  Entered'
<1> SUFFICES ASSUME ~Twice', lost' = {}, NEW k \in Job, Asked(k)' = {},
                    NEW i \in Slots(k)', clone'[k][i] = "done"
             PROVE  entryVm'[ips'[k][i]] = plan'[k][i]
  BY NextDiffer DEF Entered
<1>i. i \in Slots(k)
  BY DEF Slots
<1>1. ~Twice /\ Asked(k) = {}
  BY UntouchedBefore, AskedStay
<1>2. \A j, h \in Job : Live(j) /\ Live(h) /\ j # h => IpsOf(j) \cap IpsOf(h) = {}
  BY <1>1 DEF Apart, AddressNotShared
<1>3. lost = {}
  <2>1. ASSUME NEW j \in Job, PoolStep(j) PROVE lost' = lost
    <3>1. CASE Create(j)
      BY <3>1 DEF Create, deleteVars
    <3>2. ASSUME NEW m \in Slots(j), Mark(j, m) PROVE lost' = lost
      BY <3>2 DEF Mark, deleteVars
    <3> QED BY <2>1, <3>1, <3>2, UsedKept
  <2>2. ASSUME NEW d \in Deletion, DeleteStep(d) PROVE lost \subseteq lost'
    BY <2>2, UsedKept, Releasing
  <2>3. CASE Still
    BY <2>3 DEF Still, deleteVars
  <2> QED BY <2>1, <2>2, <2>3, StepKinds
<1>4. clone[k][i] = "done" => entryVm[ips[k][i]] = plan[k][i]
  BY <1>1, <1>3, <1>i DEF Entered
<1>5. clone[k][i] = "done" => Live(k) /\ ips[k][i] \in IpsOf(k) /\ ips[k][i] \in Ip
  BY <1>1, <1>i, UnaskedLive DEF TypeInv, Made, IpsOf
<1>6. ASSUME NEW j \in Job, NEW m \in Slots(j), CloneVm(j, m)
      PROVE  entryVm'[ips'[k][i]] = plan'[k][i]
  <2>1. CASE Mark(j, m)
    <3>1. /\ clone[j][m] = "mark" /\ entryVm' = [entryVm EXCEPT ![ips[j][m]] = plan[j][m]]
          /\ UNCHANGED <<ips, plan>>
      BY <2>1 DEF Mark, CloneStep, rowVars
    <3>2. ips[j][m] \in Ip /\ handler[j] # "idle"
      BY <3>1 DEF TypeInv, Made
    <3>3. Live(j) /\ ips[j][m] \in IpsOf(j)
      BY <1>3, <2>1, Marking
    <3>4. CASE k = j /\ i = m
      BY <3>1, <3>2, <3>4 DEF TypeInv, TypeOK
    <3>5. CASE ~(k = j /\ i = m)
      <4>1. clone[k][i] = "done"
        <5>1. CloneStep(j, m, "mark", "done")
          BY <2>1 DEF Mark
        <5> QED BY <1>i, <3>5, <5>1, CloneStepTypes DEF TypeInv, ClonePcs
      <4>2. ips[k][i] # ips[j][m]
        <5>1. CASE k = j
          BY <1>i, <3>2, <3>5, <5>1 DEF Entered
        <5>2. CASE k # j
          BY <1>2, <1>5, <3>3, <4>1, <5>2
        <5> QED BY <5>1, <5>2
      <4> QED BY <1>4, <1>5, <3>1, <4>1, <4>2
    <3> QED BY <3>4, <3>5
  <2>2. CASE Clone(j, m) \/ CloneFail(j, m)
    <3>1. PICK from \in {"clone", "mark"}, to \in {"mark", "failed"} :
             CloneStep(j, m, from, to)
      BY <2>2 DEF Clone, CloneFail
    <3>2. clone[k][i] = "done"
      BY <1>i, <3>1, CloneStepTypes DEF TypeInv, ClonePcs
    <3>3. UNCHANGED <<ips, plan, entryVm>>
      BY <2>2 DEF Clone, CloneFail, rowVars, ipVars
    <3> QED BY <1>4, <3>2, <3>3
  <2> QED BY <1>6, <2>1, <2>2 DEF CloneVm
<1>7. ASSUME NEW j \in Job, PoolStep(j) PROVE entryVm'[ips'[k][i]] = plan'[k][i]
  <2>1. CASE Create(j)
    <3>1. /\ \A h \in Job \ {j} : ips'[h] = ips[h]
          /\ handler[j] = "idle" /\ UNCHANGED <<clone, plan, entryVm>>
      BY <2>1 DEF Create, TypeInv, Shape
    <3>2. k # j
      BY <1>i, <3>1 DEF TypeInv, Made
    <3> QED BY <1>4, <3>1, <3>2
  <2>2. CASE ReserveVmids(j)
    <3>1. PICK f \in [Slots(j) -> FreeVmids] : plan' = [plan EXCEPT ![j] = f]
      BY <2>2 DEF ReserveVmids
    <3>2. clone' = [clone EXCEPT ![j] = [m \in Slots(j) |-> "clone"]]
          /\ UNCHANGED <<ips, entryVm>>
      BY <2>2 DEF ReserveVmids, rowVars, ipVars
    <3>3. k # j
      BY <1>i, <3>2 DEF TypeInv, Shape
    <3>4. plan'[k] = plan[k] /\ clone'[k] = clone[k]
      BY <3>1, <3>2, <3>3 DEF TypeInv, Shape
    <3> QED BY <1>4, <3>2, <3>4
  <2>3. CASE /\ ~Create(j) /\ ~ReserveVmids(j)
             /\ ~\E m \in Slots(j) : CloneVm(j, m)
    <3>1. UNCHANGED <<ips, entryVm, plan, clone>>
      BY <1>7, <2>3 DEF PoolStep, StartWorkflow, StartFail, Workflow, Pull, Import,
         ImportCollides, ImportFail, Templatize, ReserveFail, Record, ClonesFail,
         Setup, SetupFail, Fail, RequestPower, Power, PowerVms, PowerDone, PowerFail,
         rowVars, ipVars, createVars
    <3> QED BY <1>4, <3>1
  <2> QED BY <1>6, <2>1, <2>2, <2>3
<1>8. ASSUME NEW d \in Deletion, DeleteStep(d) PROVE entryVm'[ips'[k][i]] = plan'[k][i]
  <2>1. UNCHANGED <<ips, plan, clone>>
    BY <1>8 DEF DeleteStep, Delete, RequestDelete, DelBegin, DelVms, DelVmsFail,
       DelTemplate, DelRelease, rowVars, createVars
  <2>2. CASE DelRelease(d)
    <3>1. /\ del[d] = "release"
          /\ entryVm' = [e \in Ip |-> IF e \in IpsOf(Target[d]) THEN None ELSE entryVm[e]]
      BY <2>2 DEF DelRelease, Freed
    <3>2. Target[d] \in Job /\ Target[d] # k /\ Live(Target[d])
      BY <1>1, <3>1, LlmAssumption DEF Apart, Asked
    <3>3. ips[k][i] \notin IpsOf(Target[d]) /\ ips[k][i] \in Ip
      BY <1>2, <1>5, <2>1, <3>2
    <3> QED BY <1>4, <2>1, <3>1, <3>3
  <2>3. CASE ~DelRelease(d)
    <3>1. UNCHANGED entryVm
      BY <1>8, <2>3 DEF DeleteStep, Delete, RequestDelete, DelBegin, DelVms, DelVmsFail,
         DelTemplate, ipVars
    <3> QED BY <1>4, <2>1, <3>1
  <2> QED BY <2>2, <2>3
<1>9. CASE Still
  BY <1>4, <1>9 DEF Still, rowVars, ipVars, createVars
<1> QED BY <1>7, <1>8, <1>9, StepKinds

(* CreateMultiNodeLLMWorkflow and clone_and_configure_vm_activity: "running"*)
(* means that every machine is there, recorded, and has the entry of its    *)
(* address, for any number of pools, nodes and deletions and under every    *)
(* fault, if no pool is shut down beside another with a template from       *)
(* Harbor.                                                                  *)
THEOREM RunningAreComplete ==
  ASSUME OwnTemplates
  PROVE  Spec => []RunningIsComplete
<1> DEFINE Inv == TypeInv /\ Past /\ Apart /\ Ordered /\ Standing /\ Entered
<1>1. Init => Inv
  <2> SUFFICES ASSUME Init PROVE Inv
    OBVIOUS
  <2>1. TypeInv /\ Past
    BY InitTypes, InitPast
  <2>2. Apart
    BY DEF Init, Apart, AddressNotShared, Live, Statuses, PowerStatuses
  <2>3. Ordered
    BY DEF Init, Ordered, Cloned
  <2>4. Standing
    BY DEF Init, Standing, Cloned
  <2>5. Entered
    BY DEF Init, Entered
  <2> QED BY <2>1, <2>2, <2>3, <2>4, <2>5
<1>2. Inv /\ [Next]_vars => Inv'
  BY NextTypes, NextPast, NextApart, NextOrdered, NextStanding, NextEntered
<1>3. Inv => RunningIsComplete
  <2> SUFFICES ASSUME Inv, NEW j \in Job, job[j] = "running", Asked(j) = {},
                      lost = {}, ~Twice, NEW i \in Slots(j)
               PROVE  /\ j \in recorded
                      /\ vm[plan[j][i]] = j
                      /\ ips[j][i] \in used
                      /\ entryVm[ips[j][i]] = plan[j][i]
    BY LlmAssumption DEF RunningIsComplete, Ordered
  <2>1. j \in recorded
    BY DEF Ordered
  <2>2. clone[j][i] = "done"
    BY <2>1 DEF Past, AllDone
  <2>3. vm[plan[j][i]] = j
    BY <2>2 DEF Standing, Untouched, Cloned
  <2>4. ips[j][i] \in used
    BY DEF Apart, IpsOf, Live, Statuses
  <2>5. entryVm[ips[j][i]] = plan[j][i]
    BY <2>2 DEF Entered
  <2> QED BY <2>1, <2>3, <2>4, <2>5
<1> QED BY <1>1, <1>2, <1>3, PTL DEF Spec

-----------------------------------------------------------------------------
(* LlmServing.  What the phases of a workflow are, in order.                *)

Kinds == PowerActions \cup {"setup"}

(* Phases that are neither "power" nor "launch" nor "end".                  *)
Inner == {"configure", "gpu", "volume", "pull", "share", "mount", "affinity", "head",
          "workers", "count", "telegraf", "services"}

(* A phase that is left out leaves inner phases.                            *)
LEMMA InnerIf == ASSUME NEW c \in BOOLEAN, NEW s \in Seq(Inner) PROVE If(c, s) \in Seq(Inner)
BY DEF If

(* Tuples of inner phases are sequences of them.                            *)
LEMMA Twins ==
    /\ \A a \in Inner : <<a>> \in Seq(Inner)
    /\ \A a, b \in Inner : <<a, b>> \in Seq(Inner)
    /\ "configure" \in Inner /\ "gpu" \in Inner /\ "volume" \in Inner /\ "pull" \in Inner
    /\ "share" \in Inner /\ "mount" \in Inner
<1>1. /\ "configure" \in Inner /\ "gpu" \in Inner /\ "volume" \in Inner /\ "pull" \in Inner
      /\ "share" \in Inner /\ "mount" \in Inner
  BY DEF Inner
<1>2. \A a \in Inner : <<a>> \in Seq(Inner)
  OBVIOUS
<1>3. \A a, b \in Inner : <<a, b>> \in Seq(Inner)
  OBVIOUS
<1> QED BY <1>1, <1>2, <1>3

(* The preparation has inner phases only, and starts with the first.        *)
LEMMA PrepareInner ==
    /\ PreparePhases \in Seq(Inner)
    /\ Len(PreparePhases) > 0 /\ PreparePhases[1] = "configure"
<1>1. /\ <<"configure", "gpu">> \in Seq(Inner) /\ <<"volume", "pull">> \in Seq(Inner)
      /\ <<"share", "mount">> \in Seq(Inner) /\ <<"configure">> \in Seq(Inner)
  BY Twins
<1> DEFINE S == If(Worker # {}, <<"share", "mount">>)
           T == (<<"volume", "pull">> \o S) \o <<"configure">>
           P == <<"configure", "gpu">>
<1>2. S \in Seq(Inner)
  BY <1>1, InnerIf
<1>3. T \in Seq(Inner)
  BY <1>1, <1>2, ConcatProperties
<1>4. If(pool.harbor, T) \in Seq(Inner)
  BY <1>3 DEF If
<1>5. PreparePhases = P \o If(pool.harbor, T)
  BY DEF PreparePhases
<1>6. PreparePhases \in Seq(Inner) /\ Len(PreparePhases) = Len(P) + Len(If(pool.harbor, T))
  BY <1>1, <1>4, <1>5, ConcatProperties
<1>7. Len(P) = 2 /\ P[1] = "configure"
  OBVIOUS
<1>8. Len(If(pool.harbor, T)) \in Nat
  BY <1>4
<1>9. PreparePhases[1] = P[1]
  BY <1>1, <1>4, <1>5, <1>7, <1>8, ConcatProperties
<1> QED BY <1>6, <1>7, <1>8, <1>9

Named == Inner \cup {"power", "launch", "end"}

(* A workflow ends with the launch of vLLM and its verdict.                 *)
Launches(s) ==
    /\ s \in Seq(Named) /\ Len(s) \in Nat /\ Len(s) >= 2
    /\ s[Len(s)] = "end" /\ s[Len(s) - 1] = "launch"
    /\ \A i \in 1 .. Len(s) : i < Len(s) => s[i] # "end"
    /\ \A i \in 1 .. Len(s) : i < Len(s) - 1 => s[i] # "launch"

(* Inner phases before a launch do not change how it ends.                  *)
LEMMA LaunchesAfter ==
    ASSUME NEW s \in Seq(Inner \cup {"power"}), NEW t, Launches(t) PROVE Launches(s \o t)
<1>1. s \in Seq(Named) /\ t \in Seq(Named)
  BY DEF Named, Launches
<1>2. /\ s \o t \in Seq(Named)
      /\ Len(s \o t) = Len(s) + Len(t)
      /\ \A i \in 1 .. Len(s) + Len(t) : (s \o t)[i] =
                     IF i <= Len(s) THEN s[i] ELSE t[i - Len(s)]
  BY <1>1, ConcatProperties
<1>3. Len(s) \in Nat /\ Len(t) \in Nat /\ Len(t) >= 2
  BY DEF Launches
<1>4. \A i \in 1 .. Len(s) : s[i] # "launch" /\ s[i] # "end"
  <2>1. \A i \in 1 .. Len(s) : s[i] \in Inner \cup {"power"}
    OBVIOUS
  <2> QED BY <2>1 DEF Inner
<1> DEFINE u == s \o t
<1>5. u[Len(u)] = t[Len(t)] /\ u[Len(u) - 1] = t[Len(t) - 1]
  BY <1>2, <1>3
<1>6. \A i \in 1 .. Len(u) : i < Len(u) => u[i] # "end"
  <2> SUFFICES ASSUME NEW i \in 1 .. Len(u), i < Len(u) PROVE u[i] # "end"
    OBVIOUS
  <2>1. i > Len(s) => i - Len(s) \in 1 .. Len(t) /\ i - Len(s) < Len(t)
    BY <1>2, <1>3
  <2> QED BY <1>2, <1>3, <1>4, <2>1 DEF Launches
<1>7. \A i \in 1 .. Len(u) : i < Len(u) - 1 => u[i] # "launch"
  <2> SUFFICES ASSUME NEW i \in 1 .. Len(u), i < Len(u) - 1 PROVE u[i] # "launch"
    OBVIOUS
  <2>1. i > Len(s) => i - Len(s) \in 1 .. Len(t) /\ i - Len(s) < Len(t) - 1
    BY <1>2, <1>3
  <2> QED BY <1>2, <1>3, <1>4, <2>1 DEF Launches
<1>8. u \in Seq(Named) /\ Len(u) \in Nat /\ Len(u) >= 2
  BY <1>2, <1>3
<1>9. u[Len(u)] = "end" /\ u[Len(u) - 1] = "launch"
  BY <1>5 DEF Launches
<1> QED BY <1>6, <1>7, <1>8, <1>9 DEF Launches

(* A concatenation, by its elements.                                        *)
LEMMA Glue ==
    ASSUME NEW s \in Seq(Named), NEW t \in Seq(Named), NEW u \in Seq(Named),
           Len(u) = Len(s) + Len(t),
           \A i \in 1 .. Len(u) : u[i] = IF i <= Len(s) THEN s[i] ELSE t[i - Len(s)]
    PROVE  s \o t = u
<1>1. /\ s \o t \in Seq(Named)
      /\ Len(s \o t) = Len(s) + Len(t)
      /\ \A i \in 1 .. Len(s) + Len(t) : (s \o t)[i] =
                     IF i <= Len(s) THEN s[i] ELSE t[i - Len(s)]
  BY ConcatProperties
<1>2. Len(s \o t) = Len(u) /\ \A i \in 1 .. Len(s \o t) : (s \o t)[i] = u[i]
  BY <1>1
<1> QED BY <1>1, <1>2, SeqEqual

(* Of two phases, what they are together.                                   *)
LEMMA Glued ==
    ASSUME NEW a \in Named, NEW b \in Named
    PROVE  <<a>> \in Seq(Named) /\ <<a>> \o <<b>> = <<a, b>>
<1>1. <<a>> \in Seq(Named) /\ <<a, b>> \in Seq(Named) /\ <<b>> \in Seq(Named)
  OBVIOUS
<1>2. Len(<<a>>) = 1 /\ Len(<<b>>) = 1 /\ Len(<<a, b>>) = 2
  OBVIOUS
<1>3. <<a, b>>[1] = <<a>>[1] /\ <<a, b>>[2] = <<b>>[1]
  OBVIOUS
<1>4. \A i \in 1 .. 2 : <<a, b>>[i] = IF i <= 1 THEN <<a>>[i] ELSE <<b>>[i - 1]
  <2>1. \A i \in 1 .. 2 : i = 1 \/ (i = 2 /\ i - 1 = 1)
    OBVIOUS
  <2> QED BY <1>3, <2>1
<1> DEFINE s == <<a>>
           t == <<b>>
           u == <<a, b>>
<1> HIDE DEF s, t, u
<1>5. s \o t = u
  <2>1. s \in Seq(Named) /\ t \in Seq(Named) /\ u \in Seq(Named)
    BY <1>1 DEF s, t, u
  <2>2. Len(s) = 1 /\ Len(t) = 1 /\ Len(u) = 2
    BY <1>2 DEF s, t, u
  <2>3. \A i \in 1 .. Len(u) : u[i] = IF i <= Len(s) THEN s[i] ELSE t[i - Len(s)]
    BY <1>4, <2>2 DEF s, t, u
  <2>4. Len(u) = Len(s) + Len(t)
    BY <2>2
  <2> QED BY <2>1, <2>3, <2>4, Glue
<1> QED BY <1>1, <1>5 DEF s, t, u

(* Every workflow ends with a launch, but one that stops the machines.      *)
LEMMA PhasesAre ==
    ASSUME NEW kind \in Kinds
    PROVE  /\ kind # "stop" => Launches(Phases(kind))
           /\ kind = "stop" => Phases(kind) = <<"power", "end">>
           /\ Phases(kind)[1] \in {"configure", "power"}
<1>0. /\ <<"power">> \in Seq(Named) /\ <<"end">> \in Seq(Named) /\ <<"launch">> \in Seq(Named)
      /\ <<"power">> \o <<"end">> = <<"power", "end">>
      /\ <<"launch">> \o <<"end">> = <<"launch", "end">>
  <2>1. "power" \in Named /\ "end" \in Named /\ "launch" \in Named
    BY DEF Named
  <2> QED BY <2>1, Glued
<1>1. CASE kind = "setup"
  <2> DEFINE A == PreparePhases
             W == If(Worker # {}, <<"workers">>)
             B == <<"affinity", "head">> \o W
             Q == <<"count", "telegraf", "launch", "end">>
  <2>1. Phases(kind) = A \o (B \o Q)
    BY <1>1 DEF Phases, ServePhases
  <2>2. <<"affinity", "head">> \in Seq(Inner) /\ <<"workers">> \in Seq(Inner)
    <3>1. "affinity" \in Inner /\ "head" \in Inner /\ "workers" \in Inner
      BY DEF Inner
    <3> QED BY <3>1, Twins
  <2>3. W \in Seq(Inner)
    BY <2>2, InnerIf
  <2>4. B \in Seq(Inner)
    BY <2>2, <2>3, ConcatProperties
  <2>5. Launches(Q)
    <3>1. Q \in Seq(Named)
      BY DEF Named, Inner
    <3> QED BY <3>1 DEF Launches
  <2>6. Launches(B \o Q)
    <3>1. B \in Seq(Inner \cup {"power"})
      BY <2>4, SeqMonotonic
    <3> QED BY <2>5, <3>1, LaunchesAfter
  <2>7. Launches(A \o (B \o Q))
    <3>1. A \in Seq(Inner \cup {"power"})
      BY PrepareInner, SeqMonotonic
    <3> QED BY <2>6, <3>1, LaunchesAfter
  <2>8. (A \o (B \o Q))[1] = "configure"
    <3> DEFINE T == B \o Q
    <3>1. A \in Seq(Named) /\ T \in Seq(Named) /\ Len(T) \in Nat
      BY <2>6, PrepareInner DEF Launches, Named
    <3> HIDE DEF T, A
    <3>2. Len(A) \in Nat /\ Len(A) > 0
      BY <3>1, PrepareInner DEF A
    <3>3. (A \o T)[1] = A[1]
      BY <3>1, <3>2, ConcatProperties
    <3> QED BY <3>3, PrepareInner DEF A, T
  <2> QED BY <1>1, <2>1, <2>7, <2>8
<1>2. CASE kind = "stop"
  <2>1. Phases(kind) = <<"power">> \o <<>> \o <<"end">>
    BY <1>2 DEF Phases, PowerPhases, If
  <2>2. <<"power">> \o <<>> = <<"power">>
    BY <1>0, ConcatEmptySeq
  <2> QED BY <1>0, <1>2, <2>1, <2>2
<1>3. CASE kind \in {"start", "restart"}
  <2> DEFINE W == If(Worker # {}, <<"services">>)
             P == <<"power">>
             X == <<"launch">>
             E == <<"end">>
  <2>1. Phases(kind) = (P \o (W \o X)) \o E
    BY <1>3 DEF Phases, PowerPhases, If
  <2>2. P \in Seq(Named) /\ X \in Seq(Named) /\ E \in Seq(Named)
    BY <1>0
  <2>3. W \in Seq(Inner)
    <3>1. "services" \in Inner
      BY DEF Inner
    <3> QED BY <3>1, Twins, InnerIf
  <2>4. W \in Seq(Named)
    BY <2>3, SeqMonotonic DEF Named
  <2> HIDE DEF P, X, E, W
  <2>5. W \o X \in Seq(Named)
    BY <2>2, <2>4, ConcatProperties
  <2>6. (P \o (W \o X)) \o E = P \o ((W \o X) \o E)
    <3> DEFINE V == W \o X
    <3>1. V \in Seq(Named)
      BY <2>5
    <3> HIDE DEF V
    <3>2. (P \o V) \o E = P \o (V \o E)
      BY <2>2, <3>1, ConcatAssociative
    <3> QED BY <3>2 DEF V
  <2>7. (W \o X) \o E = W \o (X \o E)
    BY <2>2, <2>4, ConcatAssociative
  <2>8. Launches(X \o E)
    <3>1. X \o E = <<"launch", "end">>
      BY <1>0 DEF X, E
    <3>2. <<"launch", "end">> \in Seq(Named)
      BY DEF Named
    <3> QED BY <3>1, <3>2 DEF Launches
  <2>9. Launches(W \o (X \o E))
    <3>1. W \in Seq(Inner \cup {"power"})
      BY <2>3, SeqMonotonic
    <3> QED BY <2>8, <3>1, LaunchesAfter
  <2>10. P \in Seq(Inner \cup {"power"}) /\ P[1] = "power" /\ Len(P) = 1
    BY DEF P
  <2> DEFINE T == W \o (X \o E)
  <2>11. Launches(P \o T)
    BY <2>9, <2>10, LaunchesAfter
  <2>12. (P \o T)[1] = "power"
    <3>1. T \in Seq(Named) /\ Len(T) \in Nat
      BY <2>9 DEF Launches
    <3> HIDE DEF T
    <3>2. (P \o T)[1] = P[1]
      BY <2>2, <2>10, <3>1, ConcatProperties
    <3> QED BY <2>10, <3>2
  <2> QED BY <1>3, <2>1, <2>6, <2>7, <2>11, <2>12
<1> QED BY <1>1, <1>2, <1>3 DEF Kinds, PowerActions

(* Of a workflow at a phase, what comes after it.                           *)
LEMMA NextPhase ==
    ASSUME NEW kind \in Kinds, NEW i \in 1 .. Len(Phases(kind)), Phases(kind)[i] # "end"
    PROVE  /\ Len(Phases(kind)) \in Nat
           /\ i + 1 \in 1 .. Len(Phases(kind))
           /\ Phases(kind)[i] = "launch" => Phases(kind)[i + 1] = "end"
           /\ Phases(kind)[i + 1] = "end" /\ kind # "stop" => Phases(kind)[i] = "launch"
           /\ kind = "stop" => i = 1
<1>1. CASE kind = "stop"
  <2> DEFINE s == <<"power", "end">>
  <2>1. Phases(kind) = s
    BY <1>1, PhasesAre
  <2>2. Len(s) = 2 /\ s[1] = "power" /\ s[2] = "end"
    OBVIOUS
  <2>3. i \in 1 .. 2
    BY <2>1, <2>2
  <2> HIDE DEF s
  <2>4. i = 1
    BY <2>1, <2>2, <2>3
  <2> QED BY <1>1, <2>1, <2>2, <2>4
<1>2. CASE kind # "stop"
  <2> DEFINE s == Phases(kind)
  <2>1. Launches(s)
    BY <1>2, PhasesAre
  <2> HIDE DEF s
  <2>2. Len(s) \in Nat /\ i \in 1 .. Len(s) /\ s[i] # "end"
    BY <2>1 DEF Launches, s
  <2>3. i < Len(s) /\ i + 1 \in 1 .. Len(s)
    BY <2>1, <2>2 DEF Launches
  <2>4. s[i] = "launch" => i = Len(s) - 1
    BY <2>1, <2>2, <2>3 DEF Launches
  <2>5. s[i + 1] = "end" => i = Len(s) - 1
    BY <2>1, <2>2, <2>3 DEF Launches
  <2> QED BY <1>2, <2>1, <2>2, <2>3, <2>4, <2>5 DEF Launches, s
<1> QED BY <1>1, <1>2

-----------------------------------------------------------------------------
(* Types.                                                                   *)

MachinesOK ==
    /\ up \subseteq Node /\ rebooting \subseteq up /\ badGpu \subseteq Node
    /\ disk \in {"none", "mounted", "filled"} /\ shared \in BOOLEAN
    /\ mounted \subseteq Worker /\ ray \subseteq Node
    /\ vllm \in {"none", "own", "pulled"}
    /\ pool.bare => vllm # "own"

(* A workflow is at one of its phases, with machines of that phase left.    *)
Placed(f) ==
    /\ f = "setup" <=> wanted[f] = "setup"
    /\ at[f] \in 0 .. Len(Phases(wanted[f]))
    /\ at[f] = 0 => todo[f] = {}
    /\ at[f] # 0 => todo[f] \subseteq Where(Phase(f))

ServingShape ==
    /\ ServingTypeOK
    /\ MachinesOK
    /\ \A f \in Flow : Placed(f)
    /\ \A s \in stray : s.on \in Where(s.phase)

(* The head is a machine, and the machines of a phase are too.              *)
LEMMA HeadIsNode ==
    ASSUME pool \in Pools
    PROVE  /\ RayHead \in Node /\ Worker \subseteq Node /\ RayHead \notin Worker
           /\ \A ph : Where(ph) \subseteq Node
<1>1. pool.nodes \in Nat \ {0}
  BY ServingAssumption
<1>2. RayHead \in Node /\ Worker \subseteq Node /\ RayHead \notin Worker
  BY <1>1 DEF RayHead, Node, Worker
<1> QED BY <1>2 DEF Where

(* What depends on the pool only, stays.                                    *)
LEMMA NodesStay ==
    ASSUME UNCHANGED pool
    PROVE  /\ Node' = Node /\ Worker' = Worker
           /\ \A ph : Where(ph)' = Where(ph)
           /\ \A kind : Phases(kind)' = Phases(kind)
<1>1. Node' = Node /\ Worker' = Worker
  BY DEF Node, Worker
<1>2. \A ph : Where(ph)' = Where(ph)
  BY <1>1 DEF Where
<1>3. PreparePhases' = PreparePhases /\ ServePhases' = ServePhases
  BY <1>1 DEF PreparePhases, ServePhases, If
<1>4. \A kind : PowerPhases(kind)' = PowerPhases(kind)
  BY <1>1 DEF PowerPhases, If
<1>5. \A kind : Phases(kind)' = Phases(kind)
  BY <1>3, <1>4 DEF Phases
<1> QED BY <1>1, <1>2, <1>5

(* A machine that boots, and the model that is found.                       *)
LEMMA BootTypes ==
    ASSUME pool \in Pools, MachinesOK, UNCHANGED <<pool, disk, shared, ray>>,
           NEW n \in Node, Boot(n)
    PROVE  MachinesOK'
<1>1. Node' = Node /\ Worker' = Worker
  BY NodesStay
<1> QED BY <1>1 DEF MachinesOK, Boot

(* The model that is found is of the right kind.                            *)
LEMMA ModelType ==
    ASSUME MachinesOK
    PROVE  Model \in {"none", "own", "pulled"} /\ (pool.bare => Model # "own")
BY DEF Model

(* What an activity does to the machines.                                   *)
LEMMA DoesTypes ==
    ASSUME pool \in Pools, MachinesOK, UNCHANGED pool, NEW ph, NEW n \in Where(ph), NEW a,
           Does(ph, n, a)
    PROVE  MachinesOK'
<1> USE DEF machineVars, diskVars
<1>1. Node' = Node /\ Worker' = Worker
  BY NodesStay
<1>2. n \in Node /\ RayHead \in Node
  BY HeadIsNode
<1>3. Stays => MachinesOK'
  BY <1>1 DEF Stays, MachinesOK
<1>4. CASE ph = "power"
  <2>1. Switch(n, a)
    BY <1>4 DEF Does
  <2>2. CASE UNCHANGED <<up, rebooting, vllm, badGpu, mounted, disk, shared, ray>>
    BY <1>1, <2>2 DEF MachinesOK
  <2>3. CASE Boot(n) /\ UNCHANGED <<disk, shared, ray>>
    BY <1>2, <2>3, BootTypes
  <2>4. CASE /\ n \in up
             /\ rebooting' = rebooting \cup {n}
             /\ UNCHANGED <<up, vllm, badGpu, mounted, disk, shared, ray>>
    BY <1>1, <2>4 DEF MachinesOK
  <2>5. CASE /\ up' = up \ {n} /\ rebooting' = rebooting \ {n} /\ vllm' = "none"
             /\ UNCHANGED <<badGpu, mounted, disk, shared, ray>>
    BY <1>1, <2>5 DEF MachinesOK
  <2> QED BY <2>1, <2>2, <2>3, <2>4, <2>5 DEF Switch
<1>5. CASE ph = "gpu"
  <2>1. CheckGpu(n)
    BY <1>5 DEF Does
  <2>2. CASE Boot(n) /\ UNCHANGED <<disk, shared, ray>>
    BY <1>2, <2>2, BootTypes
  <2> QED BY <1>3, <2>1, <2>2 DEF CheckGpu
<1>6. CASE ph = "mount"
  <2>1. n \in Worker
    BY <1>6 DEF Where
  <2> QED BY <1>1, <1>6, <2>1 DEF Does, MountModel, MachinesOK
<1>7. CASE ph \in {"volume", "pull", "share"}
  BY <1>1, <1>7 DEF Does, ProvisionVolume, PullModel, ShareModel, MachinesOK
<1>8. CASE ph \in {"head", "workers"}
  BY <1>1, <1>2, <1>8 DEF Does, ConfigureRay, MachinesOK
<1>9. CASE ph \in {"configure", "affinity", "count", "telegraf", "services"}
  BY <1>3, <1>9 DEF Does, Configure, AddAffinityRule, CountGpus, ConfigureTelegraf, RayAnswers
<1> QED BY <1>4, <1>5, <1>6, <1>7, <1>8, <1>9 DEF Does

(* The first state has its shape.                                           *)
LEMMA ServingInitShape == ServingInit => ServingShape
<1> SUFFICES ASSUME ServingInit PROVE ServingShape
  OBVIOUS
<1>1. pool \in Pools /\ upsets \in 0 .. MaxUpsets /\ stray = {}
  BY ServingAssumption DEF ServingInit
<1>2. RayHead \in Node /\ Worker \subseteq Node
  BY <1>1, HeadIsNode
<1>3. "setup" \notin PowerRequests
  BY ServingAssumption
<1>4. MachinesOK
  <2>1. CASE NewPool
    BY <1>2, <2>1 DEF ServingInit, NewPool, MachinesOK
  <2>2. CASE StoppedPool
    <3>1. disk \in {"none", "mounted", "filled"} /\ shared \in BOOLEAN /\ mounted \subseteq Worker
      BY <2>2 DEF StoppedPool
    <3>2. up = {} /\ ray = Node
      BY <2>2 DEF StoppedPool
    <3> QED BY <1>2, <3>1, <3>2 DEF ServingInit, MachinesOK
  <2> QED BY <2>1, <2>2 DEF ServingInit
<1>5. ASSUME NEW f \in Flow PROVE Placed(f) /\ at[f] \in {0, 1} /\ todo[f] \subseteq Node
  <2>1. wanted[f] \in Kinds /\ (f = "setup" <=> wanted[f] = "setup")
    BY DEF ServingInit, Kinds, PowerActions
  <2>2. Len(Phases(wanted[f])) \in Nat /\ Len(Phases(wanted[f])) >= 1
    <3>1. CASE wanted[f] = "stop"
      <4>1. Len(<<"power", "end">>) = 2
        OBVIOUS
      <4> QED BY <2>1, <3>1, <4>1, PhasesAre
    <3> QED BY <2>1, <3>1, PhasesAre DEF Launches
  <2>3. (at[f] = 0 /\ todo[f] = {}) \/ (at[f] = 1 /\ todo[f] = Node)
    BY DEF ServingInit, NewPool, StoppedPool
  <2>4. Phases(wanted[f])[1] \in {"configure", "power"}
    BY <2>1, PhasesAre
  <2>5. at[f] = 1 => Where(Phase(f)) = Node
    BY <2>4 DEF Phase, Where
  <2> QED BY <2>1, <2>2, <2>3, <2>5 DEF Placed
<1>6. at \in [Flow -> Nat] /\ todo \in [Flow -> SUBSET Node]
  <2>1. at = [f \in Flow |-> at[f]] /\ todo = [f \in Flow |-> todo[f]]
    BY DEF ServingInit, NewPool, StoppedPool
  <2> QED BY <1>5, <2>1
<1>7. shown \in {"provisioning", "stopped"}
  BY DEF ServingInit, NewPool, StoppedPool
<1>8. ServingTypeOK
  BY <1>1, <1>4, <1>6, <1>7 DEF ServingInit, ServingTypeOK, MachinesOK, PowerActions
<1> QED BY <1>1, <1>4, <1>5, <1>8 DEF ServingShape

(* A workflow that goes on stays at one of its phases.                      *)
LEMMA CompletesTypes ==
    ASSUME ServingShape, NEW f \in Flow, Running(f), Phase(f) # "end", NEW n, Completes(f, n),
           UNCHANGED <<pool, wanted>>
    PROVE  /\ at' \in [Flow -> Nat] /\ todo' \in [Flow -> SUBSET Node]
           /\ \A g \in Flow : Placed(g)'
           /\ at'[f] # 0
<1> DEFINE next == Phases(wanted[f])[at[f] + 1]
           rest == todo[f] \ {n}
<1>1. /\ todo' = [todo EXCEPT ![f] = IF rest = {} THEN Where(next) ELSE rest]
      /\ at' = IF rest = {} THEN [at EXCEPT ![f] = @ + 1] ELSE at
  BY DEF Completes
<1>2. pool \in Pools /\ at \in [Flow -> Nat] /\ todo \in [Flow -> SUBSET Node]
  BY DEF ServingShape, ServingTypeOK
<1>3. wanted[f] \in Kinds
  BY DEF ServingShape, ServingTypeOK, Kinds
<1>4. at[f] \in 1 .. Len(Phases(wanted[f]))
  <2>1. Len(Phases(wanted[f])) \in Nat
    <3>1. CASE wanted[f] = "stop"
      <4>1. Len(<<"power", "end">>) = 2
        OBVIOUS
      <4> QED BY <1>3, <3>1, <4>1, PhasesAre
    <3> QED BY <1>3, <3>1, PhasesAre DEF Launches
  <2> QED BY <1>2, <2>1 DEF ServingShape, Placed, Running
<1>5. at[f] + 1 \in 1 .. Len(Phases(wanted[f])) /\ Len(Phases(wanted[f])) \in Nat
  BY <1>3, <1>4, NextPhase DEF Phase
<1>6. Where(next) \subseteq Node
  BY <1>2, HeadIsNode
<1>7. at' \in [Flow -> Nat] /\ todo' \in [Flow -> SUBSET Node] /\ at'[f] # 0
  BY <1>1, <1>2, <1>4, <1>6
<1>8. /\ \A ph : Where(ph)' = Where(ph)
      /\ \A kind : Phases(kind)' = Phases(kind)
  BY NodesStay
<1>9. ASSUME NEW g \in Flow PROVE Placed(g)'
  <2>1. CASE g # f
    <3>1. at'[g] = at[g] /\ todo'[g] = todo[g]
      BY <1>1, <1>2, <2>1
    <3>2. Placed(g)
      BY DEF ServingShape
    <3> QED BY <3>1, <3>2, <1>8 DEF Placed, Phase
  <2>2. CASE g = f /\ rest = {}
    <3>1. at'[f] = at[f] + 1 /\ todo'[f] = Where(next)
      BY <1>1, <1>2, <2>2
    <3>2. Phase(f)' = next
      BY <1>8, <3>1 DEF Phase
    <3>3. at'[f] \in 0 .. Len(Phases(wanted[f])')
      BY <1>4, <1>5, <1>8, <3>1
    <3>4. f = "setup" <=> wanted'[f] = "setup"
      BY DEF ServingShape, Placed
    <3>5. at'[f] # 0 /\ todo'[f] \subseteq Where(Phase(f)')
      BY <1>7, <3>1, <3>2
    <3> QED BY <1>8, <2>2, <3>3, <3>4, <3>5 DEF Placed
  <2>3. CASE g = f /\ rest # {}
    <3>1. at'[f] = at[f] /\ todo'[f] = rest
      BY <1>1, <1>2, <2>3
    <3>2. Phase(f)' = Phase(f) /\ rest \subseteq Where(Phase(f))
      BY <1>8, <3>1 DEF Phase, ServingShape, Placed, Running
    <3>3. Placed(f) /\ at[f] # 0
      BY DEF ServingShape, Running
    <3> QED BY <1>8, <2>3, <3>1, <3>2, <3>3 DEF Placed
  <2> QED BY <2>1, <2>2, <2>3
<1> QED BY <1>7, <1>9

(* The shape, part by part.                                                 *)
Steps == {"none", "script", "verify", "again", "poll", "polled", "unseen",
          "failing", "failed", "ended"}

ShownStatuses == {"provisioning", "running", "failed", "starting", "start_failed",
             "restarting", "restart_failed", "stopping", "stop_failed", "stopped"}

FlowsOK ==
    /\ wanted \in [Flow -> PowerActions \cup {"setup"}]
    /\ at \in [Flow -> Nat] /\ todo \in [Flow -> SUBSET Node]
    /\ \A f \in Flow : Placed(f)

RowOK ==
    /\ shown \in ShownStatuses
    /\ upsets \in 0 .. MaxUpsets
    /\ crowded \subseteq Flow /\ alone \in BOOLEAN /\ stuck \in BOOLEAN

StrayOK == \A s \in stray : s.on \in Where(s.phase)

(* They make up the shape.                                                  *)
LEMMA ShapeParts ==
    ServingShape <=>
        /\ pool \in Pools /\ MachinesOK /\ FlowsOK /\ RowOK /\ StrayOK
        /\ step \in [Flow -> Steps]
BY DEF ServingShape, ServingTypeOK, MachinesOK, FlowsOK, RowOK, StrayOK, Steps, ShownStatuses

(* So they do of the next state.                                            *)
LEMMA ShapeNext ==
    ASSUME pool' \in Pools, MachinesOK', FlowsOK', RowOK', StrayOK', step' \in [Flow -> Steps]
    PROVE  ServingShape'
BY DEF ServingShape, ServingTypeOK, MachinesOK, FlowsOK, RowOK, StrayOK, Steps, ShownStatuses

(* What stays, keeps its shape.                                             *)
LEMMA MachinesStay ==
    ASSUME MachinesOK, UNCHANGED pool, Stays PROVE MachinesOK'
<1>1. Node' = Node /\ Worker' = Worker
  BY NodesStay
<1> QED BY <1>1 DEF MachinesOK, Stays, machineVars, diskVars

(* Activities that are left keep their machines.                            *)
LEMMA StraysStay ==
    ASSUME StrayOK, UNCHANGED pool, stray' \subseteq stray PROVE StrayOK'
<1>1. \A ph : Where(ph)' = Where(ph)
  BY NodesStay
<1> QED BY <1>1 DEF StrayOK

(* Workflows that do not move keep their phase.                             *)
LEMMA FlowsStay ==
    ASSUME FlowsOK, UNCHANGED <<pool, wanted, at, todo>> PROVE FlowsOK'
<1>1. /\ Node' = Node /\ \A ph : Where(ph)' = Where(ph)
      /\ \A kind : Phases(kind)' = Phases(kind)
  BY NodesStay
<1>2. \A f \in Flow : Placed(f)'
  BY <1>1 DEF FlowsOK, Placed, Phase
<1> QED BY <1>1, <1>2 DEF FlowsOK

(* A workflow whose activities are given up, or that is done.               *)
LEMMA FlowDrops ==
    ASSUME FlowsOK, UNCHANGED <<pool, wanted>>, NEW f \in Flow,
           at' = at \/ at' = [at EXCEPT ![f] = 0],
           todo' = [todo EXCEPT ![f] = {}]
    PROVE  FlowsOK'
<1>1. /\ Node' = Node /\ \A ph : Where(ph)' = Where(ph)
      /\ \A kind : Phases(kind)' = Phases(kind)
  BY NodesStay
<1>2. at' \in [Flow -> Nat] /\ todo' \in [Flow -> SUBSET Node]
  BY <1>1 DEF FlowsOK
<1>3. ASSUME NEW g \in Flow PROVE Placed(g)'
  <2>1. Placed(g) /\ at[g] \in Nat
    BY DEF FlowsOK
  <2>2. CASE at'[g] = at[g]
    <3>1. todo'[g] = todo[g] \/ todo'[g] = {}
      BY DEF FlowsOK
    <3>2. Phase(g)' = Phase(g)
      BY <1>1, <2>2 DEF Phase
    <3> QED BY <1>1, <2>1, <2>2, <3>1, <3>2 DEF Placed
  <2>3. CASE at'[g] # at[g]
    <3>1. g = f /\ at'[g] = 0 /\ todo'[g] = {}
      BY <2>3 DEF FlowsOK
    <3>2. 0 \in 0 .. Len(Phases(wanted[g]))
      BY <2>1 DEF Placed
    <3> QED BY <1>1, <2>1, <3>1, <3>2 DEF Placed
  <2> QED BY <2>2, <2>3
<1> QED BY <1>1, <1>2, <1>3 DEF FlowsOK

(* One that goes on.                                                        *)
LEMMA FlowGoesOn ==
    ASSUME ServingShape, NEW f \in Flow, Running(f), Phase(f) # "end", NEW n, Completes(f, n),
           UNCHANGED <<pool, wanted>>
    PROVE  FlowsOK'
<1>1. /\ at' \in [Flow -> Nat] /\ todo' \in [Flow -> SUBSET Node]
      /\ \A g \in Flow : Placed(g)'
  BY CompletesTypes
<1>2. Node' = Node
  BY NodesStay
<1>3. wanted' \in [Flow -> PowerActions \cup {"setup"}]
  BY DEF ServingShape, ServingTypeOK
<1> QED BY <1>1, <1>2, <1>3 DEF FlowsOK

-----------------------------------------------------------------------------
(* Every step keeps the shape.                                              *)

(* An activity that ends well.                                              *)
LEMMA TaskShape ==
    ASSUME ServingShape, NEW f \in Flow, NEW n, Task(f, n) PROVE ServingShape'
<1>1. /\ pool \in Pools /\ MachinesOK /\ FlowsOK /\ RowOK /\ StrayOK
      /\ step \in [Flow -> Steps]
  BY ShapeParts
<1>2. UNCHANGED <<pool, wanted, step, stray, shown, crowded, alone, stuck, upsets>>
  BY DEF Task, outcomeVars
<1>3. FlowsOK'
  BY <1>2, FlowGoesOn DEF Task, At
<1>4. n \in Where(Phase(f))
  BY <1>1 DEF FlowsOK, Placed, Task, At, Running
<1>5. MachinesOK'
  BY <1>1, <1>2, <1>4, DoesTypes DEF Task
<1>6. RowOK' /\ StrayOK'
  BY <1>1, <1>2, StraysStay DEF RowOK
<1> QED BY <1>1, <1>2, <1>3, <1>5, <1>6, ShapeNext

(* An activity that fails, and ends its workflow's other ones.              *)
LEMMA TaskFailsShape ==
    ASSUME ServingShape, NEW f \in Flow, NEW n, TaskFails(f, n) PROVE ServingShape'
<1>1. /\ pool \in Pools /\ MachinesOK /\ FlowsOK /\ RowOK /\ StrayOK
      /\ step \in [Flow -> Steps]
  BY ShapeParts
<1>2. UNCHANGED <<pool, wanted, at, shown, crowded, alone, stuck, upsets>>
  BY DEF TaskFails, outcomeVars
<1>3. n \in Where(Phase(f)) /\ todo[f] \subseteq Where(Phase(f))
  BY <1>1 DEF FlowsOK, Placed, TaskFails, At, Running
<1>4. FlowsOK'
  BY <1>1, <1>2, FlowDrops DEF TaskFails
<1>5. MachinesOK'
  <2>1. CASE Stays
    BY <1>1, <1>2, <2>1, MachinesStay
  <2>2. CASE Does(Phase(f), n, wanted[f])
    BY <1>1, <1>2, <1>3, <2>2, DoesTypes
  <2>3. CASE Boot(n) /\ UNCHANGED <<disk, shared, ray>>
    <3>1. n \in Node
      BY <1>1, <1>3, HeadIsNode
    <3> QED BY <1>1, <1>2, <2>3, <3>1, BootTypes
  <2> QED BY <2>1, <2>2, <2>3 DEF TaskFails
<1>6. RowOK'
  BY <1>1, <1>2 DEF RowOK
<1>7. StrayOK'
  <2> SUFFICES ASSUME NEW s \in stray' PROVE s.on \in Where(s.phase)'
    BY DEF StrayOK
  <2>1. \A ph : Where(ph)' = Where(ph)
    BY <1>2, NodesStay
  <2>2. CASE s \in stray
    BY <1>1, <2>1, <2>2 DEF StrayOK
  <2>3. CASE s \notin stray
    <3>1. PICK m \in todo[f] \ {n} : s = [phase |-> Phase(f), action |-> wanted[f], on |-> m]
      BY <2>3 DEF TaskFails
    <3> QED BY <1>3, <2>1, <3>1
  <2> QED BY <2>2, <2>3
<1>8. step' \in [Flow -> Steps]
  BY <1>1 DEF TaskFails, Steps
<1> QED BY <1>1, <1>2, <1>4, <1>5, <1>6, <1>7, <1>8, ShapeNext

(* An activity whose workflow has failed.                                   *)
LEMMA StrayEndsShape ==
    ASSUME ServingShape, NEW s \in stray, StrayEnds(s) PROVE ServingShape'
<1>1. /\ pool \in Pools /\ MachinesOK /\ FlowsOK /\ RowOK /\ StrayOK
      /\ step \in [Flow -> Steps]
  BY ShapeParts
<1>2. UNCHANGED <<pool, wanted, at, todo, step, shown, crowded, alone, stuck, upsets>>
  BY DEF StrayEnds, outcomeVars
<1>3. FlowsOK' /\ RowOK' /\ StrayOK'
  BY <1>1, <1>2, FlowsStay, StraysStay DEF RowOK, StrayEnds
<1>4. MachinesOK'
  <2>1. s.on \in Where(s.phase)
    BY <1>1 DEF StrayOK
  <2>2. Stays \/ Does(s.phase, s.on, s.action)
    BY DEF StrayEnds
  <2> QED BY <1>1, <1>2, <2>1, <2>2, MachinesStay, DoesTypes
<1> QED BY <1>1, <1>2, <1>3, <1>4, ShapeNext

(* A step of a launch: what it does to the row and to itself.               *)
LEMMA LaunchRow ==
    ASSUME ServingShape, NEW f \in Flow, NEW from, NEW to \in Steps, LaunchStep(f, from, to),
           upsets' = upsets \/ Upset
    PROVE  /\ pool' \in Pools /\ UNCHANGED <<pool, wanted, stray>>
           /\ RowOK' /\ StrayOK' /\ step' \in [Flow -> Steps]
           /\ step'[f] = to
           /\ Running(f) /\ Phase(f) = "launch" /\ RayHead \in up
<1>1. /\ pool \in Pools /\ RowOK /\ StrayOK /\ step \in [Flow -> Steps]
  BY ShapeParts
<1>2. UNCHANGED <<pool, wanted, stray, shown, crowded, alone, stuck>>
  BY DEF LaunchStep, outcomeVars
<1>3. upsets' \in 0 .. MaxUpsets
  BY <1>1, ServingAssumption DEF RowOK, Upset
<1>4. RowOK' /\ StrayOK'
  BY <1>1, <1>2, <1>3, StraysStay DEF RowOK
<1> QED BY <1>1, <1>2, <1>4 DEF LaunchStep

(* Every step of a launch.                                                  *)
LEMMA LaunchShape ==
    ASSUME ServingShape, NEW f \in Flow, Launch(f) PROVE ServingShape'
<1>1. /\ pool \in Pools /\ MachinesOK /\ FlowsOK
  BY ShapeParts
<1>2. RayHead \in Node
  BY <1>1, HeadIsNode
<1>3. /\ "script" \in Steps /\ "poll" \in Steps /\ "verify" \in Steps /\ "failing" \in Steps
      /\ "unseen" \in Steps /\ "again" \in Steps /\ "polled" \in Steps
  BY DEF Steps
<1>4. CASE Prepare(f)
  <2>1. /\ UNCHANGED <<pool, wanted, at, todo, disk, shared, ray>> /\ upsets' = upsets
        /\ LaunchStep(f, "none", "script")
    BY <1>4 DEF Prepare, Remains, LaunchStep
  <2>2. pool' \in Pools /\ RowOK' /\ StrayOK' /\ step' \in [Flow -> Steps]
    BY <1>3, <2>1, LaunchRow
  <2>3. MachinesOK'
    <3>1. CASE Boot(RayHead)
      BY <1>1, <1>2, <2>1, <3>1, BootTypes
    <3>2. CASE UNCHANGED <<machineVars, mounted>>
      BY <1>1, <2>1, <3>2, MachinesStay DEF Stays, diskVars
    <3> QED BY <1>4, <3>1, <3>2 DEF Prepare
  <2> QED BY <1>1, <2>1, <2>2, <2>3, FlowsStay, ShapeNext
<1>5. CASE Script(f)
  <2>1. PICK from \in {"script", "again"} : LaunchStep(f, from, "poll")
    BY <1>5 DEF Script
  <2>2. /\ UNCHANGED <<pool, wanted, at, todo, up, rebooting, badGpu, disk, shared, mounted, ray>>
        /\ upsets' = upsets /\ vllm' = Model
    BY <1>5, <2>1 DEF Script, Remains, LaunchStep, diskVars
  <2>3. pool' \in Pools /\ RowOK' /\ StrayOK' /\ step' \in [Flow -> Steps]
    BY <1>3, <2>1, <2>2, LaunchRow
  <2>4. MachinesOK'
    BY <1>1, <2>2, ModelType, NodesStay DEF MachinesOK
  <2> QED BY <1>1, <2>2, <2>3, <2>4, FlowsStay, ShapeNext
<1>6. CASE ScriptDrops(f)
  <2>1. PICK from \in {"script", "again"}, to \in {"verify", "failing", "unseen", "poll"} :
             LaunchStep(f, from, to)
    BY <1>6 DEF ScriptDrops
  <2>2. /\ UNCHANGED <<pool, wanted, up, rebooting, badGpu, disk, shared, mounted, ray>>
        /\ vllm' \in {vllm, "none", Model} /\ Upset
    BY <1>6, <2>1 DEF ScriptDrops, LaunchStep, diskVars
  <2>3. /\ pool' \in Pools /\ RowOK' /\ StrayOK' /\ step' \in [Flow -> Steps]
        /\ Running(f) /\ Phase(f) = "launch"
    BY <1>3, <2>1, <2>2, LaunchRow
  <2>4. MachinesOK'
    BY <1>1, <2>2, ModelType, NodesStay DEF MachinesOK
  <2>5. FlowsOK'
    <3>1. CASE Completes(f, RayHead)
      BY <2>2, <2>3, <3>1, FlowGoesOn
    <3>2. CASE Remains
      BY <1>1, <2>2, <3>2, FlowsStay DEF Remains
    <3> QED BY <1>6, <3>1, <3>2 DEF ScriptDrops
  <2> QED BY <1>1, <2>2, <2>3, <2>4, <2>5, ShapeNext
<1>7. CASE Verify(f)
  <2>1. PICK to \in {"again", "poll"} : LaunchStep(f, "verify", to)
    BY <1>7 DEF Verify
  <2>2. UNCHANGED <<pool, wanted, at, todo>> /\ upsets' = upsets /\ Stays
    BY <1>7, <2>1 DEF Verify, Remains, LaunchStep
  <2>3. pool' \in Pools /\ RowOK' /\ StrayOK' /\ step' \in [Flow -> Steps]
    BY <1>3, <2>1, <2>2, LaunchRow
  <2> QED BY <1>1, <2>2, <2>3, FlowsStay, MachinesStay, ShapeNext
<1>8. CASE Poll(f) \/ PollDrops(f)
  <2>1. PICK to \in {"polled", "unseen"} : LaunchStep(f, "poll", to)
    BY <1>8 DEF Poll, PollDrops
  <2>2. Completes(f, RayHead) /\ Stays /\ (upsets' = upsets \/ Upset)
    BY <1>8 DEF Poll, PollDrops
  <2>3. /\ pool' \in Pools /\ RowOK' /\ StrayOK' /\ step' \in [Flow -> Steps]
        /\ Running(f) /\ Phase(f) = "launch" /\ UNCHANGED <<pool, wanted>>
    BY <1>3, <2>1, <2>2, LaunchRow
  <2>4. FlowsOK'
    BY <2>2, <2>3, FlowGoesOn
  <2> QED BY <1>1, <2>2, <2>3, <2>4, MachinesStay, ShapeNext
<1> QED BY <1>4, <1>5, <1>6, <1>7, <1>8 DEF Launch

(* The row of a workflow that is over.                                      *)
LEMMA RowStepShape ==
    ASSUME ServingShape, NEW f \in Flow, NEW end \in Steps, RowStep(f, end),
           shown' \in ShownStatuses, alone' \in BOOLEAN, stuck' \in BOOLEAN
    PROVE  ServingShape'
<1>1. /\ pool \in Pools /\ MachinesOK /\ FlowsOK /\ RowOK /\ StrayOK
      /\ step \in [Flow -> Steps]
  BY ShapeParts
<1>2. /\ UNCHANGED <<pool, wanted, stray, crowded, upsets>> /\ Stays
      /\ at' = [at EXCEPT ![f] = 0] /\ todo' = [todo EXCEPT ![f] = {}]
      /\ step' = [step EXCEPT ![f] = end]
  BY DEF RowStep
<1>3. FlowsOK'
  BY <1>1, <1>2, FlowDrops
<1>4. MachinesOK' /\ StrayOK'
  BY <1>1, <1>2, MachinesStay, StraysStay
<1>5. RowOK' /\ step' \in [Flow -> Steps]
  BY <1>1, <1>2 DEF RowOK
<1> QED BY <1>1, <1>2, <1>3, <1>4, <1>5, ShapeNext

(* What a workflow is for, and the statuses that it may leave.              *)
LEMMA WantedKinds ==
    ASSUME ServingShape, NEW f \in Flow
    PROVE  /\ wanted[f] \in Kinds /\ EndOf[wanted[f]] \in ShownStatuses
           /\ FailureOf[wanted[f]] \in ShownStatuses
<1>1. wanted[f] \in Kinds
  BY DEF ServingShape, ServingTypeOK, Kinds
<1> QED BY <1>1 DEF Kinds, PowerActions, EndOf, FailureOf, ShownStatuses

(* The end of a workflow, as the row is told or not.                        *)
LEMMA EndShape ==
    ASSUME ServingShape, NEW f \in Flow,
           Ends(f) \/ EndFails(f) \/ Fails(f) \/ FailsSilently(f)
    PROVE  ServingShape'
<1>1. /\ pool \in Pools /\ MachinesOK /\ FlowsOK /\ RowOK /\ StrayOK
      /\ step \in [Flow -> Steps]
  BY ShapeParts
<1>2. "ended" \in Steps /\ "failed" \in Steps
  BY DEF Steps
<1>3. /\ EndOf[wanted[f]] \in ShownStatuses /\ FailureOf[wanted[f]] \in ShownStatuses
      /\ shown \in ShownStatuses /\ alone \in BOOLEAN /\ stuck \in BOOLEAN
  BY <1>1, WantedKinds DEF RowOK
<1>4. CASE Ends(f)
  <2>1. RowStep(f, "ended") /\ shown' \in ShownStatuses /\ alone' \in BOOLEAN /\ stuck' \in BOOLEAN
    BY <1>3, <1>4 DEF Ends
  <2> QED BY <1>2, <2>1, RowStepShape
<1>5. CASE EndFails(f)
  <2>1. UNCHANGED <<pool, wanted, at, stray, shown, crowded, alone, stuck>> /\ Stays /\ Upset
    BY <1>5 DEF EndFails, outcomeVars
  <2>2. FlowsOK'
    BY <1>1, <1>5, <2>1, FlowDrops DEF EndFails
  <2>3. MachinesOK' /\ StrayOK'
    BY <1>1, <2>1, MachinesStay, StraysStay
  <2>4. upsets' \in 0 .. MaxUpsets
    BY <1>1, <2>1, ServingAssumption DEF RowOK, Upset
  <2>5. RowOK' /\ step' \in [Flow -> Steps]
    BY <1>1, <1>2, <1>5, <2>1, <2>4 DEF RowOK, EndFails
  <2> QED BY <1>1, <2>1, <2>2, <2>3, <2>5, ShapeNext
<1>6. CASE Fails(f) \/ FailsSilently(f)
  <2>1. RowStep(f, "ended") /\ shown' \in ShownStatuses /\ alone' \in BOOLEAN /\ stuck' \in BOOLEAN
    BY <1>3, <1>6 DEF Fails, FailsSilently, Tells
  <2> QED BY <1>2, <2>1, RowStepShape
<1> QED BY <1>4, <1>5, <1>6

(* A power request, whose workflow starts at its first phase.               *)
LEMMA FirstPhase ==
    ASSUME pool \in Pools, NEW kind \in Kinds
    PROVE  /\ Len(Phases(kind)) \in Nat /\ 1 \in 1 .. Len(Phases(kind))
           /\ Where(Phases(kind)[1]) = Node
<1>1. Len(Phases(kind)) \in Nat /\ Len(Phases(kind)) >= 2
  <2>1. CASE kind = "stop"
    <3>1. Len(<<"power", "end">>) = 2
      OBVIOUS
    <3> QED BY <2>1, <3>1, PhasesAre
  <2>2. CASE kind # "stop"
    BY <2>2, PhasesAre DEF Launches
  <2> QED BY <2>1, <2>2
<1>2. Phases(kind)[1] \in {"configure", "power"}
  BY PhasesAre
<1> QED BY <1>1, <1>2 DEF Where

(* A power request.                                                         *)
LEMMA AskShape ==
    ASSUME ServingShape, NEW p \in PowerRequests, NEW a \in PowerActions,
           AskPower(p, a) \/ PowerStartFails(p, a)
    PROVE  ServingShape'
<1>1. /\ pool \in Pools /\ MachinesOK /\ FlowsOK /\ RowOK /\ StrayOK
      /\ step \in [Flow -> Steps]
  BY ShapeParts
<1>2. /\ UNCHANGED <<pool, stray, alone>> /\ Stays /\ ~Running(p)
      /\ wanted' = [wanted EXCEPT ![p] = a] /\ shown' = PendingOf[a]
  BY DEF AskPower, PowerStartFails, AsksPower, Stays
<1>3. p \in Flow /\ p # "setup" /\ a # "setup"
  BY ServingAssumption DEF Flow, PowerActions
<1>4. shown' \in ShownStatuses
  BY <1>2 DEF PendingOf, PowerActions, ShownStatuses
<1>5. MachinesOK' /\ StrayOK'
  BY <1>1, <1>2, MachinesStay, StraysStay
<1>6. /\ Node' = Node /\ \A ph : Where(ph)' = Where(ph)
      /\ \A kind : Phases(kind)' = Phases(kind)
  BY <1>2, NodesStay
<1>7. a \in Kinds
  BY DEF Kinds
<1>8. wanted' \in [Flow -> PowerActions \cup {"setup"}]
  BY <1>1, <1>2 DEF FlowsOK
<1>9. upsets' \in 0 .. MaxUpsets /\ crowded' \subseteq Flow /\ stuck' \in BOOLEAN
      /\ step' \in [Flow -> Steps]
  <2>1. CASE AskPower(p, a)
    BY <1>1, <1>3, <2>1 DEF AskPower, RowOK
  <2>2. CASE PowerStartFails(p, a)
    <3>1. "ended" \in Steps
      BY DEF Steps
    <3>2. upsets' \in 0 .. MaxUpsets
      BY <1>1, <2>2, ServingAssumption DEF PowerStartFails, RowOK, Upset
    <3>3. crowded' \subseteq Flow /\ stuck' \in BOOLEAN
      BY <1>1, <2>2 DEF PowerStartFails, RowOK
    <3>4. step' \in [Flow -> Steps]
      BY <1>1, <2>2, <3>1 DEF PowerStartFails
    <3> QED BY <3>2, <3>3, <3>4
  <2> QED BY <2>1, <2>2
<1>10. RowOK'
  BY <1>1, <1>2, <1>4, <1>9 DEF RowOK
<1>11. at' \in [Flow -> Nat] /\ todo' \in [Flow -> SUBSET Node']
  BY <1>1, <1>6 DEF FlowsOK, AskPower, PowerStartFails
<1>12. ASSUME NEW g \in Flow PROVE Placed(g)'
  <2>1. Placed(g) /\ at[g] \in Nat
    BY <1>1 DEF FlowsOK
  <2>2. CASE g # p
    <3>1. at'[g] = at[g] /\ todo'[g] = todo[g] /\ wanted'[g] = wanted[g]
      BY <1>1, <1>2, <2>2 DEF FlowsOK, AskPower, PowerStartFails
    <3> QED BY <1>6, <2>1, <3>1 DEF Placed, Phase
  <2>3. CASE g = p
    <3>1. wanted'[p] = a
      BY <1>1, <1>2, <1>3 DEF FlowsOK
    <3>2. Len(Phases(a)) \in Nat /\ 1 \in 1 .. Len(Phases(a)) /\ Where(Phases(a)[1]) = Node
      BY <1>1, <1>7, FirstPhase
    <3>3. CASE at'[p] = 1 /\ todo'[p] = Node
      <4>1. Phase(p)' = Phases(a)[1]
        BY <1>6, <3>1, <3>3 DEF Phase
      <4> QED BY <1>3, <1>6, <2>3, <3>1, <3>2, <3>3, <4>1 DEF Placed
    <3>4. CASE at'[p] = 0 /\ todo'[p] = {}
      BY <1>3, <1>6, <2>3, <3>1, <3>2, <3>4 DEF Placed
    <3>5. \/ at'[p] = 1 /\ todo'[p] = Node
          \/ at'[p] = 0 /\ todo'[p] = {}
      BY <1>1, <1>2, <1>3, <2>1, <2>3 DEF FlowsOK, AskPower, PowerStartFails, Placed, Running
    <3> QED BY <3>3, <3>4, <3>5
  <2> QED BY <2>2, <2>3
<1>13. FlowsOK'
  BY <1>8, <1>11, <1>12 DEF FlowsOK
<1> QED BY <1>1, <1>2, <1>5, <1>9, <1>10, <1>13, ShapeNext

(* What machines do by themselves.                                          *)
LEMMA MachineShape ==
    ASSUME ServingShape, NEW n \in Node, Reboots(n) \/ GpuBreaks(n) PROVE ServingShape'
<1>1. /\ pool \in Pools /\ MachinesOK /\ FlowsOK /\ RowOK /\ StrayOK
      /\ step \in [Flow -> Steps]
  BY ShapeParts
<1>2. UNCHANGED <<pool, wanted, at, todo, step, stray, shown, crowded, alone, stuck>>
  BY DEF Reboots, GpuBreaks, workflowVars, outcomeVars
<1>3. upsets' \in 0 .. MaxUpsets
  BY <1>1, ServingAssumption DEF RowOK, Reboots, GpuBreaks, Upset
<1>4. RowOK' /\ FlowsOK' /\ StrayOK'
  BY <1>1, <1>2, <1>3, FlowsStay, StraysStay DEF RowOK
<1>5. MachinesOK'
  <2>1. CASE Reboots(n)
    BY <1>1, <1>2, <2>1, BootTypes DEF Reboots
  <2>2. CASE GpuBreaks(n)
    BY <1>1, <1>2, <2>2, NodesStay DEF GpuBreaks, MachinesOK, diskVars
  <2> QED BY <2>1, <2>2
<1> QED BY <1>1, <1>2, <1>4, <1>5, ShapeNext

(* A step that changes nothing.                                             *)
LEMMA ShapeStays == ASSUME ServingShape, UNCHANGED servingVars PROVE ServingShape'
<1>1. /\ pool \in Pools /\ MachinesOK /\ FlowsOK /\ RowOK /\ StrayOK
      /\ step \in [Flow -> Steps]
  BY ShapeParts
<1>2. /\ UNCHANGED <<pool, wanted, at, todo, step, stray, shown, crowded, alone, stuck, upsets>>
      /\ Stays
  BY DEF servingVars, workflowVars, outcomeVars, Stays
<1>3. RowOK' /\ FlowsOK' /\ StrayOK' /\ MachinesOK'
  BY <1>1, <1>2, FlowsStay, StraysStay, MachinesStay DEF RowOK
<1> QED BY <1>1, <1>2, <1>3, ShapeNext

(* Every step of the specification.                                         *)
LEMMA ServingStep == ASSUME ServingShape, [ServingNext]_servingVars PROVE ServingShape'
<1>1. ASSUME NEW f \in Flow, FlowStep(f) PROVE ServingShape'
  BY <1>1, TaskShape, TaskFailsShape, LaunchShape, EndShape DEF FlowStep
<1>2. ASSUME NEW s \in stray, StrayEnds(s) PROVE ServingShape'
  BY <1>2, StrayEndsShape
<1>3. ASSUME NEW n \in Node, Reboots(n) \/ GpuBreaks(n) PROVE ServingShape'
  BY <1>3, MachineShape
<1>4. ASSUME NEW p \in PowerRequests, NEW a \in PowerActions,
             AskPower(p, a) \/ PowerStartFails(p, a)
      PROVE  ServingShape'
  BY <1>4, AskShape
<1>5. CASE NothingLeft \/ UNCHANGED servingVars
  BY <1>5, ShapeStays DEF NothingLeft
<1> QED BY <1>1, <1>2, <1>3, <1>4, <1>5 DEF ServingNext

(* In every state.                                                          *)
THEOREM ServingTypeCorrect == ServingSpec => []ServingTypeOK
<1>1. ServingShape => ServingTypeOK
  BY DEF ServingShape
<1> QED BY <1>1, ServingInitShape, ServingStep, PTL DEF ServingSpec

-----------------------------------------------------------------------------
(* What the row says is so.  A workflow that was alone all the time knows    *)
(* what it has done; one that is not alone makes no promise.                *)

Alone(f) == Running(f) /\ f \notin crowded

(* Where its launch of vLLM is, at each of its phases.                      *)
Stage(f) ==
    Running(f) =>
        /\ Phase(f) \notin {"launch", "end"} => step[f] \in {"none", "failed"}
        /\ Phase(f) = "end" /\ wanted[f] # "stop" => step[f] \in {"polled", "unseen", "failed"}
        /\ step[f] = "polled" => Phase(f) = "end"
        /\ step[f] = "failed" => todo[f] = {}

(* No other is at work, nor what another has left.                          *)
Solo(f) == Alone(f) => \A g \in Flow \ {f} : ~Running(g)
Cleared(f) == Alone(f) => stray = {} \/ step[f] = "failed"

(* The machines that still run are those it has not stopped yet.            *)
Stopping(f) ==
    Alone(f) /\ wanted[f] = "stop" /\ step[f] # "failed" =>
        /\ Phase(f) = "power" => up \subseteq todo[f]
        /\ Phase(f) = "end" => up = {}

(* What its poll saw is still so.                                           *)
Seen(f) == Alone(f) /\ step[f] = "polled" => Serves /\ rebooting = {}

Own(f) == Stage(f) /\ Cleared(f) /\ Stopping(f) /\ Seen(f)

(* Nobody is left to change what is shown.                                  *)
AtRest == stray = {} /\ \A f \in Flow : ~Running(f)

Shown ==
    /\ alone /\ shown = "running" => Serves /\ rebooting = {} /\ AtRest
    /\ alone /\ shown = "stopped" => up = {} /\ AtRest

ServingInv ==
    /\ \A f \in Flow : Own(f) /\ Solo(f)
    /\ Shown

(* At first nobody has said anything.                                       *)
LEMMA ServingInitInv == ServingInit => ServingInv
<1> SUFFICES ASSUME ServingInit PROVE ServingInv
  OBVIOUS
<1>1. /\ stray = {} /\ rebooting = {} /\ crowded = {}
      /\ \A f \in Flow : step[f] = "none" /\ wanted[f] # "stop"
  BY DEF ServingInit
<1>2. ASSUME NEW f \in Flow PROVE Own(f) /\ Solo(f)
  <2>1. Running(f) => f = "setup" /\ at[f] = 1
    BY DEF ServingInit, NewPool, StoppedPool, Running
  <2>2. Running(f) => Phase(f) \in {"configure", "power"}
    <3>1. wanted[f] \in Kinds
      BY DEF ServingInit, Kinds, PowerActions
    <3> QED BY <2>1, <3>1, PhasesAre DEF Phase
  <2>3. Solo(f)
    BY <2>1 DEF Solo, Alone, ServingInit, NewPool, StoppedPool, Running
  <2> QED BY <1>1, <2>2, <2>3 DEF Own, Stage, Cleared, Stopping, Seen
<1>3. Shown
  BY <1>1 DEF Shown, ServingInit, NewPool, StoppedPool, AtRest, Running
<1> QED BY <1>2, <1>3 DEF ServingInv

(* A step of one workflow concerns no other that is alone.                  *)
LEMMA OneMoves ==
    ASSUME ServingInv, NEW f \in Flow, Running(f),
           UNCHANGED <<pool, wanted, crowded>>,
           \A g \in Flow \ {f} : UNCHANGED <<at[g], todo[g], step[g]>>,
           Own(f)',
           Shown' \/ UNCHANGED <<shown, alone>>
    PROVE  ServingInv'
<1>1. \A kind : Phases(kind)' = Phases(kind)
  BY NodesStay
<1>2. Own(f) /\ Solo(f) /\ Shown
  BY DEF ServingInv
<1>3. ASSUME NEW g \in Flow \ {f} PROVE Own(g)' /\ Solo(g)'
  <2>1. /\ at'[g] = at[g] /\ todo'[g] = todo[g] /\ step'[g] = step[g]
        /\ wanted'[g] = wanted[g] /\ crowded' = crowded
    OBVIOUS
  <2>2. Phase(g)' = Phase(g) /\ Running(g)' = Running(g)
    BY <1>1, <2>1 DEF Phase, Running
  <2>3. Own(g) /\ Solo(g)
    BY DEF ServingInv
  <2>4. ~Alone(g)
    BY <2>3 DEF Solo
  <2>5. ~Alone(g)'
    BY <2>1, <2>2, <2>4 DEF Alone
  <2>6. Stage(g)'
    BY <2>1, <2>2, <2>3 DEF Own, Stage
  <2> QED BY <2>5, <2>6 DEF Own, Solo, Cleared, Stopping, Seen
<1>4. Solo(f)'
  <2>1. \A g \in Flow \ {f} : Running(g)' = Running(g)
    BY DEF Running
  <2> QED BY <1>2, <2>1 DEF Solo, Alone
<1>5. Shown'
  <2>1. CASE UNCHANGED <<shown, alone>>
    BY <1>2, <2>1 DEF Shown, AtRest
  <2> QED BY <2>1
<1> QED BY <1>3, <1>4, <1>5 DEF ServingInv

(* A workflow that runs is at one of its phases.                            *)
LEMMA AtPhase ==
    ASSUME ServingShape, NEW f \in Flow, Running(f)
    PROVE  /\ wanted[f] \in Kinds /\ at[f] \in 1 .. Len(Phases(wanted[f]))
           /\ todo[f] \subseteq Where(Phase(f))
<1>1. /\ at \in [Flow -> Nat] /\ Placed(f)
  BY ShapeParts DEF FlowsOK
<1>2. wanted[f] \in Kinds
  BY DEF ServingShape, ServingTypeOK, Kinds
<1>3. Len(Phases(wanted[f])) \in Nat
  BY <1>2, FirstPhase, ShapeParts
<1> QED BY <1>1, <1>2, <1>3 DEF Placed, Running

(* Where a workflow is when an activity of it has ended.                    *)
LEMMA Onward ==
    ASSUME ServingShape, NEW f \in Flow, Running(f), Phase(f) # "end", NEW n, Completes(f, n),
           UNCHANGED <<pool, wanted>>
    PROVE  /\ \A g \in Flow \ {f} : UNCHANGED <<at[g], todo[g]>>
           /\ Running(f)'
           /\ \/ /\ todo[f] \ {n} # {} /\ todo'[f] = todo[f] \ {n} /\ Phase(f)' = Phase(f)
              \/ /\ todo[f] \subseteq {n}
                 /\ Phase(f)' = "end" <=> (Phase(f) = "launch" \/ wanted[f] = "stop")
<1> DEFINE next == Phases(wanted[f])[at[f] + 1]
           rest == todo[f] \ {n}
<1>1. /\ todo' = [todo EXCEPT ![f] = IF rest = {} THEN Where(next) ELSE rest]
      /\ at' = IF rest = {} THEN [at EXCEPT ![f] = @ + 1] ELSE at
  BY DEF Completes
<1>2. at \in [Flow -> Nat] /\ todo \in [Flow -> SUBSET Node]
  BY DEF ServingShape, ServingTypeOK
<1>3. wanted[f] \in Kinds /\ at[f] \in 1 .. Len(Phases(wanted[f]))
  BY AtPhase
<1>4. \A kind : Phases(kind)' = Phases(kind)
  BY NodesStay
<1>5. at'[f] # 0
  BY <1>1, <1>2, <1>3
<1>6. CASE rest # {}
  BY <1>1, <1>2, <1>4, <1>5, <1>6 DEF Phase, Running
<1>7. CASE rest = {}
  <2>1. at'[f] = at[f] + 1 /\ \A g \in Flow \ {f} : UNCHANGED <<at[g], todo[g]>>
    BY <1>1, <1>2, <1>7
  <2>2. Phase(f)' = next
    BY <1>4, <2>1 DEF Phase
  <2>3. /\ Phase(f) = "launch" => next = "end"
        /\ next = "end" /\ wanted[f] # "stop" => Phase(f) = "launch"
        /\ wanted[f] = "stop" => at[f] = 1
    BY <1>3, NextPhase DEF Phase
  <2>4. wanted[f] = "stop" => next = "end"
    <3>1. <<"power", "end">>[2] = "end"
      OBVIOUS
    <3> QED BY <1>3, <2>3, <3>1, PhasesAre
  <2> QED BY <1>5, <1>7, <2>1, <2>2, <2>3, <2>4 DEF Running
<1> QED BY <1>6, <1>7

(* An activity that ends well: a machine less to stop.                      *)
LEMMA TaskInv ==
    ASSUME ServingShape, ServingInv, NEW f \in Flow, NEW n, Task(f, n) PROVE ServingInv'
<1>1. /\ Running(f) /\ n \in todo[f] /\ Phase(f) # "end" /\ Phase(f) # "launch"
      /\ UNCHANGED <<pool, wanted, step, stray, shown, crowded, alone>>
      /\ Completes(f, n) /\ Does(Phase(f), n, wanted[f])
  BY DEF Task, At, Does, outcomeVars
<1>2. Own(f)
  BY DEF ServingInv
<1>3. step[f] = "none"
  BY <1>1, <1>2 DEF Own, Stage
<1>4. /\ \A g \in Flow \ {f} : UNCHANGED <<at[g], todo[g]>>
      /\ Running(f)'
      /\ \/ /\ todo[f] \ {n} # {} /\ todo'[f] = todo[f] \ {n} /\ Phase(f)' = Phase(f)
         \/ /\ todo[f] \subseteq {n}
            /\ Phase(f)' = "end" <=> wanted[f] = "stop"
  BY <1>1, Onward
<1>5. Stage(f)'
  BY <1>1, <1>3, <1>4 DEF Stage
<1>6. Cleared(f)'
  BY <1>1, <1>2, <1>3 DEF Own, Cleared, Alone
<1>7. Stopping(f)'
  <2> SUFFICES ASSUME Alone(f)', wanted[f] = "stop"
               PROVE  /\ Phase(f)' = "power" => up' \subseteq todo'[f]
                      /\ Phase(f)' = "end" => up' = {}
    BY <1>1 DEF Stopping
  <2>1. at[f] = 1 /\ Phase(f) = "power"
    <3>1. wanted[f] \in Kinds /\ at[f] \in 1 .. Len(Phases(wanted[f]))
      BY <1>1, AtPhase
    <3>2. at[f] = 1
      BY <1>1, <3>1, NextPhase DEF Phase
    <3>3. <<"power", "end">>[1] = "power"
      OBVIOUS
    <3> QED BY <3>1, <3>2, <3>3, PhasesAre DEF Phase
  <2>2. up \subseteq todo[f]
    BY <1>1, <1>2, <1>3, <2>1 DEF Own, Stopping, Alone
  <2>3. up' = up \ {n}
    BY <1>1, <2>1 DEF Does, Switch
  <2> QED BY <1>4, <2>1, <2>2, <2>3
<1>8. Seen(f)'
  BY <1>1, <1>3 DEF Seen
<1> QED BY <1>1, <1>4, <1>5, <1>6, <1>7, <1>8, OneMoves DEF Own

(* An activity that fails.                                                  *)
LEMMA TaskFailsInv ==
    ASSUME ServingShape, ServingInv, NEW f \in Flow, NEW n, TaskFails(f, n) PROVE ServingInv'
<1>1. /\ Running(f) /\ UNCHANGED <<pool, wanted, at, shown, crowded, alone>>
      /\ step' = [step EXCEPT ![f] = "failed"] /\ todo' = [todo EXCEPT ![f] = {}]
  BY DEF TaskFails, At, outcomeVars
<1>2. step'[f] = "failed" /\ todo'[f] = {}
      /\ \A g \in Flow \ {f} : UNCHANGED <<at[g], todo[g], step[g]>>
  BY <1>1, ShapeParts DEF FlowsOK
<1>3. Own(f)'
  BY <1>2 DEF Own, Stage, Cleared, Stopping, Seen
<1> QED BY <1>1, <1>2, <1>3, OneMoves

(* A launch goes on, or comes to its verdict.                               *)
LEMMA LaunchInv ==
    ASSUME ServingShape, ServingInv, NEW f \in Flow, Launch(f) PROVE ServingInv'
<1>1. PICK from \in {"none", "script", "again", "verify", "poll"},
           to \in {"script", "poll", "verify", "failing", "unseen", "again", "polled"} :
        /\ LaunchStep(f, from, to)
        /\ \/ Remains /\ to \notin {"polled", "unseen"}
           \/ Completes(f, RayHead) /\ to \in {"polled", "unseen"}
        /\ to = "polled" => Serves /\ rebooting = {} /\ Stays
  <2>1. CASE Prepare(f)
    BY <2>1 DEF Prepare
  <2>2. CASE Script(f)
    BY <2>2 DEF Script
  <2>3. CASE ScriptDrops(f)
    <3>1. PICK from \in {"script", "again"}, to \in {"verify", "failing", "unseen", "poll"} :
             LaunchStep(f, from, to)
      BY <2>3 DEF ScriptDrops
    <3>2. step'[f] = to
      BY <3>1, ShapeParts DEF LaunchStep
    <3> QED BY <2>3, <3>1, <3>2 DEF ScriptDrops
  <2>4. CASE Verify(f)
    BY <2>4 DEF Verify
  <2>5. CASE Poll(f)
    BY <2>5 DEF Poll
  <2>6. CASE PollDrops(f)
    BY <2>6 DEF PollDrops
  <2> QED BY <2>1, <2>2, <2>3, <2>4, <2>5, <2>6 DEF Launch
<1>2. /\ Running(f) /\ Phase(f) = "launch" /\ step[f] = from
      /\ UNCHANGED <<pool, wanted, stray, shown, crowded, alone>>
      /\ step'[f] = to /\ \A g \in Flow \ {f} : UNCHANGED step[g]
  BY <1>1, ShapeParts DEF LaunchStep, outcomeVars
<1>3. Own(f)
  BY DEF ServingInv
<1>4. wanted[f] # "stop"
  <2>1. wanted[f] \in Kinds /\ at[f] \in 1 .. Len(Phases(wanted[f]))
    BY <1>2, AtPhase
  <2>2. CASE wanted[f] = "stop"
    <3>1. at[f] = 1
      BY <1>2, <2>1, <2>2, NextPhase DEF Phase
    <3>2. <<"power", "end">>[1] = "power"
      OBVIOUS
    <3> QED BY <1>2, <2>1, <2>2, <3>1, <3>2, PhasesAre DEF Phase
  <2> QED BY <2>2
<1>5. /\ \A g \in Flow \ {f} : UNCHANGED <<at[g], todo[g]>>
      /\ Running(f)'
      /\ \/ Phase(f)' = "launch" /\ to \notin {"polled", "unseen"}
         \/ Phase(f)' = "end" /\ to \in {"polled", "unseen"}
  <2>1. CASE Remains /\ to \notin {"polled", "unseen"}
    BY <1>2, <2>1, NodesStay DEF Remains, Phase, Running
  <2>2. CASE Completes(f, RayHead) /\ to \in {"polled", "unseen"}
    <3>1. todo[f] \subseteq {RayHead}
      BY <1>2, AtPhase DEF Where
    <3> QED BY <1>2, <2>2, <3>1, Onward
  <2> QED BY <1>1, <2>1, <2>2
<1>6. Stage(f)'
  BY <1>2, <1>5 DEF Stage
<1>7. Cleared(f)'
  BY <1>1, <1>2, <1>3 DEF Own, Cleared, Alone
<1>8. Stopping(f)'
  BY <1>2, <1>4 DEF Stopping
<1>9. Seen(f)'
  <2>1. CASE to = "polled"
    <3>1. Node' = Node /\ Worker' = Worker
      BY <1>2, NodesStay
    <3>2. Serves' /\ rebooting' = {}
      BY <1>1, <2>1, <3>1 DEF Serves, Stays, machineVars, diskVars
    <3> QED BY <3>2 DEF Seen
  <2>2. CASE to # "polled"
    BY <1>2, <2>2 DEF Seen
  <2> QED BY <2>1, <2>2
<1> QED BY <1>2, <1>5, <1>6, <1>7, <1>8, <1>9, OneMoves DEF Own

(* What serves goes on when no machine changes.                             *)
LEMMA ServesStays == ASSUME Serves, UNCHANGED pool, Stays PROVE Serves'
<1>1. Node' = Node /\ Worker' = Worker
  BY NodesStay
<1> QED BY <1>1 DEF Serves, Stays, machineVars, diskVars

(* The verdict, which is told, or not.                                      *)
LEMMA EndInv ==
    ASSUME ServingShape, ServingInv, NEW f \in Flow,
           Ends(f) \/ EndFails(f) \/ Fails(f) \/ FailsSilently(f)
    PROVE  ServingInv'
<1>1. /\ Running(f) /\ Stays /\ UNCHANGED <<pool, wanted, stray, crowded>>
      /\ todo'[f] = {}
      /\ \A g \in Flow \ {f} : UNCHANGED <<at[g], todo[g], step[g]>>
  BY ShapeParts DEF Ends, EndFails, Fails, FailsSilently, RowStep, FlowsOK, outcomeVars
<1>2. Own(f) /\ Solo(f)
  BY DEF ServingInv
<1>3. ASSUME RowStep(f, "ended") PROVE Own(f)' /\ ~Running(f)'
  <2>1. at'[f] = 0
    BY <1>3, ShapeParts DEF RowStep, FlowsOK
  <2> QED BY <2>1 DEF Own, Stage, Cleared, Stopping, Seen, Alone, Running
<1>4. CASE Ends(f)
  <2>1. /\ Phase(f) = "end" /\ todo[f] # {} /\ RowStep(f, "ended")
        /\ shown' = EndOf[wanted[f]]
        /\ alone' = (f \notin crowded /\ stray = {} /\ step[f] # "unseen")
    BY <1>4 DEF Ends
  <2>2. Own(f)' /\ ~Running(f)'
    BY <1>3, <2>1
  <2>3. wanted[f] \in Kinds
    BY <1>1, AtPhase
  <2>4. Shown'
    <3> SUFFICES ASSUME alone' PROVE Shown'
      BY DEF Shown
    <3>1. Alone(f) /\ stray = {} /\ step[f] # "unseen"
      BY <1>1, <2>1 DEF Alone
    <3>2. AtRest'
      <4>1. \A g \in Flow \ {f} : ~Running(g)'
        BY <1>1, <1>2, <3>1 DEF Solo, Running
      <4> QED BY <1>1, <2>2, <3>1, <4>1 DEF AtRest
    <3>3. step[f] # "failed"
      BY <1>1, <1>2, <2>1 DEF Own, Stage
    <3>4. CASE wanted[f] = "stop"
      <4>1. up' = {}
        BY <1>1, <1>2, <2>1, <3>1, <3>3, <3>4 DEF Own, Stopping, Stays, machineVars
      <4>2. shown' = "stopped"
        BY <2>1, <3>4 DEF EndOf
      <4> QED BY <3>2, <4>1, <4>2 DEF Shown
    <3>5. CASE wanted[f] # "stop"
      <4>1. step[f] = "polled"
        BY <1>1, <1>2, <2>1, <3>1, <3>3, <3>5 DEF Own, Stage
      <4>2. Serves' /\ rebooting' = {}
        BY <1>1, <1>2, <3>1, <4>1, ServesStays DEF Own, Seen, Stays, machineVars
      <4>3. shown' = "running"
        BY <2>1, <2>3, <3>5 DEF EndOf, Kinds, PowerActions
      <4> QED BY <3>2, <4>2, <4>3 DEF Shown
    <3> QED BY <3>4, <3>5
  <2> QED BY <1>1, <2>2, <2>4, OneMoves
<1>5. CASE EndFails(f)
  <2>1. UNCHANGED <<shown, alone>> /\ step'[f] = "failed"
    BY <1>5, ShapeParts DEF EndFails, outcomeVars
  <2>2. Own(f)'
    BY <1>1, <2>1 DEF Own, Stage, Cleared, Stopping, Seen
  <2> QED BY <1>1, <2>1, <2>2, OneMoves
<1>6. CASE Fails(f)
  <2>1. Own(f)'
    BY <1>3, <1>6 DEF Fails
  <2>2. shown' \notin {"running", "stopped"}
    <3>1. wanted[f] \in Kinds /\ shown' = FailureOf[wanted[f]]
      BY <1>1, <1>6, AtPhase DEF Fails, Tells
    <3> QED BY <3>1 DEF Kinds, PowerActions, FailureOf
  <2>3. Shown'
    BY <2>2 DEF Shown
  <2> QED BY <1>1, <2>1, <2>3, OneMoves
<1>7. CASE FailsSilently(f)
  <2>1. UNCHANGED <<shown, alone>> /\ Own(f)'
    BY <1>3, <1>7 DEF FailsSilently
  <2> QED BY <1>1, <2>1, OneMoves
<1> QED BY <1>4, <1>5, <1>6, <1>7

(* What an activity does late concerns no workflow that counts.             *)
LEMMA StrayEndsInv ==
    ASSUME ServingShape, ServingInv, NEW s \in stray, StrayEnds(s) PROVE ServingInv'
<1>1. /\ UNCHANGED <<pool, wanted, at, todo, step, shown, crowded, alone>>
      /\ s \in stray
  BY DEF StrayEnds, outcomeVars
<1>2. \A kind : Phases(kind)' = Phases(kind)
  BY <1>1, NodesStay
<1>3. ASSUME NEW f \in Flow PROVE Own(f)' /\ Solo(f)'
  <2>1. Own(f) /\ Solo(f)
    BY DEF ServingInv
  <2>2. Phase(f)' = Phase(f)
    BY <1>1, <1>2 DEF Phase
  <2>3. Alone(f) => step[f] = "failed"
    BY <1>1, <2>1 DEF Own, Cleared
  <2>4. Stage(f)' /\ Solo(f)'
    BY <1>1, <2>1, <2>2 DEF Own, Stage, Solo, Alone, Running
  <2>5. Alone(f)' => step'[f] = "failed"
    BY <1>1, <2>3 DEF Alone, Running
  <2> QED BY <2>4, <2>5 DEF Own, Cleared, Stopping, Seen
<1>4. Shown'
  BY <1>1 DEF ServingInv, Shown, AtRest
<1> QED BY <1>3, <1>4 DEF ServingInv

(* A request joins the others, or finds the pool at rest.                   *)
LEMMA AskInv ==
    ASSUME ServingShape, ServingInv, NEW p \in PowerRequests, NEW a \in PowerActions,
           AskPower(p, a) \/ PowerStartFails(p, a)
    PROVE  ServingInv'
<1>1. /\ UNCHANGED <<pool, stray, alone>> /\ Stays /\ ~Running(p) /\ step[p] = "none"
      /\ wanted' = [wanted EXCEPT ![p] = a] /\ shown' = PendingOf[a]
  BY DEF AskPower, PowerStartFails, AsksPower, Stays
<1>2. p \in Flow /\ a \in Kinds
  BY DEF Flow, Kinds
<1>3. \A kind : Phases(kind)' = Phases(kind)
  BY <1>1, NodesStay
<1>4. Shown'
  <2>1. shown' \notin {"running", "stopped"}
    BY <1>1 DEF PendingOf, PowerActions
  <2> QED BY <2>1 DEF Shown
<1>5. \A g \in Flow \ {p} : /\ UNCHANGED <<wanted[g], at[g], todo[g], step[g]>>
                            /\ Running(g)' = Running(g) /\ Phase(g)' = Phase(g)
  BY <1>1, <1>3, ShapeParts DEF FlowsOK, AskPower, PowerStartFails, Phase, Running
<1>6. CASE AskPower(p, a)
  <2> DEFINE others == {f \in Flow : Running(f)}
  <2>1. /\ crowded' = IF others # {} THEN crowded \cup others \cup {p}
                      ELSE IF stray # {} THEN crowded \cup {p} ELSE crowded
        /\ at' = [at EXCEPT ![p] = 1] /\ todo' = [todo EXCEPT ![p] = Node] /\ step' = step
    BY <1>6 DEF AskPower
  <2>2. ASSUME NEW g \in Flow \ {p} PROVE Own(g)' /\ Solo(g)'
    <3>1. Own(g)
      BY DEF ServingInv
    <3>2. Stage(g)'
      BY <1>5, <3>1 DEF Own, Stage
    <3>3. ~Alone(g)'
      BY <1>5, <2>1 DEF Alone
    <3> QED BY <3>2, <3>3 DEF Own, Solo, Cleared, Stopping, Seen
  <2>3. at'[p] = 1 /\ todo'[p] = Node /\ step'[p] = "none" /\ wanted'[p] = a
    BY <1>1, <1>2, <2>1, ShapeParts DEF FlowsOK
  <2>4. Phase(p)' \in {"configure", "power"}
    BY <1>2, <1>3, <2>3, PhasesAre DEF Phase
  <2>5. Alone(p)' => others = {} /\ stray = {}
    BY <2>1 DEF Alone
  <2>6. Solo(p)'
    BY <1>5, <2>5 DEF Solo
  <2>7. Stage(p)' /\ Cleared(p)' /\ Seen(p)'
    BY <1>1, <2>3, <2>4, <2>5 DEF Stage, Cleared, Seen
  <2>8. Stopping(p)'
    <3>1. up' \subseteq Node
      BY <1>1, ShapeParts DEF Stays, machineVars, MachinesOK
    <3> QED BY <2>3, <2>4, <3>1 DEF Stopping
  <2> QED BY <1>2, <1>4, <2>2, <2>6, <2>7, <2>8 DEF ServingInv, Own
<1>7. CASE PowerStartFails(p, a)
  <2>1. UNCHANGED <<at, todo, crowded>>
    BY <1>7 DEF PowerStartFails
  <2>2. ~Running(p)'
    BY <1>1, <2>1 DEF Running
  <2>3. \A g \in Flow \ {p} : Own(g) /\ Solo(g)
    BY DEF ServingInv
  <2>4. ASSUME NEW g \in Flow \ {p} PROVE Own(g)' /\ Solo(g)'
    <3>1. Own(g) /\ Solo(g) /\ Alone(g)' = Alone(g)
      BY <1>5, <2>1, <2>3 DEF Alone
    <3>2. Stage(g)' /\ Solo(g)'
      BY <1>5, <2>2, <3>1 DEF Own, Stage, Solo
    <3>3. Cleared(g)' /\ Stopping(g)'
      BY <1>1, <1>5, <3>1 DEF Own, Cleared, Stopping, Stays, machineVars
    <3>4. Seen(g)'
      BY <1>1, <1>5, <3>1, ServesStays DEF Own, Seen, Stays, machineVars
    <3> QED BY <3>2, <3>3, <3>4 DEF Own
  <2>5. Own(p)' /\ Solo(p)'
    BY <2>2 DEF Own, Stage, Cleared, Stopping, Seen, Solo, Alone
  <2> QED BY <1>2, <1>4, <2>4, <2>5 DEF ServingInv
<1> QED BY <1>6, <1>7

(* A machine that reboots late, or whose GPU breaks, is no news to one whose *)
(* poll saw none of that, nor to nobody.                                    *)
LEMMA MachineInv ==
    ASSUME ServingShape, ServingInv, NEW n \in Node, Reboots(n) \/ GpuBreaks(n)
    PROVE  ServingInv'
<1>1. /\ UNCHANGED <<pool, wanted, at, todo, step, stray, shown, crowded, alone>>
      /\ rebooting # {} \/ (Running("setup") /\ Phase("setup") # "end")
      /\ up' = up
  BY DEF Reboots, GpuBreaks, Boot, workflowVars, outcomeVars
<1>2. \A kind : Phases(kind)' = Phases(kind)
  BY <1>1, NodesStay
<1>3. "setup" \in Flow
  BY DEF Flow
<1>4. ASSUME NEW f \in Flow PROVE Own(f)' /\ Solo(f)'
  <2>1. Own(f) /\ Solo(f)
    BY DEF ServingInv
  <2>2. Phase(f)' = Phase(f) /\ Alone(f)' = Alone(f)
    BY <1>1, <1>2 DEF Phase, Alone, Running
  <2>3. Stage(f)' /\ Solo(f)' /\ Cleared(f)' /\ Stopping(f)'
    BY <1>1, <2>1, <2>2 DEF Own, Stage, Solo, Cleared, Stopping, Running
  <2>4. ~(Alone(f) /\ step[f] = "polled")
    <3> SUFFICES ASSUME Alone(f), step[f] = "polled" PROVE FALSE
      OBVIOUS
    <3>1. rebooting = {} /\ Phase(f) = "end"
      BY <2>1 DEF Own, Seen, Stage, Alone
    <3> QED BY <1>1, <1>3, <2>1, <3>1 DEF Solo
  <2>5. Seen(f)'
    BY <1>1, <2>2, <2>4 DEF Seen
  <2> QED BY <2>3, <2>5 DEF Own
<1>5. Shown'
  <2>1. Shown
    BY DEF ServingInv
  <2>2. ~(alone /\ shown = "running")
    BY <1>1, <1>3, <2>1 DEF Shown, AtRest
  <2>3. alone /\ shown = "stopped" => up' = {} /\ AtRest'
    BY <1>1, <2>1 DEF Shown, AtRest, Running
  <2> QED BY <1>1, <2>2, <2>3 DEF Shown
<1> QED BY <1>4, <1>5 DEF ServingInv

(* A step that changes nothing.                                             *)
LEMMA InvStays == ASSUME ServingInv, UNCHANGED servingVars PROVE ServingInv'
<1>1. /\ UNCHANGED <<pool, wanted, at, todo, step, stray, shown, crowded, alone, up, rebooting>>
      /\ Stays
  BY DEF servingVars, workflowVars, outcomeVars, machineVars, Stays
<1>2. \A kind : Phases(kind)' = Phases(kind)
  BY <1>1, NodesStay
<1>3. Serves => Serves'
  BY <1>1, ServesStays
<1>4. \A f \in Flow : Phase(f)' = Phase(f) /\ Alone(f)' = Alone(f) /\ Running(f)' = Running(f)
  BY <1>1, <1>2 DEF Phase, Alone, Running
<1>5. ASSUME NEW f \in Flow PROVE Own(f)' /\ Solo(f)'
  BY <1>1, <1>3, <1>4 DEF ServingInv, Own, Stage, Solo, Cleared, Stopping, Seen
<1>6. Shown'
  BY <1>1, <1>3, <1>4 DEF ServingInv, Shown, AtRest
<1> QED BY <1>5, <1>6 DEF ServingInv

(* Every step of the specification.                                         *)
LEMMA ServingInvStep ==
    ASSUME ServingShape, ServingInv, [ServingNext]_servingVars PROVE ServingInv'
<1>1. ASSUME NEW f \in Flow, FlowStep(f) PROVE ServingInv'
  BY <1>1, TaskInv, TaskFailsInv, LaunchInv, EndInv DEF FlowStep
<1>2. ASSUME NEW s \in stray, StrayEnds(s) PROVE ServingInv'
  BY <1>2, StrayEndsInv
<1>3. ASSUME NEW n \in Node, Reboots(n) \/ GpuBreaks(n) PROVE ServingInv'
  BY <1>3, MachineInv
<1>4. ASSUME NEW p \in PowerRequests, NEW a \in PowerActions,
             AskPower(p, a) \/ PowerStartFails(p, a)
      PROVE  ServingInv'
  BY <1>4, AskInv
<1>5. CASE NothingLeft \/ UNCHANGED servingVars
  BY <1>5, InvStays DEF NothingLeft
<1> QED BY <1>1, <1>2, <1>3, <1>4, <1>5 DEF ServingNext

(* launch_vllm_from_template_activity, restore_llm_services_activity,       *)
(* vm_power_action_activity: a pool shown as running serves its model from   *)
(* all its machines, and one shown as stopped has none that runs.           *)
THEOREM ShownCorrect == ServingSpec => []ShownIsTrue
<1>1. ServingShape /\ ServingInv => ShownIsTrue
  <2> SUFFICES ASSUME ServingShape, ServingInv, alone PROVE
         /\ shown = "running" => Serves /\ (pool.harbor /\ pool.bare => vllm = "pulled")
         /\ shown = "stopped" => up = {}
    BY DEF ShownIsTrue
  <2>1. Shown /\ MachinesOK
    BY DEF ServingInv, ServingShape
  <2>2. Serves /\ pool.bare => vllm = "pulled"
    BY <2>1 DEF Serves, MachinesOK
  <2> QED BY <2>1, <2>2 DEF Shown
<1> QED BY <1>1, ServingInitShape, ServingInitInv, ServingStep, ServingInvStep, PTL
        DEF ServingSpec
=============================================================================
