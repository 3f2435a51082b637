---------------------- MODULE PoolProvisioning_proofs ----------------------
(* Proofs about PoolProvisioning for every value of its constants.          *)
EXTENDS PoolProvisioning, FiniteSetTheorems, WellFoundedInduction, NaturalsInduction,
        TLAPS

(* What a session allocates, frees or finds used are entries.               *)
LEMMA EntrySets == \A p \in Pool : /\ Allocated(p) \subseteq IPs
                                   /\ UsedIps(p) \subseteq alloc[p]
                                   /\ Autoflushed(p) \subseteq alloc[p]
BY DEF Allocated, Unused, UsedIps, Autoflushed

(* Counting up to a limit stays within it.                                  *)
LEMMA Counters ==
    /\ 0 \in 0 .. MaxAttempts /\ 1 \in 0 .. MaxAttempts
    /\ \A k \in 0 .. MaxAttempts : k < MaxAttempts => k + 1 \in 0 .. MaxAttempts
    /\ 1 \in 1 .. MaxTries
    /\ \A k \in 1 .. MaxTries : k < MaxTries => k + 1 \in 1 .. MaxTries
    /\ 0 \in 0 .. MaxDeletes
    /\ \A k \in 0 .. MaxDeletes : k < MaxDeletes => k + 1 \in 0 .. MaxDeletes
BY NumbersAssumption

(* The variables keep their types: what the rows, the hypervisor, the local *)
(* variables of the activities and the loops can hold.                      *)
LEMMA TypeInit == Init => TypeOK
BY Counters, NullAssumption DEF Init, TypeOK, Pcs, Outcomes, WfPcs, DelPcs,
   Coroutine

(* An attempt of finalize_cloned_machine_activity that raised leaves the    *)
(* workflow at a known step with a number of attempts within the limit.     *)
LEMMA AgainTypes ==
    ASSUME TypeOK, NEW p \in Pool, FinalizeAgain(p, "register")
    PROVE  /\ wfPc' \in [Pool -> WfPcs]
           /\ wfTry' \in [Pool -> 1 .. MaxTries]
<1>1. wfTry[p] < MaxTries => wfTry[p] + 1 \in 1 .. MaxTries
  BY Counters DEF TypeOK
<1>2. wfTry' \in [Pool -> 1 .. MaxTries]
  BY <1>1 DEF TypeOK, FinalizeAgain
<1>3. /\ "finalize" \in WfPcs
      /\ "error" \in WfPcs
  BY DEF WfPcs
<1>4. wfPc' \in [Pool -> WfPcs]
  BY <1>3 DEF TypeOK, FinalizeAgain, WfStep
<1> QED BY <1>2, <1>4

(* A failed attempt leaves the types as they are, retried or given up.      *)
LEMMA RetryTypes ==
    ASSUME TypeOK, NEW p \in Pool, RetryActivity(p)
    PROVE  /\ pc' \in [Pool -> Pcs]
           /\ attempt' \in [Pool -> 0 .. MaxAttempts]
           /\ alloc' \in [Pool -> SUBSET IPs]
           /\ flushed' \in [Pool -> SUBSET IPs]
           /\ outcome' \in [Pool -> Outcomes]
           /\ core' = Nobody
<1>1. CASE AttemptsLeft(p)
  <2>1. attempt[p] + 1 \in 0 .. MaxAttempts
    BY <1>1, Counters DEF TypeOK, AttemptsLeft
  <2>2. /\ alloc' \in [Pool -> SUBSET IPs]
        /\ flushed' \in [Pool -> SUBSET IPs]
    BY <1>1 DEF TypeOK, RetryActivity
  <2>3. /\ pc' \in [Pool -> Pcs]
        /\ attempt' \in [Pool -> 0 .. MaxAttempts]
    BY <1>1, <2>1 DEF TypeOK, RetryActivity, Pcs
  <2> QED BY <1>1, <2>2, <2>3 DEF TypeOK, RetryActivity
<1>2. CASE ~AttemptsLeft(p)
  BY <1>2, SMTT(30) DEF TypeOK, RetryActivity, EndActivity, Pcs, Outcomes
<1> QED BY <1>1, <1>2

(* Every step of an activity, of the workflow or of a deletion keeps the    *)
(* types.                                                                   *)
LEMMA TypeNext == TypeOK /\ [Next]_vars => TypeOK'
<1> SUFFICES ASSUME TypeOK, [Next]_vars PROVE TypeOK'
  OBVIOUS
<1> USE DEF dbVars, actVars, wfVars, delVars, loopVars
<1>1. ASSUME NEW p \in Pool, Request(p) PROVE TypeOK'
  BY <1>1, Counters DEF TypeOK, Request, Pcs
<1>2. ASSUME NEW p \in Pool, RequestDelete(p) PROVE TypeOK'
  BY <1>2, Counters DEF TypeOK, RequestDelete, DelPcs
<1>3. ASSUME NEW p \in Pool, CreateAgain(p) PROVE TypeOK'
  BY <1>3 DEF TypeOK, CreateAgain, EndActivity, Pcs, Outcomes
<1>4. ASSUME NEW p \in Pool, CreateRow(p) PROVE TypeOK'
  <2>1. CASE core' = <<p, "create">> /\ UNCHANGED <<attempt, alloc, flushed, outcome>>
             /\ pc' = [pc EXCEPT ![p] = "alloc"]
    BY <1>4, <2>1 DEF TypeOK, CreateRow, Pcs, Coroutine
  <2>2. CASE EndActivity(p, "cluster_not_found")
    BY <1>4, <2>2 DEF TypeOK, CreateRow, EndActivity, Pcs, Outcomes
  <2> QED BY <1>4, <2>1, <2>2 DEF CreateRow
<1>5. ASSUME NEW p \in Pool, CreateAllocate(p) PROVE TypeOK'
  BY <1>5, EntrySets DEF TypeOK, CreateAllocate, Pcs
<1>6. ASSUME NEW p \in Pool, CreateFlush(p) PROVE TypeOK'
  <2>1. CASE pc' = [pc EXCEPT ![p] = "abort"]
             /\ UNCHANGED <<flushed, wfPc, wfTry, core>>
    BY <1>6, <2>1 DEF TypeOK, CreateFlush, Pcs
  <2>2. CASE /\ pc' = [pc EXCEPT ![p] = "cloning"]
             /\ flushed' = [flushed EXCEPT ![p] = Autoflushed(p)]
             /\ wfPc' = [wfPc EXCEPT ![p] = "clone"]
             /\ wfTry' = [wfTry EXCEPT ![p] = 1]
             /\ core' = Nobody
    <3>1. Autoflushed(p) \in SUBSET IPs
      BY EntrySets DEF TypeOK
    <3>2. /\ flushed' \in [Pool -> SUBSET IPs]
          /\ pc' \in [Pool -> Pcs]
          /\ wfPc' \in [Pool -> WfPcs]
          /\ wfTry' \in [Pool -> 1 .. MaxTries]
      BY <2>2, <3>1, Counters DEF TypeOK, Pcs, WfPcs
    <3> QED BY <1>6, <2>2, <3>2 DEF TypeOK, CreateFlush
  <2> QED BY <1>6, <2>1, <2>2 DEF CreateFlush
<1>7. ASSUME NEW p \in Pool, CreateAbort(p) PROVE TypeOK'
  BY <1>7 DEF TypeOK, CreateAbort, EndActivity, Pcs, Outcomes
<1>8. ASSUME NEW p \in Pool, CreateFail(p) PROVE TypeOK'
  BY <1>8, RetryTypes DEF TypeOK, CreateFail, WfPcs
<1>9. ASSUME NEW p \in Pool, CreateResume(p) PROVE TypeOK'
  BY <1>9 DEF TypeOK, CreateResume, Pcs, WfPcs, Coroutine
<1>10. ASSUME NEW p \in Pool, CreateFinish(p) PROVE TypeOK'
  <2>1. /\ ipStatus' \in [IPs -> {"unused", "used"}]
        /\ ipVm' \in [IPs -> VmIds \cup {NoVm}]
    BY <1>10 DEF TypeOK, CreateFinish
  <2>2. CASE EndActivity(p, "created")
    BY <1>10, <2>1, <2>2 DEF TypeOK, CreateFinish, EndActivity, Pcs, Outcomes
  <2>3. CASE RetryActivity(p)
    BY <1>10, <2>1, <2>3, RetryTypes DEF TypeOK, CreateFinish
  <2> QED BY <1>10, <2>2, <2>3 DEF CreateFinish
<1>11. ASSUME NEW p \in Pool, CloneList(p) PROVE TypeOK'
  <2>1. PICK chosen \in SUBSET VmIds : wfVms' = [wfVms EXCEPT ![p] = chosen]
    BY <1>11 DEF CloneList, FreeVmIds
  <2> QED BY <1>11, <2>1 DEF TypeOK, CloneList, WfStep, WfPcs
<1>12. ASSUME NEW p \in Pool, ClonePost(p) PROVE TypeOK'
  BY <1>12, Counters DEF TypeOK, ClonePost, WfStep, WfPcs, VmsCloned
<1>13. ASSUME NEW p \in Pool, ClonePostFail(p) PROVE TypeOK'
  BY <1>13 DEF TypeOK, ClonePostFail, WfStep, WfPcs, VmsCloned
<1>14. ASSUME NEW p \in Pool, ClonePostLost(p) PROVE TypeOK'
  <2>1. vm' \in [VmIds -> Pool \cup {NoPool}]
    BY <1>14 DEF TypeOK, ClonePostLost, VmsCloned
  <2>2. wfPc' \in [Pool -> WfPcs]
    BY <1>14 DEF TypeOK, ClonePostLost, WfStep, WfPcs
  <2>3. wfTry' \in [Pool -> 1 .. MaxTries]
    <3>1. wfTry[p] < MaxTries => wfTry[p] + 1 \in 1 .. MaxTries
      BY Counters DEF TypeOK
    <3> QED BY <1>14, <3>1 DEF TypeOK, ClonePostLost
  <2> QED BY <1>14, <2>1, <2>2, <2>3 DEF TypeOK, ClonePostLost
<1>15. ASSUME NEW p \in Pool, FinalizeBegin(p) PROVE TypeOK'
  BY <1>15 DEF TypeOK, FinalizeBegin, WfStep, WfPcs
<1>16. ASSUME NEW p \in Pool, FinalizeNoPool(p) PROVE TypeOK'
  BY <1>16, Counters DEF TypeOK, FinalizeNoPool, NextVm, WfStep, WfPcs
<1>17. ASSUME NEW p \in Pool, FinalizeRecord(p) PROVE TypeOK'
  BY <1>17 DEF TypeOK, FinalizeRecord, VmidListed, WfStep, WfPcs
<1>18. ASSUME NEW p \in Pool, Register(p) PROVE TypeOK'
  BY <1>18, Counters DEF TypeOK, Register, NextVm, WfStep, WfPcs
<1>19. ASSUME NEW p \in Pool, RegisterLost(p) PROVE TypeOK'
  <2>1. machines' \in [Pool -> SUBSET VmIds]
    BY <1>19 DEF TypeOK, RegisterLost
  <2>2. FinalizeAgain(p, "register")
    BY <1>19 DEF RegisterLost
  <2>3. /\ wfPc' \in [Pool -> WfPcs]
        /\ wfTry' \in [Pool -> 1 .. MaxTries]
    BY <2>2, AgainTypes
  <2> QED BY <1>19, <2>1, <2>2, <2>3 DEF TypeOK, RegisterLost, FinalizeAgain
<1>20. ASSUME NEW p \in Pool, RegisterFail(p) PROVE TypeOK'
  <2>1. FinalizeAgain(p, "register")
    BY <1>20 DEF RegisterFail
  <2>2. /\ wfPc' \in [Pool -> WfPcs]
        /\ wfTry' \in [Pool -> 1 .. MaxTries]
    BY <2>1, AgainTypes
  <2> QED BY <1>20, <2>1, <2>2 DEF TypeOK, RegisterFail, FinalizeAgain
<1>21. ASSUME NEW p \in Pool, RegisterCollision(p) PROVE TypeOK'
  BY <1>21 DEF TypeOK, RegisterCollision, WfStep, WfPcs
<1>22. ASSUME NEW p \in Pool, Cleanup(p) PROVE TypeOK'
  <2>1. PICK v \in VmIds : NextVm(p, v, TRUE)
    BY <1>22 DEF Cleanup
  <2>2. vm' \in [VmIds -> Pool \cup {NoPool}]
    BY <1>22 DEF TypeOK, Cleanup
  <2>3. vmids' \in [Pool -> SUBSET VmIds]
    BY <1>22 DEF TypeOK, Cleanup
  <2>4. /\ ipStatus' \in [IPs -> {"unused", "used"}]
        /\ ipVm' \in [IPs -> VmIds \cup {NoVm}]
    BY <1>22 DEF TypeOK, Cleanup
  <2>5. /\ wfTodo' \in [Pool -> SUBSET VmIds]
        /\ wfFailed' \in [Pool -> SUBSET VmIds]
        /\ wfTry' \in [Pool -> 1 .. MaxTries]
    BY <2>1, Counters DEF TypeOK, NextVm
  <2> QED BY <1>22, <2>2, <2>3, <2>4, <2>5 DEF TypeOK, Cleanup, WfStep, WfPcs
<1>23. ASSUME NEW p \in Pool, BootAssign(p) \/ BootFail(p) \/ BootDone(p) PROVE TypeOK'
  BY <1>23 DEF TypeOK, BootAssign, BootFail, BootDone, WfStep, WfPcs
<1>24. ASSUME NEW p \in Pool, DeleteBegin(p) PROVE TypeOK'
  BY <1>24 DEF TypeOK, DeleteBegin, DelStep, DelPcs, Coroutine
<1>25. ASSUME NEW p \in Pool, DeleteVm(p) PROVE TypeOK'
  BY <1>25 DEF TypeOK, DeleteVm
<1>26. ASSUME NEW p \in Pool, DeleteVmFail(p) PROVE TypeOK'
  BY <1>26 DEF TypeOK, DeleteVmFail
<1>27. ASSUME NEW p \in Pool, DeleteGiveUp(p) \/ DeleteVmsDone(p) \/ DeleteRow(p)
       PROVE TypeOK'
  <2>1. CASE DeleteGiveUp(p)
    BY <2>1 DEF TypeOK, DeleteGiveUp, DelStep, DelPcs
  <2>2. CASE DeleteVmsDone(p)
    BY <2>2 DEF TypeOK, DeleteVmsDone, DelStep, DelPcs, LoopKeptFor, Coroutine
  <2>3. CASE DeleteRow(p)
    BY <2>3 DEF TypeOK, DeleteRow, DelStep, DelPcs
  <2> QED BY <1>27, <2>1, <2>2, <2>3
<1>28. ASSUME NEW p \in Pool, DeleteMachine(p) PROVE TypeOK'
  BY <1>28 DEF TypeOK, DeleteMachine, LoopKeptFor, Coroutine
<1>29. CASE UNCHANGED vars
  BY <1>29 DEF TypeOK, vars
<1> QED
  BY <1>1, <1>2, <1>3, <1>4, <1>5, <1>6, <1>7, <1>8, <1>9, <1>10, <1>11, <1>12,
     <1>13, <1>14, <1>15, <1>16, <1>17, <1>18, <1>19, <1>20, <1>21, <1>22, <1>23,
     <1>24, <1>25, <1>26, <1>27, <1>28, <1>29
  DEF Next, Finished, Create, Clone, Delete

(* The variables of create_pool, CloneVMWorkflow and delete_pool keep their *)
(* types, for every number of pools, entries and vmids and every fault.     *)
THEOREM TypeCorrect == Spec => []TypeOK
BY TypeInit, TypeNext, PTL DEF Spec
-----------------------------------------------------------------------------
(* How the three activities of a pool exclude each other: a clone workflow  *)
(* runs only while its creation awaits it, a deletion past its first query  *)
(* holds an existing row, and until the clones are made a pool lists        *)
(* nothing, nor does a deletion of it that is under way.                    *)
Fresh(p) == pc[p] \in {"alloc", "flush"} \/ wfPc[p] \in {"clone", "post"}

Deleting(p) == delPc[p] \in {"vms", "machines"}

Lifecycle ==
    \A p \in Pool :
        /\ wfPc[p] # "idle" => pc[p] = "cloning"
        /\ Deleting(p) => row[p] = "live"
        /\ deletes[p] = 0 => delPc[p] = "idle"
        /\ Fresh(p) => /\ vmids[p] = {}
                       /\ machines[p] = {}
                       /\ Deleting(p) => delVms[p] = {}


(* At first nothing runs.                                                   *)
LEMMA LifecycleInit == Init => Lifecycle
BY DEF Init, Lifecycle, Fresh, Deleting

(* A creation, its workflow and a deletion keep excluding each other so.    *)
LEMMA LifecycleNext ==
    ASSUME TypeOK, Lifecycle, [Next]_vars
    PROVE  Lifecycle'
<1> USE DEF dbVars, actVars, wfVars, delVars, loopVars, TypeOK, Lifecycle,
            Fresh, Deleting
<1>1. ASSUME NEW p \in Pool, CreateRow(p) PROVE Lifecycle'
  BY <1>1 DEF CreateRow, EndActivity, PoolExists
<1>2. ASSUME NEW p \in Pool, CreateFlush(p) PROVE Lifecycle'
  BY <1>2 DEF CreateFlush
<1>3. ASSUME NEW p \in Pool, CreateFail(p) PROVE Lifecycle'
  BY <1>3 DEF CreateFail, RetryActivity, EndActivity
<1>4. ASSUME NEW p \in Pool, CreateResume(p) PROVE Lifecycle'
  BY <1>4 DEF CreateResume
<1>5. ASSUME NEW p \in Pool, CreateFinish(p) PROVE Lifecycle'
  BY <1>5 DEF CreateFinish, RetryActivity, EndActivity
<1>6. ASSUME NEW p \in Pool,
            Request(p) \/ CreateAgain(p) \/ CreateAllocate(p) \/
            CreateAbort(p)
       PROVE Lifecycle'
  BY <1>6 DEF Request, CreateAgain, EndActivity, CreateAllocate, CreateAbort
<1>7. ASSUME NEW p \in Pool, CloneList(p) PROVE Lifecycle'
  BY <1>7 DEF CloneList, WfStep
<1>8. ASSUME NEW p \in Pool, ClonePost(p) PROVE Lifecycle'
  BY <1>8 DEF ClonePost, WfStep
<1>9. ASSUME NEW p \in Pool, ClonePostFail(p) PROVE Lifecycle'
  BY <1>9 DEF ClonePostFail, WfStep
<1>10. ASSUME NEW p \in Pool, ClonePostLost(p) PROVE Lifecycle'
  BY <1>10 DEF ClonePostLost, WfStep
<1>11. ASSUME NEW p \in Pool, FinalizeNoPool(p) PROVE Lifecycle'
  BY <1>11 DEF FinalizeNoPool, WfStep
<1>12. ASSUME NEW p \in Pool, FinalizeRecord(p) PROVE Lifecycle'
  BY <1>12 DEF FinalizeRecord, WfStep, VmidListed
<1>13. ASSUME NEW p \in Pool, Register(p) PROVE Lifecycle'
  BY <1>13 DEF Register, WfStep
<1>14. ASSUME NEW p \in Pool, RegisterLost(p) PROVE Lifecycle'
  BY <1>14 DEF RegisterLost, FinalizeAgain, WfStep
<1>15. ASSUME NEW p \in Pool, RegisterFail(p) PROVE Lifecycle'
  BY <1>15 DEF RegisterFail, FinalizeAgain, WfStep
<1>16. ASSUME NEW p \in Pool, Cleanup(p) PROVE Lifecycle'
  BY <1>16 DEF Cleanup, WfStep
<1>17. ASSUME NEW p \in Pool,
            FinalizeBegin(p) \/ RegisterCollision(p) \/ BootAssign(p) \/
            BootFail(p) \/ BootDone(p)
       PROVE Lifecycle'
  BY <1>17 DEF FinalizeBegin, WfStep, RegisterCollision, BootAssign,
  BootFail, BootDone
<1>18. ASSUME NEW p \in Pool, RequestDelete(p) PROVE Lifecycle'
  BY <1>18 DEF RequestDelete
<1>19. ASSUME NEW p \in Pool, DeleteBegin(p) PROVE Lifecycle'
  BY <1>19 DEF DeleteBegin, DelStep
<1>20. ASSUME NEW p \in Pool, DeleteMachine(p) PROVE Lifecycle'
  BY <1>20 DEF DeleteMachine
<1>21. ASSUME NEW p \in Pool, DeleteRow(p) PROVE Lifecycle'
  BY <1>21 DEF DeleteRow, DelStep
<1>22. ASSUME NEW p \in Pool,
            DeleteVm(p) \/ DeleteVmFail(p) \/ DeleteGiveUp(p) \/
            DeleteVmsDone(p)
       PROVE Lifecycle'
  BY <1>22 DEF DeleteVm, DeleteVmFail, DeleteGiveUp, DelStep, DeleteVmsDone
<1>23. CASE UNCHANGED vars
  BY <1>23 DEF vars
<1> QED
  BY <1>1, <1>2, <1>3, <1>4, <1>5, <1>6, <1>7, <1>8, <1>9, <1>10, <1>11,
  <1>12, <1>13, <1>14, <1>15, <1>16, <1>17, <1>18, <1>19, <1>20, <1>21,
  <1>22, <1>23
  DEF Next, Finished, Create, Clone, Delete

-----------------------------------------------------------------------------
(* MachineReachable made inductive: a VM still to be finalized has no       *)
(* machines row, and one about to be registered is listed.                  *)
Finalizing(p) == wfPc[p] \in {"finalize", "record", "register", "cleanup"}

Reach ==
    \A p \in Pool :
        /\ row[p] = "live" => machines[p] \subseteq vmids[p]
        /\ Finalizing(p) => wfTodo[p] \cap machines[p] = {}
        /\ wfPc[p] = "register" /\ row[p] = "live" =>
              \A v \in VmIds : First(wfTodo[p], v) => v \in vmids[p]

(* The first of a set of vmids is one.                                      *)
LEMMA FirstUnique ==
    \A S \in SUBSET VmIds : \A v, w \in VmIds : First(S, v) /\ First(S, w) => v = w
BY NumbersAssumption DEF First

(* At first there are no machines.                                          *)
LEMMA ReachInit == Init => Reach
BY DEF Init, Reach, Finalizing

(* No step registers a machine that is not listed, or unlists one that is.  *)
LEMMA ReachNext ==
    ASSUME TypeOK, Lifecycle, Reach, "finalize_lost" \notin Faults,
           [Next]_vars
    PROVE  Reach'
<1> USE DEF dbVars, actVars, wfVars, delVars, loopVars, TypeOK, Reach,
            Finalizing
<1>1. ASSUME NEW p \in Pool, CreateRow(p) PROVE Reach'
  BY <1>1 DEF CreateRow, EndActivity, PoolExists, Lifecycle
<1>2. ASSUME NEW p \in Pool, CreateFlush(p) PROVE Reach'
  BY <1>2 DEF CreateFlush
<1>3. ASSUME NEW p \in Pool, CreateFail(p) PROVE Reach'
  BY <1>3 DEF CreateFail, RetryActivity, EndActivity
<1>4. ASSUME NEW p \in Pool, CreateResume(p) PROVE Reach'
  BY <1>4 DEF CreateResume
<1>5. ASSUME NEW p \in Pool,
            Request(p) \/ CreateAgain(p) \/ CreateAllocate(p) \/
            CreateAbort(p) \/ CreateFinish(p)
       PROVE Reach'
  BY <1>5 DEF Request, CreateAgain, EndActivity, CreateAllocate,
  CreateAbort, CreateFinish, RetryActivity
<1>6. ASSUME NEW p \in Pool, ClonePost(p) PROVE Reach'
  BY <1>6 DEF ClonePost, WfStep, Lifecycle, Fresh
<1>7. ASSUME NEW p \in Pool, ClonePostLost(p) PROVE Reach'
  BY <1>7 DEF ClonePostLost, WfStep
<1>8. ASSUME NEW p \in Pool, FinalizeBegin(p) PROVE Reach'
  BY <1>8 DEF FinalizeBegin, WfStep
<1>9. ASSUME NEW p \in Pool, FinalizeNoPool(p) PROVE Reach'
  BY <1>9 DEF FinalizeNoPool, WfStep, NextVm
<1>10. ASSUME NEW p \in Pool, FinalizeRecord(p) PROVE Reach'
  BY <1>10, FirstUnique DEF FinalizeRecord, WfStep, VmidListed
<1>11. ASSUME NEW p \in Pool, Register(p) PROVE Reach'
  BY <1>11 DEF Register, WfStep, NextVm, First
<1>12. ASSUME NEW p \in Pool, RegisterLost(p) PROVE Reach'
  BY <1>12 DEF RegisterLost, FinalizeAgain, WfStep
<1>13. ASSUME NEW p \in Pool, RegisterFail(p) PROVE Reach'
  BY <1>13 DEF RegisterFail, FinalizeAgain, WfStep
<1>14. ASSUME NEW p \in Pool, RegisterCollision(p) PROVE Reach'
  BY <1>14 DEF RegisterCollision, WfStep
<1>15. ASSUME NEW p \in Pool, Cleanup(p) PROVE Reach'
  BY <1>15 DEF Cleanup, WfStep, NextVm, First
<1>16. ASSUME NEW p \in Pool,
            CloneList(p) \/ ClonePostFail(p) \/ BootAssign(p) \/ BootFail(p)
            \/ BootDone(p)
       PROVE Reach'
  BY <1>16 DEF CloneList, WfStep, ClonePostFail, BootAssign, BootFail,
  BootDone
<1>17. ASSUME NEW p \in Pool, DeleteMachine(p) PROVE Reach'
  BY <1>17, SMTT(30) DEF DeleteMachine
<1>18. ASSUME NEW p \in Pool, DeleteRow(p) PROVE Reach'
  BY <1>18 DEF DeleteRow, DelStep
<1>19. ASSUME NEW p \in Pool,
            RequestDelete(p) \/ DeleteBegin(p) \/ DeleteVm(p) \/
            DeleteVmFail(p) \/ DeleteGiveUp(p) \/ DeleteVmsDone(p)
       PROVE Reach'
  BY <1>19 DEF RequestDelete, DeleteBegin, DelStep, DeleteVm, DeleteVmFail,
  DeleteGiveUp, DeleteVmsDone
<1>20. CASE UNCHANGED vars
  BY <1>20 DEF vars
<1> QED
  BY <1>1, <1>2, <1>3, <1>4, <1>5, <1>6, <1>7, <1>8, <1>9, <1>10, <1>11,
  <1>12, <1>13, <1>14, <1>15, <1>16, <1>17, <1>18, <1>19, <1>20
  DEF Next, Finished, Create, Clone, Delete

-----------------------------------------------------------------------------
(* What a deletion has removed stays removed, although vmids are reused:    *)
(* the pool itself clones nothing while a deletion of it has VMs to remove. *)
Gone ==
    \A p \in Pool : Deleting(p) =>
        /\ delGone[p] \subseteq delVms[p]
        /\ \A v \in delGone[p] : vm[v] # p
        /\ delPc[p] = "machines" => delVms[p] \subseteq delGone[p]

(* At first nothing is being deleted.                                       *)
LEMMA GoneInit == Init => Gone
BY DEF Init, Gone, Deleting

(* No step brings back a VM for the pool whose deletion removed it.         *)
LEMMA GoneNext ==
    ASSUME TypeOK, Lifecycle, Gone, [Next]_vars
    PROVE  Gone'
<1> USE DEF dbVars, actVars, wfVars, delVars, loopVars, TypeOK, Gone,
            Deleting
<1>1. ASSUME NEW p \in Pool,
            Request(p) \/ CreateAgain(p) \/ CreateRow(p) \/ CreateAllocate(p)
            \/ CreateFlush(p) \/ CreateAbort(p) \/ CreateFail(p) \/
            CreateResume(p) \/ CreateFinish(p)
       PROVE Gone'
  BY <1>1 DEF Request, CreateAgain, EndActivity, CreateRow, PoolExists,
  CreateAllocate, CreateFlush, CreateAbort, CreateFail, RetryActivity,
  CreateResume, CreateFinish
<1>2. ASSUME NEW p \in Pool, ClonePost(p) PROVE Gone'
  BY <1>2 DEF ClonePost, WfStep, Lifecycle, Fresh, Deleting, VmsCloned
<1>3. ASSUME NEW p \in Pool, ClonePostFail(p) PROVE Gone'
  BY <1>3 DEF ClonePostFail, WfStep, Lifecycle, Fresh, VmsCloned
<1>4. ASSUME NEW p \in Pool, ClonePostLost(p) PROVE Gone'
  BY <1>4 DEF ClonePostLost, WfStep, Lifecycle, Fresh, VmsCloned
<1>5. ASSUME NEW p \in Pool, Cleanup(p) PROVE Gone'
  BY <1>5, NullAssumption DEF Cleanup, WfStep
<1>6. ASSUME NEW p \in Pool,
            CloneList(p) \/ FinalizeBegin(p) \/ FinalizeNoPool(p) \/
            FinalizeRecord(p) \/ Register(p) \/ RegisterLost(p) \/
            RegisterFail(p) \/ RegisterCollision(p) \/ BootAssign(p) \/
            BootFail(p) \/ BootDone(p)
       PROVE Gone'
  BY <1>6 DEF CloneList, WfStep, FinalizeBegin, FinalizeNoPool,
  FinalizeRecord, VmidListed, Register, RegisterLost, FinalizeAgain,
  RegisterFail, RegisterCollision, BootAssign, BootFail, BootDone
<1>7. ASSUME NEW p \in Pool, DeleteBegin(p) PROVE Gone'
  BY <1>7 DEF DeleteBegin, DelStep
<1>8. ASSUME NEW p \in Pool, DeleteVm(p) PROVE Gone'
  BY <1>8, NullAssumption DEF DeleteVm, First, DelTodo
<1>9. ASSUME NEW p \in Pool, DeleteVmFail(p) PROVE Gone'
  BY <1>9 DEF DeleteVmFail
<1>10. ASSUME NEW p \in Pool, DeleteVmsDone(p) PROVE Gone'
  BY <1>10 DEF DeleteVmsDone, DelStep, AllVmsGone, DelTodo
<1>11. ASSUME NEW p \in Pool, DeleteRow(p) PROVE Gone'
  BY <1>11 DEF DeleteRow, DelStep
<1>12. ASSUME NEW p \in Pool,
            RequestDelete(p) \/ DeleteGiveUp(p) \/ DeleteMachine(p)
       PROVE Gone'
  BY <1>12 DEF RequestDelete, DeleteGiveUp, DelStep, DeleteMachine
<1>13. CASE UNCHANGED vars
  BY <1>13 DEF vars
<1> QED
  BY <1>1, <1>2, <1>3, <1>4, <1>5, <1>6, <1>7, <1>8, <1>9, <1>10, <1>11,
  <1>12, <1>13
  DEF Next, Finished, Create, Clone, Delete

-----------------------------------------------------------------------------
(* Until a deletion reads them the vmids a pool lists are VMs of its own,   *)
(* and so are those the deletion has still to remove.                       *)
DeletedOnce == \A q \in Pool : deletes[q] <= 1

NotRead(p) == deletes[p] = 0 \/ delPc[p] = "begin"

Owned ==
    /\ \A p \in Pool : wfPc[p] # "cleanup"
    /\ DeletedOnce =>
        \A p \in Pool :
            /\ NotRead(p) => \A v \in vmids[p] : vm[v] = p
            /\ NotRead(p) /\ Finalizing(p) => \A v \in wfTodo[p] : vm[v] = p
            /\ delPc[p] = "vms" => \A v \in DelTodo(p) : vm[v] = p

(* The hypervisor never gives a taken vmid to another pool.                 *)
LEMMA ClonesKeepOwners ==
    ASSUME TypeOK, NEW p \in Pool, NEW cloned, VmsCloned(p, cloned)
    PROVE  \A q \in Pool, v \in VmIds : vm[v] = q => vm'[v] = q
BY NullAssumption DEF VmsCloned, FreeVmIds, TypeOK

(* At first nothing is listed.                                              *)
LEMMA OwnedInit == Init => Owned
BY DEF Init, Owned, Finalizing

(* No step lists, or leaves to a deletion, a VM that is not the pool's own. *)
LEMMA OwnedNext ==
    ASSUME TypeOK, Lifecycle, Reach, Owned, {"name_collision",
           "finalize_lost"} \cap Faults = {}, [Next]_vars
    PROVE  Owned'
<1> USE DEF dbVars, actVars, wfVars, delVars, loopVars, TypeOK, Owned,
            Finalizing, NotRead, DeletedOnce, DelTodo
<1>1. ASSUME NEW p \in Pool, CreateRow(p) PROVE Owned'
  BY <1>1 DEF CreateRow, EndActivity, PoolExists, Lifecycle
<1>2. ASSUME NEW p \in Pool, CreateFlush(p) PROVE Owned'
  BY <1>2 DEF CreateFlush
<1>3. ASSUME NEW p \in Pool, CreateFail(p) PROVE Owned'
  BY <1>3 DEF CreateFail, RetryActivity, EndActivity
<1>4. ASSUME NEW p \in Pool, CreateResume(p) PROVE Owned'
  BY <1>4 DEF CreateResume
<1>5. ASSUME NEW p \in Pool,
            Request(p) \/ CreateAgain(p) \/ CreateAllocate(p) \/
            CreateAbort(p) \/ CreateFinish(p)
       PROVE Owned'
  BY <1>5 DEF Request, CreateAgain, EndActivity, CreateAllocate,
  CreateAbort, CreateFinish, RetryActivity
<1>6. ASSUME NEW p \in Pool, ClonePost(p) PROVE Owned'
  <2>1. \A v \in wfVms[p] : vm'[v] = p
    BY <1>6 DEF ClonePost, Accepted, VmsCloned
  <2>2. \A q \in Pool, v \in VmIds : vm[v] = q => vm'[v] = q
    BY <1>6, ClonesKeepOwners DEF ClonePost
  <2>3. wfPc[p] = "post" /\ wfPc' = [wfPc EXCEPT ![p] = "finalize"]
        /\ wfTodo' = [wfTodo EXCEPT ![p] = wfVms[p]]
    BY <1>6 DEF ClonePost, WfStep
  <2> QED BY <1>6, <2>1, <2>2, <2>3 DEF ClonePost
<1>7. ASSUME NEW p \in Pool, ClonePostFail(p) PROVE Owned'
  BY <1>7, ClonesKeepOwners DEF ClonePostFail, WfStep
<1>8. ASSUME NEW p \in Pool, ClonePostLost(p) PROVE Owned'
  BY <1>8, ClonesKeepOwners DEF ClonePostLost, WfStep
<1>9. ASSUME NEW p \in Pool, FinalizeBegin(p) PROVE Owned'
  BY <1>9 DEF FinalizeBegin, WfStep
<1>10. ASSUME NEW p \in Pool, FinalizeNoPool(p) PROVE Owned'
  BY <1>10 DEF FinalizeNoPool, WfStep, NextVm
<1>11. ASSUME NEW p \in Pool, FinalizeRecord(p) PROVE Owned'
  BY <1>11 DEF FinalizeRecord, WfStep, VmidListed, First
<1>12. ASSUME NEW p \in Pool, Register(p) PROVE Owned'
  BY <1>12 DEF Register, WfStep, NextVm
<1>13. ASSUME NEW p \in Pool, RegisterLost(p) PROVE Owned'
  BY <1>13 DEF RegisterLost, FinalizeAgain, WfStep
<1>14. ASSUME NEW p \in Pool, RegisterFail(p) PROVE Owned'
  BY <1>14 DEF RegisterFail, FinalizeAgain, WfStep
<1>15. ASSUME NEW p \in Pool, RegisterCollision(p) PROVE Owned'
  BY <1>15 DEF RegisterCollision, WfStep, NameTaken, Reach, First
<1>16. ASSUME NEW p \in Pool, Cleanup(p) PROVE Owned'
  BY <1>16 DEF Cleanup, WfStep
<1>17. ASSUME NEW p \in Pool,
            CloneList(p) \/ BootAssign(p) \/ BootFail(p) \/ BootDone(p)
       PROVE Owned'
  BY <1>17 DEF CloneList, WfStep, BootAssign, BootFail, BootDone
<1>18. ASSUME NEW p \in Pool, RequestDelete(p) PROVE Owned'
  <2>1. DeletedOnce' => DeletedOnce /\ deletes[p] = 0
    BY <1>18 DEF RequestDelete
  <2> QED BY <1>18, <2>1 DEF RequestDelete
<1>19. ASSUME NEW p \in Pool, DeleteBegin(p) PROVE Owned'
  BY <1>19 DEF DeleteBegin, DelStep
<1>20. ASSUME NEW p \in Pool, DeleteVm(p) PROVE Owned'
  <2>1. PICK v \in VmIds : /\ v \in DelTodo(p)
                           /\ vm' = [vm EXCEPT ![v] = NoPool]
                           /\ delGone' = [delGone EXCEPT ![p] = @ \cup {v}]
    BY <1>20 DEF DeleteVm, First
  <2>2. ~NotRead(p) /\ (DeletedOnce => vm[v] = p)
    BY <1>20, <2>1 DEF DeleteVm, Lifecycle
  <2>3. DeletedOnce => \A q \in Pool \ {p}, w \in VmIds : vm[w] = q => vm'[w] = q
    BY <2>1, <2>2
  <2>4. DeletedOnce => \A w \in DelTodo(p)' : vm'[w] = p
    BY <1>20, <2>1, <2>2 DEF DeleteVm
  <2> QED BY <1>20, <2>2, <2>3, <2>4 DEF DeleteVm
<1>21. ASSUME NEW p \in Pool, DeleteVmFail(p) PROVE Owned'
  BY <1>21 DEF DeleteVmFail, DelTodo
<1>22. ASSUME NEW p \in Pool, DeleteGiveUp(p) PROVE Owned'
  BY <1>22 DEF DeleteGiveUp, DelStep
<1>23. ASSUME NEW p \in Pool, DeleteVmsDone(p) PROVE Owned'
  BY <1>23 DEF DeleteVmsDone, DelStep
<1>24. ASSUME NEW p \in Pool, DeleteRow(p) PROVE Owned'
  BY <1>24 DEF DeleteRow, DelStep
<1>25. ASSUME NEW p \in Pool,
            DeleteMachine(p)
       PROVE Owned'
  BY <1>25 DEF DeleteMachine
<1>26. CASE UNCHANGED vars
  BY <1>26 DEF vars
<1> QED
  BY <1>1, <1>2, <1>3, <1>4, <1>5, <1>6, <1>7, <1>8, <1>9, <1>10, <1>11,
  <1>12, <1>13, <1>14, <1>15, <1>16, <1>17, <1>18, <1>19, <1>20, <1>21,
  <1>22, <1>23, <1>24, <1>25, <1>26
  DEF Next, Finished, Create, Clone, Delete

-----------------------------------------------------------------------------
(* The last step of a deletion is the only one that drops a pool row.     *)
LEMMA OnlyDeleteRowDrops ==
    ASSUME TypeOK, [Next]_vars, NEW p \in Pool,
           row[p] = "live", row'[p] = "dropped"
    PROVE  DeleteRow(p)
<1> USE DEF dbVars, actVars, wfVars, delVars, loopVars
<1>1. ASSUME NEW q \in Pool,
            Request(q) \/ CreateAgain(q) \/ CreateAllocate(q) \/
            CreateFlush(q) \/ CreateAbort(q) \/ CreateFail(q) \/
            CreateResume(q) \/ CreateFinish(q)
       PROVE DeleteRow(p)
  BY <1>1 DEF Request, CreateAgain, CreateAllocate, CreateFlush,
     CreateAbort, CreateFail, CreateResume, CreateFinish, TypeOK
<1>2. ASSUME NEW q \in Pool,
            CloneList(q) \/ ClonePost(q) \/ ClonePostFail(q) \/
            ClonePostLost(q) \/ FinalizeBegin(q) \/ FinalizeNoPool(q) \/
            FinalizeRecord(q) \/ Register(q) \/ RegisterLost(q) \/
            RegisterFail(q) \/ RegisterCollision(q) \/ Cleanup(q) \/
            BootAssign(q) \/ BootFail(q) \/ BootDone(q)
       PROVE DeleteRow(p)
  BY <1>2 DEF CloneList, ClonePost, ClonePostFail, ClonePostLost,
     FinalizeBegin, FinalizeNoPool, FinalizeRecord, Register, RegisterLost,
     RegisterFail, RegisterCollision, Cleanup, BootAssign, BootFail,
     BootDone, TypeOK
<1>3. ASSUME NEW q \in Pool,
            RequestDelete(q) \/ DeleteBegin(q) \/ DeleteVm(q) \/
            DeleteVmFail(q) \/ DeleteGiveUp(q) \/ DeleteVmsDone(q) \/
            DeleteMachine(q)
       PROVE DeleteRow(p)
  BY <1>3 DEF RequestDelete, DeleteBegin, DeleteVm, DeleteVmFail,
     DeleteGiveUp, DeleteVmsDone, DeleteMachine, TypeOK
<1>4. ASSUME NEW q \in Pool, CreateRow(q) PROVE DeleteRow(p)
  BY <1>4 DEF CreateRow, TypeOK
<1>5. ASSUME NEW q \in Pool, DeleteRow(q) PROVE DeleteRow(p)
  BY <1>5 DEF DeleteRow, TypeOK
<1>6. CASE UNCHANGED vars
  BY <1>6 DEF vars
<1> QED
  BY <1>1, <1>2, <1>3, <1>4, <1>5, <1>6
  DEF Next, Finished, Create, Clone, Delete

(* A VM counts as removed by a deletion only after the step that removes it.*)
LEMMA OnlyDeleteVmRemoves ==
    ASSUME TypeOK, [Next]_vars, NEW p \in Pool, NEW v \in VmIds,
           v \in delGone'[p] \ delGone[p]
    PROVE  DeleteVm(p)
<1> USE DEF dbVars, actVars, wfVars, delVars, loopVars
<1>1. ASSUME NEW q \in Pool,
            Request(q) \/ CreateAgain(q) \/ CreateRow(q) \/ CreateAllocate(q)
            \/ CreateFlush(q) \/ CreateAbort(q) \/ CreateFail(q) \/
            CreateResume(q) \/ CreateFinish(q)
       PROVE DeleteVm(p)
  BY <1>1 DEF Request, CreateAgain, CreateRow, CreateAllocate, CreateFlush,
     CreateAbort, CreateFail, CreateResume, CreateFinish, TypeOK
<1>2. ASSUME NEW q \in Pool,
            CloneList(q) \/ ClonePost(q) \/ ClonePostFail(q) \/
            ClonePostLost(q) \/ FinalizeBegin(q) \/ FinalizeNoPool(q) \/
            FinalizeRecord(q) \/ Register(q) \/ RegisterLost(q) \/
            RegisterFail(q) \/ RegisterCollision(q) \/ Cleanup(q) \/
            BootAssign(q) \/ BootFail(q) \/ BootDone(q)
       PROVE DeleteVm(p)
  BY <1>2 DEF CloneList, ClonePost, ClonePostFail, ClonePostLost,
     FinalizeBegin, FinalizeNoPool, FinalizeRecord, Register, RegisterLost,
     RegisterFail, RegisterCollision, Cleanup, BootAssign, BootFail,
     BootDone, TypeOK
<1>3. ASSUME NEW q \in Pool,
            RequestDelete(q) \/ DeleteVmFail(q) \/ DeleteGiveUp(q) \/
            DeleteVmsDone(q) \/ DeleteMachine(q) \/ DeleteRow(q)
       PROVE DeleteVm(p)
  BY <1>3 DEF RequestDelete, DeleteVmFail, DeleteGiveUp, DeleteVmsDone,
     DeleteMachine, DeleteRow, TypeOK
<1>4. ASSUME NEW q \in Pool, DeleteBegin(q) PROVE DeleteVm(p)
  BY <1>4 DEF DeleteBegin, TypeOK
<1>5. ASSUME NEW q \in Pool, DeleteVm(q) PROVE DeleteVm(p)
  BY <1>5, ZenonT(60) DEF DeleteVm, TypeOK
<1>6. CASE UNCHANGED vars
  BY <1>6 DEF vars
<1> QED
  BY <1>1, <1>2, <1>3, <1>4, <1>5, <1>6
  DEF Next, Finished, Create, Clone, Delete

(* So the types and Lifecycle hold throughout.                              *)
LEMMA LifecycleCorrect == Spec => [](TypeOK /\ Lifecycle)
<1>1. Init => TypeOK /\ Lifecycle
  BY TypeInit, LifecycleInit
<1>2. TypeOK /\ Lifecycle /\ [Next]_vars => (TypeOK /\ Lifecycle)'
  BY TypeNext, LifecycleNext
<1> QED BY <1>1, <1>2, PTL DEF Spec

(* Unless the completion of finalize_cloned_machine_activity is lost, every *)
(* machines row of a pool names a VM in its pool_vmids, whatever else fails *)
(* and however creations and deletions interleave.                          *)
THEOREM MachinesAreReachable ==
    ASSUME "finalize_lost" \notin Faults
    PROVE  Spec => []MachineReachable
<1>1. TypeOK /\ Lifecycle /\ Reach /\ [Next]_vars => Reach'
  BY ReachNext
<1>2. Reach => MachineReachable
  BY DEF Reach, MachineReachable
<1> QED BY <1>1, <1>2, ReachInit, LifecycleCorrect, PTL DEF Spec

(* delete_pool_activity never drops a pool row while a VM it read from      *)
(* pool_vmids is on the hypervisor as that pool's, under every fault and    *)
(* every number of deletion requests.                                       *)
THEOREM DropsAreClean == Spec => DropLeavesNoListedVm
<1>1. TypeOK /\ Lifecycle /\ Gone /\ [Next]_vars => Gone'
  BY GoneNext
<1>2. ASSUME TypeOK, Gone, [Next]_vars, NEW p \in Pool,
             row[p] = "live", row'[p] = "dropped", NEW v \in delVms[p]
      PROVE  vm[v] # p
  <2>1. delPc[p] = "machines"
    BY <1>2, OnlyDeleteRowDrops DEF DeleteRow, DelStep
  <2> QED BY <1>2, <2>1 DEF Gone, Deleting
<1>3. TypeOK /\ Gone /\ [Next]_vars =>
          [\A p \in Pool : row[p] = "live" /\ row'[p] = "dropped" =>
              \A v \in delVms[p] : vm[v] # p]_vars
  BY <1>2
<1> QED
  BY <1>1, <1>3, GoneInit, LifecycleCorrect, PTL DEF Spec, DropLeavesNoListedVm

(* Where no Guacamole name collides, and as long as no pool's deletion was  *)
(* asked for twice, delete_pool_activity removes VMs of its own pool only:  *)
(* reusing vmids cannot make one pool's deletion hit another's VM.          *)
THEOREM DeletionsSpareOthers ==
    ASSUME {"name_collision", "finalize_lost"} \cap Faults = {}
    PROVE  Spec => DeletionSparesOthers
<1>1. TypeOK /\ Lifecycle /\ Reach /\ [Next]_vars => Reach'
  BY ReachNext
<1>2. TypeOK /\ Lifecycle /\ Reach /\ Owned /\ [Next]_vars => Owned'
  BY OwnedNext
<1>3. ASSUME TypeOK, Owned, [Next]_vars, NEW p \in Pool, NEW v \in VmIds,
             DeletedOnce, v \in delGone'[p] \ delGone[p]
      PROVE  vm[v] = p
  <2>1. PICK w \in VmIds : /\ w \in DelTodo(p)
                           /\ delGone' = [delGone EXCEPT ![p] = @ \cup {w}]
    BY <1>3, OnlyDeleteVmRemoves DEF DeleteVm, First
  <2>2. v = w
    BY <1>3, <2>1 DEF TypeOK
  <2>3. delPc[p] = "vms"
    BY <1>3, OnlyDeleteVmRemoves DEF DeleteVm
  <2> QED BY <1>3, <2>1, <2>2, <2>3 DEF Owned
<1>4. TypeOK /\ Owned /\ [Next]_vars =>
          [\A p \in Pool, v \in VmIds :
              /\ \A q \in Pool : deletes[q] <= 1
              /\ v \in delGone'[p] \ delGone[p]
              => vm[v] = p]_vars
  BY <1>3 DEF DeletedOnce
<1> QED
  BY <1>1, <1>2, <1>4, ReachInit, OwnedInit, LifecycleCorrect, PTL
  DEF Spec, DeletionSparesOthers

-----------------------------------------------------------------------------
(* What a request costs.  Its row is made once and dropped by deletions      *)
(* only, so it gets by the check for the row once, and clones once.         *)
VmsOf(p) == {v \in VmIds : vm[v] = p}

Unborn(p) == row[p] = "none" \/ Fresh(p)

Cost ==
    \A p \in Pool :
        /\ row[p] = "dropped" => deletes[p] # 0
        /\ pc[p] \in {"alloc", "flush", "cloning"} => row[p] # "none"
        /\ deletes[p] = 0 /\ Unborn(p) => VmsOf(p) = {}
        /\ wfPc[p] = "post" => Cardinality(wfVms[p]) <= Count[p]
        /\ deletes[p] = 0 => Cardinality(VmsOf(p)) <= Count[p]

(* Fewer VMs are not more.                                                  *)
LEMMA FewerVms ==
    ASSUME NEW S, NEW T, S \subseteq VmIds, T \subseteq S
    PROVE  /\ Cardinality(T) \in Nat /\ Cardinality(S) \in Nat
           /\ Cardinality(T) <= Cardinality(S)
<1>1. IsFiniteSet(VmIds)
  BY NumbersAssumption
<1>2. IsFiniteSet(S)
  BY <1>1, FS_Subset
<1>3. IsFiniteSet(T) /\ Cardinality(T) <= Cardinality(S)
  BY <1>2, FS_Subset
<1> QED BY <1>2, <1>3, FS_CardinalityType

(* At first nothing is cloned.                                              *)
LEMMA CostInit == Init => Cost
<1> SUFFICES ASSUME Init PROVE Cost
  OBVIOUS
<1>1. \A p \in Pool : VmsOf(p) = {}
  BY NullAssumption DEF Init, VmsOf
<1>2. Cardinality({}) = 0 /\ \A p \in Pool : 0 <= Count[p]
  BY FS_EmptySet, NumbersAssumption
<1> QED BY <1>1, <1>2 DEF Cost, Init

(* A step that clones nothing costs nothing.                                *)
LEMMA CostStays ==
    ASSUME TypeOK, Cost,
           \A p \in Pool : VmsOf(p)' \subseteq VmsOf(p),
           \A p \in Pool : deletes'[p] = 0 => deletes[p] = 0,
           \A p \in Pool : row'[p] = "dropped" => row[p] = "dropped" \/ deletes'[p] # 0,
           \A p \in Pool : row'[p] = "none" => row[p] = "none",
           \A p \in Pool : pc'[p] \in {"alloc", "flush", "cloning"} =>
                              pc[p] \in {"alloc", "flush", "cloning"} \/ row'[p] # "none",
           \A p \in Pool : deletes[p] = 0 /\ Unborn(p)' => Unborn(p),
           \A p \in Pool : wfPc'[p] = "post" => wfPc[p] = "post" /\ wfVms'[p] = wfVms[p]
    PROVE  Cost'
<1> SUFFICES ASSUME NEW p \in Pool PROVE
        /\ row'[p] = "dropped" => deletes'[p] # 0
        /\ pc'[p] \in {"alloc", "flush", "cloning"} => row'[p] # "none"
        /\ deletes'[p] = 0 /\ Unborn(p)' => VmsOf(p)' = {}
        /\ wfPc'[p] = "post" => Cardinality(wfVms'[p]) <= Count[p]
        /\ deletes'[p] = 0 => Cardinality(VmsOf(p)') <= Count[p]
  BY DEF Cost
<1>1. VmsOf(p) \subseteq VmIds /\ Count[p] \in Nat
  BY NumbersAssumption DEF VmsOf
<1>2. /\ Cardinality(VmsOf(p)') \in Nat /\ Cardinality(VmsOf(p)) \in Nat
      /\ Cardinality(VmsOf(p)') <= Cardinality(VmsOf(p))
  BY <1>1, FewerVms
<1>3. deletes[p] = 0 => Cardinality(VmsOf(p)) <= Count[p]
  BY DEF Cost
<1>4. deletes'[p] = 0 => Cardinality(VmsOf(p)') <= Count[p]
  BY <1>1, <1>2, <1>3
<1> QED BY <1>4 DEF Cost

(* The VMs of a batch, or of the part of it before the one refused.         *)
LEMMA CostOfBatch ==
    ASSUME TypeOK, Lifecycle, Cost, NEW p \in Pool, NEW cloned, cloned \subseteq wfVms[p],
           VmsCloned(p, cloned), wfPc[p] = "post", wfPc'[p] \in {"finalize", "error"},
           \A q \in Pool \ {p} : wfPc'[q] = wfPc[q],
           UNCHANGED <<row, deletes, wfVms, pc>>
    PROVE  Cost'
<1>1. \A q \in Pool \ {p} : VmsOf(q)' \subseteq VmsOf(q)
  BY NullAssumption DEF VmsOf, VmsCloned, FreeVmIds
<1>2. VmsOf(p)' \subseteq VmsOf(p) \cup cloned
  BY DEF VmsOf, VmsCloned
<1> SUFFICES ASSUME NEW q \in Pool PROVE
        /\ row'[q] = "dropped" => deletes'[q] # 0
        /\ pc'[q] \in {"alloc", "flush", "cloning"} => row'[q] # "none"
        /\ deletes'[q] = 0 /\ Unborn(q)' => VmsOf(q)' = {}
        /\ wfPc'[q] = "post" => Cardinality(wfVms'[q]) <= Count[q]
        /\ deletes'[q] = 0 => Cardinality(VmsOf(q)') <= Count[q]
  BY DEF Cost
<1>3. Count[q] \in Nat
  BY NumbersAssumption
<1>4. CASE q # p
  <2>1. /\ Cardinality(VmsOf(q)') \in Nat /\ Cardinality(VmsOf(q)) \in Nat
        /\ Cardinality(VmsOf(q)') <= Cardinality(VmsOf(q))
    BY <1>1, <1>4, FewerVms DEF VmsOf
  <2>2. deletes[q] = 0 => Cardinality(VmsOf(q)) <= Count[q]
    BY DEF Cost
  <2>3. deletes'[q] = 0 => Cardinality(VmsOf(q)') <= Count[q]
    BY <1>3, <2>1, <2>2
  <2> QED BY <1>1, <1>4, <2>3 DEF Cost, Unborn, Fresh
<1>5. CASE q = p
  <2>1. deletes[p] = 0 => VmsOf(p) = {}
    BY DEF Cost, Unborn, Fresh
  <2>2. deletes[p] = 0 => VmsOf(p)' \subseteq wfVms[p]
    BY <1>2, <2>1
  <2>3. wfVms[p] \subseteq VmIds /\ Cardinality(wfVms[p]) <= Count[p]
    BY DEF TypeOK, Cost
  <2>4. deletes[p] = 0 => /\ Cardinality(VmsOf(p)') \in Nat /\ Cardinality(wfVms[p]) \in Nat
                          /\ Cardinality(VmsOf(p)') <= Cardinality(wfVms[p])
    BY <2>2, <2>3, FewerVms
  <2>5. deletes[p] = 0 => Cardinality(VmsOf(p)') <= Count[p]
    BY <1>3, <1>5, <2>3, <2>4
  <2>6. pc[p] = "cloning" /\ row'[p] = row[p]
    BY DEF Lifecycle
  <2>7. deletes[p] = 0 /\ Unborn(p)' => VmsOf(p)' = {}
    <3>1. CASE row[p] # "none"
      BY <2>6, <3>1 DEF Unborn, Fresh
    <3>2. row[p] # "none"
      BY <2>6 DEF Cost
    <3> QED BY <3>1, <3>2
  <2> QED BY <1>5, <2>5, <2>6, <2>7 DEF Cost
<1> QED BY <1>4, <1>5

(* What a batch may hold.                                                   *)
LEMMA CostNext ==
    ASSUME TypeOK, Lifecycle, Cost, "clone_lost" \notin Faults, [Next]_vars
    PROVE  Cost'
<1> USE DEF dbVars, actVars, wfVars, delVars, loopVars
<1>s. ASSUME UNCHANGED <<row, vm, pc, deletes, wfPc, wfVms>> PROVE Cost'
  BY <1>s, CostStays DEF VmsOf, Unborn, Fresh
<1>1. ASSUME NEW p \in Pool, Request(p) PROVE Cost'
  BY <1>1, CostStays DEF Request, VmsOf, Unborn, Fresh, TypeOK
<1>2. ASSUME NEW p \in Pool, CreateAgain(p) PROVE Cost'
  BY <1>2, CostStays DEF CreateAgain, EndActivity, VmsOf, Unborn, Fresh, TypeOK
<1>3. ASSUME NEW p \in Pool, CreateRow(p) PROVE Cost'
  <2>1. /\ row[p] # "live" /\ row' = [row EXCEPT ![p] = "live"]
        /\ pc'[p] \in {"alloc", "done"} /\ \A q \in Pool \ {p} : pc'[q] = pc[q]
        /\ UNCHANGED <<vm, wfPc, wfVms, deletes>>
    BY <1>3 DEF CreateRow, EndActivity, PoolExists, TypeOK
  <2>2. row[p] \in {"none", "dropped"}
    BY <2>1 DEF TypeOK
  <2>3. deletes[p] = 0 => row[p] = "none"
    BY <2>2 DEF Cost
  <2> QED BY <2>1, <2>3, CostStays DEF VmsOf, Unborn, Fresh, TypeOK
<1>4. ASSUME NEW p \in Pool, CreateAllocate(p) PROVE Cost'
  BY <1>4, CostStays DEF CreateAllocate, VmsOf, Unborn, Fresh, TypeOK
<1>5. ASSUME NEW p \in Pool, CreateFlush(p) PROVE Cost'
  BY <1>5, CostStays DEF CreateFlush, VmsOf, Unborn, Fresh, TypeOK
<1>6. ASSUME NEW p \in Pool, CreateAbort(p) PROVE Cost'
  BY <1>6, CostStays DEF CreateAbort, EndActivity, VmsOf, Unborn, Fresh, TypeOK
<1>7. ASSUME NEW p \in Pool, CreateFail(p) PROVE Cost'
  BY <1>7, CostStays DEF CreateFail, RetryActivity, EndActivity, VmsOf, Unborn, Fresh, TypeOK
<1>8. ASSUME NEW p \in Pool, CreateResume(p) PROVE Cost'
  BY <1>8, CostStays DEF CreateResume, VmsOf, Unborn, Fresh, TypeOK
<1>9. ASSUME NEW p \in Pool, CreateFinish(p) PROVE Cost'
  BY <1>9, CostStays DEF CreateFinish, RetryActivity, EndActivity, VmsOf, Unborn, Fresh, TypeOK
<1>10. ASSUME NEW p \in Pool, CloneList(p) PROVE Cost'
  <2> DEFINE lowest == {v \in FreeVmIds : Cardinality({w \in FreeVmIds : w < v}) < Count[p]}
  <2>1. PICK chosen \in SUBSET lowest : /\ Cardinality(lowest) = Count[p]
                                        /\ wfVms' = [wfVms EXCEPT ![p] = chosen]
    BY <1>10 DEF CloneList
  <2>2. Cardinality(chosen) <= Count[p]
    <3>1. lowest \subseteq VmIds
      BY DEF FreeVmIds
    <3> HIDE DEF lowest
    <3>2. Cardinality(chosen) <= Cardinality(lowest)
      BY <3>1, FewerVms
    <3> QED BY <2>1, <3>2
  <2>3. /\ wfPc[p] = "clone" /\ wfPc' = [wfPc EXCEPT ![p] = "post"]
        /\ wfVms'[p] = chosen /\ \A q \in Pool \ {p} : wfVms'[q] = wfVms[q]
        /\ UNCHANGED <<row, vm, pc, deletes>>
    BY <1>10, <2>1 DEF CloneList, WfStep, TypeOK
  <2>4. \A q \in Pool : VmsOf(q)' = VmsOf(q) /\ Unborn(q)' = Unborn(q)
    BY <2>3 DEF VmsOf, Unborn, Fresh, TypeOK
  <2> QED BY <2>2, <2>3, <2>4 DEF Cost, TypeOK
<1>11. ASSUME NEW p \in Pool, ClonePost(p) PROVE Cost'
  BY <1>11, CostOfBatch DEF ClonePost, WfStep, TypeOK
<1>12. ASSUME NEW p \in Pool, ClonePostFail(p) PROVE Cost'
  <2>1. PICK v \in wfVms[p] : VmsCloned(p, {w \in wfVms[p] : w < v})
    BY <1>12 DEF ClonePostFail
  <2>2. /\ wfPc[p] = "post" /\ wfPc'[p] = "error" /\ \A q \in Pool \ {p} : wfPc'[q] = wfPc[q]
        /\ UNCHANGED <<row, deletes, wfVms, pc>>
    BY <1>12 DEF ClonePostFail, WfStep, TypeOK
  <2> QED BY <2>1, <2>2, CostOfBatch
<1>13. ASSUME NEW p \in Pool, ClonePostLost(p) PROVE Cost'
  BY <1>13 DEF ClonePostLost
<1>14. ASSUME NEW p \in Pool,
              FinalizeBegin(p) \/ FinalizeNoPool(p) \/ FinalizeRecord(p) \/ Register(p)
              \/ RegisterLost(p) \/ RegisterFail(p) \/ RegisterCollision(p) \/ BootAssign(p)
              \/ BootFail(p) \/ BootDone(p)
       PROVE  Cost'
  <2>1. /\ wfPc[p] # "post" /\ wfPc[p] # "clone" /\ wfPc'[p] # "post" /\ wfPc'[p] # "clone"
        /\ \A q \in Pool \ {p} : wfPc'[q] = wfPc[q]
        /\ UNCHANGED <<row, vm, pc, deletes, wfVms>>
    BY <1>14 DEF FinalizeBegin, FinalizeNoPool, FinalizeRecord, Register, RegisterLost,
       RegisterFail, RegisterCollision, BootAssign, BootFail, BootDone, FinalizeAgain,
       WfStep, TypeOK
  <2> QED BY <2>1, CostStays DEF VmsOf, Unborn, Fresh
<1>15. ASSUME NEW p \in Pool, Cleanup(p) PROVE Cost'
  <2>1. /\ wfPc[p] = "cleanup" /\ wfPc' = [wfPc EXCEPT ![p] = "finalize"]
        /\ UNCHANGED <<row, pc, deletes, wfVms>>
    BY <1>15 DEF Cleanup, WfStep
  <2>2. vm' = vm \/ \E v \in VmIds : vm' = [vm EXCEPT ![v] = NoPool]
    BY <1>15 DEF Cleanup
  <2>3. \A q \in Pool : VmsOf(q)' \subseteq VmsOf(q)
    BY <2>2, NullAssumption DEF VmsOf, TypeOK
  <2> QED BY <2>1, <2>3, CostStays DEF Unborn, Fresh, TypeOK
<1>16. ASSUME NEW p \in Pool, RequestDelete(p) PROVE Cost'
  <2>1. /\ UNCHANGED <<row, vm, pc, wfPc, wfVms>>
        /\ deletes'[p] # 0 /\ \A q \in Pool \ {p} : deletes'[q] = deletes[q]
    BY <1>16 DEF RequestDelete, TypeOK
  <2> QED BY <2>1, CostStays DEF VmsOf, Unborn, Fresh
<1>17. ASSUME NEW p \in Pool, DeleteVm(p) PROVE Cost'
  <2>1. PICK v \in VmIds : vm' = [vm EXCEPT ![v] = NoPool]
    BY <1>17 DEF DeleteVm
  <2>2. \A q \in Pool : VmsOf(q)' \subseteq VmsOf(q)
    BY <2>1, NullAssumption DEF VmsOf, TypeOK
  <2> QED BY <1>17, <2>2, CostStays DEF DeleteVm, Unborn, Fresh
<1>18. ASSUME NEW p \in Pool, DeleteRow(p) PROVE Cost'
  <2>1. /\ row' = [row EXCEPT ![p] = "dropped"] /\ deletes[p] # 0
        /\ row[p] = "live"
        /\ UNCHANGED <<vm, pc, deletes, wfPc, wfVms>>
    BY <1>18 DEF DeleteRow, DelStep, Lifecycle, Deleting
  <2>2. \A q \in Pool : VmsOf(q)' = VmsOf(q)
    BY <2>1 DEF VmsOf
  <2> QED BY <2>1, <2>2, CostStays DEF Unborn, Fresh, TypeOK
<1>19. ASSUME NEW p \in Pool,
              DeleteBegin(p) \/ DeleteVmFail(p) \/ DeleteGiveUp(p) \/ DeleteVmsDone(p)
              \/ DeleteMachine(p)
       PROVE  Cost'
  BY <1>s, <1>19 DEF DeleteBegin, DeleteVmFail, DeleteGiveUp, DeleteVmsDone, DeleteMachine
<1>20. CASE UNCHANGED vars
  BY <1>s, <1>20 DEF vars
<1> QED
  BY <1>1, <1>2, <1>3, <1>4, <1>5, <1>6, <1>7, <1>8, <1>9, <1>10, <1>11, <1>12,
     <1>13, <1>14, <1>15, <1>16, <1>17, <1>18, <1>19, <1>20
  DEF Next, Finished, Create, Clone, Delete

(* The attempts of create_pool_activity never clone a second time, unless    *)
(* the completion of clone_vm_activity is lost: until its pool is deleted a  *)
(* request costs at most the VMs it asked for, however many are at work.     *)
THEOREM ClonesAreBounded ==
    ASSUME "clone_lost" \notin Faults
    PROVE  Spec => []ClonesBounded
<1>1. TypeOK /\ Lifecycle /\ Cost /\ [Next]_vars => Cost'
  BY CostNext
<1>2. Cost => ClonesBounded
  BY DEF Cost, ClonesBounded, VmsOf
<1> QED BY <1>1, <1>2, CostInit, LifecycleCorrect, PTL DEF Spec

-----------------------------------------------------------------------------
(* zip(vms, ip_list) gives each VM one entry and each entry one VM.         *)

Wanted(p, i) == \E k \in DOMAIN IpPoolNames[p] : IpPoolNames[p][k] = IpPoolOf[i]

(* An entry belongs to the first of the request's IP pools that has it.     *)
LEMMA PositionType ==
    ASSUME NEW p \in Pool, NEW i \in IPs, Wanted(p, i)
    PROVE  Position(p, i) \in Nat
<1> DEFINE S == {k \in DOMAIN IpPoolNames[p] : IpPoolNames[p][k] = IpPoolOf[i]}
           R == {ss \in Nat \X Nat : ss[1] < ss[2]}
<1>1. IpPoolNames[p] \in Seq(IpPools)
  BY IpPoolAssumption
<1>2. DOMAIN IpPoolNames[p] = 1 .. Len(IpPoolNames[p]) /\ Len(IpPoolNames[p]) \in Nat
  BY <1>1
<1>3. S \subseteq Nat /\ S # {}
  BY <1>2 DEF Wanted
<1>4. IsWellFoundedOn(R, Nat)
  BY NatLessThanWellFounded DEF OpToRel
<1>5. PICK k \in S : \A l \in S : ~(<<l, k>> \in R)
  <2> HIDE DEF S, R
  <2> QED BY <1>3, <1>4, WFMin
<1>6. \A l \in S : k <= l
  <2> SUFFICES ASSUME NEW l \in S PROVE k <= l
    OBVIOUS
  <2>1. <<l, k>> \in Nat \X Nat /\ <<l, k>>[1] = l /\ <<l, k>>[2] = k
    BY <1>3
  <2>2. ~(l < k)
    BY <1>5, <2>1
  <2> QED BY <1>3, <2>2
<1>7. /\ k \in DOMAIN IpPoolNames[p] /\ IpPoolNames[p][k] = IpPoolOf[i]
      /\ \A l \in 1 .. k - 1 : IpPoolNames[p][l] # IpPoolOf[i]
  <2>1. \A l \in 1 .. k - 1 : l \in DOMAIN IpPoolNames[p] /\ ~(k <= l)
    BY <1>2, <1>3
  <2> QED BY <1>6, <2>1
<1>8. Position(p, i) \in DOMAIN IpPoolNames[p]
  BY <1>7 DEF Position
<1> QED BY <1>2, <1>8

(* The VM that an entry goes to: no two have as many lower ones.            *)
LEMMA PairedVm ==
    ASSUME NEW p \in Pool, wfVms[p] \subseteq VmIds, NEW v, NEW w, NEW i,
           Paired(p, v, i), Paired(p, w, i)
    PROVE  v = w
<1> DEFINE below(x) == {y \in wfVms[p] : y < x}
<1>1. /\ v \in wfVms[p] /\ w \in wfVms[p] /\ v \in Nat /\ w \in Nat
      /\ Cardinality(below(v)) = Cardinality(below(w))
  BY NumbersAssumption DEF Paired
<1>2. ASSUME NEW a \in wfVms[p], NEW b \in wfVms[p], a < b,
             Cardinality(below(a)) = Cardinality(below(b))
      PROVE  FALSE
  <2>1. a \in Nat /\ b \in Nat /\ \A y \in wfVms[p] : y \in Nat
    BY NumbersAssumption
  <2>2. below(a) \in SUBSET below(b) /\ a \in below(b) /\ a \notin below(a)
    BY <1>2, <2>1
  <2>3. IsFiniteSet(below(b))
    <3>1. below(b) \in SUBSET VmIds /\ IsFiniteSet(VmIds)
      BY NumbersAssumption
    <3> QED BY <3>1, FS_Subset
  <2> HIDE DEF below
  <2>4. below(b) = below(a)
    BY <1>2, <2>2, <2>3, FS_Subset
  <2> QED BY <2>2, <2>4
<1> HIDE DEF below
<1>3. ~(v < w) /\ ~(w < v)
  BY <1>1, <1>2
<1> QED BY <1>1, <1>3

(* No two entries have as many before them.                                 *)
LEMMA RankOfEntry ==
    ASSUME NEW p \in Pool, NEW S \in SUBSET IPs, \A i \in S : Wanted(p, i),
           NEW i \in S, NEW j \in S, i # j
    PROVE  Cardinality({x \in S : Before(p, x, i)}) # Cardinality({x \in S : Before(p, x, j)})
<1>1. \A x \in S : x \in Nat /\ Position(p, x) \in Nat
  BY PositionType, NumbersAssumption
<1>2. ASSUME NEW a \in S, NEW b \in S, Before(p, a, b)
      PROVE  Cardinality({x \in S : Before(p, x, a)}) # Cardinality({x \in S : Before(p, x, b)})
  <2> DEFINE A == {x \in S : Before(p, x, a)}
             B == {x \in S : Before(p, x, b)}
  <2>1. A \in SUBSET B /\ a \in B /\ a \notin A
    BY <1>1, <1>2 DEF Before
  <2>2. IsFiniteSet(B)
    <3>1. B \in SUBSET IPs /\ IsFiniteSet(IPs)
      BY NumbersAssumption
    <3> QED BY <3>1, FS_Subset
  <2> HIDE DEF A, B
  <2>3. Cardinality(A) # Cardinality(B)
    BY <2>1, <2>2, FS_Subset
  <2> QED BY <2>3 DEF A, B
<1>3. Before(p, i, j) \/ Before(p, j, i)
  BY <1>1 DEF Before
<1> QED BY <1>2, <1>3

(* The entry that a VM gets.                                                 *)
LEMMA PairedIp ==
    ASSUME NEW p \in Pool, alloc[p] \subseteq IPs, \A i \in alloc[p] : Wanted(p, i),
           NEW v, NEW i, NEW j, Paired(p, v, i), Paired(p, v, j)
    PROVE  i = j
BY RankOfEntry DEF Paired

-----------------------------------------------------------------------------
(* What a creation has made of its batch, as long as its pool is not deleted *)
(* and no two requests name the same IP pool.  Deletions of other pools may  *)
(* go on beside it, if each is asked for once and lists VMs of its own only. *)

Undeleted == \A p \in Pool : deletes[p] = 0

Clean == {"name_collision", "finalize_lost"} \cap Faults = {}

Tame == Undeleted \/ (Clean /\ DeletedOnce)

OwnIpPools == \A p, q \in Pool, i \in IPs : Wanted(p, i) /\ Wanted(q, i) => p = q

(* The VMs of the answer are those cloned last.                             *)
Batched(p) ==
    \/ wfPc[p] \in {"finalize", "record", "register", "cleanup", "boot", "ok"}
    \/ pc[p] = "finish"
    \/ outcome[p] = "created"

Holds(p, v, i) ==
    /\ Wanted(p, i) /\ ipStatus[i] = "used" /\ ipVm[i] = v
    /\ outcome[p] # "created" => Paired(p, v, i)

Recorded(p, v) == v \in vmids[p] /\ \E i \in IPs : Holds(p, v, i)

(* Its row is made once.                                                    *)
Live(p) ==
    /\ row[p] # "dropped"
    /\ pc[p] \in {"alloc", "flush", "cloning", "finish"} => row[p] = "live"
    /\ pc[p] # "done" => outcome[p] = "none"
    /\ \A i \in alloc[p] : Wanted(p, i)
    /\ Unborn(p) => wfFailed[p] = {}

(* Each VM that was not given up is the pool's, and those that finalize is   *)
(* through with have their row and their entry.                             *)
Settled(p) ==
    Batched(p) =>
        /\ wfTodo[p] \subseteq wfVms[p] \ wfFailed[p]
        /\ \A v \in wfVms[p] \ wfFailed[p] : vm[v] = p
        /\ \A v \in wfVms[p] \ (wfFailed[p] \cup wfTodo[p]) :
              v \in machines[p] /\ Recorded(p, v)

Through(p) ==
    /\ wfPc[p] \in {"boot", "ok"} \/ pc[p] = "finish" \/ outcome[p] = "created"
          => wfTodo[p] = {}
    /\ wfPc[p] = "register" => \A v \in VmIds : First(wfTodo[p], v) => Recorded(p, v)

Whole(p) == Live(p) /\ Settled(p) /\ Through(p)

Complete ==
    /\ \A p \in Pool : \A i \in alloc[p] : Wanted(p, i)
    /\ Tame => \A p \in Pool : deletes[p] = 0 => Whole(p)

(* At first nothing is under way.                                           *)
LEMMA CompleteInit == Init => Complete
BY DEF Init, Complete, Whole, Live, Settled, Through, Batched, Unborn

(* What a deletion goes by, where its own pool is all it can hit.            *)
Sparing == Clean => Reach /\ Owned

(* Sparing holds at first.                                                  *)
LEMMA SparingInit == Init => Sparing
BY ReachInit, OwnedInit DEF Sparing

(* And no step ends it.                                                     *)
LEMMA SparingNext ==
    ASSUME TypeOK, Lifecycle, Sparing, [Next]_vars
    PROVE  Sparing'
BY ReachNext, OwnedNext DEF Sparing, Clean

(* A step of one request leaves the others as they are.                     *)
LEMMA OthersComplete ==
    ASSUME TypeOK, OwnIpPools, NEW p \in Pool, NEW q \in Pool, p # q,
           Whole(p), \A i \in alloc[q] : Wanted(q, i),
           /\ row'[p] = row[p] /\ pc'[p] = pc[p] /\ outcome'[p] = outcome[p]
           /\ alloc'[p] = alloc[p] /\ vmids'[p] = vmids[p] /\ machines'[p] = machines[p]
           /\ wfPc'[p] = wfPc[p] /\ wfVms'[p] = wfVms[p] /\ wfTodo'[p] = wfTodo[p]
           /\ wfFailed'[p] = wfFailed[p],
           \A v \in VmIds : vm[v] = p => vm'[v] = p,
           \A i \in IPs \ alloc[q] : ipStatus'[i] = ipStatus[i] /\ ipVm'[i] = ipVm[i]
    PROVE  Whole(p)'
<1>0. Live(p) /\ Settled(p) /\ Through(p)
  BY DEF Whole
<1>1. \A i \in IPs : Wanted(p, i) => ipStatus'[i] = ipStatus[i] /\ ipVm'[i] = ipVm[i]
  BY DEF OwnIpPools, TypeOK
<1>2. Live(p)'
  BY <1>0 DEF Live, Unborn, Fresh
<1>3. \A v, i : Paired(p, v, i)' = Paired(p, v, i)
  BY DEF Paired
<1>4. \A v : Recorded(p, v) => Recorded(p, v)'
  BY <1>1, <1>3 DEF Recorded, Holds
<1>5. Settled(p)'
  BY <1>0, <1>4 DEF Settled, Batched, TypeOK
<1>6. Through(p)'
  BY <1>0, <1>4 DEF Through, First
<1> QED BY <1>2, <1>5, <1>6 DEF Whole

(* A step that frees or gives an entry of one VM of the batch disturbs no    *)
(* other VM of it.                                                          *)
LEMMA RecordedStays ==
    ASSUME TypeOK, NEW p \in Pool, NEW v \in wfVms[p], NEW i \in IPs, Paired(p, v, i),
           NEW w \in wfVms[p], w # v, Recorded(p, w), outcome[p] # "created",
           UNCHANGED <<alloc, wfVms, outcome>>, w \in vmids'[p],
           \A j \in IPs \ {i} : ipStatus'[j] = ipStatus[j] /\ ipVm'[j] = ipVm[j]
    PROVE  Recorded(p, w)'
<1>1. PICK j \in IPs : Holds(p, w, j)
  BY DEF Recorded
<1>2. j # i
  BY <1>1, PairedVm DEF Holds, TypeOK
<1>3. Holds(p, w, j)'
  BY <1>1, <1>2 DEF Holds, Paired
<1> QED BY <1>3 DEF Recorded

(* What a step of request q may touch: its own variables, its own VMs and    *)
(* the entries it has taken.                                                *)
Apart(q) ==
    /\ \A p \in Pool \ {q} :
          /\ row'[p] = row[p] /\ pc'[p] = pc[p] /\ outcome'[p] = outcome[p]
          /\ alloc'[p] = alloc[p] /\ vmids'[p] = vmids[p] /\ machines'[p] = machines[p]
          /\ wfPc'[p] = wfPc[p] /\ wfVms'[p] = wfVms[p] /\ wfTodo'[p] = wfTodo[p]
          /\ wfFailed'[p] = wfFailed[p]
    /\ \A p \in Pool \ {q}, v \in VmIds : vm[v] = p => vm'[v] = p
    /\ \A i \in IPs \ alloc[q] : ipStatus'[i] = ipStatus[i] /\ ipVm'[i] = ipVm[i]

(* No step of a creation touches more, if what it cleans up is its own.      *)
LEMMA StepsApart ==
    ASSUME TypeOK, NEW q \in Pool, Request(q) \/ Create(q) \/ Clone(q),
           Cleanup(q) => \A v \in VmIds : First(wfTodo[q], v) => vm[v] = q
    PROVE  Apart(q)
<1> USE DEF dbVars, actVars, wfVars, delVars, loopVars, WfStep
<1>1. CASE Request(q) \/ CreateAgain(q) \/ CreateRow(q) \/ CreateAllocate(q)
           \/ CreateFlush(q) \/ CreateAbort(q) \/ CreateFail(q) \/ CreateResume(q)
  BY <1>1 DEF Request, CreateAgain, CreateRow, CreateAllocate, CreateFlush, CreateAbort,
     CreateFail, CreateResume, RetryActivity, EndActivity, Apart, TypeOK
<1>2. CASE CreateFinish(q)
  BY <1>2 DEF CreateFinish, RetryActivity, EndActivity, Apart, TypeOK
<1>3. CASE CloneList(q)
  BY <1>3 DEF CloneList, Apart, TypeOK
<1>4. CASE ClonePost(q) \/ ClonePostFail(q) \/ ClonePostLost(q)
  <2>1. \A p \in Pool, v \in VmIds : vm[v] = p => vm'[v] = p
    BY <1>4, ClonesKeepOwners DEF ClonePost, ClonePostFail, ClonePostLost
  <2> QED BY <1>4, <2>1 DEF ClonePost, ClonePostFail, ClonePostLost, Apart, TypeOK
<1>5. CASE FinalizeBegin(q) \/ RegisterFail(q) \/ RegisterCollision(q) \/ BootAssign(q)
           \/ BootFail(q) \/ BootDone(q)
  BY <1>5 DEF FinalizeBegin, RegisterFail, RegisterCollision, BootAssign, BootFail, BootDone,
     FinalizeAgain, Apart, TypeOK
<1>6. CASE FinalizeNoPool(q) \/ Register(q) \/ RegisterLost(q)
  BY <1>6 DEF FinalizeNoPool, Register, RegisterLost, NextVm, FinalizeAgain, Apart, TypeOK
<1>7. CASE FinalizeRecord(q)
  <2>1. PICK v \in VmIds, i \in IPs : /\ i \in alloc[q]
                                      /\ ipStatus' = [ipStatus EXCEPT ![i] = "used"]
                                      /\ ipVm' = [ipVm EXCEPT ![i] = v]
                                      /\ vmids' = [vmids EXCEPT ![q] = @ \cup {v}]
    BY <1>7 DEF FinalizeRecord, Paired, VmidListed
  <2> QED BY <1>7, <2>1 DEF FinalizeRecord, Apart, TypeOK
<1>8. CASE Cleanup(q)
  <2>1. PICK v \in VmIds :
          /\ vm[v] = q /\ NextVm(q, v, TRUE)
          /\ \/ vm' = vm \/ vm' = [vm EXCEPT ![v] = NoPool]
          /\ vmids' = vmids \/ vmids' = [vmids EXCEPT ![q] = @ \ {v}]
    BY <1>8 DEF Cleanup
  <2>2. \A i \in IPs \ alloc[q] : ipStatus'[i] = ipStatus[i] /\ ipVm'[i] = ipVm[i]
    <3>1. CASE row[q] = "live"
      <4>1. PICK j \in IPs : /\ j \in alloc[q]
                             /\ ipStatus' = [ipStatus EXCEPT ![j] = "unused"]
                             /\ ipVm' = [ipVm EXCEPT ![j] = NoVm]
        BY <1>8, <3>1 DEF Cleanup, Paired
      <4> QED BY <4>1 DEF TypeOK
    <3>2. CASE row[q] # "live"
      BY <1>8, <3>2 DEF Cleanup
    <3> QED BY <3>1, <3>2
  <2> QED BY <1>8, <2>1, <2>2 DEF Cleanup, NextVm, Apart, TypeOK
<1> QED BY <1>1, <1>2, <1>3, <1>4, <1>5, <1>6, <1>7, <1>8 DEF Create, Clone

(* The deletion of another pool removes VMs of that pool and frees entries   *)
(* recorded in their names, none of which is one of the batch.              *)
LEMMA DeletionKeeps ==
    ASSUME TypeOK, Owned, DeletedOnce, NEW p \in Pool, NEW q \in Pool, p # q,
           Whole(p), Delete(q)
    PROVE  Whole(p)'
<1> USE DEF dbVars, actVars, wfVars, delVars, loopVars
<1>0. Live(p) /\ Settled(p) /\ Through(p)
  BY DEF Whole
<1>1. /\ UNCHANGED <<pc, outcome, alloc, vmids, wfVars>>
      /\ row'[p] = row[p] /\ machines'[p] = machines[p]
  BY DEF Delete, DeleteBegin, DeleteVm, DeleteVmFail, DeleteGiveUp, DeleteVmsDone,
     DeleteMachine, DeleteRow, TypeOK
<1>2. \A v \in VmIds : vm[v] = p =>
          vm'[v] = p /\ \A i \in IPs : ipVm[i] = v =>
                            ipStatus'[i] = ipStatus[i] /\ ipVm'[i] = ipVm[i]
  <2>1. CASE DeleteVm(q)
    <3>1. PICK w \in VmIds :
             /\ w \in DelTodo(q)
             /\ vm' = [vm EXCEPT ![w] = NoPool]
             /\ ipStatus' = [i \in IPs |-> IF i \in EntriesOf(w) THEN "unused"
                                           ELSE ipStatus[i]]
             /\ ipVm' = [i \in IPs |-> IF i \in EntriesOf(w) THEN NoVm ELSE ipVm[i]]
      BY <2>1 DEF DeleteVm, First
    <3>2. vm[w] = q
      BY <2>1, <3>1 DEF DeleteVm, Owned
    <3>3. \A v \in VmIds : vm[v] = p => v # w
      BY <3>2
    <3> QED BY <3>1, <3>3 DEF EntriesOf, TypeOK
  <2>2. CASE ~DeleteVm(q)
    BY <2>2 DEF Delete, DeleteBegin, DeleteVmFail, DeleteGiveUp, DeleteVmsDone,
       DeleteMachine, DeleteRow
  <2> QED BY <2>1, <2>2
<1>3. Live(p)'
  BY <1>0, <1>1 DEF Live, Unborn, Fresh
<1>4. \A v, i : Paired(p, v, i)' = Paired(p, v, i)
  BY <1>1 DEF Paired
<1>5. ASSUME NEW v \in VmIds, vm[v] = p, Recorded(p, v) PROVE Recorded(p, v)'
  <2>1. PICK i \in IPs : Holds(p, v, i)
    BY <1>5 DEF Recorded
  <2>2. Holds(p, v, i)'
    BY <1>1, <1>2, <1>4, <1>5, <2>1 DEF Holds, Wanted
  <2> QED BY <1>1, <1>5, <2>2 DEF Recorded
<1>6. Batched(p)' = Batched(p) /\ wfVms[p] \subseteq VmIds
  BY <1>1 DEF Batched, TypeOK
<1>7. Settled(p)'
  BY <1>0, <1>1, <1>2, <1>5, <1>6 DEF Settled
<1>8. Through(p)'
  <2>1. ASSUME NEW v \in VmIds, wfPc[p] = "register", First(wfTodo[p], v)
        PROVE  Recorded(p, v)'
    <3>1. vm[v] = p /\ Recorded(p, v)
      BY <1>0, <2>1 DEF Settled, Through, Batched, First
    <3> QED BY <1>5, <3>1
  <2> QED BY <1>0, <1>1, <2>1 DEF Through
<1> QED BY <1>3, <1>7, <1>8 DEF Whole

(* The steps that leave the batch as it is, but for where they are.         *)
LEMMA QuietCompletes ==
    ASSUME TypeOK, NEW q \in Pool, Live(q), Settled(q), Through(q),
           vm' = vm, vmids'[q] = vmids[q], machines'[q] = machines[q],
           ipStatus' = ipStatus, ipVm' = ipVm, wfTodo'[q] = wfTodo[q],
           wfVms'[q] = wfVms[q], wfFailed'[q] = wfFailed[q],
           Batched(q)' => Batched(q) /\ alloc'[q] = alloc[q] /\ outcome'[q] = outcome[q]
    PROVE  Settled(q)' /\ \A v : Batched(q)' /\ Recorded(q, v) => Recorded(q, v)'
<1>1. ASSUME Batched(q)', NEW v, Recorded(q, v) PROVE Recorded(q, v)'
  <2>1. \A w, i : Paired(q, w, i)' = Paired(q, w, i)
    BY <1>1 DEF Paired
  <2> QED BY <1>1, <2>1 DEF Recorded, Holds
<1>2. Settled(q)'
  BY <1>1 DEF Settled
<1> QED BY <1>1, <1>2

(* What the entries of a request are.                                       *)
LEMMA AllocatedWanted == \A p \in Pool : \A i \in Allocated(p) : Wanted(p, i)
BY DEF Allocated, Unused, Wanted

(* create_pool_activity up to its answer, and the retries of it.            *)
LEMMA CreateCompletes ==
    ASSUME TypeOK, Lifecycle, NEW q \in Pool, Whole(q),
           Request(q) \/ CreateAgain(q) \/ CreateRow(q) \/ CreateAllocate(q)
           \/ CreateFlush(q) \/ CreateAbort(q) \/ CreateFail(q) \/ CreateResume(q)
    PROVE  Whole(q)'
<1> USE DEF dbVars, actVars, wfVars, delVars, loopVars
<1>0. Live(q) /\ Settled(q) /\ Through(q) /\ (wfPc[q] # "idle" => pc[q] = "cloning")
  BY DEF Whole, Lifecycle
<1>1. CASE Request(q)
  <2>1. /\ UNCHANGED <<row, outcome, alloc, vm, vmids, machines, ipStatus, ipVm, wfPc, wfTodo,
                       wfVms, wfFailed>>
        /\ pc[q] = "idle" /\ pc'[q] = "begin" /\ outcome[q] = "none"
    BY <1>0, <1>1 DEF Request, TypeOK, Live
  <2>2. Live(q)'
    BY <1>0, <2>1 DEF Live, Unborn, Fresh
  <2>3. Through(q)' /\ Settled(q)'
    BY <1>0, <2>1 DEF Through, Settled, Batched
  <2> QED BY <2>2, <2>3 DEF Whole
<1>2. CASE CreateAgain(q)
  <2>1. /\ UNCHANGED <<row, vm, vmids, machines, ipStatus, ipVm, wfPc, wfTodo, wfVms, wfFailed>>
        /\ pc[q] = "begin" /\ pc'[q] = "done" /\ wfPc[q] = "idle" /\ alloc'[q] = {}
        /\ outcome'[q] \in {"already_exists", "pool_exists_no_machines"}
    BY <1>0, <1>2 DEF CreateAgain, EndActivity, TypeOK
  <2>2. Live(q)'
    BY <1>0, <2>1 DEF Live, Unborn, Fresh
  <2>3. Through(q)' /\ Settled(q)'
    BY <1>0, <2>1 DEF Through, Settled, Batched
  <2> QED BY <2>2, <2>3 DEF Whole
<1>3. CASE CreateRow(q)
  <2>1. /\ UNCHANGED <<vm, ipStatus, ipVm, wfPc, wfTodo, wfVms, wfFailed>>
        /\ pc[q] = "begin" /\ wfPc[q] = "idle" /\ row'[q] = "live" /\ row[q] # "live"
        /\ \/ pc'[q] = "alloc" /\ outcome'[q] = outcome[q] /\ alloc'[q] = alloc[q]
           \/ pc'[q] = "done" /\ outcome'[q] = "cluster_not_found" /\ alloc'[q] = {}
    BY <1>0, <1>3 DEF CreateRow, PoolExists, EndActivity, TypeOK
  <2>2. Live(q)' /\ outcome[q] = "none"
    BY <1>0, <2>1 DEF Live, Unborn, Fresh, TypeOK
  <2>3. Through(q)' /\ Settled(q)'
    BY <1>0, <2>1, <2>2 DEF Through, Settled, Batched
  <2> QED BY <2>2, <2>3 DEF Whole
<1>4. CASE CreateAllocate(q)
  <2>1. /\ UNCHANGED <<row, outcome, vm, vmids, machines, ipStatus, ipVm, wfPc, wfTodo, wfVms,
                       wfFailed>>
        /\ pc[q] = "alloc" /\ pc'[q] = "flush" /\ wfPc[q] = "idle" /\ outcome[q] = "none"
        /\ alloc'[q] = Allocated(q)
    BY <1>0, <1>4 DEF CreateAllocate, TypeOK, Live
  <2>2. Live(q)'
    BY <1>0, <2>1, AllocatedWanted DEF Live, Unborn, Fresh
  <2>3. Through(q)' /\ Settled(q)'
    BY <1>0, <2>1 DEF Through, Settled, Batched
  <2> QED BY <2>2, <2>3 DEF Whole
<1>5. CASE CreateFlush(q)
  <2>1. /\ UNCHANGED <<row, outcome, alloc, vm, vmids, machines, ipStatus, ipVm, wfTodo, wfVms,
                       wfFailed>>
        /\ pc[q] = "flush" /\ wfPc[q] = "idle" /\ outcome[q] = "none"
        /\ \/ pc'[q] = "abort" /\ wfPc'[q] = "idle"
           \/ pc'[q] = "cloning" /\ wfPc'[q] = "clone"
    BY <1>0, <1>5 DEF CreateFlush, TypeOK, Live
  <2>2. Live(q)'
    BY <1>0, <2>1 DEF Live, Unborn, Fresh
  <2>3. Through(q)' /\ Settled(q)'
    BY <1>0, <2>1 DEF Through, Settled, Batched
  <2> QED BY <2>2, <2>3 DEF Whole
<1>6. CASE CreateAbort(q)
  <2>1. /\ UNCHANGED <<row, vm, vmids, machines, ipVm, wfPc, wfTodo, wfVms, wfFailed>>
        /\ pc[q] = "abort" /\ pc'[q] = "done" /\ wfPc[q] = "idle" /\ alloc'[q] = {}
        /\ outcome'[q] = "insufficient_ips"
    BY <1>0, <1>6 DEF CreateAbort, EndActivity, TypeOK
  <2>2. Live(q)'
    BY <1>0, <2>1 DEF Live, Unborn, Fresh
  <2>3. Through(q)' /\ Settled(q)'
    BY <1>0, <2>1 DEF Through, Settled, Batched
  <2> QED BY <2>2, <2>3 DEF Whole
<1>7. CASE CreateFail(q)
  <2>1. /\ UNCHANGED <<row, vm, vmids, machines, ipStatus, ipVm, wfTodo, wfVms, wfFailed>>
        /\ pc[q] = "cloning" /\ outcome[q] = "none" /\ wfPc'[q] = "idle" /\ alloc'[q] = {}
        /\ \/ pc'[q] = "begin" /\ outcome'[q] = "none"
           \/ pc'[q] = "done" /\ outcome'[q] = "failed"
    BY <1>0, <1>7 DEF CreateFail, RetryActivity, EndActivity, TypeOK, Live
  <2>2. Live(q)'
    BY <1>0, <2>1 DEF Live, Unborn, Fresh
  <2>3. Through(q)' /\ Settled(q)'
    BY <1>0, <2>1 DEF Through, Settled, Batched
  <2> QED BY <2>2, <2>3 DEF Whole
<1>8. CASE CreateResume(q)
  <2>1. /\ UNCHANGED <<row, outcome, alloc, vm, vmids, machines, ipStatus, ipVm, wfTodo, wfVms,
                       wfFailed>>
        /\ pc[q] = "cloning" /\ pc'[q] = "finish" /\ wfPc[q] = "ok" /\ wfPc'[q] = "idle"
    BY <1>0, <1>8 DEF CreateResume, TypeOK
  <2>2. Live(q)'
    BY <1>0, <2>1 DEF Live, Unborn, Fresh
  <2>3. Settled(q)'
    BY <1>0, <2>1, QuietCompletes DEF Batched
  <2>4. Through(q)'
    BY <1>0, <2>1 DEF Through
  <2> QED BY <2>2, <2>3, <2>4 DEF Whole
<1> QED BY <1>1, <1>2, <1>3, <1>4, <1>5, <1>6, <1>7, <1>8

(* The answer: the entries of the VMs are the pool's, the others are freed.  *)
LEMMA FinishCompletes ==
    ASSUME TypeOK, Lifecycle, NEW q \in Pool, Whole(q),
           CreateFinish(q)
    PROVE  Whole(q)'
<1> USE DEF dbVars, actVars, wfVars, delVars, loopVars
<1>0. Live(q) /\ Settled(q) /\ Through(q) /\ (wfPc[q] # "idle" => pc[q] = "cloning")
  BY DEF Whole, Lifecycle
<1>1. row[q] = "live" /\ pc[q] = "finish" /\ wfPc[q] = "idle" /\ outcome[q] = "none"
  BY <1>0 DEF CreateFinish, Live
<1>2. /\ UNCHANGED <<row, vm, vmids, machines, wfPc, wfTodo, wfVms, wfFailed>>
      /\ pc'[q] = "done" /\ outcome'[q] = "created" /\ alloc'[q] = {}
  BY <1>1 DEF CreateFinish, EndActivity, TypeOK
<1>3. Live(q)'
  BY <1>0, <1>1, <1>2 DEF Live, Unborn, Fresh
<1>4. ASSUME NEW v \in wfVms[q], Recorded(q, v) PROVE Recorded(q, v)'
  <2>1. PICK i \in IPs : Holds(q, v, i)
    BY <1>4 DEF Recorded
  <2>2. i \in UsedIps(q) /\ i \in alloc[q]
    BY <1>1, <1>4, <2>1 DEF Holds, UsedIps, Paired
  <2>3. ipStatus'[i] = "used" /\ ipVm'[i] = v
    BY <2>1, <2>2 DEF CreateFinish, Holds
  <2>4. Holds(q, v, i)'
    BY <1>2, <2>1, <2>3 DEF Holds, Wanted
  <2> QED BY <1>2, <1>4, <2>4 DEF Recorded
<1>5. Settled(q)' /\ Through(q)'
  BY <1>0, <1>1, <1>2, <1>4 DEF Settled, Through, Batched
<1> QED BY <1>3, <1>5 DEF Whole

(* The clones: all of the batch, or none that counts.                       *)
LEMMA ClonesComplete ==
    ASSUME TypeOK, Lifecycle, NEW q \in Pool, Whole(q),
           CloneList(q) \/ ClonePost(q) \/ ClonePostFail(q) \/ ClonePostLost(q)
    PROVE  Whole(q)'
<1> USE DEF dbVars, actVars, wfVars, delVars, loopVars
<1>0. /\ Live(q) /\ Settled(q) /\ Through(q) /\ pc[q] = "cloning" /\ outcome[q] = "none"
      /\ wfPc[q] \in {"clone", "post"}
  BY DEF Whole, Lifecycle, Live, CloneList, ClonePost, ClonePostFail, ClonePostLost, WfStep
<1>1. UNCHANGED <<row, pc, outcome, alloc, vmids, machines, ipStatus, ipVm>>
  BY DEF CloneList, ClonePost, ClonePostFail, ClonePostLost
<1>2. CASE ClonePost(q)
  <2>1. /\ wfPc'[q] = "finalize" /\ wfTodo'[q] = wfVms[q] /\ wfFailed'[q] = {}
        /\ wfVms' = wfVms
    BY <1>2 DEF ClonePost, WfStep, TypeOK
  <2>2. \A v \in wfVms[q] : vm'[v] = q
    BY <1>2 DEF ClonePost, Accepted, VmsCloned, FreeVmIds
  <2>3. Live(q)' /\ Settled(q)' /\ Through(q)'
    BY <1>0, <1>1, <2>1, <2>2 DEF Live, Unborn, Fresh, Settled, Through, Batched
  <2> QED BY <2>3 DEF Whole
<1>3. CASE CloneList(q) \/ ClonePostFail(q) \/ ClonePostLost(q)
  <2>1. /\ wfPc'[q] \in {"clone", "post", "error"}
        /\ wfFailed' = wfFailed
    BY <1>3 DEF CloneList, ClonePostFail, ClonePostLost, WfStep, TypeOK
  <2>2. Live(q)' /\ Settled(q)' /\ Through(q)'
    BY <1>0, <1>1, <2>1 DEF Live, Unborn, Fresh, Settled, Through, Batched
  <2> QED BY <2>2 DEF Whole
<1> QED BY <1>2, <1>3

(* finalize, VM by VM: each is recorded and registered, or given up.        *)
LEMMA FinalizedComplete ==
    ASSUME TypeOK, Lifecycle, NEW q \in Pool, Whole(q),
           FinalizeBegin(q) \/ FinalizeNoPool(q) \/ FinalizeRecord(q) \/ Register(q)
           \/ RegisterLost(q) \/ RegisterFail(q) \/ RegisterCollision(q) \/ Cleanup(q)
           \/ BootAssign(q) \/ BootFail(q) \/ BootDone(q)
    PROVE  Whole(q)'
<1> USE DEF dbVars, actVars, wfVars, delVars, loopVars
<1>0. /\ Live(q) /\ Settled(q) /\ Through(q) /\ pc[q] = "cloning" /\ outcome[q] = "none"
      /\ row[q] = "live" /\ wfPc[q] \in {"finalize", "record", "register", "cleanup", "boot"}
      /\ Batched(q)
  BY DEF Whole, Lifecycle, Live, FinalizeBegin, FinalizeNoPool, FinalizeRecord, Register,
     RegisterLost, RegisterFail, RegisterCollision, Cleanup, BootAssign, BootFail, BootDone,
     WfStep, FinalizeAgain, Batched
<1>1. UNCHANGED <<row, pc, outcome, alloc, wfVms>> /\ wfPc'[q] # "clone" /\ wfPc'[q] # "post"
  BY DEF FinalizeBegin, FinalizeNoPool, FinalizeRecord, Register, RegisterLost, RegisterFail,
     RegisterCollision, Cleanup, BootAssign, BootFail, BootDone, WfStep, FinalizeAgain, TypeOK
<1>2. Live(q)'
  BY <1>0, <1>1 DEF Live, Unborn, Fresh
<1>3. \A v, i : Paired(q, v, i)' = Paired(q, v, i)
  BY <1>1 DEF Paired
<1>4. /\ wfTodo[q] \subseteq wfVms[q] \ wfFailed[q]
      /\ wfVms[q] \subseteq VmIds
      /\ \A v \in wfVms[q] \ wfFailed[q] : vm[v] = q
      /\ \A v \in wfVms[q] \ (wfFailed[q] \cup wfTodo[q]) : v \in machines[q] /\ Recorded(q, v)
  BY <1>0 DEF Settled, TypeOK
<1>5. CASE FinalizeNoPool(q)
  BY <1>0, <1>5 DEF FinalizeNoPool
<1>6. CASE FinalizeBegin(q) \/ RegisterFail(q) \/ RegisterCollision(q) \/ BootAssign(q)
           \/ BootFail(q) \/ BootDone(q)
  <2>1. UNCHANGED <<vm, vmids, machines, ipStatus, ipVm, wfTodo, wfFailed>>
    BY <1>6 DEF FinalizeBegin, RegisterFail, RegisterCollision, BootAssign, BootFail, BootDone,
       FinalizeAgain
  <2>2. Settled(q)'
    BY <1>0, <1>1, <2>1, QuietCompletes
  <2>3. wfPc'[q] # "register" /\ (wfPc'[q] \in {"boot", "ok"} => wfTodo[q] = {})
    BY <1>0, <1>6 DEF FinalizeBegin, RegisterFail, RegisterCollision, BootAssign,
       BootFail, BootDone, FinalizeAgain, WfStep, TypeOK, Through
  <2>4. Through(q)'
    BY <1>0, <1>1, <2>1, <2>3 DEF Through
  <2> QED BY <1>2, <2>2, <2>4 DEF Whole
<1>7. CASE FinalizeRecord(q)
  <2>1. PICK v \in VmIds, i \in IPs :
             /\ First(wfTodo[q], v) /\ Paired(q, v, i)
             /\ ipStatus' = [ipStatus EXCEPT ![i] = "used"]
             /\ ipVm' = [ipVm EXCEPT ![i] = v]
             /\ VmidListed(q, v)
    BY <1>7 DEF FinalizeRecord
  <2>2. /\ UNCHANGED <<vm, machines, wfTodo, wfFailed>>
        /\ wfPc' = [wfPc EXCEPT ![q] = "register"] /\ wfPc'[q] = "register"
    BY <1>7 DEF FinalizeRecord, WfStep, TypeOK
  <2>3. i \in alloc[q] /\ v \in wfTodo[q] /\ v \in wfVms[q] /\ Wanted(q, i)
    BY <1>0, <1>4, <2>1 DEF Paired, First, Live
  <2>4. vmids'[q] = vmids[q] \cup {v} /\ \A p \in Pool \ {q} : vmids'[p] = vmids[p]
    BY <2>1 DEF VmidListed, TypeOK
  <2>5. \A j \in IPs \ {i} : ipStatus'[j] = ipStatus[j] /\ ipVm'[j] = ipVm[j]
    BY <2>1 DEF TypeOK
  <2>6. Recorded(q, v)'
    <3>1. Holds(q, v, i)'
      BY <1>3, <2>1, <2>3 DEF Holds, Wanted, TypeOK
    <3> QED BY <2>4, <3>1 DEF Recorded
  <2>7. ASSUME NEW w \in wfVms[q], w # v, Recorded(q, w) PROVE Recorded(q, w)'
    <3>1. w \in vmids'[q]
      BY <2>4, <2>7 DEF Recorded
    <3> QED BY <1>0, <1>1, <2>1, <2>3, <2>5, <2>7, <3>1, RecordedStays
  <2>8. Settled(q)'
    BY <1>1, <1>4, <2>2, <2>6, <2>7 DEF Settled
  <2>9. ASSUME NEW w \in VmIds, First(wfTodo[q], w) PROVE w = v
    BY <1>4, <2>1, <2>9, FirstUnique
  <2>10. Through(q)'
    BY <1>0, <1>1, <2>2, <2>6, <2>9 DEF Through
  <2> QED BY <1>2, <2>8, <2>10 DEF Whole
<1>8. CASE Register(q)
  <2>1. PICK v \in VmIds : /\ First(wfTodo[q], v) /\ machines' = [machines EXCEPT ![q] = @ \cup {v}]
                           /\ NextVm(q, v, FALSE)
    BY <1>8 DEF Register
  <2>2. /\ UNCHANGED <<vm, vmids, ipStatus, ipVm>>
        /\ wfPc[q] = "register" /\ wfPc' = [wfPc EXCEPT ![q] = "finalize"] /\ wfPc'[q] = "finalize"
    BY <1>8 DEF Register, WfStep, TypeOK
  <2>3. /\ wfTodo'[q] = wfTodo[q] \ {v} /\ wfFailed'[q] = wfFailed[q]
        /\ machines'[q] = machines[q] \cup {v}
        /\ \A p \in Pool \ {q} : /\ wfTodo'[p] = wfTodo[p] /\ wfFailed'[p] = wfFailed[p]
                                 /\ machines'[p] = machines[p]
    BY <2>1 DEF NextVm, TypeOK
  <2>4. Recorded(q, v)
    BY <1>0, <2>1, <2>2 DEF Through
  <2>5. \A w : Recorded(q, w) => Recorded(q, w)'
    BY <1>1, <1>3, <2>2 DEF Recorded, Holds, Wanted
  <2>6. Settled(q)'
    BY <1>1, <1>4, <2>2, <2>3, <2>4, <2>5 DEF Settled
  <2>7. Through(q)'
    BY <1>0, <1>1, <2>2 DEF Through
  <2> QED BY <1>2, <2>6, <2>7 DEF Whole
<1>9. CASE RegisterLost(q)
  <2>1. PICK v \in VmIds : machines' = [machines EXCEPT ![q] = @ \cup {v}]
    BY <1>9 DEF RegisterLost
  <2>2. /\ UNCHANGED <<vm, vmids, ipStatus, ipVm, wfTodo, wfFailed>>
        /\ wfPc'[q] \in {"finalize", "error"} /\ \A p \in Pool \ {q} : wfPc'[p] = wfPc[p]
    BY <1>9 DEF RegisterLost, FinalizeAgain, WfStep, TypeOK
  <2>3. /\ machines'[q] = machines[q] \cup {v}
        /\ \A p \in Pool \ {q} : machines'[p] = machines[p]
    BY <2>1 DEF TypeOK
  <2>4. \A w : Recorded(q, w) => Recorded(q, w)'
    BY <1>1, <1>3, <2>2 DEF Recorded, Holds, Wanted
  <2>5. Settled(q)'
    BY <1>1, <1>4, <2>2, <2>3, <2>4 DEF Settled
  <2>6. Through(q)'
    BY <1>0, <1>1, <2>2 DEF Through
  <2> QED BY <1>2, <2>5, <2>6 DEF Whole
<1>10. CASE Cleanup(q)
  <2>1. PICK v \in VmIds :
          /\ First(wfTodo[q], v) /\ NextVm(q, v, TRUE)
          /\ vm' = vm \/ vm' = [vm EXCEPT ![v] = NoPool]
          /\ \E i \in IPs : /\ Paired(q, v, i)
                            /\ ipStatus' = [ipStatus EXCEPT ![i] = "unused"]
                            /\ ipVm' = [ipVm EXCEPT ![i] = NoVm]
          /\ vmids' = [vmids EXCEPT ![q] = @ \ {v}]
    BY <1>0, <1>10 DEF Cleanup
  <2>2. PICK i \in IPs : /\ Paired(q, v, i)
                         /\ ipStatus' = [ipStatus EXCEPT ![i] = "unused"]
                         /\ ipVm' = [ipVm EXCEPT ![i] = NoVm]
    BY <2>1
  <2>3. /\ machines' = machines
        /\ wfPc' = [wfPc EXCEPT ![q] = "finalize"] /\ wfPc'[q] = "finalize"
    BY <1>10 DEF Cleanup, WfStep, TypeOK
  <2>4. i \in alloc[q] /\ v \in wfTodo[q] /\ v \in wfVms[q] /\ vm[v] = q
    BY <1>4, <2>1, <2>2 DEF Paired, First
  <2>5. /\ vmids'[q] = vmids[q] \ {v}
        /\ wfTodo'[q] = wfTodo[q] \ {v} /\ wfFailed'[q] = wfFailed[q] \cup {v}
        /\ \A p \in Pool \ {q} : /\ vmids'[p] = vmids[p] /\ wfTodo'[p] = wfTodo[p]
                                 /\ wfFailed'[p] = wfFailed[p]
    BY <2>1 DEF NextVm, TypeOK
  <2>6. \A j \in IPs \ {i} : ipStatus'[j] = ipStatus[j] /\ ipVm'[j] = ipVm[j]
    BY <2>2 DEF TypeOK
  <2>7. \A w \in VmIds \ {v} : vm'[w] = vm[w]
    BY <2>1 DEF TypeOK
  <2>8. ASSUME NEW w \in wfVms[q], w # v, Recorded(q, w) PROVE Recorded(q, w)'
    <3>1. w \in vmids'[q]
      BY <2>5, <2>8 DEF Recorded
    <3> QED BY <1>0, <1>1, <2>2, <2>4, <2>6, <2>8, <3>1, RecordedStays
  <2>9. Settled(q)'
    BY <1>1, <1>4, <2>3, <2>5, <2>7, <2>8 DEF Settled
  <2>10. Through(q)'
    BY <1>0, <1>1, <2>3 DEF Through
  <2> QED BY <1>2, <2>9, <2>10 DEF Whole
<1> QED BY <1>5, <1>6, <1>7, <1>8, <1>9, <1>10

(* The entries of a request are from the IP pools it names.                 *)
LEMMA EntriesNext ==
    ASSUME TypeOK, [Next]_vars, \A p \in Pool : \A i \in alloc[p] : Wanted(p, i)
    PROVE  \A p \in Pool : \A i \in alloc'[p] : Wanted(p, i)
<1> USE DEF dbVars, actVars, wfVars, delVars, loopVars
<1>1. ASSUME NEW q \in Pool PROVE
        Create(q) => \A p \in Pool : alloc'[p] \in {alloc[p], {}, Allocated(p)}
  BY DEF Create, CreateAgain, CreateRow, CreateAllocate, CreateFlush, CreateAbort, CreateFail,
     CreateResume, CreateFinish, RetryActivity, EndActivity, TypeOK
<1>2. ASSUME NEW q \in Pool, Request(q) \/ RequestDelete(q) \/ Clone(q) \/ Delete(q)
      PROVE  UNCHANGED alloc
  BY <1>2 DEF Request, RequestDelete, Clone, CloneList, ClonePost, ClonePostFail,
     ClonePostLost, FinalizeBegin, FinalizeNoPool, FinalizeRecord, Register, RegisterLost,
     RegisterFail, RegisterCollision, Cleanup, BootAssign, BootFail, BootDone,
     Delete, DeleteBegin, DeleteVm, DeleteVmFail, DeleteGiveUp, DeleteVmsDone,
     DeleteMachine, DeleteRow
<1>3. CASE UNCHANGED vars
  BY <1>3 DEF vars
<1> QED BY <1>1, <1>2, <1>3, AllocatedWanted DEF Next, Finished

(* A deletion that was asked for stays so.                                  *)
LEMMA DeletesStay ==
    ASSUME TypeOK, [Next]_vars
    PROVE  \A p \in Pool : deletes[p] \in Nat /\ deletes'[p] \in Nat /\ deletes[p] <= deletes'[p]
<1>0. \A p \in Pool : deletes[p] \in Nat
  BY NumbersAssumption DEF TypeOK
<1> USE DEF dbVars, actVars, wfVars, delVars, loopVars
<1>1. ASSUME NEW q \in Pool, Request(q) \/ Create(q) \/ Clone(q) \/ Delete(q)
      PROVE  UNCHANGED deletes
  BY <1>1 DEF Request, Create, CreateAgain, CreateRow, CreateAllocate, CreateFlush,
     CreateAbort, CreateFail, CreateResume, CreateFinish, Clone, CloneList, ClonePost,
     ClonePostFail, ClonePostLost, FinalizeBegin, FinalizeNoPool, FinalizeRecord, Register,
     RegisterLost, RegisterFail, RegisterCollision, Cleanup, BootAssign, BootFail, BootDone,
     Delete, DeleteBegin, DeleteVm, DeleteVmFail, DeleteGiveUp, DeleteVmsDone,
     DeleteMachine, DeleteRow
<1>2. ASSUME NEW q \in Pool, RequestDelete(q)
      PROVE  \A p \in Pool : deletes'[p] = deletes[p] \/ deletes'[p] = deletes[p] + 1
  BY <1>2 DEF RequestDelete, TypeOK
<1>3. ASSUME UNCHANGED vars PROVE UNCHANGED deletes
  BY <1>3 DEF vars
<1>4. \/ UNCHANGED deletes
      \/ \A p \in Pool : deletes'[p] = deletes[p] \/ deletes'[p] = deletes[p] + 1
  BY <1>1, <1>2, <1>3 DEF Next, Finished
<1> QED BY <1>0, <1>4

(* Nothing that a request has completed is spoilt by a step of its own,      *)
(* nor by creations and deletions of other pools.                           *)
LEMMA CompleteNext ==
    ASSUME TypeOK, Lifecycle, OwnIpPools, Sparing, Complete, [Next]_vars
    PROVE  Complete'
<1> USE DEF dbVars, actVars, wfVars, delVars, loopVars
<1> SUFFICES ASSUME Tame', NEW p \in Pool, deletes'[p] = 0 PROVE Whole(p)'
  BY EntriesNext DEF Complete
<1>1. /\ Undeleted' => Undeleted
      /\ DeletedOnce' => DeletedOnce
      /\ deletes[p] = 0
  <2>1. \A q \in Pool : deletes'[q] <= 1 => deletes[q] <= 1
    BY DeletesStay
  <2>2. \A q \in Pool : deletes'[q] = 0 => deletes[q] = 0
    BY DeletesStay
  <2> QED BY <2>1, <2>2 DEF Undeleted, DeletedOnce
<1>2. Tame /\ Whole(p)
  BY <1>1 DEF Tame, Complete, Clean
<1>3. ASSUME UNCHANGED <<dbVars, vm, actVars, wfVars>> PROVE Whole(p)'
  <2>1. \A v, i : Paired(p, v, i)' = Paired(p, v, i)
    BY <1>3 DEF Paired
  <2>2. \A v : Recorded(p, v)' = Recorded(p, v)
    BY <1>3, <2>1 DEF Recorded, Holds
  <2> QED BY <1>2, <1>3, <2>2 DEF Whole, Live, Unborn, Fresh, Settled, Through, Batched
<1>4. ASSUME NEW q \in Pool, Request(q) \/ Create(q) \/ Clone(q) PROVE Whole(p)'
  <2>1. CASE p = q
    BY <1>2, <1>4, <2>1, CreateCompletes, FinishCompletes, ClonesComplete, FinalizedComplete
    DEF Create, Clone
  <2>2. CASE p # q
    <3>1. ASSUME Cleanup(q), NEW v \in VmIds, First(wfTodo[q], v) PROVE vm[v] = q
      <4>1. wfPc[q] = "cleanup"
        BY <3>1 DEF Cleanup, WfStep
      <4>2. Undeleted
        BY <1>2, <4>1 DEF Tame, Sparing, Owned
      <4>3. Settled(q) /\ Batched(q)
        BY <1>2, <4>1, <4>2 DEF Complete, Undeleted, Whole, Batched
      <4> QED BY <3>1, <4>3 DEF Settled, First
    <3>2. Apart(q)
      BY <1>4, <3>1, StepsApart
    <3>3. \A v \in VmIds : vm[v] = p => vm'[v] = p
      BY <2>2, <3>2 DEF Apart
    <3> QED BY <1>2, <2>2, <3>2, <3>3, OthersComplete DEF Apart, Complete
  <2> QED BY <2>1, <2>2
<1>5. ASSUME NEW q \in Pool, Delete(q) PROVE Whole(p)'
  <2>1. deletes[q] # 0
    BY <1>5 DEF Lifecycle, Delete, DelStep, DeleteBegin, DeleteVm, DeleteVmFail,
       DeleteGiveUp, DeleteVmsDone, DeleteMachine, DeleteRow
  <2>2. p # q /\ Owned /\ DeletedOnce
    BY <1>1, <1>2, <2>1 DEF Undeleted, Tame, Sparing
  <2> QED BY <1>2, <1>5, <2>2, DeletionKeeps
<1>6. ASSUME NEW q \in Pool, RequestDelete(q) PROVE Whole(p)'
  BY <1>3, <1>6 DEF RequestDelete
<1>7. CASE UNCHANGED vars
  BY <1>3, <1>7 DEF vars
<1> QED BY <1>4, <1>5, <1>6, <1>7 DEF Next, Finished

(* What a "created" answer promises holds for every number of requests whose *)
(* IP pools differ: each VM reported without an error exists, is registered, *)
(* is listed for deletion and has an IP of its own.  While nothing is        *)
(* deleted this includes collisions, retries and every fault; where no name  *)
(* collides and no completion of finalize is lost, other pools may be        *)
(* deleted meanwhile, each once, and their vmids be given out again.         *)
THEOREM CreatedAreComplete ==
    ASSUME OwnIpPools
    PROVE  Spec => [](Tame => CreatedIsComplete)
<1>1. TypeOK /\ Lifecycle /\ Sparing /\ Complete /\ [Next]_vars => (Sparing /\ Complete)'
  BY CompleteNext, SparingNext
<1>2. ASSUME TypeOK, Complete, Tame PROVE CreatedIsComplete
  <2> SUFFICES ASSUME NEW p \in Pool, outcome[p] = "created", deletes[p] = 0,
                      NEW v \in Ready(p)
               PROVE  /\ vm[v] = p /\ v \in machines[p] \cap vmids[p]
                      /\ \E i \in IPs : ipStatus[i] = "used" /\ ipVm[i] = v
    BY DEF CreatedIsComplete
  <2>1. Settled(p) /\ Through(p) /\ Batched(p)
    BY <1>2 DEF Complete, Whole, Batched
  <2>2. v \in wfVms[p] \ (wfFailed[p] \cup wfTodo[p])
    BY <2>1 DEF Ready, Through
  <2> QED BY <2>1, <2>2 DEF Settled, Recorded, Holds
<1>3. TypeOK /\ Complete => (Tame => CreatedIsComplete)
  BY <1>2
<1> QED BY <1>1, <1>3, SparingInit, CompleteInit, LifecycleCorrect, PTL DEF Spec

(* With one request at a time the promise needs no proviso.                  *)
THEOREM OneCreationIsComplete ==
    ASSUME \A p, q \in Pool : p = q
    PROVE  Spec => []CreatedIsComplete
<1>1. OwnIpPools
  BY DEF OwnIpPools
<1>2. (Tame => CreatedIsComplete) => CreatedIsComplete
  BY DEF Tame, Undeleted, CreatedIsComplete
<1> QED BY <1>1, <1>2, CreatedAreComplete, PTL

-----------------------------------------------------------------------------
(* UsedIpReclaimable is inductive together with Complete: a VM recorded with *)
(* an error stays so, for the request clones once.                          *)
NoneFailed == \A p \in Pool : wfFailed[p] = {}

Reclaimed(i) == \E p \in Pool : row[p] = "live" /\ ipVm[i] \in vmids[p]

Reclaim ==
    Undeleted /\ NoneFailed => \A i \in IPs : ipStatus[i] = "used" => Reclaimed(i)

(* At first no entry is used.                                               *)
LEMMA ReclaimInit == Init => Reclaim
BY DEF Init, Reclaim

(* Entries and lists that stay keep the entries within reach.               *)
LEMMA ReclaimStays ==
    ASSUME TypeOK, Reclaim, Undeleted, NoneFailed,
           \A p \in Pool : row[p] = "live" =>
              row'[p] = "live" /\ vmids[p] \subseteq vmids'[p],
           \A i \in IPs : ipStatus'[i] = "used" =>
              \/ ipStatus[i] = "used" /\ ipVm'[i] = ipVm[i]
              \/ Reclaimed(i)'
    PROVE  Reclaim'
BY DEF Reclaim, Reclaimed

(* No step of a creation uses an entry without listing the VM it names.      *)
LEMMA ReclaimNext ==
    ASSUME TypeOK, Lifecycle, OwnIpPools, Complete, Reclaim, [Next]_vars
    PROVE  Reclaim'
<1> USE DEF dbVars, actVars, wfVars, delVars, loopVars
<1> SUFFICES ASSUME Undeleted', NoneFailed' PROVE Reclaim'
  BY DEF Reclaim
<1>1. CASE UNCHANGED vars
  BY <1>1 DEF vars, Reclaim, Reclaimed, Undeleted, NoneFailed
<1>2. CASE \E p \in Pool : RequestDelete(p)
  BY <1>2 DEF RequestDelete, Undeleted, TypeOK
<1>3. ASSUME NEW p \in Pool, Delete(p) PROVE Reclaim'
  <2>1. delPc[p] # "idle" /\ deletes'[p] = deletes[p]
    BY <1>3 DEF Delete, DelStep, DeleteBegin, DeleteVm, DeleteVmFail, DeleteGiveUp,
       DeleteVmsDone, DeleteMachine, DeleteRow
  <2> QED BY <2>1 DEF Lifecycle, Undeleted
<1>4. ASSUME NEW p \in Pool, Request(p) \/ Create(p) \/ Clone(p) PROVE Reclaim'
  <2>1. Undeleted
    BY <1>4 DEF Undeleted, Create, Clone, Request, CreateAgain, CreateRow, CreateAllocate,
       CreateFlush, CreateAbort, CreateFail, CreateResume, CreateFinish, CloneList, ClonePost,
       ClonePostFail, ClonePostLost, FinalizeBegin, FinalizeNoPool, FinalizeRecord, Register,
       RegisterLost, RegisterFail, RegisterCollision, Cleanup, BootAssign, BootFail, BootDone
  <2>2. Live(p) /\ Settled(p) /\ Through(p) /\ (wfPc[p] # "idle" => pc[p] = "cloning")
    BY <2>1 DEF Complete, Tame, Undeleted, Whole, Lifecycle
  <2>3. CASE FinalizeNoPool(p) \/ Cleanup(p)
    <3>1. PICK v \in VmIds : NextVm(p, v, TRUE)
      BY <2>3 DEF FinalizeNoPool, Cleanup
    <3>2. v \in wfFailed'[p]
      BY <3>1 DEF NextVm, TypeOK
    <3> QED BY <3>2 DEF NoneFailed
  <2>4. CASE ClonePost(p)
    <3>1. NoneFailed /\ UNCHANGED <<row, vmids, ipStatus, ipVm>>
      BY <2>2, <2>4 DEF ClonePost, WfStep, NoneFailed, Live, Unborn, Fresh, TypeOK
    <3> QED BY <2>1, <3>1, ReclaimStays
  <2>5. CASE Request(p) \/ CreateAgain(p) \/ CreateAllocate(p) \/ CreateFlush(p)
             \/ CreateFail(p) \/ CreateResume(p) \/ CloneList(p) \/ ClonePostFail(p)
             \/ ClonePostLost(p) \/ FinalizeBegin(p) \/ Register(p) \/ RegisterLost(p)
             \/ RegisterFail(p) \/ RegisterCollision(p) \/ BootAssign(p) \/ BootFail(p)
             \/ BootDone(p)
    <3>1. UNCHANGED <<row, vmids, ipStatus, ipVm>> /\ NoneFailed
      BY <2>5 DEF Request, CreateAgain, CreateAllocate, CreateFlush, CreateFail,
         CreateResume, CloneList, ClonePostFail, ClonePostLost, FinalizeBegin, Register,
         RegisterLost, RegisterFail, RegisterCollision, BootAssign, BootFail, BootDone,
         NextVm, FinalizeAgain, NoneFailed, TypeOK
    <3> QED BY <2>1, <3>1, ReclaimStays
  <2>6. CASE CreateRow(p)
    <3>1. /\ \A q \in Pool : row[q] = "live" => row'[q] = "live" /\ vmids'[q] = vmids[q]
          /\ UNCHANGED <<ipStatus, ipVm>> /\ NoneFailed
      BY <2>6 DEF CreateRow, PoolExists, NoneFailed, TypeOK
    <3> QED BY <2>1, <3>1, ReclaimStays
  <2>7. CASE CreateAbort(p)
    <3>1. UNCHANGED <<row, vmids, ipVm, wfFailed>>
      BY <2>7 DEF CreateAbort
    <3>2. \A i \in IPs : ipStatus'[i] = "used" => ipStatus[i] = "used"
      BY <2>7 DEF CreateAbort
    <3> QED BY <2>1, <3>1, <3>2, ReclaimStays DEF NoneFailed
  <2>8. CASE CreateFinish(p)
    <3>1. UNCHANGED <<row, vmids, wfFailed>> /\ row[p] = "live" /\ Batched(p) /\ outcome[p] = "none"
          /\ wfTodo[p] = {} /\ wfFailed[p] = {}
      BY <2>2, <2>8 DEF CreateFinish, Live, Batched, Through, NoneFailed
    <3>2. ASSUME NEW i \in UsedIps(p) PROVE Reclaimed(i)'
      <4>1. PICK v \in wfVms[p] : Paired(p, v, i) /\ i \in alloc[p]
        BY DEF UsedIps
      <4>2. PICK j \in IPs : Holds(p, v, j) /\ v \in vmids[p]
        BY <2>2, <3>1 DEF Settled, Recorded
      <4>3. i = j
        BY <2>2, <3>1, <4>1, <4>2, PairedIp DEF Holds, Live, TypeOK
      <4>4. ipVm'[i] = v
        BY <2>8, <4>2, <4>3 DEF CreateFinish, Holds
      <4> QED BY <3>1, <4>2, <4>4 DEF Reclaimed
    <3>3. ASSUME NEW i \in IPs, i \notin alloc[p]
          PROVE  ipStatus'[i] = ipStatus[i] /\ ipVm'[i] = ipVm[i]
      BY <2>8, <3>3 DEF CreateFinish
    <3>4. \A i \in IPs : ipStatus'[i] = "used" => i \in UsedIps(p) \/ i \notin alloc[p]
      BY <2>8 DEF CreateFinish
    <3> QED BY <2>1, <3>1, <3>2, <3>3, <3>4, ReclaimStays DEF NoneFailed
  <2>9. CASE FinalizeRecord(p)
    <3>1. PICK v \in VmIds, i \in IPs :
               /\ ipStatus' = [ipStatus EXCEPT ![i] = "used"]
               /\ ipVm' = [ipVm EXCEPT ![i] = v]
               /\ VmidListed(p, v)
      BY <2>9 DEF FinalizeRecord
    <3>2. UNCHANGED <<row, wfFailed>> /\ row[p] = "live"
      BY <2>9 DEF FinalizeRecord
    <3>3. vmids'[p] = vmids[p] \cup {v} /\ \A q \in Pool \ {p} : vmids'[q] = vmids[q]
      BY <3>1 DEF VmidListed, TypeOK
    <3>4. \A j \in IPs \ {i} : ipStatus'[j] = ipStatus[j] /\ ipVm'[j] = ipVm[j]
      BY <3>1 DEF TypeOK
    <3>5. Reclaimed(i)'
      BY <3>1, <3>2, <3>3 DEF Reclaimed, TypeOK
    <3> QED BY <2>1, <3>2, <3>3, <3>4, <3>5, ReclaimStays DEF NoneFailed
  <2> QED BY <1>4, <2>3, <2>4, <2>5, <2>6, <2>7, <2>8, <2>9 DEF Create, Clone
<1> QED BY <1>1, <1>2, <1>3, <1>4 DEF Next, Finished

(* Neither a failed nor a repeated creation leaks an IP, for every number of *)
(* requests whose IP pools differ and every fault: while nothing was deleted *)
(* and no VM was given up, a used entry names a VM some pool lists.          *)
THEOREM UsedIpsAreReclaimable ==
    ASSUME OwnIpPools
    PROVE  Spec => []UsedIpReclaimable
<1>1. TypeOK /\ Lifecycle /\ Sparing /\ Complete /\ [Next]_vars => (Sparing /\ Complete)'
  BY CompleteNext, SparingNext
<1>2. TypeOK /\ Lifecycle /\ Complete /\ Reclaim /\ [Next]_vars => Reclaim'
  BY ReclaimNext
<1>3. Reclaim => UsedIpReclaimable
  BY DEF Reclaim, Reclaimed, Undeleted, NoneFailed, UsedIpReclaimable
<1> QED BY <1>1, <1>2, <1>3, SparingInit, CompleteInit, ReclaimInit, LifecycleCorrect, PTL DEF Spec

-----------------------------------------------------------------------------
(* No VM is left over: zip(vms, ip_list) stops silently at the shorter list. *)

(* In a finite set with a strict order, given by what is below each element, *)
(* an element has k others below it for each k less than their number.       *)
LEMMA Ranks ==
    ASSUME NEW S, IsFiniteSet(S), NEW below \in [S -> SUBSET S],
           \A x \in S : x \notin below[x],
           \A x, y \in S : x \in below[y] => below[x] \subseteq below[y],
           \A x, y \in S : x # y => x \in below[y] \/ y \in below[x],
           NEW k \in Nat, k < Cardinality(S)
    PROVE  \E x \in S : Cardinality(below[x]) = k
<1> DEFINE n == Cardinality(S)
           f == [x \in S |-> Cardinality(below[x])]
<1>1. n \in Nat
  BY FS_CardinalityType
<1>2. \A x \in S : IsFiniteSet(below[x]) /\ Cardinality(below[x]) \in Nat
  BY FS_Subset, FS_CardinalityType
<1>3. ASSUME NEW x \in S PROVE Cardinality(below[x]) < n
  <2>1. below[x] \in SUBSET S /\ below[x] # S
    OBVIOUS
  <2>2. Cardinality(below[x]) <= n /\ Cardinality(below[x]) # n
    BY <2>1, FS_Subset
  <2> QED BY <1>1, <1>2, <2>2
<1>4. ASSUME NEW x \in S, NEW y \in S, x \in below[y]
      PROVE  Cardinality(below[x]) # Cardinality(below[y])
  <2>1. below[x] \in SUBSET below[y] /\ below[x] # below[y]
    BY <1>4
  <2> QED BY <1>2, <2>1, FS_Subset
<1>5. f \in [S -> 0 .. n - 1]
  BY <1>1, <1>2, <1>3
<1>6. \A x, y \in S : x # y => f[x] # f[y]
  BY <1>4
<1>7. f \in Injection(S, 0 .. n - 1)
  <2> HIDE DEF f
  <2> QED BY <1>5, <1>6 DEF Injection, IsInjective
<1>8. IsFiniteSet(0 .. n - 1) /\ Cardinality(0 .. n - 1) = n
  <2>1. 0 \in Int /\ n - 1 \in Int
    BY <1>1
  <2>2. /\ IsFiniteSet(0 .. n - 1)
        /\ Cardinality(0 .. n - 1) = IF 0 > n - 1 THEN 0 ELSE n - 1 - 0 + 1
    BY <2>1, FS_Interval
  <2> QED BY <1>1, <2>2
<1>9. f \in Surjection(S, 0 .. n - 1)
  <2> HIDE DEF f, n
  <2> QED BY <1>7, <1>8, FS_Injection DEF n
<1>10. PICK x \in S : f[x] = k
  <2>1. k \in 0 .. n - 1
    BY <1>1
  <2> HIDE DEF f
  <2> QED BY <1>9, <2>1 DEF Surjection
<1> QED BY <1>10

(* Of the entries of a request there is one with k before it for each k.     *)
LEMMA EntryOfRank ==
    ASSUME NEW p \in Pool, NEW S \in SUBSET IPs, \A i \in S : Wanted(p, i),
           NEW k \in Nat, k < Cardinality(S)
    PROVE  \E i \in S : Cardinality({j \in S : Before(p, j, i)}) = k
<1> DEFINE below == [i \in S |-> {j \in S : Before(p, j, i)}]
<1>1. IsFiniteSet(S)
  BY NumbersAssumption, FS_Subset
<1>2. \A i \in S : i \in Nat /\ Position(p, i) \in Nat
  BY PositionType, NumbersAssumption
<1>3. below \in [S -> SUBSET S]
  OBVIOUS
<1>4. \A i \in S : i \notin below[i]
  BY <1>2 DEF Before
<1>5. \A i, j \in S : i \in below[j] => below[i] \subseteq below[j]
  BY <1>2 DEF Before
<1>6. \A i, j \in S : i # j => i \in below[j] \/ j \in below[i]
  BY <1>2 DEF Before
<1>7. PICK i \in S : Cardinality(below[i]) = k
  <2> HIDE DEF below
  <2> QED BY <1>1, <1>3, <1>4, <1>5, <1>6, Ranks
<1> QED BY <1>7

(* allocate_ips_across_pools takes exactly as many entries as it is asked    *)
(* for, of whatever IP pools; if there are too few, it takes what there is.  *)
THEOREM AllocationIsExact ==
    ASSUME NEW p \in Pool
    PROVE  /\ Cardinality(Unused(p)) >= Count[p] => Cardinality(Allocated(p)) = Count[p]
           /\ Cardinality(Unused(p)) < Count[p] => Allocated(p) = Unused(p)
<1> DEFINE U == Unused(p)
           Rank(i) == Cardinality({j \in U : Before(p, j, i)})
           f == [i \in Allocated(p) |-> Rank(i)]
<1>1. U \in SUBSET IPs /\ (\A i \in U : Wanted(p, i)) /\ IsFiniteSet(U)
  <2>1. U \in SUBSET IPs /\ \A i \in U : Wanted(p, i)
    BY DEF Unused, Wanted
  <2> QED BY <2>1, NumbersAssumption, FS_Subset
<1>2. Cardinality(U) \in Nat /\ Count[p] \in Nat
  BY <1>1, FS_CardinalityType, NumbersAssumption
<1>3. \A i : Rank(i) \in Nat /\ Rank(i) <= Cardinality(U)
  <2>1. \A i : {j \in U : Before(p, j, i)} \in SUBSET U
    OBVIOUS
  <2> HIDE DEF U
  <2> QED BY <1>1, <2>1, FS_Subset, FS_CardinalityType
<1>4. Allocated(p) = {i \in U : Rank(i) < Count[p]}
  BY DEF Allocated
<1> HIDE DEF U
<1>5. ASSUME Cardinality(U) < Count[p] PROVE Allocated(p) = U
  <2>1. \A i \in U : Rank(i) < Count[p]
    <3> HIDE DEF Rank
    <3> QED BY <1>2, <1>3, <1>5
  <2> QED BY <1>4, <2>1
<1>6. ASSUME Cardinality(U) >= Count[p] PROVE Cardinality(Allocated(p)) = Count[p]
  <2> DEFINE T == 0 .. Count[p] - 1
  <2>1. \A k \in T : \E i \in U : Rank(i) = k
    <3> SUFFICES ASSUME NEW k \in T PROVE \E i \in U : Rank(i) = k
      OBVIOUS
    <3>1. k \in Nat /\ k < Cardinality(U)
      BY <1>2, <1>6
    <3> QED BY <1>1, <3>1, EntryOfRank
  <2>2. \A i, j \in U : i # j => Rank(i) # Rank(j)
    BY <1>1, RankOfEntry
  <2> HIDE DEF Rank
  <2>3. f \in [Allocated(p) -> T]
    BY <1>2, <1>3, <1>4
  <2>4. \A k \in T : \E i \in Allocated(p) : f[i] = k
    <3> SUFFICES ASSUME NEW k \in T PROVE \E i \in Allocated(p) : f[i] = k
      OBVIOUS
    <3>1. PICK i \in U : Rank(i) = k
      BY <2>1
    <3>2. k < Count[p]
      BY <1>2
    <3> QED BY <1>4, <3>1, <3>2
  <2>5. \A i, j \in Allocated(p) : i # j => f[i] # f[j]
    BY <1>4, <2>2
  <2>6. IsFiniteSet(T) /\ Cardinality(T) = Count[p]
    <3>1. 0 \in Int /\ Count[p] - 1 \in Int
      BY <1>2
    <3>2. /\ IsFiniteSet(T)
          /\ Cardinality(T) = IF 0 > Count[p] - 1 THEN 0 ELSE Count[p] - 1 - 0 + 1
      BY <3>1, FS_Interval
    <3> QED BY <1>2, <3>2
  <2>7. IsFiniteSet(Allocated(p))
    BY <1>1, <1>4, FS_Subset
  <2> HIDE DEF f, T
  <2>8. f \in Surjection(Allocated(p), T) /\ f \in Injection(Allocated(p), T)
    BY <2>3, <2>4, <2>5 DEF Surjection, Injection, IsInjective
  <2> QED BY <2>6, <2>7, <2>8, FS_Surjection
<1> QED BY <1>5, <1>6 DEF U

(* create_pool_activity awaits its clone workflow with as many entries as it *)
(* asked for, and a batch has no more VMs than that.                        *)
Enough ==
    \A p \in Pool :
        /\ \A i \in alloc[p] : Wanted(p, i)
        /\ pc[p] \in {"cloning", "finish"} => Count[p] <= Cardinality(alloc[p])
        /\ wfPc[p] \notin {"idle", "clone"} \/ pc[p] = "finish" =>
              Cardinality(wfVms[p]) <= Count[p]

(* At first there is neither.                                               *)
LEMMA EnoughInit == Init => Enough
BY DEF Init, Enough

(* Neither the entries nor the batch changes while the workflow is awaited.  *)
LEMMA EnoughNext ==
    ASSUME TypeOK, Lifecycle, Enough, [Next]_vars
    PROVE  Enough'
<1> USE DEF dbVars, actVars, wfVars, delVars, loopVars, WfStep
<1>0. \A p \in Pool : \A i \in alloc'[p] : Wanted(p, i)
  BY EntriesNext DEF Enough
<1>1. \A p \in Pool : wfPc[p] # "idle" => pc[p] = "cloning"
  BY DEF Lifecycle
<1>2. ASSUME NEW p \in Pool, CreateFlush(p) PROVE Enough'
  <2>1. CASE Cardinality(alloc[p]) < Count[p]
    BY <1>0, <1>1, <1>2, <2>1 DEF CreateFlush, Enough, TypeOK
  <2>2. CASE ~(Cardinality(alloc[p]) < Count[p])
    <3>1. Cardinality(alloc[p]) \in Nat /\ Count[p] \in Nat
      <4>1. alloc[p] \in SUBSET IPs /\ IsFiniteSet(IPs)
        BY NumbersAssumption DEF TypeOK
      <4> QED BY <4>1, FS_Subset, FS_CardinalityType, NumbersAssumption
    <3>2. Count[p] <= Cardinality(alloc[p])
      BY <2>2, <3>1
    <3>3. /\ pc' = [pc EXCEPT ![p] = "cloning"] /\ wfPc' = [wfPc EXCEPT ![p] = "clone"]
          /\ UNCHANGED <<alloc, wfVms>>
      BY <1>2, <2>2 DEF CreateFlush
    <3> QED BY <1>0, <3>2, <3>3 DEF Enough, TypeOK
  <2> QED BY <2>1, <2>2
<1>3. ASSUME NEW p \in Pool, CreateAllocate(p) PROVE Enough'
  BY <1>0, <1>1, <1>3 DEF CreateAllocate, Enough, TypeOK
<1>4. ASSUME NEW p \in Pool,
             Request(p) \/ CreateAgain(p) \/ CreateRow(p) \/ CreateAbort(p) \/ CreateFail(p)
             \/ CreateResume(p) \/ CreateFinish(p)
      PROVE Enough'
  <2>1. /\ UNCHANGED wfVms
        /\ \A q \in Pool \ {p} : pc'[q] = pc[q] /\ alloc'[q] = alloc[q] /\ wfPc'[q] = wfPc[q]
        /\ \/ /\ pc'[p] \notin {"cloning", "finish"}
              /\ wfPc'[p] = "idle" \/ (wfPc'[p] = wfPc[p] /\ pc[p] # "cloning")
           \/ /\ pc[p] = "cloning" /\ wfPc[p] = "ok" /\ pc'[p] = "finish" /\ wfPc'[p] = "idle"
              /\ alloc'[p] = alloc[p]
    BY <1>4 DEF Request, CreateAgain, CreateRow, CreateAbort, CreateFail, CreateResume,
       CreateFinish, RetryActivity, EndActivity, TypeOK
  <2> QED BY <1>0, <1>1, <2>1 DEF Enough
<1>5. ASSUME NEW p \in Pool, CloneList(p) PROVE Enough'
  <2>1. PICK lowest \in SUBSET VmIds, chosen \in SUBSET VmIds :
            /\ chosen \subseteq lowest /\ Cardinality(lowest) = Count[p]
            /\ wfVms' = [wfVms EXCEPT ![p] = chosen]
    BY <1>5 DEF CloneList, FreeVmIds
  <2>2. Cardinality(chosen) <= Count[p]
    BY <2>1, FewerVms
  <2>3. UNCHANGED <<pc, alloc>> /\ wfPc[p] = "clone" /\ wfPc' = [wfPc EXCEPT ![p] = "post"]
    BY <1>5 DEF CloneList
  <2> QED BY <1>0, <1>1, <2>1, <2>2, <2>3 DEF Enough, TypeOK
<1>6. ASSUME NEW p \in Pool, Clone(p), ~CloneList(p) PROVE Enough'
  <2>1. /\ UNCHANGED <<pc, alloc, wfVms>>
        /\ \A q \in Pool \ {p} : wfPc'[q] = wfPc[q]
        /\ wfPc[p] \notin {"idle", "clone"}
    BY <1>6 DEF Clone, ClonePost, ClonePostFail, ClonePostLost, FinalizeBegin, FinalizeNoPool,
       FinalizeRecord, Register, RegisterLost, RegisterFail, RegisterCollision, Cleanup,
       BootAssign, BootFail, BootDone, FinalizeAgain, TypeOK
  <2> QED BY <1>0, <2>1 DEF Enough
<1>7. ASSUME NEW p \in Pool, RequestDelete(p) \/ Delete(p) PROVE Enough'
  <2>1. UNCHANGED <<pc, alloc, wfPc, wfVms>>
    BY <1>7 DEF RequestDelete, Delete, DeleteBegin, DeleteVm, DeleteVmFail, DeleteGiveUp,
       DeleteVmsDone, DeleteMachine, DeleteRow
  <2> QED BY <1>0, <2>1 DEF Enough
<1>8. CASE UNCHANGED vars
  BY <1>0, <1>8 DEF Enough, vars
<1> QED BY <1>2, <1>3, <1>4, <1>5, <1>6, <1>7, <1>8 DEF Next, Finished, Create

(* Each VM of a batch has one entry, which is no other VM's.                 *)
Zipped(p) ==
    \A v \in wfVms[p] : \E i \in alloc[p] :
        /\ Paired(p, v, i)
        /\ \A j \in alloc[p] : Paired(p, v, j) => j = i
        /\ \A w \in wfVms[p] : Paired(p, w, i) => w = v

(* CloneVMWorkflow's zip of the cloned VMs with the allocated entries drops  *)
(* none of the VMs: from their cloning until the answer each has one entry    *)
(* and shares it with no other VM of the batch, under every fault, however   *)
(* often activities are retried and whatever other requests do.             *)
THEOREM NoVmIsLeftOver ==
    Spec => [](\A p \in Pool : wfPc[p] \notin {"idle", "clone"} \/ pc[p] = "finish" => Zipped(p))
<1>1. TypeOK /\ Lifecycle /\ Enough /\ [Next]_vars => Enough'
  BY EnoughNext
<1>2. ASSUME TypeOK, Lifecycle, Enough, NEW p \in Pool,
             wfPc[p] \notin {"idle", "clone"} \/ pc[p] = "finish"
      PROVE  Zipped(p)
  <2>1. /\ wfVms[p] \in SUBSET VmIds /\ alloc[p] \in SUBSET IPs
        /\ \A i \in alloc[p] : Wanted(p, i)
        /\ Cardinality(wfVms[p]) <= Count[p] /\ Count[p] <= Cardinality(alloc[p])
    BY <1>2 DEF Enough, Lifecycle, TypeOK
  <2>2. ASSUME NEW v \in wfVms[p] PROVE \E i \in alloc[p] : Paired(p, v, i)
    <3> DEFINE k == Cardinality({w \in wfVms[p] : w < v})
    <3>1. k \in Nat /\ k < Cardinality(wfVms[p]) /\ Cardinality(wfVms[p]) \in Nat
      <4>1. {w \in wfVms[p] : w < v} \in SUBSET wfVms[p] /\ v \notin {w \in wfVms[p] : w < v}
        <5>1. v \in Nat
          BY <2>1, NumbersAssumption
        <5>2. ~(v < v)
          BY <5>1
        <5> QED BY <5>2
      <4>2. IsFiniteSet(wfVms[p])
        BY <2>1, NumbersAssumption, FS_Subset
      <4>3. IsFiniteSet({w \in wfVms[p] : w < v}) /\ k <= Cardinality(wfVms[p])
            /\ k # Cardinality(wfVms[p])
        BY <4>1, <4>2, FS_Subset
      <4>4. k \in Nat /\ Cardinality(wfVms[p]) \in Nat
        BY <4>2, <4>3, FS_CardinalityType
      <4> QED BY <4>3, <4>4
    <3>2. Cardinality(alloc[p]) \in Nat /\ Count[p] \in Nat
      BY <2>1, NumbersAssumption, FS_Subset, FS_CardinalityType
    <3>3. k < Cardinality(alloc[p])
      <4> HIDE DEF k
      <4> QED BY <2>1, <3>1, <3>2
    <3>4. PICK i \in alloc[p] : Cardinality({j \in alloc[p] : Before(p, j, i)}) = k
      <4> HIDE DEF k
      <4> QED BY <2>1, <3>1, <3>3, EntryOfRank
    <3> QED BY <3>4 DEF Paired
  <2> QED BY <2>1, <2>2, PairedVm, PairedIp DEF Zipped
<1>3. TypeOK /\ Lifecycle /\ Enough =>
        \A p \in Pool : wfPc[p] \notin {"idle", "clone"} \/ pc[p] = "finish" => Zipped(p)
  BY <1>2
<1> QED BY <1>1, <1>3, EnoughInit, LifecycleCorrect, PTL DEF Spec
=============================================================================
