---------------------------- MODULE MCPoolMachines ----------------------------
(* Instances of PoolProvisioning and MachineControl for TLC.  A machine is   *)
(* rebuilt or powered once its pool is made, and the two share no variable,  *)
(* so each is explored while the other rests in one of its initial states.   *)
EXTENDS MCPoolProvisioning, MCMachineControl

VARIABLE moving  \* which of the two

ControlRests ==
    /\ \A v \in Vm : vmState[v] = "off" /\ creation[v] = "COMPLETED"
    /\ asks = Users(NoMachine, Actions, 1)

(* A restart finds the machine's creation running, or its rebuild, not both. *)
OneFlow ==
    asks.restarts > 0 =>
        \A v \in Vm : creation[v] = "COMPLETED" \/ v \notin {of[r] : r \in Rebuild}

PoolMachinesInit ==
    /\ Init
    /\ ControlInit
    /\ \/ moving = "pool" /\ ControlRests
       \/ moving = "machines" /\ OneFlow

PoolMachinesNext ==
    /\ \/ moving = "pool" /\ Next /\ UNCHANGED controlVars
       \/ moving = "machines" /\ ControlNext /\ UNCHANGED vars
    /\ UNCHANGED moving

(* The fairness of FairSpec or of ControlFairSpec.                          *)
PoolMachinesFairness ==
    /\ \A p \in Pool :
        /\ WF_vars(moving = "pool" /\ Create(p))
        /\ WF_vars(moving = "pool" /\ Clone(p))
        /\ WF_vars(moving = "pool" /\ Delete(p))
    /\ \A r \in Rebuild :
        /\ WF_controlVars(moving = "machines" /\ HandlerStep(r))
        /\ WF_controlVars(moving = "machines" /\ WorkflowStep(r))
    /\ \A v \in Vm :
        /\ WF_controlVars(moving = "machines" /\ CloneEnds(v))
        /\ WF_controlVars(moving = "machines" /\ CreationEnds(v))
        /\ WF_controlVars(moving = "machines" /\ (PollSees(v) \/ PollMisses(v)))
        /\ WF_controlVars(moving = "machines" /\ PollStep(v))
        /\ SF_controlVars(moving = "machines" /\ PollSees(v))

PoolMachinesSpec ==
    /\ PoolMachinesInit
    /\ [][PoolMachinesNext]_<<vars, controlVars, moving>>
    /\ PoolMachinesFairness
=============================================================================
