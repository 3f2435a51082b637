----------------------------- MODULE MCLlmPools -----------------------------
(* Instances of LlmInference and LlmServing for TLC.  They share no variable, *)
(* so each is explored while the other rests in one of its initial states.   *)
EXTENDS MCLlmInference, MCLlmServing

VARIABLE moving  \* which of the two

LlmPoolsInit ==
    /\ Init
    /\ ServingInit
    /\ \/ moving = "machines" /\ StoppedPool /\ pool = SmallPool
       \/ moving = "services"

(* Bounds: the second pool is started while nothing else is asked for, and  *)
(* two things happen to a pool of one machine, one to a pool of two.        *)
OneRequest ==
    power'[j2]["start"] = "none" \/ (del'[d1] = "none" /\ power'[j1]["stop"] = "none")
FewUpsets == upsets' + pool'.nodes <= 3

LlmPoolsNext ==
    /\ \/ moving = "machines" /\ Next /\ UNCHANGED servingVars
       \/ moving = "services" /\ ServingNext /\ UNCHANGED vars
    /\ UNCHANGED moving
    /\ OneRequest /\ FewUpsets

(* The fairness of FairSpec, for the pools that ProvisioningEnds speaks of,  *)
(* or of ServingFairSpec.                                                   *)
LlmPoolsFairness ==
    /\ \A j \in {k \in Job : "update_failed" \notin Faults[k]} :
        /\ WF_vars(moving = "machines" /\ Workflow(j))
        /\ \A i \in Slots(j) : WF_vars(moving = "machines" /\ CloneVm(j, i))
    /\ \A f \in Flow : WF_servingVars(moving = "services" /\ FlowStep(f))

LlmPoolsSpec ==
    /\ LlmPoolsInit
    /\ [][LlmPoolsNext]_<<vars, servingVars, moving>>
    /\ LlmPoolsFairness
=============================================================================
