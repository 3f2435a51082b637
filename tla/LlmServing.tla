------------------------------ MODULE LlmServing ------------------------------
(***************************************************************************)
(* What the machines of an LLM pool are made to serve: phases 2.5 to 8 of   *)
(* CreateMultiNodeLLMWorkflow, and PoolVMActionWorkflow, which users may    *)
(* start as soon as the row has its vmids, even while the former is at      *)
(* work.                                                                    *)
(*                                                                          *)
(* A phase runs one activity per machine, and the workflow raises when the  *)
(* first of them does; the others go on.  The first machine is the head:    *)
(* Ray and vLLM are reached there, and it exports the model.                *)
(***************************************************************************)
EXTENDS Naturals, Sequences

CONSTANTS
    PowerRequests,
    Pools,        \* bound: the pools looked at
    MaxUpsets     \* bound: what goes wrong by itself

ASSUME ServingAssumption ==
    /\ "setup" \notin PowerRequests
    /\ Pools \subseteq [nodes : Nat \ {0}, harbor : BOOLEAN, bare : BOOLEAN]
    /\ MaxUpsets \in Nat

VARIABLES
    pool,       \* one of Pools: does its model come from Harbor, and has
                \* its template no model that vLLM would find
    shown,      \* status of the row
    wanted,     \* what each workflow is for: a power action, or setup
    at,         \* phase of each workflow
    todo,       \* machines whose activity of that phase has not ended
    step,       \* where each workflow's launch of vLLM is
    stray,      \* activities of workflows that have failed
    \* the machines
    up,         \* those that run
    rebooting,  \* those that were told to reboot and have not yet
    badGpu,     \* those whose driver does not answer
    disk,       \* the volume for the model
    shared, mounted,   \* the export of the head, and who has mounted it
    ray,        \* those with an enabled Ray service
    vllm,       \* the model that the process on the head has loaded
    upsets,
    \* auxiliary: workflows that were not alone, whether the last one to
    \* end well was, and whether a status can stay for ever
    crowded, alone, stuck

workflowVars == <<wanted, at, todo, step, stray>>
machineVars == <<up, rebooting, badGpu, vllm>>
diskVars == <<disk, shared, mounted, ray>>
outcomeVars == <<shown, crowded, alone, stuck>>
servingVars == <<pool, workflowVars, machineVars, diskVars, outcomeVars, upsets>>

Flow == PowerRequests \cup {"setup"}
RayHead == 1
Node == 1 .. pool.nodes
Worker == Node \ {RayHead}

PowerActions == {"start", "restart", "stop"}
PendingOf == [start |-> "starting", restart |-> "restarting", stop |-> "stopping",
              setup |-> "provisioning"]
EndOf == [start |-> "running", restart |-> "running", stop |-> "stopped",
          setup |-> "running"]
FailureOf == [start |-> "start_failed", restart |-> "restart_failed",
              stop |-> "stop_failed", setup |-> "failed"]

(* What a workflow does, in order.                                          *)
If(cond, phases) == IF cond THEN phases ELSE <<>>

PreparePhases ==
    <<"configure", "gpu">>
    \o If(pool.harbor,
          <<"volume", "pull">> \o If(Worker # {}, <<"share", "mount">>) \o <<"configure">>)

ServePhases ==
    <<"affinity", "head">> \o If(Worker # {}, <<"workers">>)
    \o <<"count", "telegraf", "launch", "end">>

PowerPhases(kind) ==
    <<"power">>
    \o If(kind # "stop", If(Worker # {}, <<"services">>) \o <<"launch">>)
    \o <<"end">>

Phases(kind) == IF kind = "setup" THEN PreparePhases \o ServePhases ELSE PowerPhases(kind)

Where(phase) ==
    CASE phase \in {"configure", "gpu", "affinity", "telegraf", "power"} -> Node
      [] phase \in {"mount", "workers", "services"} -> Worker
      [] OTHER -> {RayHead}

Phase(f) == Phases(wanted[f])[at[f]]
Running(f) == at[f] # 0

(* A pool whose machines were cloned just now, or one that was set up and    *)
(* stopped long ago.                                                        *)
NewPool ==
    /\ shown = "provisioning"
    /\ at = [f \in Flow |-> IF f = "setup" THEN 1 ELSE 0]
    /\ todo = [f \in Flow |-> IF f = "setup" THEN Node ELSE {}]
    /\ up = Node
    /\ disk = "none" /\ shared = FALSE /\ mounted = {} /\ ray = {}

StoppedPool ==
    /\ shown = "stopped"
    /\ at = [f \in Flow |-> 0] /\ todo = [f \in Flow |-> {}]
    /\ up = {}
    /\ disk = (IF pool.harbor THEN "filled" ELSE "none")
    /\ shared = (pool.harbor /\ Worker # {})
    /\ mounted = (IF pool.harbor THEN Worker ELSE {})
    /\ ray = Node

ServingInit ==
    /\ pool \in Pools
    /\ NewPool \/ StoppedPool
    /\ wanted = [f \in Flow |-> IF f = "setup" THEN "setup" ELSE "start"]
    /\ step = [f \in Flow |-> "none"]
    /\ stray = {}
    /\ rebooting = {} /\ badGpu = {}
    /\ vllm = "none"
    /\ upsets = 0
    /\ crowded = {} /\ alone = TRUE /\ stuck = FALSE

Upset == upsets < MaxUpsets /\ upsets' = upsets + 1

-----------------------------------------------------------------------------
(* The machines.                                                            *)

(* vLLM spans all of them, so it dies with any; the services come back with *)
(* their machine.  A driver may be well again after a reboot.  A worker     *)
(* mounts its share again if the head is there to answer.                   *)
Boot(n) ==
    /\ up' = up \cup {n}
    /\ rebooting' = rebooting \ {n}
    /\ vllm' = "none"
    /\ badGpu' \in {badGpu, badGpu \ {n}}
    /\ mounted' = IF n = RayHead \/ RayHead \in up THEN mounted ELSE mounted \ {n}

Reboots(n) ==
    /\ n \in rebooting \cap up
    /\ Boot(n)
    /\ UNCHANGED <<pool, workflowVars, disk, shared, ray, outcomeVars, upsets>>

(* A GPU that was passed through to a first boot: until the head is rebooted *)
(* before the launch, and the others for good.                              *)
GpuBreaks(n) ==
    /\ Running("setup") /\ Phase("setup") \notin {"launch", "end"}
    /\ n \notin badGpu
    /\ Upset
    /\ badGpu' = badGpu \cup {n}
    /\ UNCHANGED <<pool, workflowVars, up, rebooting, vllm, diskVars, outcomeVars>>

(* Where _build_vllm_commands looks for the model: what /etc/environment     *)
(* names if it is there, then what the volume has.                          *)
Model == IF ~pool.bare THEN "own" ELSE IF disk = "filled" THEN "pulled" ELSE "none"

Serves ==
    /\ vllm # "none"
    /\ up = Node /\ badGpu = {}
    /\ Worker # {} => ray = Node
    /\ vllm = "pulled" => mounted = Worker

-----------------------------------------------------------------------------
(* The activities, other than the launch of vLLM.                           *)

Stays == UNCHANGED <<machineVars, diskVars>>

Switch(n, a) ==
    /\ \/ a = "start" /\ n \in up /\ UNCHANGED <<up, rebooting, vllm, badGpu, mounted>>
       \/ a = "start" /\ n \notin up /\ Boot(n)
       \* The machine still runs when it is asked whether it runs again.
       \/ /\ a = "restart" /\ n \in up
          /\ rebooting' = rebooting \cup {n}
          /\ UNCHANGED <<up, vllm, badGpu, mounted>>
       \/ /\ a = "stop"
          /\ up' = up \ {n} /\ rebooting' = rebooting \ {n} /\ vllm' = "none"
          /\ UNCHANGED <<badGpu, mounted>>
    /\ UNCHANGED <<disk, shared, ray>>

(* One reboot at most.                                                      *)
CheckGpu(n) ==
    \/ n \in up \ badGpu /\ Stays
    \/ n \in up \cap badGpu /\ Boot(n) /\ n \notin badGpu'
       /\ UNCHANGED <<disk, shared, ray>>

CountGpus == up \cap ray = Node /\ badGpu = {} /\ Stays

Configure(n) == n \in up \ badGpu /\ Stays

ProvisionVolume(n) ==
    /\ n \in up /\ disk' = "mounted"
    /\ UNCHANGED <<machineVars, shared, mounted, ray>>

PullModel(n) ==
    /\ n \in up /\ disk' = "filled"
    /\ UNCHANGED <<machineVars, shared, mounted, ray>>

ShareModel(n) ==
    /\ n \in up /\ shared' = TRUE
    /\ UNCHANGED <<machineVars, disk, mounted, ray>>

MountModel(n) ==
    /\ {n, RayHead} \subseteq up /\ shared /\ mounted' = mounted \cup {n}
    /\ UNCHANGED <<machineVars, disk, shared, ray>>

(* A worker's Ray joins the head's.                                         *)
ConfigureRay(n) ==
    /\ {n, RayHead} \subseteq up /\ (n # RayHead => RayHead \in ray)
    /\ ray' = ray \cup {n}
    /\ UNCHANGED <<machineVars, disk, shared, mounted>>

RayAnswers(n) == n \in up \cap ray /\ Stays

ConfigureTelegraf(n) == n \in up /\ Stays

AddAffinityRule == Stays

(* What an activity does when it ends well.                                 *)
Does(phase, n, a) ==
    CASE phase = "configure" -> Configure(n)
      [] phase = "gpu" -> CheckGpu(n)
      [] phase = "volume" -> ProvisionVolume(n)
      [] phase = "pull" -> PullModel(n)
      [] phase = "share" -> ShareModel(n)
      [] phase = "mount" -> MountModel(n)
      [] phase = "affinity" -> AddAffinityRule
      [] phase \in {"head", "workers"} -> ConfigureRay(n)
      [] phase = "count" -> CountGpus
      [] phase = "telegraf" -> ConfigureTelegraf(n)
      [] phase = "power" -> Switch(n, a)
      [] phase = "services" -> RayAnswers(n)
      [] OTHER -> FALSE

-----------------------------------------------------------------------------
(* The workflows.                                                           *)

(* The next phase begins when the last activity of this one has ended.      *)
Completes(f, n) ==
    LET rest == todo[f] \ {n}
        next == Phases(wanted[f])[at[f] + 1]
    IN /\ todo' = [todo EXCEPT ![f] = IF rest = {} THEN Where(next) ELSE rest]
       /\ at' = IF rest = {} THEN [at EXCEPT ![f] = @ + 1] ELSE at

At(f, n) == Running(f) /\ n \in todo[f] /\ Phase(f) # "end"

Task(f, n) ==
    /\ At(f, n)
    /\ Does(Phase(f), n, wanted[f])
    /\ Completes(f, n)
    /\ UNCHANGED <<pool, wanted, step, stray, outcomeVars, upsets>>

(* After its last attempt; it may have done what it was for, or half of it. *)
TaskFails(f, n) ==
    /\ At(f, n)
    /\ \/ Stays
       \/ Does(Phase(f), n, wanted[f])
       \/ /\ Phase(f) \in {"gpu", "launch"} /\ n \in up
          /\ Boot(n) /\ UNCHANGED <<disk, shared, ray>>
    /\ step' = [step EXCEPT ![f] = "failed"]
    /\ todo' = [todo EXCEPT ![f] = {}]
    /\ stray' = stray \cup {[phase |-> Phase(f), action |-> wanted[f], on |-> m] :
                               m \in todo[f] \ {n}}
    /\ UNCHANGED <<pool, wanted, at, outcomeVars, upsets>>

StrayEnds(s) ==
    /\ s \in stray
    /\ stray' = stray \ {s}
    /\ Stays \/ Does(s.phase, s.on, s.action)
    /\ UNCHANGED <<pool, wanted, at, todo, step, outcomeVars, upsets>>

-----------------------------------------------------------------------------
(* launch_vllm_from_template_activity, and the head's part of               *)
(* restore_llm_services_activity.                                           *)

LaunchStep(f, from, to) ==
    /\ Running(f) /\ Phase(f) = "launch"
    /\ step[f] = from /\ RayHead \in up
    /\ step' = [step EXCEPT ![f] = to]
    /\ UNCHANGED <<pool, wanted, stray, outcomeVars>>

Remains == UNCHANGED <<at, todo>>

Prepare(f) ==
    /\ LaunchStep(f, "none", "script")
    /\ \/ f = "setup" /\ Boot(RayHead) /\ RayHead \notin badGpu'
       \/ f # "setup" /\ RayHead \in ray /\ UNCHANGED <<machineVars, mounted>>
    /\ Remains
    /\ UNCHANGED <<disk, shared, ray, upsets>>

(* Whatever ran is killed first.                                            *)
Script(f) ==
    /\ \E from \in {"script", "again"} : LaunchStep(f, from, "poll")
    /\ Model # "none" /\ vllm' = Model
    /\ Remains
    /\ UNCHANGED <<up, rebooting, badGpu, diskVars, upsets>>

(* The channel closes before or after the process is started.  A launch     *)
(* looks whether it was, and does it again; that its second channel closed  *)
(* it does not see, for run_commands raises nothing.  In a restart the next *)
(* command on the closed connection raises.                                 *)
ScriptDrops(f) ==
    /\ Upset
    /\ \/ f = "setup" /\ LaunchStep(f, "script", "verify")
       \/ f # "setup" /\ LaunchStep(f, "script", "failing")
       \/ LaunchStep(f, "again", IF Model = "none" THEN "unseen" ELSE "poll")
    /\ vllm' \in {vllm, "none", Model}
    /\ IF step'[f] = "unseen" THEN Completes(f, RayHead) ELSE Remains
    /\ UNCHANGED <<up, rebooting, badGpu, diskVars>>

Verify(f) ==
    /\ LaunchStep(f, "verify", IF vllm = "none" THEN "again" ELSE "poll")
    /\ Remains /\ Stays
    /\ UNCHANGED upsets

PollOnce(f) == LaunchStep(f, "poll", "polled") /\ Completes(f, RayHead)
               /\ Stays /\ UNCHANGED upsets              \* mutant of Poll

(* A machine that is still to reboot will end what was seen here.           *)
Poll(f) ==
    /\ LaunchStep(f, "poll", IF rebooting = {} THEN "polled" ELSE "unseen")
    /\ Serves
    /\ Completes(f, RayHead)
    /\ Stays /\ UNCHANGED upsets

(* A channel that closes while it polls passes for an answer.               *)
PollDrops(f) ==
    /\ Upset
    /\ LaunchStep(f, "poll", "unseen")
    /\ Completes(f, RayHead)
    /\ Stays

Launch(f) ==
    \/ Prepare(f) \/ Script(f) \/ ScriptDrops(f) \/ Verify(f) \/ Poll(f) \/ PollDrops(f)

-----------------------------------------------------------------------------
(* The row.                                                                 *)

RowStep(f, end) ==
    /\ at' = [at EXCEPT ![f] = 0]
    /\ todo' = [todo EXCEPT ![f] = {}]
    /\ step' = [step EXCEPT ![f] = end]
    /\ Stays
    /\ UNCHANGED <<pool, wanted, stray, crowded, upsets>>

Ends(f) ==
    /\ Running(f) /\ Phase(f) = "end" /\ todo[f] # {}
    /\ RowStep(f, "ended")
    /\ shown' = EndOf[wanted[f]]
    /\ alone' = (f \notin crowded /\ stray = {} /\ step[f] # "unseen")
    /\ UNCHANGED stuck

(* The update failed, and the other one, of the except clause, may.         *)
EndFails(f) ==
    /\ Running(f) /\ Phase(f) = "end" /\ todo[f] # {}
    /\ Upset
    /\ step' = [step EXCEPT ![f] = "failed"]
    /\ todo' = [todo EXCEPT ![f] = {}]
    /\ Stays
    /\ UNCHANGED <<pool, wanted, at, stray, outcomeVars>>

TellsNobody(f) == UNCHANGED shown                         \* mutant of Tells

Tells(f) == shown' = FailureOf[wanted[f]]

Fails(f) ==
    /\ Running(f) /\ step[f] = "failed"
    /\ RowStep(f, "ended")
    /\ Tells(f)
    /\ UNCHANGED <<alone, stuck>>

FailsSilently(f) ==
    /\ Running(f) /\ step[f] = "failed"
    /\ upsets < MaxUpsets
    /\ RowStep(f, "ended")
    /\ stuck' = TRUE
    /\ UNCHANGED <<shown, alone>>

(* pool_vm_action looks at the vmids only, never at the status.             *)
AsksPower(p, a) ==
    /\ ~Running(p) /\ step[p] = "none"
    /\ wanted' = [wanted EXCEPT ![p] = a]
    /\ shown' = PendingOf[a]
    /\ UNCHANGED <<pool, stray, machineVars, diskVars, alone>>

AskPower(p, a) ==
    /\ AsksPower(p, a)
    /\ at' = [at EXCEPT ![p] = 1]
    /\ todo' = [todo EXCEPT ![p] = Node]
    /\ LET others == {f \in Flow : Running(f)}
       IN crowded' = IF others # {} THEN crowded \cup others \cup {p}
                     ELSE IF stray # {} THEN crowded \cup {p} ELSE crowded
    /\ UNCHANGED <<step, stuck, upsets>>

(* The workflow cannot be started: the row is not told.                     *)
PowerStartFails(p, a) ==
    /\ AsksPower(p, a)
    /\ Upset
    /\ step' = [step EXCEPT ![p] = "ended"]
    /\ stuck' = TRUE
    /\ UNCHANGED <<at, todo, crowded>>

-----------------------------------------------------------------------------
FlowStep(f) ==
    \/ \E n \in Node : Task(f, n) \/ TaskFails(f, n)
    \/ Launch(f)
    \/ Ends(f) \/ EndFails(f) \/ Fails(f) \/ FailsSilently(f)

(* The end of the last request: no deadlock.                                *)
NothingLeft ==
    /\ stray = {} /\ \A f \in Flow : ~Running(f)
    /\ UNCHANGED servingVars

ServingNext ==
    \/ \E f \in Flow : FlowStep(f)
    \/ NothingLeft
    \/ \E s \in stray : StrayEnds(s)
    \/ \E n \in Node : Reboots(n) \/ GpuBreaks(n)
    \/ \E p \in PowerRequests, a \in PowerActions : AskPower(p, a) \/ PowerStartFails(p, a)

(* Activities end or are timed out, and workflows go on.                    *)
ServingFairness == \A f \in Flow : WF_servingVars(FlowStep(f))

ServingSpec == ServingInit /\ [][ServingNext]_servingVars
ServingFairSpec == ServingSpec /\ ServingFairness

-----------------------------------------------------------------------------
(* Properties.                                                              *)

ServingTypeOK ==
    /\ pool \in Pools
    /\ shown \in {"provisioning", "running", "failed", "starting", "start_failed",
                  "restarting", "restart_failed", "stopping", "stop_failed", "stopped"}
    /\ wanted \in [Flow -> PowerActions \cup {"setup"}]
    /\ at \in [Flow -> Nat] /\ todo \in [Flow -> SUBSET Node]
    /\ step \in [Flow -> {"none", "script", "verify", "again", "poll", "polled", "unseen",
                          "failing", "failed", "ended"}]
    /\ up \subseteq Node /\ rebooting \subseteq up /\ badGpu \subseteq Node
    /\ disk \in {"none", "mounted", "filled"} /\ shared \in BOOLEAN
    /\ mounted \subseteq Worker /\ ray \subseteq Node
    /\ vllm \in {"none", "own", "pulled"}
    /\ upsets \in 0 .. MaxUpsets
    /\ crowded \subseteq Flow /\ alone \in BOOLEAN /\ stuck \in BOOLEAN

(* launch_vllm_from_template_activity, restore_llm_services_activity,       *)
(* vm_power_action_activity: a pool shown as running serves a model from     *)
(* all its machines, and the one it was made for if that came from Harbor    *)
(* and /etc/environment of the template names no other; one shown as         *)
(* stopped has no machine that runs.  Unless two workflows were at work on   *)
(* it at once, the health poll was cut off, or a machine reboots late.       *)
ShownIsTrue ==
    alone =>
        /\ shown = "running" =>
              Serves /\ (pool.harbor /\ pool.bare => vllm = "pulled")
        /\ shown = "stopped" => up = {}

(* PoolVMActionWorkflow.run: 'Without this, a failure partway through leaves *)
(* the DB status stuck on the pending value forever': a status that names   *)
(* something under way does not stay.                                       *)
OperationEnds ==
    shown \in {PendingOf[k] : k \in DOMAIN PendingOf}
      ~> stuck \/ shown \notin {PendingOf[k] : k \in DOMAIN PendingOf}
=============================================================================
