--------------------------- MODULE MachineControl ---------------------------
(***************************************************************************)
(* Power, rebuild and status of the machines of an Automated pool on       *)
(* Proxmox: the requests of proxmoxService.py, their workflows and         *)
(* activities, and the poller that runs every minute.                      *)
(*                                                                         *)
(* What is known of a machine is kept in its row: workflow_status, a       *)
(* dictionary of the workflows it depends on, status, their summary, and   *)
(* error_message, which doubles as the power state shown.  The request     *)
(* handlers and the poller run in different threads with a session each,   *)
(* and write back what they read before an await: the whole dictionary,    *)
(* the other columns only where the value differs from what was read.      *)
(***************************************************************************)
EXTENDS Naturals

CONSTANTS
    Vm,               \* vmids, each of one row of the pool
    Rebuild,          \* rebuild requests, each with its workflow
    NoMachine,             \* of a request that is not made
    RebuildAttempts,  \* of vm_rebuild_activity (5 in the code)
    Creation,         \* the workflow that cloned the machine
    Asks              \* bound: what users ask for, and whether the backend restarts

Actions == {"start", "stop", "reboot", "shutdown"}

ASSUME MachineControlAssumption ==
    /\ NoMachine \notin Vm
    /\ RebuildAttempts \in Nat \ {0}
    /\ Creation \notin Rebuild
    /\ Asks \subseteq [rebuild : [Rebuild -> Vm \cup {NoMachine}],
                      power : SUBSET Actions, restarts : Nat]

VARIABLES
    vmState,    \* on the hypervisor
    vmRow,        \* of machines_clone
    creation,   \* state of each machine's clone workflow
    asks,       \* what is asked for, chosen once
    request,    \* of each rebuild request, with what its session has read
    rebuild,    \* its workflow
    late,       \* attempts that timed out and are still asleep
    poll,       \* the poller's visit of each machine
    restarts,
    \* auxiliary: machines whose tracking was lost with a process or with an
    \* overwritten dictionary
    untracked

flowVars == <<creation, asks, request, rebuild, late>>
auxVars == <<restarts, untracked>>
controlVars == <<vmState, vmRow, flowVars, poll, auxVars>>

of == asks.rebuild

Workflows == Rebuild \cup {Creation}
States == {"RUNNING", "COMPLETED", "FAILED"}
PowerShown == {"power-on", "power-off"}
Messages == PowerShown \cup {"shutdown...", "cloning...", "error", "none"}
Unknown == "unknown"

Active == {"rebuild", "sleeping", "wait", "assign", "start"}
Answers == {"completed", "error"}

RowType ==
    [flows : [Workflows -> States \cup {"none"}],  \* workflow_status
     status : States,
     shown : Messages]                             \* error_message

ControlTypeOK ==
    /\ vmState \in [Vm -> {"gone", "cloning", "off", "on"}]
    /\ vmRow \in [Vm -> RowType]
    /\ creation \in [Vm -> States]
    /\ asks \in Asks
    /\ request \in [Rebuild ->
           [pc : {"idle", "starting", "waiting", "answered", "dead"},
            seen : RowType]]
    /\ rebuild \in [Rebuild ->
           [pc : Active \cup Answers \cup {"none", "failed"},
            left : 0 .. RebuildAttempts,
            task : {"none", "running", "ok", "failed"}]]
    /\ late \in [Rebuild -> 0 .. RebuildAttempts]
    /\ poll \in [Vm ->
           [pc : {"idle", "visit", "describe", "end"},
            seen : RowType,
            power : PowerShown \cup {Unknown}]]
    /\ restarts \in 0 .. asks.restarts
    /\ untracked \subseteq Vm

PowerOf(s) == IF s = "on" THEN "power-on" ELSE "power-off"

NoFlows == [w \in Workflows |-> "none"]
Blank == [flows |-> NoFlows, status |-> "RUNNING", shown |-> "none"]
NoRebuild == [pc |-> "none", left |-> 0, task |-> "none"]
NoVisit == [pc |-> "idle", seen |-> Blank, power |-> Unknown]

(* Machines that are still being created or were created before.            *)
ControlInit ==
    /\ vmState \in [Vm -> {"off", "on"}]
    /\ creation \in [Vm -> {"RUNNING", "COMPLETED"}]
    /\ vmRow = [v \in Vm |->
           [flows |-> [NoFlows EXCEPT ![Creation] = creation[v]],
            status |-> creation[v],
            shown |-> PowerOf(vmState[v])]]
    /\ asks \in Asks
    /\ request = [r \in Rebuild |-> [pc |-> "idle", seen |-> Blank]]
    /\ rebuild = [r \in Rebuild |-> NoRebuild]
    /\ late = [r \in Rebuild |-> 0]
    /\ poll = [v \in Vm |-> NoVisit]
    /\ restarts = 0
    /\ untracked = {}

-----------------------------------------------------------------------------
(* update_workflow_status, on a row as a session has read it.              *)

Over == {"none", "COMPLETED"}
AllCompleted(d) == \A w \in Workflows : d[w] \in Over

(* The status of the first workflow that is not completed: the creation is  *)
(* the first of a row, rebuilds follow in the order they were recorded.        *)
Summaries(d) ==
    CASE AllCompleted(d) -> {"COMPLETED"}
      [] d[Creation] \notin Over -> {d[Creation]}
      [] OTHER -> {d[w] : w \in {x \in Rebuild : d[x] \notin Over}}

Message(d, old, power) ==
    CASE \E w \in Workflows : d[w] = "FAILED" -> "error"
      [] power # Unknown -> power
      [] AllCompleted(d) \/ old \in PowerShown -> old
      [] OTHER -> "none"

(* A column is written where its value differs from the one read.          *)
Written(new, read, stored) == IF new # read THEN new ELSE stored

Updated(v, seen, w, s, power) ==
    LET d == [seen.flows EXCEPT ![w] = s]
    IN  {[flows |-> d,
          status |-> Written(c, seen.status, vmRow[v].status),
          shown |-> Written(Message(d, seen.shown, power), seen.shown, vmRow[v].shown)] :
            c \in Summaries(d)}

UpdateStatus(v, seen, w, s, power) ==
    /\ \E new \in Updated(v, seen, w, s, power) : vmRow' = [vmRow EXCEPT ![v] = new]
    /\ untracked' = IF \A x \in Workflows \ {w} : seen.flows[x] = vmRow[v].flows[x]
                    THEN untracked ELSE untracked \cup {v}

-----------------------------------------------------------------------------
(* vm_rebuild: the handler of a rebuild request.                           *)

StartRebuild(r) ==
    /\ request[r].pc = "idle" /\ of[r] # NoMachine
    /\ request' = [request EXCEPT ![r].pc = "starting"]
    /\ rebuild' = [rebuild EXCEPT
           ![r] = [pc |-> "rebuild", left |-> RebuildAttempts, task |-> "none"]]
    /\ UNCHANGED <<vmState, vmRow, creation, asks, late, poll, auxVars>>

(* Temporal cannot be reached, or a rebuild asked for in the same second    *)
(* runs under the same id: the failure is recorded under that id.           *)
StartFails(r) ==
    /\ request[r].pc = "idle" /\ of[r] # NoMachine
    /\ \E w \in Rebuild :
        /\ w = r \/ rebuild[w].pc \in Active
        /\ UpdateStatus(of[r], vmRow[of[r]], w, "FAILED", Unknown)
    /\ request' = [request EXCEPT ![r].pc = "answered"]
    /\ UNCHANGED <<vmState, creation, asks, rebuild, late, poll, restarts>>

(* The new id is put into the list that workflowId holds already, which is  *)
(* no change to the session: only workflow_status is stored.                *)
RecordRunning(r) ==
    /\ request[r].pc = "starting"
    /\ UpdateStatus(of[r], vmRow[of[r]], r, "RUNNING", Unknown)
    /\ request' = [request EXCEPT ![r] = [pc |-> "waiting", seen |-> vmRow'[of[r]]]]
    /\ UNCHANGED <<vmState, creation, asks, rebuild, late, poll, restarts>>

(* The workflow returned: its session still has the row as it was when the  *)
(* await began.                                                             *)
(* Mutant: whatever the workflow returns counts as completed.               *)
AnyOutcome(r) == "COMPLETED"

Outcome(r) == IF rebuild[r].pc = "completed" THEN "COMPLETED" ELSE "FAILED"

AnswerResult(r) ==
    /\ request[r].pc = "waiting" /\ rebuild[r].pc \in Answers
    /\ UpdateStatus(of[r], request[r].seen, r, Outcome(r), Unknown)
    /\ request' = [request EXCEPT ![r] = [pc |-> "answered", seen |-> Blank]]
    /\ UNCHANGED <<vmState, creation, asks, rebuild, late, poll, restarts>>

(* Mutant: the failure is answered, not recorded.                           *)
AnswerFailureOnly(r) ==
    /\ request[r].pc = "waiting" /\ rebuild[r].pc = "failed"
    /\ request' = [request EXCEPT ![r] = [pc |-> "answered", seen |-> Blank]]
    /\ UNCHANGED <<vmState, vmRow, creation, asks, rebuild, late, poll, auxVars>>

(* The workflow failed: the session is rolled back and reads anew.          *)
AnswerFailure(r) ==
    /\ request[r].pc = "waiting" /\ rebuild[r].pc = "failed"
    /\ UpdateStatus(of[r], vmRow[of[r]], r, "FAILED", Unknown)
    /\ request' = [request EXCEPT ![r] = [pc |-> "answered", seen |-> Blank]]
    /\ UNCHANGED <<vmState, creation, asks, rebuild, late, poll, restarts>>

-----------------------------------------------------------------------------
(* VmRebuildWorkflow and its activities.                                   *)

Proceed(r, pc) == rebuild' = [rebuild EXCEPT ![r].pc = pc]

(* The clone request is accepted and the row committed.                     *)
CloneAccepted(v) ==
    /\ vmState[v] = "gone"
    /\ vmState' = [vmState EXCEPT ![v] = "cloning"]
    /\ vmRow' = [vmRow EXCEPT ![v].shown = "cloning..."]

CloneAnswered(r) ==
    /\ CloneAccepted(of[r])
    /\ rebuild' = [rebuild EXCEPT ![r].pc = "wait", ![r].task = "running"]

(* Accepted by the hypervisor, but the answer was lost.                     *)
CloneUnanswered(r) ==
    /\ vmState[of[r]] = "gone"
    /\ vmState' = [vmState EXCEPT ![of[r]] = "cloning"]
    /\ Proceed(r, "error")
    /\ UNCHANGED vmRow

(* Every failure of vm_rebuild_activity is an answer: no host, no template, *)
(* a request refused, among them those on a VM that is locked or exists.    *)
RebuildError(r) ==
    /\ Proceed(r, "error")
    /\ UNCHANGED <<vmState, vmRow>>

RemoveVm(r) ==
    /\ vmState[of[r]] \in {"off", "on"}
    /\ vmState' = [vmState EXCEPT ![of[r]] = "gone"]
    /\ rebuild' = [rebuild EXCEPT ![r].pc = "sleeping"]
    /\ UNCHANGED vmRow

BeginRebuild(r) ==
    /\ rebuild[r].pc = "rebuild"
    /\ \/ RemoveVm(r)
       \/ CloneAnswered(r)
       \/ CloneUnanswered(r)
       \/ RebuildError(r)
    /\ UNCHANGED <<creation, asks, request, late, poll, restarts, untracked>>

CloneAfterSleep(r) ==
    /\ rebuild[r].pc = "sleeping"
    /\ \/ CloneAnswered(r)
       \/ CloneUnanswered(r)
       \/ RebuildError(r)
    /\ UNCHANGED <<creation, asks, request, late, poll, restarts, untracked>>

(* Stopping the VM took the two minutes the activity has: another attempt   *)
(* starts, and the first wakes up all the same.                             *)
Retried(r) ==
    [rebuild[r] EXCEPT
        !.pc = IF rebuild[r].left = 1 THEN "failed" ELSE "rebuild",
        !.left = rebuild[r].left - 1]

RebuildTimesOut(r) ==
    /\ rebuild[r].pc = "sleeping"
    /\ late' = [late EXCEPT ![r] = @ + 1]
    /\ rebuild' = [rebuild EXCEPT ![r] = Retried(r)]
    /\ UNCHANGED <<vmState, vmRow, creation, asks, request, poll, auxVars>>

LateClone ==
    /\ \E r \in Rebuild :
        /\ late[r] > 0
        /\ late' = [late EXCEPT ![r] = @ - 1]
        /\ \/ CloneAccepted(of[r])
           \/ UNCHANGED <<vmState, vmRow>>
    /\ UNCHANGED <<creation, asks, request, rebuild, poll, restarts, untracked>>

(* The hypervisor's clone task ends; a failed one leaves no VM.             *)
CloneEnds(v) ==
    /\ vmState[v] = "cloning"
    /\ \E ok \in BOOLEAN :
        /\ vmState' = [vmState EXCEPT ![v] = IF ok THEN "off" ELSE "gone"]
        /\ rebuild' = [r \in Rebuild |->
               IF of[r] = v /\ rebuild[r].task = "running"
               THEN [rebuild[r] EXCEPT !.task = IF ok THEN "ok" ELSE "failed"]
               ELSE rebuild[r]]
    /\ UNCHANGED <<vmRow, creation, asks, request, late, poll, auxVars>>

WaitReady(r) ==
    /\ rebuild[r].pc = "wait" /\ rebuild[r].task = "ok"
    /\ vmRow' = [vmRow EXCEPT ![of[r]].shown = "power-off"]
    /\ rebuild' = [rebuild EXCEPT ![r].pc = "assign", ![r].task = "none"]
    /\ UNCHANGED <<vmState, creation, asks, request, late, poll, auxVars>>

AssignIp(r) ==
    /\ rebuild[r].pc = "assign" /\ vmState[of[r]] # "gone"
    /\ Proceed(r, "start")
    /\ UNCHANGED <<vmState, vmRow, creation, asks, request, late, poll, auxVars>>

(* Waiting and assigning raise, also for good, as do the status updates in  *)
(* between.                                                                 *)
StepFails(r) ==
    /\ rebuild[r].pc \in {"wait", "assign", "start"}
    /\ rebuild' = [rebuild EXCEPT ![r].pc = "failed", ![r].task = "none"]
    /\ UNCHANGED <<vmState, vmRow, creation, asks, request, late, poll, auxVars>>

-----------------------------------------------------------------------------
(* The power activities.  None of them raises: what fails is answered.     *)

Label(a) == CASE a \in {"start", "reboot"} -> "power-on"
              [] a = "stop" -> "power-off"
              [] OTHER -> "shutdown..."

Effect(a, s) == CASE a = "start" /\ s = "off" -> "on"
                  [] a = "stop" /\ s = "on" -> "off"
                  [] OTHER -> s

Show(v, m) == vmRow' = [vmRow EXCEPT ![v].shown = m]

(* A request that is accepted is shown at once; its task may still fail.    *)
PowerActivity(v, a) ==
    \/ vmState[v] = "gone" /\ Show(v, "error") /\ UNCHANGED vmState
    \/ /\ vmState[v] # "gone"
       /\ Show(v, Label(a))
       /\ \/ vmState' = [vmState EXCEPT ![v] = Effect(a, vmState[v])]
          \/ UNCHANGED vmState
    \/ UNCHANGED <<vmRow, vmState>>

PowerRequest(v, a) ==
    /\ a \in asks.power
    /\ PowerActivity(v, a)
    /\ UNCHANGED <<flowVars, poll, auxVars>>

StartAfterRebuild(r) ==
    /\ rebuild[r].pc = "start"
    /\ PowerActivity(of[r], "start")
    /\ Proceed(r, "completed")
    /\ UNCHANGED <<creation, asks, request, late, poll, auxVars>>

GuestStops(v) ==
    /\ vmState[v] = "on"
    /\ vmState' = [vmState EXCEPT ![v] = "off"]
    /\ UNCHANGED <<vmRow, flowVars, poll, auxVars>>

-----------------------------------------------------------------------------
(* poll_and_update_machine_status_activity.  Machines are visited in turn;  *)
(* how old a row is when it is written only depends on its own visit.       *)

Visit(v, power) ==
    /\ poll[v].pc = "idle"
    /\ poll' = [poll EXCEPT
           ![v] = [pc |-> "visit", seen |-> vmRow[v], power |-> power]]
    /\ UNCHANGED <<vmState, vmRow, flowVars, auxVars>>

PollSees(v) == vmState[v] # "gone" /\ Visit(v, PowerOf(vmState[v]))

(* The VM is not in the list, or the cluster did not answer.                *)
PollMisses(v) == Visit(v, Unknown)

Settled(d) == \A w \in Workflows : d[w] # "RUNNING"

(* Mutant: only the power state of completed machines is stored.            *)
PowerOfCompleted(v) ==
    IF poll[v].power = Unknown \/ poll[v].seen.status # "COMPLETED"
    THEN vmRow[v].shown
    ELSE Written(poll[v].power, poll[v].seen.shown, vmRow[v].shown)

(* Both ends of a visit store the power state where it differs; the row is  *)
(* read again after a commit.                                               *)
PowerStored(v) ==
    IF poll[v].power = Unknown THEN vmRow[v].shown
    ELSE Written(poll[v].power, poll[v].seen.shown, vmRow[v].shown)

PollPower(v) ==
    /\ poll[v].pc = "visit"
    /\ vmRow' = [vmRow EXCEPT ![v].shown = PowerStored(v)]
    /\ LET seen == IF poll[v].power \in {Unknown, poll[v].seen.shown}
                   THEN poll[v].seen ELSE vmRow'[v]
       IN  poll' = [poll EXCEPT
               ![v].seen = seen,
               ![v].pc = IF Settled(seen.flows) THEN "end" ELSE "describe"]
    /\ UNCHANGED <<vmState, flowVars, auxVars>>

(* Only the ids in workflowId are described: the creation's.                *)
PollDescribe(v) ==
    /\ poll[v].pc = "describe"
    /\ UpdateStatus(v, poll[v].seen, Creation, creation[v], poll[v].power)
    /\ poll' = [poll EXCEPT ![v].seen = vmRow'[v], ![v].pc = "end"]
    /\ UNCHANGED <<vmState, flowVars, restarts>>

PollEnd(v) ==
    /\ poll[v].pc = "end"
    /\ vmRow' = IF poll[v].seen.status = "COMPLETED"
              THEN [vmRow EXCEPT ![v].shown = PowerStored(v)] ELSE vmRow
    /\ poll' = [poll EXCEPT ![v] = NoVisit]
    /\ UNCHANGED <<vmState, flowVars, auxVars>>

-----------------------------------------------------------------------------
CreationEnds(v) ==
    /\ creation[v] = "RUNNING"
    /\ creation' = [creation EXCEPT ![v] = "COMPLETED"]
       \/ creation' = [creation EXCEPT ![v] = "FAILED"]
    /\ UNCHANGED <<vmState, vmRow, asks, request, rebuild, late, poll, auxVars>>

(* Handlers, attempts and the poll die with the backend; workflows, and the *)
(* poller's next run, go on.                                                *)
Restart ==
    /\ restarts < asks.restarts
    /\ restarts' = restarts + 1
    /\ request' = [r \in Rebuild |->
           IF request[r].pc \in {"starting", "waiting"}
           THEN [pc |-> "dead", seen |-> Blank] ELSE request[r]]
    /\ untracked' = untracked \cup
           {of[r] : r \in {q \in Rebuild : request[q].pc \in {"starting", "waiting"}}}
    /\ rebuild' = [r \in Rebuild |->
           IF rebuild[r].pc = "sleeping" THEN Retried(r) ELSE rebuild[r]]
    /\ late' = [r \in Rebuild |-> 0]
    /\ poll' = [v \in Vm |-> NoVisit]
    /\ UNCHANGED <<vmState, vmRow, creation, asks>>

HandlerStep(r) == RecordRunning(r) \/ AnswerResult(r) \/ AnswerFailure(r)

WorkflowStep(r) ==
    BeginRebuild(r) \/ CloneAfterSleep(r) \/ WaitReady(r) \/ AssignIp(r)
    \/ StepFails(r) \/ StartAfterRebuild(r)

PollStep(v) == PollPower(v) \/ PollDescribe(v) \/ PollEnd(v)

ControlNext ==
    \/ \E r \in Rebuild :
        \/ StartRebuild(r) \/ StartFails(r) \/ HandlerStep(r)
        \/ WorkflowStep(r) \/ RebuildTimesOut(r)
    \/ \E v \in Vm :
        \/ CloneEnds(v) \/ GuestStops(v) \/ CreationEnds(v)
        \/ PollSees(v) \/ PollMisses(v) \/ PollStep(v)
        \/ \E a \in Actions : PowerRequest(v, a)
    \/ LateClone
    \/ Restart

(* The event loops run what is ready, Temporal retries and times out, the   *)
(* hypervisor ends its tasks, and the poll runs every minute and finds the  *)
(* cluster answering again and again.  No user has to ask for anything.     *)
ControlFairness ==
    /\ \A r \in Rebuild :
        WF_controlVars(HandlerStep(r)) /\ WF_controlVars(WorkflowStep(r))
    /\ \A v \in Vm :
        /\ WF_controlVars(CloneEnds(v)) /\ WF_controlVars(CreationEnds(v))
        /\ WF_controlVars(PollSees(v) \/ PollMisses(v)) /\ WF_controlVars(PollStep(v))
        /\ SF_controlVars(PollSees(v))

ControlSpec == ControlInit /\ [][ControlNext]_controlVars
ControlFairSpec == ControlSpec /\ ControlFairness

-----------------------------------------------------------------------------
Resting(v) ==
    \A r \in Rebuild : of[r] = v =>
        request[r].pc \in {"idle", "answered"} /\ rebuild[r].pc \notin Active

(* A machine whose VM a rebuild has removed and not made again is not shown *)
(* as COMPLETED once the rebuild is over (vm_rebuild, update_workflow_      *)
(* status), unless its tracking was lost.                                   *)
LossIsShown ==
    \A v \in Vm :
        vmState[v] = "gone" /\ Resting(v) /\ v \notin untracked
            => vmRow[v].status # "COMPLETED"

Busy(v) ==
    \/ creation[v] = "RUNNING"
    \/ \E r \in Rebuild : of[r] = v /\ request[r].pc \in {"starting", "waiting"}

(* Once the workflows of a machine are over none is shown as running: the   *)
(* handler records the outcome, the poller what it finds for the creation.  *)
TrackingEnds ==
    \A v \in Vm :
        []<>(v \in untracked \/ Busy(v) \/ Settled(vmRow[v].flows))

(* The power state shown is the VM's again and again, whatever was asked.   *)
PowerIsShown ==
    \A v \in Vm :
        []<>(\/ vmState[v] \in {"gone", "cloning"}
             \/ vmRow[v].shown = PowerOf(vmState[v]))
=============================================================================
