------------------------ MODULE MachineControl_proofs ------------------------
(***************************************************************************)
(* What MachineControl does for every set of machines and rebuilds and any *)
(* number of restarts: its types, and that a machine a rebuild has lost is *)
(* not shown as completed.                                                 *)
(***************************************************************************)
EXTENDS MachineControl, TLAPS

(* One step of a rebuild, of a machine, and of the poller's visit.          *)
RebuildStep(r) ==
    StartRebuild(r) \/ StartFails(r) \/ HandlerStep(r) \/ WorkflowStep(r)
    \/ RebuildTimesOut(r)
MachineStep(v) ==
    CloneEnds(v) \/ GuestStops(v) \/ CreationEnds(v)
    \/ \E a \in Actions : PowerRequest(v, a)
VisitStep(v) == PollSees(v) \/ PollMisses(v) \/ PollStep(v)

(* The steps of ControlNext, by what they are a step of.                    *)
LEMMA Steps ==
  ASSUME ControlNext
  PROVE  \/ \E r \in Rebuild : RebuildStep(r)
         \/ \E v \in Vm : MachineStep(v) \/ VisitStep(v)
         \/ LateClone
         \/ Restart
  BY DEF ControlNext, RebuildStep, MachineStep, VisitStep

-----------------------------------------------------------------------------
(* Types, and what they need of the program counters: only a request that   *)
(* was made has a machine, a workflow and attempts left.                    *)

Phase(r) ==
    /\ request[r].pc # "idle" => of[r] \in Vm
    /\ request[r].pc = "idle" => rebuild[r].pc = "none" /\ late[r] = 0
    /\ rebuild[r].pc \in {"rebuild", "sleeping"} => rebuild[r].left > 0
    /\ late[r] + rebuild[r].left <= RebuildAttempts

TypeInv == ControlTypeOK /\ \A r \in Rebuild : Phase(r)

(* A machine or none is what a request is for.                              *)
LEMMA OfType ==
  ASSUME asks \in Asks
  PROVE  /\ of \in [Rebuild -> Vm \cup {NoMachine}]
         /\ asks.restarts \in Nat
  BY MachineControlAssumption DEF of

(* The first state has its types.                                           *)
LEMMA InitTypes == ControlInit => TypeInv
<1> SUFFICES ASSUME ControlInit PROVE TypeInv
  OBVIOUS
<1>1. NoFlows \in [Workflows -> States \cup {"none"}]
  BY DEF NoFlows
<1>2. Blank \in RowType
  BY <1>1 DEF Blank, RowType, States, Messages
<1>3. vmRow \in [Vm -> RowType]
  BY <1>1 DEF ControlInit, RowType, States, Messages, PowerShown, PowerOf
<1>4. restarts \in 0 .. asks.restarts
  BY OfType DEF ControlInit
<1>5. ControlTypeOK
  BY <1>2, <1>3, <1>4, MachineControlAssumption
     DEF ControlInit, ControlTypeOK, States, NoRebuild, NoVisit
<1>6. \A r \in Rebuild : Phase(r)
  BY MachineControlAssumption DEF ControlInit, Phase, NoRebuild
<1> QED BY <1>5, <1>6 DEF TypeInv

(* The summary of a dictionary is "COMPLETED" if all of it is.              *)
LEMMA SummaryOf ==
  ASSUME NEW d \in [Workflows -> States \cup {"none"}], NEW c \in Summaries(d)
  PROVE  /\ c \in States
         /\ c = "COMPLETED" <=> AllCompleted(d)
<1>1. CASE AllCompleted(d)
  BY <1>1 DEF Summaries, AllCompleted, Workflows, States
<1>2. CASE ~AllCompleted(d) /\ d[Creation] \notin Over
  <2>1. c = d[Creation]
    BY <1>2 DEF Summaries
  <2> QED BY <1>2, <2>1 DEF Workflows, States, Over
<1>3. CASE ~AllCompleted(d) /\ d[Creation] \in Over
  <2>1. c \in {d[w] : w \in {x \in Rebuild : d[x] \notin Over}}
    BY <1>3 DEF Summaries
  <2> QED BY <1>3, <2>1 DEF Workflows, States, Over
<1> QED BY <1>1, <1>2, <1>3

(* update_workflow_status writes a row with its types, and loses the        *)
(* tracking of no machine but its own.                                      *)
LEMMA UpdateTypes ==
  ASSUME ControlTypeOK, NEW v \in Vm, NEW seen \in RowType, NEW w \in Workflows,
         NEW s \in States, NEW power \in PowerShown \cup {Unknown},
         UpdateStatus(v, seen, w, s, power)
  PROVE  /\ vmRow' \in [Vm -> RowType]
         /\ untracked' \subseteq Vm
<1> DEFINE d == [seen.flows EXCEPT ![w] = s]
<1>1. d \in [Workflows -> States \cup {"none"}]
  BY DEF RowType
<1>2. PICK c \in Summaries(d) :
        vmRow' = [vmRow EXCEPT ![v] =
          [flows |-> d,
           status |-> Written(c, seen.status, vmRow[v].status),
           shown |-> Written(Message(d, seen.shown, power), seen.shown, vmRow[v].shown)]]
  BY DEF UpdateStatus, Updated
<1>3. c \in States
  BY <1>1, <1>2, SummaryOf
<1>4. Message(d, seen.shown, power) \in Messages
  BY DEF Message, Messages, PowerShown, Unknown, RowType
<1>5. vmRow[v] \in RowType
  BY DEF ControlTypeOK
<1>6. /\ Written(c, seen.status, vmRow[v].status) \in States
      /\ Written(Message(d, seen.shown, power), seen.shown, vmRow[v].shown) \in Messages
  BY <1>3, <1>4, <1>5 DEF Written, RowType
<1>7. vmRow' \in [Vm -> RowType]
  BY <1>1, <1>2, <1>6 DEF ControlTypeOK, RowType
<1>8. untracked' \subseteq Vm
  BY DEF UpdateStatus, ControlTypeOK
<1> QED BY <1>7, <1>8

(* Changing the message of a row, or the step of a rebuild, keeps the types. *)
LEMMA ShownTypes ==
  ASSUME ControlTypeOK, NEW v \in Vm, NEW m \in Messages,
         vmRow' = [vmRow EXCEPT ![v].shown = m]
  PROVE  vmRow' \in [Vm -> RowType]
<1>1. /\ vmRow \in [Vm -> RowType]
      /\ vmRow[v] \in RowType
  BY DEF ControlTypeOK
<1>2. [vmRow[v] EXCEPT !.shown = m] \in RowType
  BY <1>1 DEF RowType
<1> QED BY <1>1, <1>2

(* What a power activity writes has its type.                              *)
LEMMA PowerTypes ==
  ASSUME ControlTypeOK, NEW v \in Vm, NEW a \in Actions, PowerActivity(v, a)
  PROVE  /\ vmRow' \in [Vm -> RowType]
         /\ vmState' \in [Vm -> {"gone", "cloning", "off", "on"}]
<1>1. \/ vmRow' = vmRow
      \/ \E m \in Messages : vmRow' = [vmRow EXCEPT ![v].shown = m]
  BY DEF PowerActivity, Show, Label, Messages, PowerShown
<1>2. vmRow' \in [Vm -> RowType]
  BY <1>1, ShownTypes DEF ControlTypeOK
<1>3. vmState' \in [Vm -> {"gone", "cloning", "off", "on"}]
  BY DEF PowerActivity, Effect, ControlTypeOK
<1> QED BY <1>2, <1>3

RebuildType ==
    [pc : Active \cup Answers \cup {"none", "failed"},
     left : 0 .. RebuildAttempts,
     task : {"none", "running", "ok", "failed"}]

(* A rebuild that goes on keeps its type and its attempts.                 *)
LEMMA ProceedTypes ==
  ASSUME ControlTypeOK, NEW r \in Rebuild,
         NEW pc \in Active \cup Answers \cup {"none", "failed"},
         NEW task \in {"none", "running", "ok", "failed"},
         \/ rebuild' = [rebuild EXCEPT ![r].pc = pc]
         \/ rebuild' = [rebuild EXCEPT ![r].pc = pc, ![r].task = task]
  PROVE  /\ rebuild' \in [Rebuild -> RebuildType]
         /\ rebuild'[r].pc = pc
         /\ rebuild'[r].left = rebuild[r].left
         /\ \A q \in Rebuild \ {r} : rebuild'[q] = rebuild[q]
<1>1. /\ rebuild \in [Rebuild -> RebuildType]
      /\ rebuild[r] \in RebuildType
  BY DEF ControlTypeOK, RebuildType
<1>2. /\ [rebuild[r] EXCEPT !.pc = pc] \in RebuildType
      /\ [rebuild[r] EXCEPT !.pc = pc, !.task = task] \in RebuildType
  BY <1>1 DEF RebuildType
<1>3. CASE rebuild' = [rebuild EXCEPT ![r].pc = pc]
  BY <1>1, <1>2, <1>3 DEF RebuildType
<1>4. CASE rebuild' = [rebuild EXCEPT ![r].pc = pc, ![r].task = task]
  BY <1>1, <1>2, <1>4 DEF RebuildType
<1> QED BY <1>3, <1>4

(* What a step has to show of the phases, when it changes one rebuild only.  *)
LEMMA PhasesKept ==
  ASSUME TypeInv, NEW r \in Rebuild, UNCHANGED asks,
         request' \in [Rebuild -> [pc : {"idle", "starting", "waiting", "answered", "dead"},
                                   seen : RowType]],
         \A q \in Rebuild \ {r} :
            request'[q] = request[q] /\ rebuild'[q] = rebuild[q] /\ late'[q] = late[q],
         Phase(r)'
  PROVE  \A q \in Rebuild : Phase(q)'
<1>1. ASSUME NEW q \in Rebuild \ {r} PROVE Phase(q)'
  BY <1>1 DEF TypeInv, Phase, of
<1> QED BY <1>1

(* A rebuild's step keeps the types.                                        *)
LEMMA RebuildTypes ==
  ASSUME TypeInv, NEW r \in Rebuild, RebuildStep(r)
  PROVE  TypeInv'
<1> USE DEF TypeInv
<1>1. /\ of \in [Rebuild -> Vm \cup {NoMachine}]
      /\ asks.restarts \in Nat
  BY OfType DEF ControlTypeOK
<1>2. CASE StartRebuild(r)
  <2>1. /\ of[r] \in Vm
        /\ request[r].pc = "idle"
    BY <1>1, <1>2 DEF StartRebuild
  <2>2. /\ request' = [request EXCEPT ![r].pc = "starting"]
        /\ rebuild' = [rebuild EXCEPT
                         ![r] = [pc |-> "rebuild", left |-> RebuildAttempts, task |-> "none"]]
        /\ UNCHANGED <<vmState, vmRow, creation, asks, late, poll, restarts, untracked>>
    BY <1>2 DEF StartRebuild, auxVars
  <2>3. ControlTypeOK'
    <3>1. request' \in [Rebuild -> [pc : {"idle", "starting", "waiting", "answered", "dead"},
                                    seen : RowType]]
      BY <2>2 DEF ControlTypeOK
    <3>2. rebuild' \in [Rebuild -> RebuildType]
      BY <2>2, MachineControlAssumption DEF ControlTypeOK, RebuildType, Active
    <3> QED BY <2>2, <3>1, <3>2 DEF ControlTypeOK, RebuildType
  <2>4. Phase(r)'
    BY <2>1, <2>2, MachineControlAssumption DEF Phase, ControlTypeOK, of
  <2> QED BY <2>2, <2>3, <2>4, PhasesKept DEF ControlTypeOK
<1>3. CASE StartFails(r)
  <2>1. of[r] \in Vm
    BY <1>1, <1>3 DEF StartFails
  <2>2. PICK w \in Rebuild : UpdateStatus(of[r], vmRow[of[r]], w, "FAILED", Unknown)
    BY <1>3 DEF StartFails
  <2>3. /\ vmRow' \in [Vm -> RowType]
        /\ untracked' \subseteq Vm
    <3>1. vmRow[of[r]] \in RowType
      BY <2>1 DEF ControlTypeOK
    <3> HIDE DEF TypeInv
    <3> QED BY <2>1, <2>2, <3>1, UpdateTypes DEF TypeInv, Workflows, States
  <2>4. /\ request' = [request EXCEPT ![r].pc = "answered"]
        /\ UNCHANGED <<vmState, creation, asks, rebuild, late, poll, restarts>>
    BY <1>3 DEF StartFails
  <2>5. ControlTypeOK'
    BY <2>3, <2>4 DEF ControlTypeOK
  <2>6. Phase(r)'
    BY <2>1, <2>4 DEF Phase, ControlTypeOK, of
  <2> QED BY <2>4, <2>5, <2>6, PhasesKept DEF ControlTypeOK
<1>4. CASE RecordRunning(r)
  <2>1. of[r] \in Vm
    BY <1>4 DEF RecordRunning, Phase
  <2>2. /\ vmRow' \in [Vm -> RowType]
        /\ untracked' \subseteq Vm
    <3>1. vmRow[of[r]] \in RowType
      BY <2>1 DEF ControlTypeOK
    <3>2. UpdateStatus(of[r], vmRow[of[r]], r, "RUNNING", Unknown)
      BY <1>4 DEF RecordRunning
    <3> HIDE DEF TypeInv
    <3> QED BY <2>1, <3>1, <3>2, UpdateTypes DEF TypeInv, Workflows, States
  <2>3. vmRow'[of[r]] \in RowType
    BY <2>1, <2>2
  <2> QED BY <1>4, <2>1, <2>2, <2>3 DEF RecordRunning, ControlTypeOK, Phase, of
<1>b. Blank \in RowType
  BY DEF Blank, NoFlows, RowType, States, Messages
<1>5. CASE AnswerResult(r)
  <2>1. of[r] \in Vm
    BY <1>5 DEF AnswerResult, Phase
  <2>2. /\ vmRow' \in [Vm -> RowType]
        /\ untracked' \subseteq Vm
    <3>1. request[r].seen \in RowType
      BY DEF ControlTypeOK
    <3>2. UpdateStatus(of[r], request[r].seen, r, Outcome(r), Unknown)
      BY <1>5 DEF AnswerResult
    <3>3. Outcome(r) \in States
      BY DEF Outcome, States
    <3> HIDE DEF TypeInv
    <3> QED BY <2>1, <3>1, <3>2, <3>3, UpdateTypes DEF TypeInv, Workflows
  <2> QED BY <1>5, <1>b, <2>1, <2>2 DEF AnswerResult, ControlTypeOK, Phase, of
<1>6. CASE AnswerFailure(r)
  <2>1. of[r] \in Vm
    BY <1>6 DEF AnswerFailure, Phase
  <2>2. /\ vmRow' \in [Vm -> RowType]
        /\ untracked' \subseteq Vm
    <3>1. vmRow[of[r]] \in RowType
      BY <2>1 DEF ControlTypeOK
    <3>2. UpdateStatus(of[r], vmRow[of[r]], r, "FAILED", Unknown)
      BY <1>6 DEF AnswerFailure
    <3> HIDE DEF TypeInv
    <3> QED BY <2>1, <3>1, <3>2, UpdateTypes DEF TypeInv, Workflows, States
  <2> QED BY <1>6, <1>b, <2>1, <2>2 DEF AnswerFailure, ControlTypeOK, Phase, of
<1>7. CASE BeginRebuild(r) \/ CloneAfterSleep(r)
  <2>1. \/ RemoveVm(r) \/ CloneAnswered(r) \/ CloneUnanswered(r) \/ RebuildError(r)
    BY <1>7 DEF BeginRebuild, CloneAfterSleep
  <2>2. /\ rebuild[r].pc \in {"rebuild", "sleeping"}
        /\ UNCHANGED <<creation, asks, request, late, poll, restarts, untracked>>
    BY <1>7 DEF BeginRebuild, CloneAfterSleep
  <2>3. of[r] \in Vm
    BY <2>2 DEF Phase
  <2>4. vmState' \in [Vm -> {"gone", "cloning", "off", "on"}]
    BY <2>1 DEF RemoveVm, CloneAnswered, CloneUnanswered, RebuildError, CloneAccepted,
                ControlTypeOK
  <2>5. vmRow' \in [Vm -> RowType]
    <3>1. \/ vmRow' = vmRow
          \/ vmRow' = [vmRow EXCEPT ![of[r]].shown = "cloning..."]
      BY <2>1 DEF RemoveVm, CloneAnswered, CloneUnanswered, RebuildError, CloneAccepted
    <3> QED BY <2>3, <3>1, ShownTypes DEF ControlTypeOK, Messages
  <2>6. PICK pc \in {"wait", "error", "sleeping"} :
          \/ rebuild' = [rebuild EXCEPT ![r].pc = pc]
          \/ rebuild' = [rebuild EXCEPT ![r].pc = pc, ![r].task = "running"]
    BY <2>1 DEF RemoveVm, CloneAnswered, CloneUnanswered, RebuildError, Proceed
  <2>7. /\ rebuild' \in [Rebuild -> RebuildType]
        /\ rebuild'[r].pc = pc
        /\ rebuild'[r].left = rebuild[r].left
        /\ \A q \in Rebuild \ {r} : rebuild'[q] = rebuild[q]
    <3>1. pc \in Active \cup Answers
      BY DEF Active, Answers
    <3> HIDE DEF TypeInv
    <3> QED BY <2>6, <3>1, ProceedTypes DEF TypeInv
  <2>8. ControlTypeOK'
    BY <2>2, <2>4, <2>5, <2>7 DEF ControlTypeOK, RebuildType
  <2>9. Phase(r)'
    BY <2>2, <2>7 DEF Phase, of
  <2> QED BY <2>2, <2>7, <2>8, <2>9, PhasesKept DEF ControlTypeOK
<1>8. CASE WaitReady(r) \/ AssignIp(r) \/ StepFails(r)
  <2>1. PICK pc \in {"assign", "start", "failed"} :
          \/ rebuild' = [rebuild EXCEPT ![r].pc = pc]
          \/ rebuild' = [rebuild EXCEPT ![r].pc = pc, ![r].task = "none"]
    BY <1>8 DEF WaitReady, AssignIp, StepFails, Proceed
  <2>2. /\ rebuild[r].pc # "none"
        /\ UNCHANGED <<vmState, creation, asks, request, late, poll, restarts, untracked>>
    BY <1>8 DEF WaitReady, AssignIp, StepFails, auxVars
  <2>3. of[r] \in Vm
    BY <2>2 DEF Phase
  <2>4. vmRow' \in [Vm -> RowType]
    <3>1. \/ vmRow' = vmRow
          \/ vmRow' = [vmRow EXCEPT ![of[r]].shown = "power-off"]
      BY <1>8 DEF WaitReady, AssignIp, StepFails
    <3> QED BY <2>3, <3>1, ShownTypes DEF ControlTypeOK, Messages, PowerShown
  <2>5. /\ rebuild' \in [Rebuild -> RebuildType]
        /\ rebuild'[r].pc = pc
        /\ rebuild'[r].left = rebuild[r].left
        /\ \A q \in Rebuild \ {r} : rebuild'[q] = rebuild[q]
    <3>1. pc \in Active \cup Answers \cup {"none", "failed"}
      BY DEF Active, Answers
    <3> HIDE DEF TypeInv
    <3> QED BY <2>1, <3>1, ProceedTypes DEF TypeInv
  <2>6. ControlTypeOK'
    BY <2>2, <2>4, <2>5 DEF ControlTypeOK, RebuildType
  <2>7. Phase(r)'
    BY <2>2, <2>5 DEF Phase, of
  <2> QED BY <2>2, <2>5, <2>6, <2>7, PhasesKept DEF ControlTypeOK
<1>9. CASE StartAfterRebuild(r)
  <2>1. rebuild' = [rebuild EXCEPT ![r].pc = "completed"]
    BY <1>9 DEF StartAfterRebuild, Proceed
  <2>2. /\ vmRow' \in [Vm -> RowType]
        /\ vmState' \in [Vm -> {"gone", "cloning", "off", "on"}]
    <3>1. of[r] \in Vm
      BY <1>9 DEF StartAfterRebuild, Phase
    <3> HIDE DEF TypeInv
    <3> QED BY <1>9, <3>1, PowerTypes DEF StartAfterRebuild, Actions, TypeInv
  <2>3. UNCHANGED <<creation, asks, request, late, poll, restarts, untracked>>
    BY <1>9 DEF StartAfterRebuild, auxVars
  <2>4. ControlTypeOK'
    <3>1. rebuild' \in [Rebuild -> RebuildType]
      <4>1. "completed" \in Active \cup Answers \cup {"none", "failed"}
        BY DEF Answers
      <4> HIDE DEF TypeInv
      <4> QED BY <2>1, <4>1, ProceedTypes DEF TypeInv
    <3> QED BY <2>2, <2>3, <3>1 DEF ControlTypeOK, RebuildType
  <2>5. rebuild[r].pc # "none"
    BY <1>9 DEF StartAfterRebuild
  <2>6. Phase(r)'
    BY <2>1, <2>3, <2>5 DEF Phase, ControlTypeOK, of
  <2>7. \A q \in Rebuild \ {r} : rebuild'[q] = rebuild[q]
    BY <2>1 DEF ControlTypeOK
  <2> QED BY <2>3, <2>4, <2>6, <2>7, PhasesKept DEF ControlTypeOK
<1>10. CASE RebuildTimesOut(r)
  <2>1. rebuild[r].pc = "sleeping" /\ late' = [late EXCEPT ![r] = @ + 1]
    BY <1>10 DEF RebuildTimesOut
  <2>2. PICK pc \in {"rebuild", "failed"} :
          /\ pc = "rebuild" => rebuild[r].left # 1
          /\ rebuild' = [rebuild EXCEPT ![r].pc = pc, ![r].left = @ - 1]
    BY <1>10 DEF RebuildTimesOut, Retried, ControlTypeOK
  <2>3. UNCHANGED <<vmState, vmRow, creation, asks, request, poll, restarts, untracked>>
    BY <1>10 DEF RebuildTimesOut, auxVars
  <2>4. /\ rebuild[r].left \in 1 .. RebuildAttempts
        /\ late[r] \in Nat
        /\ late[r] + rebuild[r].left <= RebuildAttempts
    BY <2>1, MachineControlAssumption DEF ControlTypeOK, Phase
  <2>5. rebuild' \in [Rebuild -> [pc : Active \cup Answers \cup {"none", "failed"},
                                  left : 0 .. RebuildAttempts,
                                  task : {"none", "running", "ok", "failed"}]]
    BY <2>2, <2>4, MachineControlAssumption DEF ControlTypeOK, Active
  <2>6. late' \in [Rebuild -> 0 .. RebuildAttempts]
    BY <2>1, <2>4, MachineControlAssumption DEF ControlTypeOK
  <2>7. ControlTypeOK'
    BY <2>3, <2>5, <2>6 DEF ControlTypeOK
  <2>8. Phase(r)'
    BY <2>1, <2>2, <2>3, <2>4, MachineControlAssumption DEF Phase, ControlTypeOK, of
  <2>9. \A q \in Rebuild \ {r} : rebuild'[q] = rebuild[q] /\ late'[q] = late[q]
    BY <2>1, <2>2 DEF ControlTypeOK
  <2> QED BY <2>3, <2>7, <2>8, <2>9, PhasesKept DEF ControlTypeOK
<1> QED
  BY <1>2, <1>3, <1>4, <1>5, <1>6, <1>7, <1>8, <1>9, <1>10
     DEF RebuildStep, HandlerStep, WorkflowStep

(* The hypervisor's and the users' steps keep the types.                    *)
LEMMA MachineTypes ==
  ASSUME TypeInv, NEW v \in Vm, MachineStep(v)
  PROVE  TypeInv'
<1>1. CASE CloneEnds(v)
  <2>1. PICK ok \in BOOLEAN :
          /\ vmState' = [vmState EXCEPT ![v] = IF ok THEN "off" ELSE "gone"]
          /\ rebuild' = [r \in Rebuild |->
               IF of[r] = v /\ rebuild[r].task = "running"
               THEN [rebuild[r] EXCEPT !.task = IF ok THEN "ok" ELSE "failed"]
               ELSE rebuild[r]]
    BY <1>1 DEF CloneEnds
  <2>2. UNCHANGED <<vmRow, creation, asks, request, late, poll, restarts, untracked>>
    BY <1>1 DEF CloneEnds, auxVars
  <2>3. ASSUME NEW r \in Rebuild
        PROVE  /\ rebuild'[r] \in RebuildType
               /\ rebuild'[r].pc = rebuild[r].pc
               /\ rebuild'[r].left = rebuild[r].left
    BY <2>1, <2>3 DEF TypeInv, ControlTypeOK, RebuildType
  <2>4. rebuild' \in [Rebuild -> RebuildType]
    BY <2>1, <2>3
  <2>5. ControlTypeOK'
    BY <2>1, <2>2, <2>4 DEF TypeInv, ControlTypeOK, RebuildType
  <2> QED BY <2>2, <2>3, <2>5 DEF TypeInv, Phase, of
<1>2. CASE GuestStops(v)
  BY <1>2 DEF GuestStops, flowVars, auxVars, TypeInv, ControlTypeOK, Phase, of
<1>3. CASE CreationEnds(v)
  BY <1>3 DEF CreationEnds, auxVars, TypeInv, ControlTypeOK, States, Phase, of
<1>4. ASSUME NEW a \in Actions, PowerRequest(v, a) PROVE TypeInv'
  <2>1. /\ vmRow' \in [Vm -> RowType]
        /\ vmState' \in [Vm -> {"gone", "cloning", "off", "on"}]
    BY <1>4, PowerTypes DEF PowerRequest, TypeInv
  <2>2. UNCHANGED <<creation, asks, request, rebuild, late, poll, restarts, untracked>>
    BY <1>4 DEF PowerRequest, flowVars, auxVars
  <2> QED BY <2>1, <2>2 DEF TypeInv, ControlTypeOK, Phase, of
<1> QED BY <1>1, <1>2, <1>3, <1>4 DEF MachineStep

(* The poller keeps the types.                                              *)
LEMMA VisitTypes ==
  ASSUME TypeInv, NEW v \in Vm, VisitStep(v)
  PROVE  TypeInv'
<1> DEFINE PollType == [pc : {"idle", "visit", "describe", "end"},
                        seen : RowType, power : PowerShown \cup {Unknown}]
<1>1. /\ poll \in [Vm -> PollType]
      /\ poll[v] \in PollType
      /\ vmRow[v] \in RowType
  BY DEF TypeInv, ControlTypeOK
<1>2. NoVisit \in PollType
  BY DEF NoVisit, Blank, NoFlows, RowType, States, Messages
<1>3. ASSUME NEW power \in PowerShown \cup {Unknown}, Visit(v, power) PROVE TypeInv'
  <2>1. poll' = [poll EXCEPT ![v] = [pc |-> "visit", seen |-> vmRow[v], power |-> power]]
    BY <1>3 DEF Visit
  <2>2. poll' \in [Vm -> PollType]
    BY <1>1, <2>1
  <2>3. UNCHANGED <<vmState, vmRow, flowVars, auxVars>>
    BY <1>3 DEF Visit
  <2> QED BY <2>2, <2>3 DEF flowVars, auxVars, TypeInv, ControlTypeOK, Phase, of
<1>4. PowerStored(v) \in Messages
  BY <1>1 DEF PowerStored, Written, Messages, RowType
<1>5. CASE PollPower(v)
  <2>1. vmRow' = [vmRow EXCEPT ![v].shown = PowerStored(v)]
    BY <1>5 DEF PollPower
  <2>2. vmRow' \in [Vm -> RowType]
    BY <1>4, <2>1, ShownTypes DEF TypeInv
  <2>3. PICK seen \in {poll[v].seen, vmRow'[v]}, pc \in {"end", "describe"} :
          poll' = [poll EXCEPT ![v].seen = seen, ![v].pc = pc]
    BY <1>5 DEF PollPower
  <2>4. seen \in RowType
    BY <1>1, <2>2, <2>3
  <2>5. [poll[v] EXCEPT !.seen = seen, !.pc = pc] \in PollType
    BY <1>1, <2>4
  <2>6. poll' \in [Vm -> PollType]
    BY <1>1, <2>3, <2>5
  <2>7. UNCHANGED <<vmState, flowVars, auxVars>>
    BY <1>5 DEF PollPower
  <2> QED BY <2>2, <2>6, <2>7 DEF flowVars, auxVars, TypeInv, ControlTypeOK, Phase, of
<1>6. CASE PollDescribe(v)
  <2>1. UpdateStatus(v, poll[v].seen, Creation, creation[v], poll[v].power)
    BY <1>6 DEF PollDescribe
  <2>2. /\ vmRow' \in [Vm -> RowType]
        /\ untracked' \subseteq Vm
    <3>1. /\ poll[v].seen \in RowType
          /\ poll[v].power \in PowerShown \cup {Unknown}
          /\ creation[v] \in States
      BY <1>1 DEF TypeInv, ControlTypeOK
    <3> QED BY <2>1, <3>1, UpdateTypes DEF TypeInv, Workflows
  <2>3. poll' = [poll EXCEPT ![v].seen = vmRow'[v], ![v].pc = "end"]
    BY <1>6 DEF PollDescribe
  <2>4. [poll[v] EXCEPT !.seen = vmRow'[v], !.pc = "end"] \in PollType
    BY <1>1, <2>2
  <2>5. poll' \in [Vm -> PollType]
    BY <1>1, <2>3, <2>4
  <2>6. UNCHANGED <<vmState, flowVars, restarts>>
    BY <1>6 DEF PollDescribe
  <2> QED BY <2>2, <2>5, <2>6 DEF flowVars, TypeInv, ControlTypeOK, Phase, of
<1>7. CASE PollEnd(v)
  <2>1. \/ vmRow' = vmRow
        \/ vmRow' = [vmRow EXCEPT ![v].shown = PowerStored(v)]
    BY <1>7 DEF PollEnd
  <2>2. vmRow' \in [Vm -> RowType]
    BY <1>4, <2>1, ShownTypes DEF TypeInv, ControlTypeOK
  <2>3. poll' \in [Vm -> PollType]
    BY <1>1, <1>2, <1>7 DEF PollEnd
  <2>4. UNCHANGED <<vmState, flowVars, auxVars>>
    BY <1>7 DEF PollEnd
  <2> QED BY <2>2, <2>3, <2>4 DEF flowVars, auxVars, TypeInv, ControlTypeOK, Phase, of
<1>8. PowerOf(vmState[v]) \in PowerShown
  BY DEF PowerOf, PowerShown
<1> QED
  BY <1>3, <1>5, <1>6, <1>7, <1>8 DEF VisitStep, PollSees, PollMisses, PollStep

(* So do a late clone and a restart.                                        *)
LEMMA BackendTypes ==
  ASSUME TypeInv, LateClone \/ Restart
  PROVE  TypeInv'
<1>1. CASE LateClone
  <2>1. PICK r \in Rebuild :
          /\ late[r] > 0
          /\ late' = [late EXCEPT ![r] = @ - 1]
          /\ CloneAccepted(of[r]) \/ UNCHANGED <<vmState, vmRow>>
    BY <1>1 DEF LateClone
  <2>2. late' \in [Rebuild -> 0 .. RebuildAttempts] /\ of[r] \in Vm
    BY <2>1, MachineControlAssumption DEF TypeInv, ControlTypeOK, Phase
  <2>3. /\ vmState' \in [Vm -> {"gone", "cloning", "off", "on"}]
        /\ vmRow' \in [Vm -> RowType]
    BY <2>1, <2>2, ShownTypes DEF CloneAccepted, TypeInv, ControlTypeOK, Messages
  <2>4. UNCHANGED <<creation, asks, request, rebuild, poll, restarts, untracked>>
    BY <1>1 DEF LateClone
  <2>5. ControlTypeOK'
    BY <2>2, <2>3, <2>4 DEF TypeInv, ControlTypeOK
  <2>6. ASSUME NEW q \in Rebuild PROVE Phase(q)'
    BY <2>1, <2>4, <2>6, MachineControlAssumption DEF TypeInv, ControlTypeOK, Phase, of
  <2> QED BY <2>5, <2>6 DEF TypeInv
<1>2. CASE Restart
  <2>1. /\ restarts' = restarts + 1 /\ restarts < asks.restarts
        /\ late' = [r \in Rebuild |-> 0]
        /\ poll' = [v \in Vm |-> NoVisit]
        /\ UNCHANGED <<vmState, vmRow, creation, asks>>
    BY <1>2 DEF Restart
  <2>2. restarts' \in 0 .. asks'.restarts
    BY <2>1, OfType DEF TypeInv, ControlTypeOK
  <2>b. Blank \in RowType
    BY DEF Blank, NoFlows, RowType, States, Messages
  <2>3. poll' \in [Vm -> [pc : {"idle", "visit", "describe", "end"},
                          seen : RowType, power : PowerShown \cup {Unknown}]]
    BY <2>1, <2>b DEF NoVisit
  <2>4. request' \in [Rebuild -> [pc : {"idle", "starting", "waiting", "answered", "dead"},
                                  seen : RowType]]
    BY <1>2, <2>b DEF Restart, TypeInv, ControlTypeOK
  <2>5. untracked' \subseteq Vm
    BY <1>2 DEF Restart, TypeInv, ControlTypeOK, Phase
  <2>6. ASSUME NEW r \in Rebuild
        PROVE  /\ rebuild'[r] \in RebuildType
               /\ Phase(r)'
    <3>1. /\ rebuild[r] \in RebuildType
          /\ late[r] \in 0 .. RebuildAttempts
      BY DEF TypeInv, ControlTypeOK, RebuildType
    <3>2. /\ request'[r].pc = "idle" <=> request[r].pc = "idle"
          /\ late'[r] = 0
          /\ of'[r] = of[r]
      BY <1>2, <2>1 DEF Restart, of
    <3>3. rebuild'[r] = IF rebuild[r].pc = "sleeping" THEN Retried(r) ELSE rebuild[r]
      BY <1>2 DEF Restart
    <3>4. CASE rebuild[r].pc # "sleeping"
      BY <3>1, <3>2, <3>3, <3>4, MachineControlAssumption DEF TypeInv, Phase, RebuildType
    <3>5. CASE rebuild[r].pc = "sleeping"
      <4>1. rebuild[r].left \in 1 .. RebuildAttempts
        BY <3>1, <3>5, MachineControlAssumption DEF TypeInv, Phase, RebuildType
      <4>2. PICK pc \in {"rebuild", "failed"} :
              /\ pc = "rebuild" => rebuild[r].left # 1
              /\ rebuild'[r] = [rebuild[r] EXCEPT !.pc = pc, !.left = rebuild[r].left - 1]
        BY <3>3, <3>5 DEF Retried
      <4>a. rebuild[r].left - 1 \in 0 .. RebuildAttempts
        BY <4>1, MachineControlAssumption
      <4>3. rebuild'[r] \in RebuildType
        BY <3>1, <4>a, <4>2 DEF RebuildType, Active
      <4> QED
        BY <3>1, <3>2, <3>5, <4>1, <4>2, <4>3, MachineControlAssumption
           DEF TypeInv, Phase, RebuildType
    <3> QED BY <3>4, <3>5
  <2>7. rebuild' \in [Rebuild -> RebuildType]
    BY <1>2, <2>6 DEF Restart
  <2>8. late' \in [Rebuild -> 0 .. RebuildAttempts]
    BY <2>1, MachineControlAssumption
  <2>9. ControlTypeOK'
    BY <2>1, <2>2, <2>3, <2>4, <2>5, <2>7, <2>8 DEF TypeInv, ControlTypeOK, RebuildType
  <2> QED BY <2>6, <2>9 DEF TypeInv
<1> QED BY <1>1, <1>2

(* Every step keeps the types.                                             *)
LEMMA StepTypes == TypeInv /\ [ControlNext]_controlVars => TypeInv'
<1>1. ASSUME TypeInv, ControlNext PROVE TypeInv'
  BY <1>1, Steps, RebuildTypes, MachineTypes, VisitTypes, BackendTypes
<1>2. ASSUME TypeInv, UNCHANGED controlVars PROVE TypeInv'
  BY <1>2 DEF controlVars, flowVars, auxVars, TypeInv, ControlTypeOK, Phase, of
<1> QED BY <1>1, <1>2

(* Every variable keeps its type.                                           *)
THEOREM ControlTypeCorrect == ControlSpec => []ControlTypeOK
<1>1. ControlSpec => []TypeInv
  BY InitTypes, StepTypes, PTL DEF ControlSpec
<1>2. TypeInv => ControlTypeOK
  BY DEF TypeInv
<1> QED BY <1>1, <1>2, PTL

-----------------------------------------------------------------------------
(* A VM is gone, or being cloned again, because of a rebuild that has        *)
(* deleted it or met it gone, and has not seen the clone succeed.            *)

Lost(r) ==
    \/ rebuild[r].pc \in {"sleeping", "error", "failed"}
    \/ rebuild[r].pc = "rebuild" /\ rebuild[r].left < RebuildAttempts
    \/ rebuild[r].pc = "wait" /\ rebuild[r].task \in {"running", "failed"}

Excused(v) ==
    vmState[v] \in {"gone", "cloning"} => \E r \in Rebuild : of[r] = v /\ Lost(r)

Awaited(r) ==
    rebuild[r].task = "running" =>
        rebuild[r].pc = "wait" /\ vmState[of[r]] = "cloning"

LossInv ==
    /\ \A v \in Vm : Excused(v)
    /\ \A r \in Rebuild : Awaited(r)

(* No machine is missing at first.                                         *)
LEMMA InitLoss == ControlInit => LossInv
  BY DEF ControlInit, LossInv, Excused, Awaited, NoRebuild

(* A step of one rebuild r on its machine keeps LossInv if it shows its own  *)
(* part, and does not make r forget that it has lost the machine.            *)
LEMMA LossKept ==
  ASSUME TypeInv, LossInv, NEW r \in Rebuild, UNCHANGED asks,
         \A q \in Rebuild \ {r} : rebuild'[q] = rebuild[q],
         Lost(r) => Lost(r)',
         \A v \in Vm : \/ vmState'[v] = vmState[v]
                       \/ v = of[r] /\ vmState[v] # "cloning",
         of[r] \in Vm /\ vmState'[of[r]] \in {"gone", "cloning"} =>
             vmState[of[r]] \in {"gone", "cloning"} \/ Lost(r)',
         Awaited(r)'
  PROVE  LossInv'
<1>1. ASSUME NEW v \in Vm PROVE Excused(v)'
  <2> SUFFICES ASSUME vmState'[v] \in {"gone", "cloning"}
               PROVE  \E q \in Rebuild : of'[q] = v /\ Lost(q)'
    BY DEF Excused
  <2>1. CASE vmState[v] \in {"gone", "cloning"}
    <3>1. PICK q \in Rebuild : of[q] = v /\ Lost(q)
      BY <2>1 DEF LossInv, Excused
    <3>2. Lost(q)'
      BY <3>1 DEF Lost
    <3> QED BY <3>1, <3>2 DEF of
  <2>2. CASE vmState[v] \notin {"gone", "cloning"}
    BY <2>2 DEF of
  <2> QED BY <2>1, <2>2
<1>2. ASSUME NEW q \in Rebuild \ {r} PROVE Awaited(q)'
  <2>1. rebuild'[q] = rebuild[q] /\ of'[q] = of[q]
    BY DEF of
  <2>2. CASE rebuild[q].task = "running"
    <3>1. rebuild[q].pc = "wait" /\ vmState[of[q]] = "cloning"
      BY <2>2 DEF LossInv, Awaited
    <3>2. of[q] \in Vm
      BY <3>1 DEF TypeInv, Phase
    <3> QED BY <2>1, <3>1, <3>2 DEF Awaited
  <2>3. CASE rebuild[q].task # "running"
    BY <2>1, <2>3 DEF Awaited
  <2> QED BY <2>2, <2>3
<1> QED BY <1>1, <1>2 DEF LossInv

(* A rebuild's step keeps LossInv.                                          *)
LEMMA RebuildLoss ==
  ASSUME TypeInv, LossInv, NEW r \in Rebuild, RebuildStep(r)
  PROVE  LossInv'
<1>r. /\ rebuild \in [Rebuild -> RebuildType]
      /\ rebuild[r] \in RebuildType
  BY DEF TypeInv, ControlTypeOK, RebuildType
<1>a. Awaited(r) /\ (of[r] \in Vm => Excused(of[r]))
  BY DEF LossInv
<1>1. CASE StartRebuild(r)
  <2>1. /\ rebuild[r].pc = "none"
        /\ rebuild' = [rebuild EXCEPT
                ![r] = [pc |-> "rebuild", left |-> RebuildAttempts, task |-> "none"]]
        /\ UNCHANGED <<vmState, asks>>
    BY <1>1 DEF StartRebuild, TypeInv, Phase
  <2> QED BY <1>r, <2>1, LossKept DEF Lost, Awaited
<1>2. CASE StartFails(r) \/ HandlerStep(r)
  <2>1. UNCHANGED <<vmState, asks, rebuild>>
    BY <1>2 DEF StartFails, HandlerStep, RecordRunning, AnswerResult, AnswerFailure
  <2> QED BY <2>1 DEF LossInv, Excused, Awaited, Lost, of
<1>3. CASE BeginRebuild(r) \/ CloneAfterSleep(r)
  <2>1. /\ rebuild[r].pc \in {"rebuild", "sleeping"}
        /\ \/ RemoveVm(r) \/ CloneAnswered(r) \/ CloneUnanswered(r) \/ RebuildError(r)
        /\ UNCHANGED <<asks>>
    BY <1>3 DEF BeginRebuild, CloneAfterSleep
  <2>2. of[r] \in Vm
    BY <2>1 DEF TypeInv, Phase
  <2>3. rebuild[r].task # "running"
    BY <1>a, <2>1 DEF Awaited
  <2>v. vmState \in [Vm -> {"gone", "cloning", "off", "on"}]
    BY DEF TypeInv, ControlTypeOK
  <2>4. CASE RemoveVm(r)
    <3>1. /\ vmState[of[r]] # "cloning"
          /\ vmState' = [vmState EXCEPT ![of[r]] = "gone"]
          /\ rebuild' = [rebuild EXCEPT ![r].pc = "sleeping"]
      BY <2>4 DEF RemoveVm
    <3>2. Lost(r)' /\ Awaited(r)'
      BY <1>r, <2>3, <3>1 DEF Lost, Awaited, RebuildType
    <3>3. \A q \in Rebuild \ {r} : rebuild'[q] = rebuild[q]
      BY <1>r, <3>1
    <3>4. \A v \in Vm : \/ vmState'[v] = vmState[v]
                        \/ v = of[r] /\ vmState[v] # "cloning"
      BY <2>v, <3>1
    <3> QED BY <2>1, <3>2, <3>3, <3>4, LossKept
  <2>5. CASE CloneAnswered(r)
    <3>1. /\ vmState[of[r]] = "gone"
          /\ vmState' = [vmState EXCEPT ![of[r]] = "cloning"]
          /\ rebuild' = [rebuild EXCEPT ![r].pc = "wait", ![r].task = "running"]
      BY <2>5 DEF CloneAnswered, CloneAccepted
    <3>2. Lost(r)' /\ Awaited(r)'
      BY <1>r, <2>1, <2>2, <2>v, <3>1 DEF Lost, Awaited, RebuildType, of
    <3>3. \A q \in Rebuild \ {r} : rebuild'[q] = rebuild[q]
      BY <1>r, <3>1
    <3>4. \A v \in Vm : \/ vmState'[v] = vmState[v]
                        \/ v = of[r] /\ vmState[v] # "cloning"
      BY <2>v, <3>1
    <3> QED BY <2>1, <3>2, <3>3, <3>4, LossKept
  <2>6. CASE CloneUnanswered(r)
    <3>1. /\ vmState[of[r]] = "gone"
          /\ vmState' = [vmState EXCEPT ![of[r]] = "cloning"]
          /\ rebuild' = [rebuild EXCEPT ![r].pc = "error"]
      BY <2>6 DEF CloneUnanswered, Proceed
    <3>2. Lost(r)' /\ Awaited(r)'
      BY <1>r, <2>3, <3>1 DEF Lost, Awaited, RebuildType
    <3>3. \A q \in Rebuild \ {r} : rebuild'[q] = rebuild[q]
      BY <1>r, <3>1
    <3>4. \A v \in Vm : \/ vmState'[v] = vmState[v]
                        \/ v = of[r] /\ vmState[v] # "cloning"
      BY <2>v, <3>1
    <3> QED BY <2>1, <3>2, <3>3, <3>4, LossKept
  <2>7. CASE RebuildError(r)
    <3>1. /\ vmState' = vmState
          /\ rebuild' = [rebuild EXCEPT ![r].pc = "error"]
      BY <2>7 DEF RebuildError, Proceed
    <3>2. Lost(r)' /\ Awaited(r)'
      BY <1>r, <2>3, <3>1 DEF Lost, Awaited, RebuildType
    <3>3. \A q \in Rebuild \ {r} : rebuild'[q] = rebuild[q]
      BY <1>r, <3>1
    <3> QED BY <2>1, <3>1, <3>2, <3>3, LossKept
  <2> QED BY <2>1, <2>4, <2>5, <2>6, <2>7
<1>4. CASE WaitReady(r)
  <2>1. /\ rebuild[r].pc = "wait" /\ rebuild[r].task = "ok"
        /\ rebuild' = [rebuild EXCEPT ![r].pc = "assign", ![r].task = "none"]
        /\ UNCHANGED <<vmState, asks>>
    BY <1>4 DEF WaitReady
  <2>2. ~Lost(r) /\ Awaited(r)'
    BY <1>r, <2>1 DEF Lost, Awaited, RebuildType
  <2>3. \A q \in Rebuild \ {r} : rebuild'[q] = rebuild[q]
    BY <1>r, <2>1
  <2> QED BY <2>1, <2>2, <2>3, LossKept
<1>5. CASE AssignIp(r)
  <2>1. /\ rebuild[r].pc = "assign"
        /\ rebuild' = [rebuild EXCEPT ![r].pc = "start"]
        /\ UNCHANGED <<vmState, asks>>
    BY <1>5 DEF AssignIp, Proceed
  <2>2. ~Lost(r) /\ Awaited(r)'
    BY <1>r, <1>a, <2>1 DEF Lost, Awaited, RebuildType
  <2>3. \A q \in Rebuild \ {r} : rebuild'[q] = rebuild[q]
    BY <1>r, <2>1
  <2> QED BY <2>1, <2>2, <2>3, LossKept
<1>6. CASE StepFails(r)
  <2>1. /\ rebuild' = [rebuild EXCEPT ![r].pc = "failed", ![r].task = "none"]
        /\ UNCHANGED <<vmState, asks>>
    BY <1>6 DEF StepFails
  <2>2. Lost(r)' /\ Awaited(r)'
    BY <1>r, <2>1 DEF Lost, Awaited, RebuildType
  <2>3. \A q \in Rebuild \ {r} : rebuild'[q] = rebuild[q]
    BY <1>r, <2>1
  <2> QED BY <2>1, <2>2, <2>3, LossKept
<1>7. CASE StartAfterRebuild(r)
  <2>1. /\ rebuild[r].pc = "start"
        /\ rebuild' = [rebuild EXCEPT ![r].pc = "completed"]
        /\ vmState' \in {vmState, [vmState EXCEPT ![of[r]] = Effect("start", vmState[of[r]])]}
        /\ UNCHANGED <<asks>>
    BY <1>7 DEF StartAfterRebuild, PowerActivity, Proceed
  <2>2. ~Lost(r) /\ Awaited(r)'
    BY <1>r, <1>a, <2>1 DEF Lost, Awaited, RebuildType
  <2>3. \A q \in Rebuild \ {r} : rebuild'[q] = rebuild[q]
    BY <1>r, <2>1
  <2>4. \A v \in Vm : \/ vmState'[v] = vmState[v]
                      \/ v = of[r] /\ vmState[v] = "off" /\ vmState'[v] = "on"
    BY <2>1 DEF Effect, TypeInv, ControlTypeOK
  <2> QED BY <2>1, <2>2, <2>3, <2>4, LossKept
<1>8. CASE RebuildTimesOut(r)
  <2>1. /\ rebuild[r].pc = "sleeping"
        /\ rebuild' = [rebuild EXCEPT ![r] = Retried(r)]
        /\ UNCHANGED <<vmState, asks>>
    BY <1>8 DEF RebuildTimesOut
  <2>2. rebuild[r].left \in 1 .. RebuildAttempts /\ rebuild[r].task # "running"
    BY <1>r, <1>a, <2>1, MachineControlAssumption DEF TypeInv, Phase, Awaited, RebuildType
  <2>3. PICK pc \in {"rebuild", "failed"} :
          rebuild'[r] = [rebuild[r] EXCEPT !.pc = pc, !.left = rebuild[r].left - 1]
    BY <1>r, <2>1 DEF Retried
  <2>4. Lost(r)' /\ Awaited(r)'
    BY <1>r, <2>2, <2>3, MachineControlAssumption DEF Lost, Awaited, RebuildType
  <2>5. \A q \in Rebuild \ {r} : rebuild'[q] = rebuild[q]
    BY <1>r, <2>1
  <2> QED BY <2>1, <2>4, <2>5, LossKept
<1> QED
  BY <1>1, <1>2, <1>3, <1>4, <1>5, <1>6, <1>7, <1>8 DEF RebuildStep, WorkflowStep

(* Steps that touch neither a VM nor a rebuild keep LossInv, and so do those *)
(* that turn a machine on or off.                                           *)
LEMMA PowerLoss ==
  ASSUME LossInv, UNCHANGED <<rebuild, asks>>,
         \A v \in Vm : \/ vmState'[v] = vmState[v]
                       \/ {vmState[v], vmState'[v]} \subseteq {"on", "off"},
         TypeInv
  PROVE  LossInv'
<1>1. ASSUME NEW v \in Vm PROVE Excused(v)'
  <2>1. /\ Excused(v)
        /\ vmState'[v] \in {"gone", "cloning"} => vmState[v] \in {"gone", "cloning"}
    BY DEF LossInv
  <2> QED BY <2>1 DEF Excused, Lost, of
<1>2. ASSUME NEW r \in Rebuild PROVE Awaited(r)'
  <2>1. CASE rebuild[r].task = "running"
    <3>1. rebuild[r].pc = "wait" /\ vmState[of[r]] = "cloning"
      BY <2>1 DEF LossInv, Awaited
    <3>2. of[r] \in Vm
      BY <3>1 DEF TypeInv, Phase
    <3>3. vmState'[of[r]] = "cloning"
      BY <3>1, <3>2
    <3> QED BY <3>1, <3>3 DEF Awaited, of
  <2>2. CASE rebuild[r].task # "running"
    BY <2>2 DEF Awaited
  <2> QED BY <2>1, <2>2
<1> QED BY <1>1, <1>2 DEF LossInv

(* What a machine does by itself, or is asked to, loses it to no request.  *)
LEMMA MachineLoss ==
  ASSUME TypeInv, LossInv, NEW v \in Vm, MachineStep(v)
  PROVE  LossInv'
<1>v. vmState \in [Vm -> {"gone", "cloning", "off", "on"}]
  BY DEF TypeInv, ControlTypeOK
<1>1. CASE CloneEnds(v)
  <2>1. PICK ok \in BOOLEAN :
          /\ vmState' = [vmState EXCEPT ![v] = IF ok THEN "off" ELSE "gone"]
          /\ rebuild' = [r \in Rebuild |->
               IF of[r] = v /\ rebuild[r].task = "running"
               THEN [rebuild[r] EXCEPT !.task = IF ok THEN "ok" ELSE "failed"]
               ELSE rebuild[r]]
    BY <1>1 DEF CloneEnds
  <2>2. vmState[v] = "cloning" /\ UNCHANGED asks
    BY <1>1 DEF CloneEnds
  <2>3. ASSUME NEW u \in Vm PROVE Excused(u)'
    <3> SUFFICES ASSUME vmState'[u] \in {"gone", "cloning"}
                 PROVE  \E r \in Rebuild : of'[r] = u /\ Lost(r)'
      BY DEF Excused
    <3>1. vmState[u] \in {"gone", "cloning"} /\ (u = v => ~ok)
      BY <1>v, <2>1, <2>2
    <3>2. PICK r \in Rebuild : of[r] = u /\ Lost(r)
      BY <3>1 DEF LossInv, Excused
    <3>3. Lost(r)'
      BY <2>1, <3>1, <3>2 DEF Lost, TypeInv, ControlTypeOK
    <3> QED BY <2>2, <3>2, <3>3 DEF of
  <2>4. ASSUME NEW r \in Rebuild PROVE Awaited(r)'
    <3>1. CASE rebuild'[r].task = "running"
      <4>1. of[r] # v /\ rebuild'[r] = rebuild[r]
        BY <2>1, <3>1 DEF TypeInv, ControlTypeOK
      <4>2. rebuild[r].pc = "wait" /\ vmState[of[r]] = "cloning"
        BY <3>1, <4>1 DEF LossInv, Awaited
      <4>3. of[r] \in Vm
        BY <4>2 DEF TypeInv, Phase
      <4>4. vmState'[of[r]] = "cloning"
        BY <1>v, <2>1, <4>1, <4>2, <4>3
      <4> QED BY <2>2, <4>1, <4>2, <4>4 DEF Awaited, of
    <3>2. CASE rebuild'[r].task # "running"
      BY <3>2 DEF Awaited
    <3> QED BY <3>1, <3>2
  <2> QED BY <2>3, <2>4 DEF LossInv
<1>2. CASE GuestStops(v)
  <2>1. /\ vmState[v] = "on" /\ vmState' = [vmState EXCEPT ![v] = "off"]
        /\ UNCHANGED <<rebuild, asks>>
    BY <1>2 DEF GuestStops, flowVars
  <2> QED BY <1>v, <2>1, PowerLoss
<1>3. CASE CreationEnds(v)
  BY <1>3, PowerLoss DEF CreationEnds
<1>4. ASSUME NEW a \in Actions, PowerRequest(v, a) PROVE LossInv'
  <2>1. /\ vmState' \in {vmState, [vmState EXCEPT ![v] = Effect(a, vmState[v])]}
        /\ UNCHANGED <<rebuild, asks>>
    BY <1>4 DEF PowerRequest, PowerActivity, flowVars
  <2>2. \/ Effect(a, vmState[v]) = vmState[v]
        \/ {vmState[v], Effect(a, vmState[v])} \subseteq {"on", "off"}
    BY DEF Effect
  <2> QED BY <1>v, <2>1, <2>2, PowerLoss
<1> QED BY <1>1, <1>2, <1>3, <1>4 DEF MachineStep

(* Every step keeps LossInv.                                               *)
LEMMA StepLoss ==
  ASSUME TypeInv, LossInv, ControlNext
  PROVE  LossInv'
<1>1. ASSUME NEW v \in Vm, VisitStep(v) PROVE LossInv'
  <2>1. UNCHANGED <<vmState, rebuild, asks>>
    BY <1>1 DEF VisitStep, PollSees, PollMisses, Visit, PollStep, PollPower, PollDescribe,
                PollEnd, flowVars
  <2> QED BY <2>1, PowerLoss
<1>2. CASE LateClone
  <2>1. PICK r \in Rebuild :
          /\ late[r] > 0
          /\ CloneAccepted(of[r]) \/ UNCHANGED vmState
    BY <1>2 DEF LateClone
  <2>2. UNCHANGED <<rebuild, asks>>
    BY <1>2 DEF LateClone
  <2>3. \A q \in Rebuild : Lost(q)' = Lost(q) /\ of'[q] = of[q]
    BY <2>2 DEF Lost, of
  <2>4. \A v \in Vm : \/ vmState'[v] = vmState[v]
                      \/ vmState[v] = "gone" /\ vmState'[v] = "cloning"
    BY <2>1 DEF CloneAccepted, TypeInv, ControlTypeOK
  <2>5. ASSUME NEW v \in Vm PROVE Excused(v)'
    BY <2>3, <2>4 DEF LossInv, Excused
  <2>6. ASSUME NEW q \in Rebuild PROVE Awaited(q)'
    <3>1. CASE rebuild[q].task = "running"
      <4>1. rebuild[q].pc = "wait" /\ vmState[of[q]] = "cloning"
        BY <3>1 DEF LossInv, Awaited
      <4>2. of[q] \in Vm
        BY <4>1 DEF TypeInv, Phase
      <4> QED BY <2>2, <2>3, <2>4, <4>1, <4>2 DEF Awaited
    <3>2. CASE rebuild[q].task # "running"
      BY <2>2, <3>2 DEF Awaited
    <3> QED BY <3>1, <3>2
  <2> QED BY <2>5, <2>6 DEF LossInv
<1>3. CASE Restart
  <2>1. /\ rebuild' = [r \in Rebuild |->
             IF rebuild[r].pc = "sleeping" THEN Retried(r) ELSE rebuild[r]]
        /\ UNCHANGED <<vmState, asks>>
    BY <1>3 DEF Restart
  <2>2. ASSUME NEW r \in Rebuild
        PROVE  /\ Lost(r) => Lost(r)'
               /\ Awaited(r)'
    <3>1. CASE rebuild[r].pc = "sleeping"
      <4>1. rebuild[r].left \in 1 .. RebuildAttempts /\ rebuild[r].task # "running"
        BY <3>1, MachineControlAssumption DEF TypeInv, ControlTypeOK, Phase, LossInv, Awaited
      <4>2. PICK pc \in {"rebuild", "failed"} :
              rebuild'[r] = [rebuild[r] EXCEPT !.pc = pc, !.left = rebuild[r].left - 1]
        BY <2>1, <3>1 DEF Retried
      <4>3. rebuild[r] \in RebuildType
        BY DEF TypeInv, ControlTypeOK, RebuildType
      <4> QED BY <4>1, <4>2, <4>3, MachineControlAssumption DEF Lost, Awaited, RebuildType
    <3>2. CASE rebuild[r].pc # "sleeping"
      BY <2>1, <3>2 DEF Lost, Awaited, LossInv, of
    <3> QED BY <3>1, <3>2
  <2> QED BY <2>1, <2>2 DEF LossInv, Excused, of
<1> QED BY <1>1, <1>2, <1>3, Steps, RebuildLoss, MachineLoss

-----------------------------------------------------------------------------
(* The row of a machine whose tracking was not lost says what its workflows  *)
(* came to, and so does what a request or a visit has read of it.           *)

Consistent(x) == x.status = "COMPLETED" <=> AllCompleted(x.flows)

Recorded(r) ==
    /\ request[r].pc = "answered" => rebuild[r].pc \notin Active
    /\ request[r].pc = "dead" => of[r] \in untracked
    /\ of[r] \in Vm \ untracked =>
         /\ request[r].pc = "answered" /\ rebuild[r].pc \in {"error", "failed"}
              => vmRow[of[r]].flows[r] = "FAILED"
         /\ request[r].pc = "waiting" =>
              /\ Consistent(request[r].seen)
              /\ request[r].seen.flows[r] = "RUNNING"
              /\ vmRow[of[r]].flows[r] \in {"RUNNING", "FAILED"}

Read(v) ==
    v \notin untracked =>
        /\ Consistent(vmRow[v])
        /\ poll[v].pc \in {"visit", "describe"} =>
             /\ Consistent(poll[v].seen)
             /\ poll[v].seen.flows[Creation] = vmRow[v].flows[Creation]

TrackInv == (\A r \in Rebuild : Recorded(r)) /\ (\A v \in Vm : Read(v))

(* The first rows say what their creation came to.                         *)
LEMMA InitTrack == ControlInit => TrackInv
<1> SUFFICES ASSUME ControlInit PROVE TrackInv
  OBVIOUS
<1>1. ASSUME NEW r \in Rebuild PROVE Recorded(r)
  BY DEF ControlInit, Recorded
<1>2. ASSUME NEW v \in Vm PROVE Read(v)
  <2>1. /\ vmRow[v].status = creation[v]
        /\ vmRow[v].flows = [NoFlows EXCEPT ![Creation] = creation[v]]
        /\ creation[v] \in {"RUNNING", "COMPLETED"}
        /\ poll[v].pc = "idle"
    BY DEF ControlInit, NoVisit
  <2>2. \A w \in Workflows :
          vmRow[v].flows[w] = IF w = Creation THEN creation[v] ELSE "none"
    BY <2>1 DEF NoFlows
  <2>3. Consistent(vmRow[v])
    BY <2>1, <2>2 DEF Consistent, AllCompleted, Over, Workflows
  <2> QED BY <2>1, <2>3 DEF Read
<1> QED BY <1>1, <1>2 DEF TrackInv

(* update_workflow_status on a copy that differs from the row in no entry    *)
(* but the workflow's own, which both have as completed or neither.          *)
LEMMA UpdateTracks ==
  ASSUME ControlTypeOK, NEW v \in Vm, NEW seen \in RowType, NEW w \in Workflows,
         NEW s \in States, NEW power \in PowerShown \cup {Unknown},
         UpdateStatus(v, seen, w, s, power),
         v \notin untracked =>
            /\ Consistent(seen) /\ Consistent(vmRow[v])
            /\ seen.flows[w] \in Over <=> vmRow[v].flows[w] \in Over
  PROVE  /\ untracked' \in {untracked, untracked \cup {v}}
         /\ \A u \in Vm \ {v} : vmRow'[u] = vmRow[u]
         /\ vmRow'[v].flows[w] = s
         /\ v \notin untracked' =>
              /\ Consistent(vmRow'[v])
              /\ \A x \in Workflows \ {w} : vmRow'[v].flows[x] = vmRow[v].flows[x]
<1> DEFINE d == [seen.flows EXCEPT ![w] = s]
<1>1. /\ d \in [Workflows -> States \cup {"none"}]
      /\ d[w] = s
      /\ \A x \in Workflows \ {w} : d[x] = seen.flows[x]
  BY DEF RowType
<1>2. PICK c \in Summaries(d) :
        vmRow' = [vmRow EXCEPT ![v] =
          [flows |-> d,
           status |-> Written(c, seen.status, vmRow[v].status),
           shown |-> Written(Message(d, seen.shown, power), seen.shown, vmRow[v].shown)]]
  BY DEF UpdateStatus, Updated
<1>3. c = "COMPLETED" <=> AllCompleted(d)
  BY <1>1, <1>2, SummaryOf
<1> HIDE DEF d
<1>4. /\ vmRow'[v].flows = d
      /\ vmRow'[v].status = Written(c, seen.status, vmRow[v].status)
      /\ \A u \in Vm \ {v} : vmRow'[u] = vmRow[u]
  BY <1>2 DEF ControlTypeOK
<1>5. untracked' = IF \A x \in Workflows \ {w} : seen.flows[x] = vmRow[v].flows[x]
                   THEN untracked ELSE untracked \cup {v}
  BY DEF UpdateStatus
<1>6. ASSUME v \notin untracked'
      PROVE  /\ Consistent(vmRow'[v])
             /\ \A x \in Workflows \ {w} : vmRow'[v].flows[x] = vmRow[v].flows[x]
  <2>1. /\ v \notin untracked
        /\ \A x \in Workflows \ {w} : seen.flows[x] = vmRow[v].flows[x]
    BY <1>5, <1>6
  <2>2. AllCompleted(seen.flows) <=> AllCompleted(vmRow[v].flows)
    BY <2>1 DEF AllCompleted
  <2>3. CASE c # seen.status
    <3>1. vmRow'[v].status = c
      BY <1>4, <2>3 DEF Written
    <3> QED BY <1>1, <1>3, <1>4, <2>1, <3>1 DEF Consistent
  <2>4. CASE c = seen.status
    <3>1. vmRow'[v].status = vmRow[v].status
      BY <1>4, <2>4 DEF Written
    <3>2. AllCompleted(d) <=> AllCompleted(vmRow[v].flows)
      BY <1>3, <2>1, <2>2, <2>4 DEF Consistent
    <3> QED BY <1>1, <1>4, <2>1, <3>1, <3>2 DEF Consistent
  <2> QED BY <2>3, <2>4
<1> QED BY <1>1, <1>4, <1>5, <1>6

(* What a step that writes no dictionary has to show.                       *)
LEMMA TrackKept ==
  ASSUME TrackInv, UNCHANGED asks,
         untracked \subseteq untracked',
         \A v \in Vm : /\ vmRow'[v].flows = vmRow[v].flows
                       /\ vmRow'[v].status = vmRow[v].status
                       /\ \/ poll'[v] = poll[v]
                          \/ v \notin untracked' => Read(v)',
         \A r \in Rebuild :
            \/ /\ request'[r] = request[r]
               /\ \/ rebuild'[r].pc = rebuild[r].pc
                  \/ rebuild[r].pc \in Active /\ request[r].pc # "answered"
            \/ Recorded(r)'
  PROVE  TrackInv'
<1>1. ASSUME NEW r \in Rebuild PROVE Recorded(r)'
  <2>1. Recorded(r) /\ of'[r] = of[r]
    BY DEF TrackInv, of
  <2>2. of[r] \in Vm => vmRow'[of[r]].flows = vmRow[of[r]].flows
    OBVIOUS
  <2>3. CASE /\ request'[r] = request[r]
             /\ \/ rebuild'[r].pc = rebuild[r].pc
                \/ rebuild[r].pc \in Active /\ request[r].pc # "answered"
    BY <2>1, <2>2, <2>3 DEF Recorded
  <2> QED BY <2>3
<1>2. ASSUME NEW v \in Vm PROVE Read(v)'
  <2>1. Read(v)
    BY DEF TrackInv
  <2> QED BY <2>1 DEF Read, Consistent
<1> QED BY <1>1, <1>2 DEF TrackInv

(* What a step has to show that writes the entry of one workflow.           *)
LEMMA EntryWritten ==
  ASSUME TrackInv, UNCHANGED <<asks, rebuild>>,
         NEW v \in Vm, NEW w \in Workflows,
         untracked' \in {untracked, untracked \cup {v}},
         \A u \in Vm \ {v} : vmRow'[u] = vmRow[u],
         v \notin untracked' =>
            /\ Consistent(vmRow'[v])
            /\ \A x \in Workflows \ {w} : vmRow'[v].flows[x] = vmRow[v].flows[x],
         \A u \in Vm : \/ poll'[u] = poll[u] /\ (u # v \/ w # Creation)
                       \/ poll'[u].pc \notin {"visit", "describe"},
         \A q \in Rebuild : \/ request'[q] = request[q] /\ (of[q] # v \/ q # w)
                            \/ Recorded(q)'
  PROVE  TrackInv'
<1>1. ASSUME NEW q \in Rebuild PROVE Recorded(q)'
  <2>1. Recorded(q) /\ of'[q] = of[q]
    BY DEF TrackInv, of
  <2>2. CASE request'[q] = request[q] /\ of[q] # v
    <3>1. of[q] \in Vm => vmRow'[of[q]] = vmRow[of[q]]
      BY <2>2
    <3> QED BY <2>1, <2>2, <3>1 DEF Recorded
  <2>3. CASE request'[q] = request[q] /\ of[q] = v /\ q # w
    <3>1. v \notin untracked' => vmRow'[v].flows[q] = vmRow[v].flows[q]
      BY <2>3 DEF Workflows
    <3> QED BY <2>1, <2>3, <3>1 DEF Recorded
  <2> QED BY <2>2, <2>3
<1>2. ASSUME NEW u \in Vm PROVE Read(u)'
  <2>1. Read(u)
    BY DEF TrackInv
  <2>2. CASE u # v
    <3>1. vmRow'[u] = vmRow[u]
      BY <2>2
    <3> QED BY <2>1, <2>2, <3>1 DEF Read
  <2>3. CASE u = v
    <3>1. v \notin untracked' /\ w # Creation =>
            vmRow'[v].flows[Creation] = vmRow[v].flows[Creation]
      BY DEF Workflows
    <3> QED BY <2>1, <2>3, <3>1 DEF Read
  <2> QED BY <2>2, <2>3
<1> QED BY <1>1, <1>2 DEF TrackInv

(* The four steps of a request that write its entry, and the poller's.      *)
LEMMA RequestTracks ==
  ASSUME TypeInv, TrackInv, NEW r \in Rebuild,
         StartFails(r) \/ RecordRunning(r) \/ AnswerResult(r) \/ AnswerFailure(r)
  PROVE  TrackInv'
<1>t. ControlTypeOK /\ Phase(r) /\ request[r].seen \in RowType
  BY DEF TypeInv, ControlTypeOK
<1>f. /\ r \in Workflows /\ r # Creation
      /\ {"FAILED", "RUNNING"} \subseteq States
      /\ Unknown \in PowerShown \cup {Unknown}
  BY MachineControlAssumption DEF Workflows, States
<1>a. of[r] \in Vm /\ vmRow[of[r]] \in RowType
  <2>1. of[r] \in Vm
    BY <1>t, OfType DEF ControlTypeOK, Phase, StartFails, RecordRunning, AnswerResult, AnswerFailure
  <2> QED BY <1>t, <2>1 DEF ControlTypeOK
<1>c. Recorded(r) /\ Read(of[r])
  BY <1>a DEF TrackInv
<1>e. /\ UNCHANGED <<asks, rebuild, poll>>
      /\ \A q \in Rebuild \ {r} : request'[q] = request[q]
  BY <1>t DEF ControlTypeOK, StartFails, RecordRunning, AnswerResult, AnswerFailure
<1>1. CASE StartFails(r)
  <2>1. PICK w \in Rebuild :
          /\ w = r \/ rebuild[w].pc \in Active
          /\ UpdateStatus(of[r], vmRow[of[r]], w, "FAILED", Unknown)
    BY <1>1 DEF StartFails
  <2>2. w \in Workflows /\ w # Creation
    BY MachineControlAssumption DEF Workflows
  <2>3. /\ untracked' \in {untracked, untracked \cup {of[r]}}
        /\ \A u \in Vm \ {of[r]} : vmRow'[u] = vmRow[u]
        /\ vmRow'[of[r]].flows[w] = "FAILED"
        /\ of[r] \notin untracked' =>
             /\ Consistent(vmRow'[of[r]])
             /\ \A x \in Workflows \ {w} : vmRow'[of[r]].flows[x] = vmRow[of[r]].flows[x]
    BY <1>t, <1>f, <1>a, <1>c, <2>1, <2>2, UpdateTracks DEF Read
  <2>4. /\ request'[r].pc = "answered"
        /\ rebuild[r].pc = "none"
    BY <1>1, <1>t DEF StartFails, Phase, ControlTypeOK
  <2>5. Recorded(r)'
    BY <1>e, <2>4 DEF Recorded, Active
  <2>6. ASSUME w # r, of[w] = of[r] PROVE Recorded(w)'
    <3>1. /\ rebuild[w].pc \in Active /\ request'[w] = request[w]
          /\ Recorded(w)
      BY <1>e, <2>1, <2>6 DEF TrackInv
    <3>2. request[w].pc # "answered" /\ of' = of
      BY <1>e, <3>1 DEF Recorded, of
    <3> QED BY <1>e, <2>3, <2>6, <3>1, <3>2 DEF Recorded
  <2> QED BY <1>a, <1>e, <2>2, <2>3, <2>5, <2>6, EntryWritten
<1>2. CASE RecordRunning(r)
  <2>1. UpdateStatus(of[r], vmRow[of[r]], r, "RUNNING", Unknown)
    BY <1>2 DEF RecordRunning
  <2>2. /\ untracked' \in {untracked, untracked \cup {of[r]}}
        /\ \A u \in Vm \ {of[r]} : vmRow'[u] = vmRow[u]
        /\ vmRow'[of[r]].flows[r] = "RUNNING"
        /\ of[r] \notin untracked' =>
             /\ Consistent(vmRow'[of[r]])
             /\ \A x \in Workflows \ {r} : vmRow'[of[r]].flows[x] = vmRow[of[r]].flows[x]
    BY <1>t, <1>f, <1>a, <1>c, <2>1, UpdateTracks DEF Read
  <2>3. request'[r].pc = "waiting" /\ request'[r].seen = vmRow'[of[r]]
    BY <1>2, <1>t DEF RecordRunning, ControlTypeOK
  <2>4. Recorded(r)'
    BY <1>e, <2>2, <2>3 DEF Recorded, of
  <2> QED BY <1>a, <1>e, <1>f, <2>2, <2>4, EntryWritten
<1>3. CASE AnswerResult(r) \/ AnswerFailure(r)
  <2>1. PICK seen \in {request[r].seen, vmRow[of[r]]} :
          UpdateStatus(of[r], seen, r, Outcome(r), Unknown)
    BY <1>3 DEF AnswerResult, AnswerFailure, Outcome
  <2>2. request[r].pc = "waiting" /\ rebuild[r].pc \in Answers \cup {"failed"}
    BY <1>3 DEF AnswerResult, AnswerFailure
  <2>3. of[r] \notin untracked =>
          /\ Consistent(seen) /\ Consistent(vmRow[of[r]])
          /\ seen.flows[r] \in Over <=> vmRow[of[r]].flows[r] \in Over
    BY <1>a, <1>c, <2>2 DEF Recorded, Read, Over
  <2>4. Outcome(r) \in States /\ seen \in RowType
    BY <1>t, <1>a DEF Outcome, States
  <2>5. /\ untracked' \in {untracked, untracked \cup {of[r]}}
        /\ \A u \in Vm \ {of[r]} : vmRow'[u] = vmRow[u]
        /\ vmRow'[of[r]].flows[r] = Outcome(r)
        /\ of[r] \notin untracked' =>
             /\ Consistent(vmRow'[of[r]])
             /\ \A x \in Workflows \ {r} : vmRow'[of[r]].flows[x] = vmRow[of[r]].flows[x]
    BY <1>t, <1>f, <1>a, <2>1, <2>3, <2>4, UpdateTracks
  <2>6. request'[r].pc = "answered"
    BY <1>3, <1>t DEF AnswerResult, AnswerFailure, ControlTypeOK
  <2>7. Recorded(r)'
    BY <1>e, <2>2, <2>5, <2>6 DEF Recorded, Outcome, Answers, Active, of
  <2> QED BY <1>a, <1>e, <1>f, <2>5, <2>7, EntryWritten
<1> QED BY <1>1, <1>2, <1>3

(* A new message changes nothing else of a row.                             *)
LEMMA ShownOnly ==
  ASSUME ControlTypeOK, NEW v \in Vm, NEW m,
         vmRow' = [vmRow EXCEPT ![v].shown = m]
  PROVE  \A u \in Vm : /\ vmRow'[u].flows = vmRow[u].flows
                       /\ vmRow'[u].status = vmRow[u].status
<1>1. /\ vmRow \in [Vm -> RowType]
      /\ vmRow[v] \in RowType
  BY DEF ControlTypeOK
<1> QED BY <1>1 DEF RowType

(* A visit writes what it read, and reads again what it wrote.             *)
LEMMA PollTracks ==
  ASSUME TypeInv, TrackInv, NEW v \in Vm, VisitStep(v)
  PROVE  TrackInv'
<1>t. ControlTypeOK /\ vmRow[v] \in RowType /\ poll[v].seen \in RowType
  BY DEF TypeInv, ControlTypeOK
<1>c. Read(v)
  BY DEF TrackInv
<1>1. CASE PollDescribe(v)
  <2>1. /\ UpdateStatus(v, poll[v].seen, Creation, creation[v], poll[v].power)
        /\ poll[v].pc = "describe"
        /\ poll' = [poll EXCEPT ![v].seen = vmRow'[v], ![v].pc = "end"]
        /\ UNCHANGED <<asks, rebuild, request>>
    BY <1>1 DEF PollDescribe, flowVars
  <2>2. v \notin untracked =>
          /\ Consistent(poll[v].seen) /\ Consistent(vmRow[v])
          /\ poll[v].seen.flows[Creation] \in Over <=> vmRow[v].flows[Creation] \in Over
    BY <1>c, <2>1 DEF Read
  <2>3. /\ Creation \in Workflows /\ creation[v] \in States
        /\ poll[v].power \in PowerShown \cup {Unknown}
    BY <1>t DEF Workflows, ControlTypeOK
  <2>4. /\ untracked' \in {untracked, untracked \cup {v}}
        /\ \A u \in Vm \ {v} : vmRow'[u] = vmRow[u]
        /\ v \notin untracked' =>
             /\ Consistent(vmRow'[v])
             /\ \A x \in Workflows \ {Creation} : vmRow'[v].flows[x] = vmRow[v].flows[x]
    BY <1>t, <2>1, <2>2, <2>3, UpdateTracks
  <2>5. \A u \in Vm : \/ poll'[u] = poll[u] /\ u # v
                      \/ poll'[u].pc \notin {"visit", "describe"}
    BY <1>t, <2>1 DEF ControlTypeOK
  <2>6. PICK w \in Workflows : w = Creation
    BY <2>3
  <2>7. \A q \in Rebuild : request'[q] = request[q] /\ (of[q] # v \/ q # w)
    BY <2>1, <2>6, MachineControlAssumption
  <2>8. \A u \in Vm : \/ poll'[u] = poll[u] /\ (u # v \/ w # Creation)
                      \/ poll'[u].pc \notin {"visit", "describe"}
    BY <2>5
  <2>9. v \notin untracked' =>
          /\ Consistent(vmRow'[v])
          /\ \A x \in Workflows \ {w} : vmRow'[v].flows[x] = vmRow[v].flows[x]
    BY <2>4, <2>6
  <2>10. UNCHANGED <<asks, rebuild>>
    BY <2>1
  <2> QED BY <2>10, <2>4, <2>7, <2>8, <2>9, EntryWritten
<1>2. CASE ~PollDescribe(v)
  <2>1. /\ UNCHANGED <<asks, rebuild, request, untracked>>
        /\ \A u \in Vm \ {v} : poll'[u] = poll[u]
    BY <1>2, <1>t DEF VisitStep, PollSees, PollMisses, Visit, PollStep, PollPower, PollEnd,
                      flowVars, auxVars, ControlTypeOK
  <2>2. \A u \in Vm : /\ vmRow'[u].flows = vmRow[u].flows
                      /\ vmRow'[u].status = vmRow[u].status
    <3>1. \/ vmRow' = vmRow
          \/ \E m : vmRow' = [vmRow EXCEPT ![v].shown = m]
      BY <1>2 DEF VisitStep, PollSees, PollMisses, Visit, PollStep, PollPower, PollEnd
    <3> QED BY <3>1, ShownOnly, <1>t
  <2>3. v \notin untracked' => Read(v)'
    <3>1. CASE PollSees(v) \/ PollMisses(v)
      <4>1. poll'[v].seen = vmRow[v] /\ vmRow' = vmRow
        BY <1>t, <3>1 DEF PollSees, PollMisses, Visit, ControlTypeOK
      <4> QED BY <1>c, <2>1, <4>1 DEF Read
    <3>2. CASE PollPower(v)
      <4>1. poll[v].pc = "visit" /\ poll'[v].seen \in {poll[v].seen, vmRow'[v]}
        BY <1>t, <3>2 DEF PollPower, ControlTypeOK
      <4> QED BY <1>c, <2>1, <2>2, <4>1 DEF Read, Consistent
    <3>3. CASE PollEnd(v)
      <4>1. poll'[v].pc = "idle"
        BY <1>t, <3>3 DEF PollEnd, NoVisit, ControlTypeOK
      <4> QED BY <1>c, <2>1, <2>2, <4>1 DEF Read, Consistent
    <3> QED BY <1>2, <3>1, <3>2, <3>3 DEF VisitStep, PollStep
  <2> QED BY <2>1, <2>2, <2>3, TrackKept
<1> QED BY <1>1, <1>2

(* Every step keeps the records true.                                       *)
LEMMA StepTrack ==
  ASSUME TypeInv, TrackInv, ControlNext
  PROVE  TrackInv'
<1>t. /\ ControlTypeOK
      /\ vmRow \in [Vm -> RowType]
      /\ rebuild \in [Rebuild -> RebuildType]
  BY DEF TypeInv, ControlTypeOK, RebuildType
<1>1. ASSUME NEW r \in Rebuild, StartRebuild(r) PROVE TrackInv'
  <2>1. /\ UNCHANGED <<asks, vmRow, poll, untracked>>
        /\ request' = [request EXCEPT ![r].pc = "starting"]
        /\ rebuild' = [rebuild EXCEPT
               ![r] = [pc |-> "rebuild", left |-> RebuildAttempts, task |-> "none"]]
    BY <1>1 DEF StartRebuild, auxVars
  <2>2. /\ request'[r].pc = "starting"
        /\ \A q \in Rebuild \ {r} : request'[q] = request[q] /\ rebuild'[q] = rebuild[q]
    BY <1>t, <2>1 DEF ControlTypeOK
  <2>3. Recorded(r)'
    BY <2>2 DEF Recorded
  <2> QED BY <2>1, <2>2, <2>3, TrackKept
<1>2. ASSUME NEW r \in Rebuild, WorkflowStep(r) \/ RebuildTimesOut(r) PROVE TrackInv'
  <2>1. /\ rebuild[r].pc \in Active
        /\ UNCHANGED <<asks, request, poll, untracked>>
    BY <1>2 DEF WorkflowStep, RebuildTimesOut, BeginRebuild, CloneAfterSleep, WaitReady,
                AssignIp, StepFails, StartAfterRebuild, auxVars, Active
  <2>2. \A q \in Rebuild \ {r} : rebuild'[q] = rebuild[q]
    BY <1>t, <1>2 DEF WorkflowStep, RebuildTimesOut, BeginRebuild, CloneAfterSleep, RemoveVm,
        CloneAnswered, CloneUnanswered, RebuildError, WaitReady, AssignIp, StepFails,
        StartAfterRebuild, Proceed
  <2>3. of[r] \in Vm
    BY <2>1 DEF TypeInv, Phase, Active
  <2>4. \/ vmRow' = vmRow
        \/ \E m : vmRow' = [vmRow EXCEPT ![of[r]].shown = m]
    BY <1>2 DEF WorkflowStep, RebuildTimesOut, BeginRebuild, CloneAfterSleep, RemoveVm,
        CloneAnswered, CloneUnanswered, RebuildError, CloneAccepted, WaitReady, AssignIp,
        StepFails, StartAfterRebuild, PowerActivity, Show
  <2>5. \A u \in Vm : /\ vmRow'[u].flows = vmRow[u].flows
                      /\ vmRow'[u].status = vmRow[u].status
    BY <1>t, <2>3, <2>4, ShownOnly
  <2>6. request[r].pc # "answered"
    BY <2>1 DEF TrackInv, Recorded
  <2> QED BY <2>1, <2>2, <2>5, <2>6, TrackKept
<1>3. ASSUME NEW v \in Vm, MachineStep(v) PROVE TrackInv'
  <2>1. UNCHANGED <<asks, request, poll, untracked>>
    BY <1>3 DEF MachineStep, CloneEnds, GuestStops, CreationEnds, PowerRequest, flowVars, auxVars
  <2>2. \A q \in Rebuild : rebuild'[q].pc = rebuild[q].pc
    BY <1>t, <1>3 DEF MachineStep, CloneEnds, GuestStops, CreationEnds, PowerRequest, flowVars,
        RebuildType
  <2>3. \/ vmRow' = vmRow
        \/ \E m : vmRow' = [vmRow EXCEPT ![v].shown = m]
    BY <1>3 DEF MachineStep, CloneEnds, GuestStops, CreationEnds, PowerRequest,
                PowerActivity, Show
  <2>4. \A u \in Vm : /\ vmRow'[u].flows = vmRow[u].flows
                      /\ vmRow'[u].status = vmRow[u].status
    BY <1>t, <2>3, ShownOnly
  <2> QED BY <2>1, <2>2, <2>4, TrackKept
<1>4. CASE LateClone
  <2>1. PICK r \in Rebuild : late[r] > 0 /\ (CloneAccepted(of[r]) \/ UNCHANGED vmRow)
    BY <1>4 DEF LateClone
  <2>2. UNCHANGED <<asks, request, rebuild, poll, untracked>>
    BY <1>4 DEF LateClone
  <2>3. of[r] \in Vm
    BY <2>1, MachineControlAssumption DEF TypeInv, Phase
  <2>4. \A u \in Vm : /\ vmRow'[u].flows = vmRow[u].flows
                      /\ vmRow'[u].status = vmRow[u].status
    BY <1>t, <2>1, <2>3, ShownOnly DEF CloneAccepted
  <2> QED BY <2>2, <2>4, TrackKept
<1>5. CASE Restart
  <2>1. /\ UNCHANGED <<asks, vmRow>>
        /\ \A v \in Vm : poll'[v].pc = "idle"
        /\ untracked \subseteq untracked'
    BY <1>5 DEF Restart, NoVisit
  <2>2. ASSUME NEW v \in Vm, v \notin untracked' PROVE Read(v)'
    BY <2>1, <2>2 DEF TrackInv, Read
  <2>3. ASSUME NEW r \in Rebuild PROVE Recorded(r)'
    <3>1. Recorded(r) /\ of' = of
      BY <2>1 DEF TrackInv, of
    <3>2. CASE request[r].pc \in {"starting", "waiting"}
      <4>1. request'[r].pc = "dead" /\ of[r] \in untracked'
        BY <1>5, <3>2 DEF Restart
      <4> QED BY <3>1, <4>1 DEF Recorded
    <3>3. CASE request[r].pc \notin {"starting", "waiting"}
      <4>1. request'[r] = request[r]
        BY <1>5, <3>3 DEF Restart
      <4>2. CASE rebuild[r].pc = "sleeping"
        BY <2>1, <3>1, <3>3, <4>1, <4>2 DEF Recorded, Active
      <4>3. CASE rebuild[r].pc # "sleeping"
        <5>1. rebuild'[r] = rebuild[r]
          BY <1>5, <4>3 DEF Restart
        <5> QED BY <2>1, <3>1, <3>3, <4>1, <5>1 DEF Recorded
      <4> QED BY <4>2, <4>3
    <3> QED BY <3>2, <3>3
  <2> QED BY <2>1, <2>2, <2>3, TrackKept
<1>6. ASSUME NEW r \in Rebuild, RebuildStep(r) PROVE TrackInv'
  BY <1>1, <1>2, <1>6, RequestTracks DEF RebuildStep, HandlerStep
<1> QED BY <1>3, <1>4, <1>5, <1>6, Steps, PollTracks

-----------------------------------------------------------------------------
(* All of it: types, what a lost machine means, what is recorded of it.     *)
ControlInv == TypeInv /\ LossInv /\ TrackInv

(* A step that changes nothing keeps it.                                    *)
LEMMA StutterControl ==
  ASSUME ControlInv, UNCHANGED controlVars
  PROVE  ControlInv'
<1>1. TypeInv' = TypeInv
  BY DEF controlVars, flowVars, auxVars, TypeInv, ControlTypeOK, Phase, of
<1>2. LossInv' = LossInv
  BY DEF controlVars, flowVars, auxVars, LossInv, Excused, Lost, Awaited, of
<1>3. TrackInv' = TrackInv
  BY DEF controlVars, flowVars, auxVars, TrackInv, Recorded, Read, of
<1> QED BY <1>1, <1>2, <1>3 DEF ControlInv

(* It says that losses are shown.                                           *)
LEMMA LossShown ==
  ASSUME ControlInv
  PROVE  LossIsShown
<1> SUFFICES ASSUME NEW v \in Vm,
                    vmState[v] = "gone", Resting(v), v \notin untracked
             PROVE  vmRow[v].status # "COMPLETED"
  BY DEF LossIsShown
<1>1. PICK r \in Rebuild : of[r] = v /\ Lost(r)
  BY DEF ControlInv, LossInv, Excused
<1>2. /\ rebuild[r].pc \in {"error", "failed"}
      /\ request[r].pc = "answered"
  BY <1>1 DEF Resting, Lost, ControlInv, TypeInv, Phase, Active
<1>3. vmRow[v].flows[r] = "FAILED" /\ Consistent(vmRow[v])
  BY <1>1, <1>2 DEF ControlInv, TrackInv, Recorded, Read
<1> QED BY <1>3 DEF Consistent, AllCompleted, Over, Workflows

(* A machine that a rebuild removed and did not make again is not shown as  *)
(* completed once its requests are answered: the rebuild that lost it has   *)
(* recorded its failure, in the row and not in a copy overwritten since     *)
(* (vm_rebuild, update_workflow_status).                                    *)
THEOREM LossesAreShown == ControlSpec => []LossIsShown
<1>1. ControlInit => ControlInv
  BY InitTypes, InitLoss, InitTrack DEF ControlInv
<1>2. ControlInv /\ [ControlNext]_controlVars => ControlInv'
  BY StepTypes, StepLoss, StepTrack, StutterControl DEF ControlInv
<1>3. ControlInv => LossIsShown
  BY LossShown
<1> QED BY <1>1, <1>2, <1>3, PTL DEF ControlSpec
=============================================================================
