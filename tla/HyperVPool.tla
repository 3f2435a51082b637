------------------------------ MODULE HyperVPool ------------------------------
(***************************************************************************)
(* An Automated pool on Hyper-V: its growth (update_pool_activity and       *)
(* CloneVMHyperVWorkflow), the rebuild of one of its machines or of all     *)
(* (VmRebuildHyperVWorkflow, HyperVPoolRebuildWorkflow), and its deletion.  *)
(*                                                                          *)
(* The host's agent makes, removes and starts VMs.  It gives each a new id  *)
(* and accepts any name.  An activity that is timed out is not cancelled:   *)
(* it goes on, and what it returns is ignored.                              *)
(***************************************************************************)
EXTENDS Integers, FiniteSets

CONSTANTS
    MaxName, MaxId,   \* bounds: machine names and ids, both numbers
    Growth, Wanted,   \* updates of the pool, and the size each asks for
    Rebuilds, Kind,   \* rebuild requests, each of "one" machine or "all"
    Initial,          \* size of the pool at first
    HvAttempts,       \* of every activity (5 and 3 in the code)
    Mixes             \* bound: what is asked for, and how much goes wrong by itself

ASSUME HyperVAssumption ==
    /\ {MaxName, MaxId, Initial} \subseteq Nat
    /\ Initial <= MaxName /\ Initial <= MaxId
    /\ Wanted \in [Growth -> Nat]
    /\ Kind \in [Rebuilds -> {"one", "all"}]
    /\ HvAttempts \in Nat \ {0}
    /\ Mixes \subseteq [of : SUBSET (Growth \cup Rebuilds \cup {"removal"}), mishaps : Nat]

VARIABLES
    mix,       \* one of Mixes
    host,      \* the VMs there are: name by id
    made,      \* ids given so far
    machine,   \* vm_id of each machine's row, by name
    listed,    \* pool_vmids
    total,     \* pool_number_of_vms
    poolRow,
    growth,    \* of each update: its attempt and the workflow it awaits
    belated,   \* clones still being made for attempts that were given up
    rebuilds,  \* of each rebuild: its workflow and the attempt that counts
    late,      \* rebuild attempts that were timed out
    removal,   \* the deletion
    mishaps,
    \* auxiliary: machines whose rebuild was answered with an error; those
    \* whose rebuild with the pool, or whose pool's deletion, went wrong, which
    \* only the end of a workflow says that nobody waits for; and ids that a
    \* write of the whole list dropped
    told, buried, mislaid

hostVars == <<host, made>>
rowVars == <<machine, listed, total, poolRow>>
reports == <<told, buried>>
auxiliary == <<reports, mislaid>>
hyperVVars == <<mix, hostVars, rowVars, growth, belated, rebuilds, late, removal,
                mishaps, auxiliary>>

MachineName == 1 .. MaxName
Id == 1 .. MaxId
NoRow == 0       \* no such machine
NoId == -1       \* "None": the agent named no id
Gone == 0        \* no VM has the id

Machines == {n \in MachineName : machine[n] # NoRow}
There(id) == id \in Id /\ host[id] # Gone

Least(S) == CHOOSE x \in S : \A y \in S : x <= y

NoTry == [pc |-> "none", name |-> 0, old |-> NoRow, seen |-> {}, new |-> NoRow]

HyperVInit ==
    /\ mix \in Mixes
    /\ host = [id \in Id |-> IF id <= Initial THEN id ELSE Gone]
    /\ made = Initial
    /\ machine = [n \in MachineName |-> IF n <= Initial THEN n ELSE NoRow]
    /\ listed = 1 .. Initial
    /\ total = Initial
    /\ poolRow = "live"
    /\ growth = [g \in Growth |-> [pc |-> "none", try |-> 1, cloneTry |-> 1, old |-> 0,
                                   names |-> {}, got |-> {}, done |-> 0]]
    /\ belated = {}
    /\ rebuilds = [r \in Rebuilds |-> [pc |-> "none", queue |-> {}, try |-> 1, now |-> NoTry]]
    /\ late = {}
    /\ removal = [pc |-> "none", ids |-> {}, names |-> {}, failed |-> FALSE]
    /\ mishaps = 0
    /\ told = {} /\ buried = {} /\ mislaid = {}

Mishap == mishaps < mix.mishaps /\ mishaps' = mishaps + 1

(* The agent makes a VM.                                                    *)
Makes(name) ==
    /\ made < MaxId
    /\ made' = made + 1
    /\ host' = [host EXCEPT ![made + 1] = name]

-----------------------------------------------------------------------------
(* Growth.                                                                  *)

Grows(g, from, to) ==
    /\ growth[g].pc = from
    /\ growth' = [growth EXCEPT ![g] = to]
    /\ UNCHANGED <<rebuilds, late, removal>>

AskGrowth(g) ==
    /\ g \in mix.of
    /\ Grows(g, "none", [growth[g] EXCEPT !.pc = "begin"])
    /\ UNCHANGED <<hostVars, rowVars, belated, mishaps, auxiliary>>

OnceMore(w) ==                                      \* mutant of Again
    IF w.try <= HvAttempts
    THEN [w EXCEPT !.pc = "begin", !.try = @ + 1]
    ELSE [w EXCEPT !.pc = "end"]

(* The activity raises, and is tried again from its beginning.              *)
Again(w) ==
    IF w.try < HvAttempts
    THEN [w EXCEPT !.pc = "begin", !.try = @ + 1, !.cloneTry = 1,
                   !.names = {}, !.got = {}, !.done = 0]
    ELSE [w EXCEPT !.pc = "end"]

(* The count asked for never falls below the count there is.                *)
BeginGrowth(g) ==
    LET w == growth[g]
    IN /\ Grows(g, "begin",
             IF poolRow = "gone" THEN Again(w)
             ELSE [w EXCEPT !.pc = IF Wanted[g] > total THEN "clone" ELSE "end",
                            !.old = total])
       /\ UNCHANGED <<hostVars, rowVars, belated, mishaps, auxiliary>>

(* The least numbers that neither the host nor a row has; the activity goes *)
(* on with none in its way when it cannot list the host's.                  *)
Taken == {host[id] : id \in Id} \cup Machines

FreeNames(taken, count) ==
    {n \in MachineName \ taken :
        Cardinality({m \in MachineName \ taken : m < n}) < count}

ChooseNames(g) ==
    LET w == growth[g]
    IN \E taken \in {Taken, {}} :
        /\ IF taken = Taken THEN UNCHANGED mishaps ELSE Mishap
        /\ Cardinality(MachineName \ taken) >= Wanted[g] - w.old
        /\ Grows(g, "clone",
               [w EXCEPT !.pc = "cloning", !.names = FreeNames(taken, Wanted[g] - w.old),
                         !.got = {}])
        /\ UNCHANGED <<hostVars, rowVars, belated, auxiliary>>

(* One of them: made, made but named without its id, or refused.            *)
CloneOne(g) ==
    LET w == growth[g]
        n == Least(w.names)
        rest == w.names \ {n}
    IN /\ w.names # {}
       /\ \/ /\ Makes(n)
             /\ \/ /\ Grows(g, "cloning",
                           [w EXCEPT !.names = rest,
                                     !.got = @ \cup {[name |-> n, id |-> made + 1]}])
                   /\ UNCHANGED mishaps
                \/ /\ Mishap
                   /\ Grows(g, "cloning",
                           [w EXCEPT !.names = rest, !.got = @ \cup {[name |-> n, id |-> NoId]}])
          \/ /\ Mishap
             /\ Grows(g, "cloning", [w EXCEPT !.names = rest])
             /\ UNCHANGED hostVars
       /\ UNCHANGED <<rowVars, belated, auxiliary>>

(* The request raises, or two minutes are over: the next attempt looks for   *)
(* names again, while the agent or the former attempt may still make some.   *)
CloneBreaks(g) ==
    LET w == growth[g]
    IN /\ w.names # {}
       /\ Mishap
       /\ Grows(g, "cloning",
              IF w.cloneTry < HvAttempts
              THEN [w EXCEPT !.pc = "clone", !.cloneTry = @ + 1, !.names = {}, !.got = {}]
              ELSE Again(w))
       /\ \E landing \in {{}, {Least(w.names)}, w.names} :
              belated' = belated \cup landing
       /\ UNCHANGED <<hostVars, rowVars, auxiliary>>

CloneLate(n) ==
    /\ n \in belated
    /\ belated' = belated \ {n}
    /\ Makes(n)
    /\ UNCHANGED <<rowVars, growth, rebuilds, late, removal, mishaps, auxiliary>>

(* finalize_cloned_machine_activity: the id is listed before the row is      *)
(* made.  A name that is taken has the clone undone, which on Hyper-V takes  *)
(* the id from the list and leaves the VM.                                   *)
RegisterClone(g) ==
    LET w == growth[g]
    IN /\ w.names = {} /\ w.got # {}
       /\ \E c \in w.got :
            /\ \A d \in w.got : c.name <= d.name
            /\ \/ /\ c.id = NoId \/ poolRow = "gone" \/ machine[c.name] # NoRow
                  /\ Grows(g, "cloning", [w EXCEPT !.got = @ \ {c}])
                  /\ UNCHANGED <<rowVars, mishaps, auxiliary>>
               \/ /\ c.id # NoId /\ poolRow = "live" /\ machine[c.name] = NoRow
                  /\ Grows(g, "cloning", [w EXCEPT !.pc = "start"])
                  /\ listed' = listed \cup {c.id}
                  /\ machine' = [machine EXCEPT ![c.name] = c.id]
                  /\ told' = told \ {c.name} /\ buried' = buried \ {c.name}
                  /\ UNCHANGED <<total, poolRow, mishaps, mislaid>>
               \* Guacamole refuses the connection, or it fails three times.
               \/ /\ c.id # NoId /\ poolRow = "live"
                  /\ Mishap
                  /\ \E w2 \in {[w EXCEPT !.got = @ \ {c}], Again(w)} :
                        Grows(g, "cloning", w2)
                  /\ listed' = listed \cup {c.id}
                  /\ UNCHANGED <<machine, total, poolRow, auxiliary>>
       /\ UNCHANGED <<hostVars, belated>>

AlwaysStarts(id) == TRUE                            \* mutant of Starts

(* start_vm_proxmox_activity raises only if the agent does.                  *)
Starts(id) == There(id) \/ \A n \in MachineName : machine[n] # id

StartClone(g) ==
    LET w == growth[g]
    IN /\ w.names = {}
       /\ \E c \in w.got :
            /\ \A d \in w.got : c.name <= d.name
            /\ \/ /\ Starts(c.id)
                  /\ Grows(g, "start", [w EXCEPT !.pc = "cloning", !.got = @ \ {c}, !.done = @ + 1])
                  /\ UNCHANGED mishaps
               \/ /\ IF Starts(c.id) THEN Mishap ELSE UNCHANGED mishaps
                  /\ Grows(g, "start", Again(w))
       /\ UNCHANGED <<hostVars, rowVars, belated, auxiliary>>

(* The count is set from the one that was read before the clones.           *)
EndGrowth(g) ==
    LET w == growth[g]
    IN /\ w.names = {} /\ w.got = {}
       /\ Grows(g, "cloning", IF poolRow = "gone" THEN Again(w) ELSE [w EXCEPT !.pc = "end"])
       /\ total' = IF poolRow = "live" /\ w.done > 0 THEN w.old + w.done ELSE total
       /\ UNCHANGED <<hostVars, machine, listed, poolRow, belated, mishaps, auxiliary>>

GrowthStep(g) ==
    \/ AskGrowth(g) \/ BeginGrowth(g) \/ ChooseNames(g) \/ CloneOne(g) \/ CloneBreaks(g)
    \/ RegisterClone(g) \/ StartClone(g) \/ EndGrowth(g)

-----------------------------------------------------------------------------
(* An attempt of vm_rebuild_hyper_v_activity ("one") or of                   *)
(* rebuild_machine_in_pool_activity ("all"): t becomes u.  It answers with   *)
(* an error what it raises.                                                  *)

Rowed(t) == \E n \in MachineName : machine[n] = t.old

ReadForRebuild(t, u) ==
    /\ t.pc = "read"
    /\ u = IF Rowed(t) /\ poolRow = "live" THEN [t EXCEPT !.pc = "remove", !.seen = listed]
           ELSE [t EXCEPT !.pc = "error"]
    /\ UNCHANGED <<hostVars, rowVars, mishaps, auxiliary>>

RemoveForRebuild(t, u) ==
    /\ t.pc = "remove"
    /\ \/ /\ Rowed(t) /\ There(t.old)
          /\ host' = [host EXCEPT ![t.old] = Gone]
          /\ \/ u = [t EXCEPT !.pc = "make"] /\ UNCHANGED mishaps
             \/ u = [t EXCEPT !.pc = "error"] /\ Mishap
       \/ /\ IF Rowed(t) /\ There(t.old) THEN Mishap ELSE UNCHANGED mishaps
          /\ u = [t EXCEPT !.pc = "error"]
          /\ UNCHANGED host
    /\ UNCHANGED <<made, rowVars, auxiliary>>

MakeForRebuild(t, u) ==
    /\ t.pc = "make"
    /\ \/ /\ Makes(t.name)
          /\ \/ u = [t EXCEPT !.pc = "record", !.new = made + 1] /\ UNCHANGED mishaps
             \/ u = [t EXCEPT !.pc = "record", !.new = NoId] /\ Mishap
             \/ u = [t EXCEPT !.pc = "error"] /\ Mishap
       \/ /\ Mishap
          /\ u = [t EXCEPT !.pc = "error"]
          /\ UNCHANGED hostVars
    /\ UNCHANGED <<rowVars, auxiliary>>

(* The id that the row gets: of a VM of that name, whichever the host lists *)
(* first, or as the agent answered; none keeps the row as it is.            *)
NewIds(t, kind) ==
    IF kind = "all" THEN {t.new}
    ELSE {id \in Id : host[id] = t.name}
         \cup (IF t.new = NoId THEN {t.old} ELSE {t.new})

NotReplaced(t, id) == t.seen                        \* mutant of Replaced

Replaced(t, id) == (t.seen \ {t.old}) \cup {id}

(* The list as it was read first, with one id replaced; if that was not in  *)
(* it, it is not written.                                                   *)
RecordRebuild(t, u, kind) ==
    /\ t.pc = "record"
    /\ IF machine[t.name] = NoRow \/ poolRow = "gone"
       THEN u = [t EXCEPT !.pc = "error"] /\ UNCHANGED <<rowVars, auxiliary>>
       ELSE \E id \in NewIds(t, kind) :
              /\ u = [t EXCEPT !.pc = "ok", !.new = id]
              /\ machine' = [machine EXCEPT ![t.name] = IF id = t.old THEN @ ELSE id]
              /\ listed' = IF t.old \in t.seen /\ id # t.old THEN Replaced(t, id) ELSE listed
              /\ mislaid' = mislaid \cup (listed \ (listed' \cup {t.old}))
                               \cup (IF t.old \in t.seen THEN {} ELSE {id})
              /\ UNCHANGED <<total, poolRow, reports>>
    /\ UNCHANGED <<hostVars, mishaps>>

TryStep(t, u, kind) ==
    \/ ReadForRebuild(t, u) \/ RemoveForRebuild(t, u) \/ MakeForRebuild(t, u)
    \/ RecordRebuild(t, u, kind)

-----------------------------------------------------------------------------
(* The workflows.                                                           *)

Elsewhere == UNCHANGED <<growth, belated, removal>>

Job(n, id) == [NoTry EXCEPT !.pc = "read", !.name = n, !.old = id]

(* The next of the machines that were there when it began.                  *)
NextJob(w) ==
    IF w.queue = {} THEN [w EXCEPT !.pc = "end", !.now = NoTry]
    ELSE LET q == CHOOSE q \in w.queue : \A o \in w.queue : q.name <= o.name
         IN [w EXCEPT !.queue = @ \ {q}, !.try = 1, !.now = Job(q.name, q.id)]

AskRebuild(r) ==
    /\ r \in mix.of
    /\ rebuilds[r].pc = "none"
    /\ poolRow = "live"
    /\ \E chosen \in IF Kind[r] = "all" THEN {Machines} ELSE {{n} : n \in Machines} :
        rebuilds' = [rebuilds EXCEPT ![r] =
            NextJob([@ EXCEPT !.pc = "run",
                            !.queue = {[name |-> n, id |-> machine[n]] : n \in chosen}])]
    /\ Elsewhere
    /\ UNCHANGED <<hostVars, rowVars, late, mishaps, auxiliary>>

Attempt(r) ==
    /\ rebuilds[r].pc = "run"
    /\ \E pc \in {"remove", "make", "record", "ok", "error"} :
       \E new \in Id \cup {NoRow, NoId}, seen \in {rebuilds[r].now.seen, listed} :
        LET t == rebuilds[r].now
            u == [t EXCEPT !.pc = pc, !.new = new, !.seen = seen]
        IN /\ TryStep(t, u, Kind[r])
           /\ rebuilds' = [rebuilds EXCEPT ![r].now = u]
    /\ Elsewhere
    /\ UNCHANGED late

AttemptLate(t) ==
    /\ t \in late
    /\ \E pc \in {"remove", "make", "record", "ok", "error"} :
       \E new \in Id \cup {NoRow, NoId}, seen \in {t.try.seen, listed} :
        LET u == [t.try EXCEPT !.pc = pc, !.new = new, !.seen = seen]
        IN /\ TryStep(t.try, u, t.kind)
           /\ late' = (late \ {t}) \cup
                (IF pc \in {"ok", "error"} THEN {} ELSE {[t EXCEPT !.try = u]})
    /\ Elsewhere
    /\ UNCHANGED rebuilds

Fail(w) == [w EXCEPT !.pc = "end", !.queue = {}, !.now = NoTry]

(* vm_rebuild waits for its workflow and answers with what it returns or    *)
(* raises; pool_rebuild has answered "success" when the workflow started,   *)
(* and that returns "success", too, whatever is in its machine_results.      *)
Reports(r, n) ==
    \/ Kind[r] = "one" /\ told' = told \cup {n} /\ UNCHANGED buried
    \/ Kind[r] = "all" /\ buried' = buried \cup {n} /\ UNCHANGED told

(* Its time is over, or its worker dies.                                    *)
AttemptEnds(r) ==
    LET w == rebuilds[r]
        t == w.now
    IN /\ w.pc = "run" /\ t.pc \in {"remove", "make", "record"}
       /\ Mishap
       /\ late' \in {late, late \cup {[kind |-> Kind[r], try |-> t]}}
       /\ IF w.try < HvAttempts
          THEN /\ rebuilds' = [rebuilds EXCEPT ![r].try = @ + 1,
                                               ![r].now = Job(t.name, t.old)]
               /\ UNCHANGED reports
          ELSE /\ rebuilds' = [rebuilds EXCEPT ![r] = Fail(w)]
               /\ Reports(r, t.name)
       /\ Elsewhere
       /\ UNCHANGED <<hostVars, rowVars, mislaid>>

(* The attempt has ended: with an error, or the machine is started.         *)
Answer(r) ==
    LET w == rebuilds[r]
        t == w.now
    IN /\ w.pc = "run"
       /\ \/ /\ t.pc = "error"
             /\ rebuilds' = [rebuilds EXCEPT ![r] = NextJob(w)]
             /\ Reports(r, t.name)
             /\ UNCHANGED mishaps
          \/ /\ t.pc = "ok" /\ Starts(t.new)
             /\ rebuilds' = [rebuilds EXCEPT ![r] = NextJob(w)]
             /\ UNCHANGED <<reports, mishaps>>
          \/ /\ t.pc = "ok"
             /\ IF Starts(t.new) THEN Mishap ELSE UNCHANGED mishaps
             /\ rebuilds' = [rebuilds EXCEPT ![r] = Fail(w)]
             /\ Reports(r, t.name)
       /\ Elsewhere
       /\ UNCHANGED <<hostVars, rowVars, late, mislaid>>

RebuildStep(r) == AskRebuild(r) \/ Attempt(r) \/ AttemptEnds(r) \/ Answer(r)

-----------------------------------------------------------------------------
(* delete_pool_activity.                                                    *)

Removes(from, to) ==
    /\ removal.pc = from
    /\ removal' = to
    /\ UNCHANGED <<growth, belated, rebuilds, late, mislaid>>

BeginRemoval ==
    /\ "removal" \in mix.of
    /\ poolRow = "live"
    /\ Removes("none", [pc |-> "vms", ids |-> listed, names |-> Machines, failed |-> FALSE])
    /\ UNCHANGED <<hostVars, rowVars, mishaps, reports>>

(* What the agent answers is not looked at; an id without a machine raises.  *)
RemoveVm(id) ==
    LET r == removal
    IN /\ id \in r.ids
       /\ \/ /\ \E n \in MachineName : machine[n] = id
             /\ Removes("vms", [r EXCEPT !.ids = @ \ {id}])
             /\ \/ /\ host' = [i \in Id |-> IF i = id THEN Gone ELSE host[i]]
                   /\ UNCHANGED mishaps
                \/ There(id) /\ Mishap /\ UNCHANGED host
          \/ /\ IF \E n \in MachineName : machine[n] = id THEN Mishap ELSE UNCHANGED mishaps
             /\ Removes("vms", [r EXCEPT !.ids = @ \ {id}, !.failed = TRUE])
             /\ UNCHANGED host
       /\ UNCHANGED <<made, rowVars, reports>>

(* delete_pool has answered when the workflow started: no failure is told.  *)
EndVms ==
    /\ removal.ids = {}
    /\ Removes("vms", [removal EXCEPT !.pc = IF removal.failed THEN "end" ELSE "rows"])
    /\ buried' = IF removal.failed THEN buried \cup Machines ELSE buried
    /\ UNCHANGED <<hostVars, rowVars, mishaps, told>>

RemoveMachine(n) ==
    /\ n \in removal.names
    /\ Removes("rows", [removal EXCEPT !.names = @ \ {n}])
    /\ machine' = [machine EXCEPT ![n] = NoRow]
    /\ UNCHANGED <<hostVars, listed, total, poolRow, mishaps, reports>>

RemovePool ==
    /\ removal.names = {}
    /\ Removes("rows", [removal EXCEPT !.pc = "end"])
    /\ poolRow' = "gone"
    /\ UNCHANGED <<hostVars, machine, listed, total, mishaps, reports>>

Removal ==
    \/ BeginRemoval \/ EndVms \/ RemovePool
    \/ \E id \in removal.ids : RemoveVm(id)
    \/ \E n \in removal.names : RemoveMachine(n)

-----------------------------------------------------------------------------
(* No deadlock: the end of all that was asked for, or a bound that is met.   *)
NothingMore ==
    /\ \/ /\ \A g \in Growth : growth[g].pc \in {"none", "end"}
          /\ \A r \in Rebuilds : rebuilds[r].pc \in {"none", "end"}
          /\ removal.pc \in {"none", "end"}
          /\ belated = {} /\ late = {}
       \/ made = MaxId
       \/ \E g \in Growth : Cardinality(MachineName \ Taken) < Wanted[g] - growth[g].old
    /\ UNCHANGED hyperVVars

HyperVNext ==
    \/ NothingMore
    \/ \E g \in Growth : GrowthStep(g)
    \/ \E n \in belated : CloneLate(n)
    \/ \E r \in Rebuilds : RebuildStep(r)
    \/ \E t \in late : AttemptLate(t)
    \/ Removal

HyperVSpec == HyperVInit /\ [][HyperVNext /\ UNCHANGED mix]_hyperVVars

-----------------------------------------------------------------------------
(* Properties.                                                              *)

HyperVTypeOK ==
    /\ host \in [Id -> MachineName \cup {Gone}]
    /\ made \in Initial .. MaxId
    /\ machine \in [MachineName -> Id \cup {NoRow, NoId}]
    /\ listed \subseteq Id \cup {NoId}
    /\ total \in Nat
    /\ poolRow \in {"live", "gone"}
    /\ \A g \in Growth :
        /\ growth[g].pc \in {"none", "begin", "clone", "cloning", "start", "end"}
        /\ growth[g].try \in 1 .. HvAttempts /\ growth[g].cloneTry \in 1 .. HvAttempts
        /\ growth[g].names \subseteq MachineName
    /\ belated \subseteq MachineName
    /\ \A r \in Rebuilds :
        /\ rebuilds[r].pc \in {"none", "run", "end"}
        /\ rebuilds[r].try \in 1 .. HvAttempts
    /\ removal.pc \in {"none", "vms", "rows", "end"}
    /\ mishaps \in 0 .. mix.mishaps
    /\ told \subseteq MachineName /\ buried \subseteq MachineName
    /\ mislaid \subseteq Id \cup {NoId}

AtWorkOn(n) ==
    \/ \E r \in Rebuilds : rebuilds[r].pc = "run" /\ rebuilds[r].now.name = n
    \/ removal.pc \in {"vms", "rows"}

(* vm_rebuild, HyperVPoolRebuildWorkflow: a machine is left without its VM  *)
(* by a rebuild of it alone only if the answer to one was an error; else it *)
(* was lost by a rebuild with the whole pool or by the pool's deletion,      *)
(* which tell nobody, or one is at work, however attempts outlive their      *)
(* time and rebuilds overlap.                                               *)
LossHasReport ==
    poolRow = "live" =>
        \A n \in Machines :
            There(machine[n]) \/ n \in told \/ n \in buried \/ AtWorkOn(n)

(* 'pool_vmids, our only pointer to these VMs' (activities_pool.py:766): the *)
(* VM of every machine is listed, however growth and rebuilds interleave,    *)
(* except for what a rebuild dropped that began before others ended.         *)
RowsAreListed ==
    poolRow = "live" =>
        \A n \in Machines : machine[n] \in listed \cup mislaid
=============================================================================
