------------------------- MODULE HyperVPool_proofs -------------------------
(***************************************************************************)
(* What HyperVPool does for every pool size, every set of updates and      *)
(* rebuilds and every mix of faults: its types, that the ids of machines   *)
(* are in the pool's list, and that every loss of a VM has its report.     *)
(***************************************************************************)
EXTENDS HyperVPool, FiniteSetTheorems, TLAPS

\* The two auxiliary sets of machines are unchanged together or written apart.
USE DEF reports

(* A set of numbers up to a bound has a least one.                          *)
LEMMA LeastExists ==
    ASSUME NEW k \in Nat, NEW S \in SUBSET (1 .. k), S # {}
    PROVE  \E x \in S : \A y \in S : x <= y
<1> DEFINE T == {1 .. x : x \in S}
<1>1. IsFiniteSet(1 .. k)
  BY FS_Interval
<1>2. IsWellFoundedOn(StrictSubsetOrdering(1 .. k), FiniteSubsetsOf(1 .. k))
  BY <1>1, FS_StrictSubsetOrderingWellFounded
<1>3. \A x \in S : /\ IsFiniteSet(1 .. x)
                   /\ 1 .. x \subseteq 1 .. k
  BY FS_Interval
<1>4. T \subseteq FiniteSubsetsOf(1 .. k) /\ T # {}
  BY <1>3 DEF FiniteSubsetsOf
<1>5. PICK I \in T : \A J \in T : ~ (<<J, I>> \in StrictSubsetOrdering(1 .. k))
  <2> HIDE DEF T
  <2> QED BY <1>2, <1>4, WFMin
<1>6. PICK x \in S : I = 1 .. x
  OBVIOUS
<1>7. ASSUME NEW y \in S, y < x PROVE FALSE
  <2>1. <<1 .. y, 1 .. x>> \in StrictSubsetOrdering(1 .. k)
    <3>1. 1 .. y \subseteq 1 .. x /\ x \in 1 .. x /\ x \notin 1 .. y
      BY <1>7
    <3> QED BY <1>3, <3>1 DEF StrictSubsetOrdering
  <2> QED BY <1>5, <1>6, <2>1
<1> QED BY <1>7

-----------------------------------------------------------------------------
(* What the variables of HyperVPool hold: HyperVTypeOK with the records of  *)
(* the workflows and of the rebuilds' attempts.                             *)

NamedId == [name : MachineName, id : Id \cup {NoId}]

Try == [pc : {"none", "read", "remove", "make", "record", "ok", "error"},
        name : MachineName \cup {0}, old : Id \cup {NoRow, NoId},
        seen : SUBSET (Id \cup {NoId}), new : Id \cup {NoRow, NoId}]

Grown == [pc : {"none", "begin", "clone", "cloning", "start", "end"},
          try : 1 .. HvAttempts, cloneTry : 1 .. HvAttempts, old : Nat,
          names : SUBSET MachineName, got : SUBSET NamedId, done : Nat]

Rebuilt == [pc : {"none", "run", "end"}, queue : SUBSET NamedId,
            try : 1 .. HvAttempts, now : Try]

Shapes ==
    /\ mix \in Mixes
    /\ host \in [Id -> MachineName \cup {Gone}]
    /\ made \in Initial .. MaxId
    /\ machine \in [MachineName -> Id \cup {NoRow, NoId}]
    /\ listed \in SUBSET (Id \cup {NoId})
    /\ total \in Nat
    /\ poolRow \in {"live", "gone"}
    /\ growth \in [Growth -> Grown]
    /\ belated \in SUBSET MachineName
    /\ rebuilds \in [Rebuilds -> Rebuilt]
    /\ late \in SUBSET [kind : {"one", "all"}, try : Try]
    /\ removal \in [pc : {"none", "vms", "rows", "end"}, ids : SUBSET (Id \cup {NoId}),
                    names : SUBSET MachineName, failed : BOOLEAN]
    /\ mishaps \in 0 .. mix.mishaps
    /\ told \in SUBSET MachineName /\ buried \in SUBSET MachineName
    /\ mislaid \in SUBSET (Id \cup {NoId})

(* Once an attempt has begun it has a machine's name; past the removal the  *)
(* old id was a VM's, and there is an answer when one is recorded.          *)
Sound(t) ==
    /\ t.pc # "none" => t.name \in MachineName
    /\ t.pc \in {"make", "record"} => t.old \in Id
    /\ t.pc = "record" => t.new # NoRow

Soundness ==
    /\ \A r \in Rebuilds : Sound(rebuilds[r].now)
    /\ \A t \in late : Sound(t.try)

HvStep == HyperVNext /\ UNCHANGED mix

(* The shapes say all that the type invariant does.                         *)
LEMMA ShapesTyped == Shapes => HyperVTypeOK
BY DEF Shapes, HyperVTypeOK, Grown, Rebuilt

(* The mishaps a mix allows are a number.                                  *)
LEMMA MixNumbers == \A m \in Mixes : m.mishaps \in Nat
BY HyperVAssumption

(* A mishap stays within what the mix allows.                               *)
LEMMA MishapCounts ==
    ASSUME Shapes, UNCHANGED mix, Mishap \/ UNCHANGED mishaps
    PROVE  mishaps' \in 0 .. mix'.mishaps
BY MixNumbers DEF Shapes, Mishap

(* The VM that is made has a fresh id.                                      *)
LEMMA MakesTypes ==
    ASSUME Shapes, NEW n \in MachineName, Makes(n)
    PROVE  /\ made' \in Initial .. MaxId /\ made + 1 \in Id
           /\ host' \in [Id -> MachineName \cup {Gone}]
BY HyperVAssumption DEF Shapes, Makes, Id

(* Of names, the least is one.                                              *)
LEMMA LeastType == ASSUME NEW S \in SUBSET MachineName, S # {} PROVE Least(S) \in S
<1>1. \E x \in S : \A y \in S : x <= y
  BY LeastExists, HyperVAssumption DEF MachineName
<1> QED BY <1>1 DEF Least

(* The next job of a rebuild is one of its queue.                           *)
LEMMA NextJobIs ==
    ASSUME NEW w \in Rebuilt
    PROVE  \/ /\ w.queue = {}
              /\ NextJob(w) = [w EXCEPT !.pc = "end", !.now = NoTry]
           \/ \E q \in w.queue :
                NextJob(w) = [w EXCEPT !.queue = w.queue \ {q}, !.try = 1,
                                       !.now = Job(q.name, q.id)]
<1>1. CASE w.queue = {}
  BY <1>1 DEF NextJob
<1>2. CASE w.queue # {}
  <2> DEFINE S == {o.name : o \in w.queue}
             q == CHOOSE q \in w.queue : \A o \in w.queue : q.name <= o.name
  <2>1. S \in SUBSET MachineName /\ S # {}
    BY <1>2 DEF Rebuilt, NamedId
  <2>2. \E x \in S : \A y \in S : x <= y
    BY <2>1, LeastExists, HyperVAssumption DEF MachineName
  <2>3. \E x \in w.queue : \A o \in w.queue : x.name <= o.name
    BY <2>2
  <2>4. q \in w.queue
    BY <2>3
  <2>5. NextJob(w) = [w EXCEPT !.queue = w.queue \ {q}, !.try = 1, !.now = Job(q.name, q.id)]
    BY <1>2 DEF NextJob
  <2> QED BY <2>4, <2>5
<1> QED BY <1>1, <1>2

(* An attempt that has not begun is one.                                   *)
LEMMA NoTryType == NoTry \in Try
BY DEF NoTry, Try

(* The job of a name and an id is an attempt.                              *)
LEMMA JobType ==
    ASSUME NEW n \in MachineName, NEW id \in Id \cup {NoRow, NoId}
    PROVE  Job(n, id) \in Try
BY DEF Job, NoTry, Try

(* Taking the next job leaves a rebuild's state one.                       *)
LEMMA NextJobType == ASSUME NEW w \in Rebuilt PROVE NextJob(w) \in Rebuilt
<1>1. 1 \in 1 .. HvAttempts
  BY HyperVAssumption
<1>2. CASE w.queue = {} /\ NextJob(w) = [w EXCEPT !.pc = "end", !.now = NoTry]
  BY <1>2, NoTryType DEF Rebuilt
<1>3. ASSUME NEW q \in w.queue,
             NextJob(w) = [w EXCEPT !.queue = w.queue \ {q}, !.try = 1, !.now = Job(q.name, q.id)]
      PROVE  NextJob(w) \in Rebuilt
  <2>1. Job(q.name, q.id) \in Try
    BY JobType DEF Rebuilt, NamedId
  <2> QED BY <1>1, <1>3, <2>1 DEF Rebuilt
<1> QED BY <1>2, <1>3, NextJobIs

(* A rebuild that gives up has a rebuild's state.                          *)
LEMMA FailType == ASSUME NEW w \in Rebuilt PROVE Fail(w) \in Rebuilt
BY NoTryType DEF Fail, Rebuilt

(* Trying the clones again has a growth's state.                           *)
LEMMA AgainType == ASSUME NEW w \in Grown PROVE Again(w) \in Grown
<1>1. w.try < HvAttempts => w.try + 1 \in 1 .. HvAttempts
  BY HyperVAssumption DEF Grown
<1>2. 1 \in 1 .. HvAttempts
  BY HyperVAssumption
<1> QED BY <1>1, <1>2 DEF Again, Grown

(* The first state has the shapes.                                         *)
LEMMA ShapesInit == HyperVInit => Shapes
<1> SUFFICES ASSUME HyperVInit PROVE Shapes
  OBVIOUS
<1> USE HyperVAssumption DEF HyperVInit, MachineName, Id, NoRow, NoId, Gone
<1>1. /\ host \in [Id -> MachineName \cup {Gone}]
      /\ machine \in [MachineName -> Id \cup {NoRow, NoId}]
      /\ made \in Initial .. MaxId
      /\ listed \in SUBSET (Id \cup {NoId})
  OBVIOUS
<1>2. growth \in [Growth -> Grown]
  BY DEF Grown, NamedId
<1>3. rebuilds \in [Rebuilds -> Rebuilt]
  BY NoTryType DEF Rebuilt, NamedId
<1>4. mishaps \in 0 .. mix.mishaps
  BY MixNumbers
<1> QED BY <1>1, <1>2, <1>3, <1>4 DEF Shapes

(* A step of a rebuild's attempt changes the host, the rows and the list    *)
(* within their types, and leaves the attempt sound.                        *)
LEMMA TryTypes ==
    ASSUME Shapes, UNCHANGED mix, NEW t \in Try, Sound(t), NEW u \in Try,
           NEW kind, TryStep(t, u, kind)
    PROVE  /\ host' \in [Id -> MachineName \cup {Gone}]
           /\ made' \in Initial .. MaxId
           /\ machine' \in [MachineName -> Id \cup {NoRow, NoId}]
           /\ listed' \in SUBSET (Id \cup {NoId})
           /\ UNCHANGED <<total, poolRow, reports>>
           /\ mislaid' \in SUBSET (Id \cup {NoId})
           /\ mishaps' \in 0 .. mix'.mishaps
           /\ Sound(u)
<1> USE DEF hostVars, rowVars, auxiliary
<1>1. CASE ReadForRebuild(t, u)
  <2>1. Sound(u)
    BY <1>1 DEF ReadForRebuild, Sound, Try
  <2> QED BY <1>1, <2>1, MishapCounts DEF ReadForRebuild, Shapes
<1>2. CASE RemoveForRebuild(t, u)
  <2>1. mishaps' \in 0 .. mix'.mishaps
    BY <1>2, MishapCounts DEF RemoveForRebuild
  <2>2. Sound(u)
    BY <1>2 DEF RemoveForRebuild, Sound, Try, There
  <2> QED BY <1>2, <2>1, <2>2 DEF RemoveForRebuild, Shapes
<1>3. CASE MakeForRebuild(t, u)
  <2>1. mishaps' \in 0 .. mix'.mishaps
    BY <1>3, MishapCounts DEF MakeForRebuild
  <2>2. t.name \in MachineName
    BY <1>3 DEF MakeForRebuild, Sound
  <2>3. Sound(u)
    <3>1. made + 1 # NoRow /\ NoId # NoRow
      BY HyperVAssumption DEF Shapes, NoRow, NoId
    <3> QED BY <1>3, <3>1 DEF MakeForRebuild, Sound, Try
  <2> QED BY <1>3, <2>1, <2>2, <2>3, MakesTypes DEF MakeForRebuild, Shapes
<1>4. CASE RecordRebuild(t, u, kind)
  <2>1. mishaps' \in 0 .. mix'.mishaps
    BY <1>4, MishapCounts DEF RecordRebuild
  <2>2. Sound(u)
    BY <1>4 DEF RecordRebuild, Sound, Try
  <2>3. t.pc = "record" /\ t.new \in Id \cup {NoId} /\ t.old \in Id
    BY <1>4 DEF RecordRebuild, Sound, Try
  <2>4. NewIds(t, kind) \subseteq Id \cup {NoId}
    BY <2>3 DEF NewIds
  <2>5. CASE u = [t EXCEPT !.pc = "error"] /\ UNCHANGED <<rowVars, auxiliary>>
    BY <1>4, <2>1, <2>2, <2>5 DEF RecordRebuild, Shapes
  <2>6. ASSUME NEW id \in NewIds(t, kind),
               machine' = [machine EXCEPT ![t.name] = IF id = t.old THEN @ ELSE id],
               listed' = IF t.old \in t.seen /\ id # t.old THEN Replaced(t, id) ELSE listed,
               mislaid' = mislaid \cup (listed \ (listed' \cup {t.old}))
                               \cup (IF t.old \in t.seen THEN {} ELSE {id}),
               UNCHANGED <<total, poolRow, reports>>
        PROVE  /\ machine' \in [MachineName -> Id \cup {NoRow, NoId}]
               /\ listed' \in SUBSET (Id \cup {NoId})
               /\ mislaid' \in SUBSET (Id \cup {NoId})
    <3>1. id \in Id \cup {NoId}
      BY <2>4
    <3>2. listed' \in SUBSET (Id \cup {NoId})
      BY <2>6, <3>1 DEF Shapes, Replaced, Try
    <3> QED BY <2>6, <3>1, <3>2 DEF Shapes
  <2> QED BY <1>4, <2>1, <2>2, <2>5, <2>6 DEF RecordRebuild, Shapes
<1> QED BY <1>1, <1>2, <1>3, <1>4 DEF TryStep

(* A step keeps the shapes, and attempts sound.                            *)
LEMMA ShapesNext == Shapes /\ Soundness /\ HvStep => (Shapes /\ Soundness)'
<1> SUFFICES ASSUME Shapes, Soundness, HvStep PROVE (Shapes /\ Soundness)'
  OBVIOUS
<1> USE DEF hostVars, rowVars, auxiliary
<1>0. UNCHANGED mix
  BY DEF HvStep
<1> DEFINE Rest == /\ host' \in [Id -> MachineName \cup {Gone}]
                   /\ made' \in Initial .. MaxId
                   /\ machine' \in [MachineName -> Id \cup {NoRow, NoId}]
                   /\ listed' \in SUBSET (Id \cup {NoId})
                   /\ total' \in Nat /\ poolRow' \in {"live", "gone"}
                   /\ belated' \in SUBSET MachineName
                   /\ mishaps' \in 0 .. mix'.mishaps
                   /\ told' \in SUBSET MachineName /\ buried' \in SUBSET MachineName
                   /\ mislaid' \in SUBSET (Id \cup {NoId})
<1>1. ASSUME UNCHANGED <<rebuilds, late, removal>>, Rest, growth' \in [Growth -> Grown]
      PROVE  (Shapes /\ Soundness)'
  BY <1>0, <1>1 DEF Shapes, Soundness
<1>2. ASSUME NEW g \in Growth, NEW from, NEW to \in Grown, Grows(g, from, to), Rest
      PROVE  (Shapes /\ Soundness)'
  <2>1. growth' \in [Growth -> Grown]
    BY <1>2 DEF Grows, Shapes
  <2> QED BY <1>1, <1>2, <2>1 DEF Grows
<1>3. ASSUME NEW g \in Growth, GrowthStep(g) PROVE (Shapes /\ Soundness)'
  <2> DEFINE w == growth[g]
  <2>1. w \in Grown
    BY DEF Shapes
  <2>2. Again(w) \in Grown
    BY <2>1, AgainType
  <2>3. CASE AskGrowth(g)
    <3>1. [w EXCEPT !.pc = "begin"] \in Grown
      BY <2>1 DEF Grown
    <3>2. Rest
      BY <2>3, <1>0, MishapCounts DEF AskGrowth, Shapes
    <3> QED BY <2>3, <3>1, <3>2, <1>2 DEF AskGrowth
  <2>4. CASE BeginGrowth(g)
    <3>1. [w EXCEPT !.pc = IF Wanted[g] > total THEN "clone" ELSE "end", !.old = total] \in Grown
      BY <2>1 DEF Grown, Shapes
    <3>2. Rest
      BY <2>4, <1>0, MishapCounts DEF BeginGrowth, Shapes
    <3> QED BY <2>2, <2>4, <3>1, <3>2, <1>2 DEF BeginGrowth
  <2>5. CASE ChooseNames(g)
    <3>1. PICK taken \in {Taken, {}} :
            /\ Mishap \/ UNCHANGED mishaps
            /\ Grows(g, "clone",
                 [w EXCEPT !.pc = "cloning", !.names = FreeNames(taken, Wanted[g] - w.old),
                           !.got = {}])
      BY <2>5 DEF ChooseNames
    <3>2. FreeNames(taken, Wanted[g] - w.old) \subseteq MachineName
      BY DEF FreeNames
    <3>3. [w EXCEPT !.pc = "cloning", !.names = FreeNames(taken, Wanted[g] - w.old),
                    !.got = {}] \in Grown
      BY <2>1, <3>2 DEF Grown
    <3>4. Rest
      BY <2>5, <3>1, <1>0, MishapCounts DEF ChooseNames, Shapes
    <3> QED BY <3>1, <3>3, <3>4, <1>2
  <2>6. CASE CloneOne(g)
    <3> DEFINE n == Least(w.names)
    <3>1. n \in MachineName /\ n \in w.names
      <4>1. w.names \in SUBSET MachineName /\ w.names # {}
        BY <2>1, <2>6 DEF CloneOne, Grown
      <4> QED BY <4>1, LeastType
    <3> HIDE DEF n
    <3>2. Makes(n) => made + 1 \in Id
      BY <3>1, MakesTypes
    <3>3. Rest
      <4>1. mishaps' \in 0 .. mix'.mishaps
        BY <2>6, <1>0, MishapCounts DEF CloneOne
      <4>2. Makes(n) \/ UNCHANGED hostVars
        BY <2>6 DEF CloneOne, n
      <4> QED BY <2>6, <4>1, <4>2, <3>1, MakesTypes DEF CloneOne, Shapes
    <3>4. PICK to \in {[w EXCEPT !.names = w.names \ {n},
                                 !.got = w.got \cup {[name |-> n, id |-> made + 1]}],
                       [w EXCEPT !.names = w.names \ {n},
                                 !.got = w.got \cup {[name |-> n, id |-> NoId]}],
                       [w EXCEPT !.names = w.names \ {n}]} :
            Grows(g, "cloning", to) /\ (Makes(n) \/ to = [w EXCEPT !.names = w.names \ {n}])
      BY <2>6 DEF CloneOne, n
    <3>5. to \in Grown
      <4>1. w.got \in SUBSET NamedId /\ w.names \in SUBSET MachineName
        BY <2>1 DEF Grown
      <4>2. CASE to = [w EXCEPT !.names = w.names \ {n}]
        BY <2>1, <4>1, <4>2 DEF Grown
      <4>3. CASE /\ Makes(n)
                 /\ to = [w EXCEPT !.names = w.names \ {n},
                                   !.got = w.got \cup {[name |-> n, id |-> made + 1]}]
        <5>1. [name |-> n, id |-> made + 1] \in NamedId
          BY <3>1, <3>2, <4>3 DEF NamedId
        <5> QED BY <2>1, <4>1, <4>3, <5>1 DEF Grown
      <4>4. CASE to = [w EXCEPT !.names = w.names \ {n},
                                !.got = w.got \cup {[name |-> n, id |-> NoId]}]
        <5>1. [name |-> n, id |-> NoId] \in NamedId
          BY <3>1 DEF NamedId
        <5> QED BY <2>1, <4>1, <4>4, <5>1 DEF Grown
      <4> QED BY <3>4, <4>2, <4>3, <4>4
    <3> QED BY <3>3, <3>4, <3>5, <1>2
  <2>7. CASE CloneBreaks(g)
    <3>1. w.cloneTry < HvAttempts =>
            [w EXCEPT !.pc = "clone", !.cloneTry = w.cloneTry + 1, !.names = {}, !.got = {}] \in Grown
      <4>1. w.cloneTry < HvAttempts => w.cloneTry + 1 \in 1 .. HvAttempts
        BY <2>1, HyperVAssumption DEF Grown
      <4>2. {} \in SUBSET MachineName /\ {} \in SUBSET NamedId
        OBVIOUS
      <4> QED BY <2>1, <4>1, <4>2 DEF Grown
    <3>2. w.names \in SUBSET MachineName /\ Least(w.names) \in MachineName
      <4>1. w.names \in SUBSET MachineName /\ w.names # {}
        BY <2>1, <2>7 DEF CloneBreaks, Grown
      <4> QED BY <4>1, LeastType
    <3>3. belated' \in SUBSET MachineName
      BY <2>7, <3>2 DEF CloneBreaks, Shapes
    <3>4. Rest
      <4>1. mishaps' \in 0 .. mix'.mishaps
        BY <2>7, <1>0, MishapCounts DEF CloneBreaks
      <4> QED BY <2>7, <4>1, <3>3 DEF CloneBreaks, Shapes
    <3> QED BY <2>2, <2>7, <3>1, <3>4, <1>2 DEF CloneBreaks
  <2>8. CASE RegisterClone(g)
    <3>1. PICK c \in w.got :
            \/ /\ Grows(g, "cloning", [w EXCEPT !.got = w.got \ {c}])
               /\ UNCHANGED <<rowVars, mishaps, auxiliary>>
            \/ /\ c.id # NoId
               /\ Grows(g, "cloning", [w EXCEPT !.pc = "start"])
               /\ listed' = listed \cup {c.id}
               /\ machine' = [machine EXCEPT ![c.name] = c.id]
               /\ told' = told \ {c.name} /\ buried' = buried \ {c.name}
               /\ UNCHANGED <<total, poolRow, mishaps, mislaid>>
            \/ /\ Mishap
               /\ \E w2 \in {[w EXCEPT !.got = w.got \ {c}], Again(w)} : Grows(g, "cloning", w2)
               /\ listed' = listed \cup {c.id}
               /\ UNCHANGED <<machine, total, poolRow, auxiliary>>
      BY <2>8 DEF RegisterClone
    <3>2. c \in NamedId
      BY <2>1 DEF Grown
    <3>3. Rest
      <4>1. mishaps' \in 0 .. mix'.mishaps
        BY <3>1, <1>0, MishapCounts
      <4> QED BY <2>8, <3>1, <3>2, <4>1 DEF RegisterClone, Shapes, NamedId
    <3>4. [w EXCEPT !.got = w.got \ {c}] \in Grown /\ [w EXCEPT !.pc = "start"] \in Grown
      BY <2>1 DEF Grown
    <3> QED BY <2>2, <3>1, <3>3, <3>4, <1>2
  <2>9. CASE StartClone(g)
    <3>1. PICK c \in w.got :
            \/ Grows(g, "start", [w EXCEPT !.pc = "cloning", !.got = w.got \ {c}, !.done = w.done + 1])
            \/ Grows(g, "start", Again(w))
      BY <2>9 DEF StartClone
    <3>2. [w EXCEPT !.pc = "cloning", !.got = w.got \ {c}, !.done = w.done + 1] \in Grown
      <4>1. w.done + 1 \in Nat
        BY <2>1 DEF Grown
      <4> QED BY <2>1, <4>1 DEF Grown
    <3>3. Rest
      <4>1. mishaps' \in 0 .. mix'.mishaps
        BY <2>9, <1>0, MishapCounts DEF StartClone
      <4> QED BY <2>9, <4>1 DEF StartClone, Shapes
    <3> QED BY <2>2, <3>1, <3>2, <3>3, <1>2
  <2>10. CASE EndGrowth(g)
    <3>1. [w EXCEPT !.pc = "end"] \in Grown
      BY <2>1 DEF Grown
    <3>2. w.old + w.done \in Nat
      BY <2>1 DEF Grown
    <3>3. Rest
      BY <2>10, <1>0, <3>2, MishapCounts DEF EndGrowth, Shapes
    <3> QED BY <2>2, <2>10, <3>1, <3>3, <1>2 DEF EndGrowth
  <2> QED BY <1>3, <2>3, <2>4, <2>5, <2>6, <2>7, <2>8, <2>9, <2>10 DEF GrowthStep
<1>4. ASSUME NEW n \in belated, CloneLate(n) PROVE (Shapes /\ Soundness)'
  <2>1. n \in MachineName
    BY DEF Shapes
  <2>2. Rest
    BY <1>4, <1>0, <2>1, MishapCounts, MakesTypes DEF CloneLate, Shapes
  <2> QED BY <1>1, <1>4, <2>2 DEF CloneLate, Shapes
<1>5. ASSUME UNCHANGED <<growth, removal>>, Rest, rebuilds' \in [Rebuilds -> Rebuilt],
             late' \in SUBSET [kind : {"one", "all"}, try : Try],
             \A r \in Rebuilds : Sound(rebuilds[r].now)',
             \A t \in late' : Sound(t.try)
      PROVE  (Shapes /\ Soundness)'
  <2>1. Soundness'
    BY <1>5 DEF Soundness, Sound
  <2> QED BY <1>0, <1>5, <2>1 DEF Shapes
<1>6. ASSUME NEW r \in Rebuilds, NEW w \in Rebuilt, rebuilds' = [rebuilds EXCEPT ![r] = w],
             Sound(w.now), UNCHANGED <<growth, removal, late>>, Rest
      PROVE  (Shapes /\ Soundness)'
  <2>1. rebuilds' \in [Rebuilds -> Rebuilt]
    BY <1>6 DEF Shapes
  <2>2. \A s \in Rebuilds : Sound(rebuilds[s].now)'
    BY <1>6 DEF Soundness, Shapes, Sound
  <2>3. late' \in SUBSET [kind : {"one", "all"}, try : Try] /\ \A t \in late' : Sound(t.try)
    BY <1>6 DEF Soundness, Shapes
  <2> QED BY <1>5, <1>6, <2>1, <2>2, <2>3
<1>7. \A w \in Rebuilt : Sound(NextJob(w).now) /\ Sound(Fail(w).now)
  <2> SUFFICES ASSUME NEW w \in Rebuilt PROVE Sound(NextJob(w).now) /\ Sound(Fail(w).now)
    OBVIOUS
  <2>1. Sound(NoTry)
    BY DEF Sound, NoTry
  <2>2. \A q \in w.queue : Sound(Job(q.name, q.id))
    BY DEF Sound, Job, NoTry, Rebuilt, NamedId
  <2>3. Sound(NextJob(w).now)
    <3>1. CASE NextJob(w) = [w EXCEPT !.pc = "end", !.now = NoTry]
      BY <2>1, <3>1 DEF Rebuilt
    <3>2. ASSUME NEW q \in w.queue,
                 NextJob(w) = [w EXCEPT !.queue = w.queue \ {q}, !.try = 1,
                                        !.now = Job(q.name, q.id)]
          PROVE  Sound(NextJob(w).now)
      <4>1. NextJob(w).now = Job(q.name, q.id)
        BY <3>2 DEF Rebuilt
      <4> QED BY <2>2, <4>1
    <3> QED BY <3>1, <3>2, NextJobIs
  <2> QED BY <2>1, <2>3 DEF Fail, Rebuilt
<1>8. ASSUME NEW r \in Rebuilds, RebuildStep(r) PROVE (Shapes /\ Soundness)'
  <2> DEFINE w == rebuilds[r]
             t == w.now
  <2>1. w \in Rebuilt /\ t \in Try /\ Sound(t)
    BY DEF Shapes, Soundness, Rebuilt
  <2>2. CASE AskRebuild(r)
    <3>1. PICK chosen \in IF Kind[r] = "all" THEN {Machines} ELSE {{n} : n \in Machines} :
            rebuilds' = [rebuilds EXCEPT ![r] =
              NextJob([w EXCEPT !.pc = "run",
                                !.queue = {[name |-> n, id |-> machine[n]] : n \in chosen}])]
      BY <2>2 DEF AskRebuild
    <3> DEFINE queue == {[name |-> n, id |-> machine[n]] : n \in chosen}
    <3>2. chosen \subseteq Machines
      OBVIOUS
    <3>3. \A n \in Machines : [name |-> n, id |-> machine[n]] \in NamedId
      BY DEF Machines, NamedId, Shapes
    <3>4. queue \in SUBSET NamedId
      BY <3>2, <3>3
    <3>5. [w EXCEPT !.pc = "run", !.queue = queue] \in Rebuilt
      BY <2>1, <3>4 DEF Rebuilt
    <3>6. Rest
      BY <2>2, <1>0, MishapCounts DEF AskRebuild, Elsewhere, Shapes
    <3>7. UNCHANGED <<growth, removal, late>>
      BY <2>2 DEF AskRebuild, Elsewhere
    <3> QED BY <1>6, <1>7, <3>1, <3>5, <3>6, <3>7, NextJobType
  <2>3. CASE Attempt(r)
    <3>1. PICK pc \in {"remove", "make", "record", "ok", "error"},
               new \in Id \cup {NoRow, NoId}, seen \in {t.seen, listed} :
            LET u == [t EXCEPT !.pc = pc, !.new = new, !.seen = seen]
            IN  TryStep(t, u, Kind[r]) /\ rebuilds' = [rebuilds EXCEPT ![r].now = u]
      BY <2>3 DEF Attempt
    <3> DEFINE u == [t EXCEPT !.pc = pc, !.new = new, !.seen = seen]
    <3>2. seen \in SUBSET (Id \cup {NoId})
      BY <2>1 DEF Try, Shapes
    <3>3. u \in Try
      BY <2>1, <3>2 DEF Try
    <3>4. TryStep(t, u, Kind[r])
      BY <3>1
    <3>5. rebuilds' = [rebuilds EXCEPT ![r] = [w EXCEPT !.now = u]]
      BY <3>1 DEF Shapes
    <3> HIDE DEF u, t
    <3>6. [w EXCEPT !.now = u] \in Rebuilt /\ [w EXCEPT !.now = u].now = u
      BY <2>1, <3>3 DEF Rebuilt
    <3>7. UNCHANGED <<growth, removal, late, belated>>
      BY <2>3 DEF Attempt, Elsewhere
    <3>8. Rest /\ Sound(u)
      BY <1>0, <2>1, <3>3, <3>4, <3>7, TryTypes DEF Shapes
    <3> QED BY <1>6, <3>5, <3>6, <3>7, <3>8, ZenonT(60)
  <2>4. CASE AttemptEnds(r)
    <3>1. t.name \in MachineName
      BY <2>1, <2>4 DEF AttemptEnds, Sound
    <3>2. Rest
      <4>1. mishaps' \in 0 .. mix'.mishaps
        BY <2>4, <1>0, MishapCounts DEF AttemptEnds
      <4>2. told' \in SUBSET MachineName /\ buried' \in SUBSET MachineName
        BY <2>4, <3>1 DEF AttemptEnds, Reports, Shapes
      <4> QED BY <2>4, <4>1, <4>2 DEF AttemptEnds, Elsewhere, Shapes
    <3>3. late' \in {late, late \cup {[kind |-> Kind[r], try |-> t]}}
      BY <2>4 DEF AttemptEnds
    <3>4. late' \in SUBSET [kind : {"one", "all"}, try : Try] /\ \A l \in late' : Sound(l.try)
      BY <2>1, <3>3, HyperVAssumption DEF Shapes, Soundness
    <3>5. \E w2 \in Rebuilt : rebuilds' = [rebuilds EXCEPT ![r] = w2] /\ Sound(w2.now)
      <4>1. CASE w.try < HvAttempts /\ rebuilds' = [rebuilds EXCEPT ![r].try = @ + 1,
                                                              ![r].now = Job(t.name, t.old)]
        <5>1. w.try + 1 \in 1 .. HvAttempts
          BY <2>1, <4>1, HyperVAssumption DEF Rebuilt
        <5>2. Job(t.name, t.old) \in Try /\ Sound(Job(t.name, t.old))
          <6>1. t.old \in Id \cup {NoRow, NoId}
            BY <2>1 DEF Try
          <6>2. Job(t.name, t.old) \in Try
            BY <3>1, <6>1, JobType
          <6> QED BY <3>1, <6>2 DEF Sound, Job, NoTry
        <5>3. rebuilds' = [rebuilds EXCEPT ![r] = [w EXCEPT !.try = w.try + 1,
                                                            !.now = Job(t.name, t.old)]]
          BY <4>1 DEF Shapes
        <5>4. [w EXCEPT !.try = w.try + 1, !.now = Job(t.name, t.old)] \in Rebuilt
          BY <2>1, <5>1, <5>2 DEF Rebuilt
        <5>5. [w EXCEPT !.try = w.try + 1, !.now = Job(t.name, t.old)].now = Job(t.name, t.old)
          BY <2>1 DEF Rebuilt
        <5> QED BY <5>2, <5>3, <5>4, <5>5
      <4>2. CASE rebuilds' = [rebuilds EXCEPT ![r] = Fail(w)]
        BY <2>1, <4>2, <1>7, FailType
      <4> QED BY <2>4, <4>1, <4>2 DEF AttemptEnds
    <3>6. PICK w2 \in Rebuilt : rebuilds' = [rebuilds EXCEPT ![r] = w2] /\ Sound(w2.now)
      BY <3>5
    <3>7. rebuilds' \in [Rebuilds -> Rebuilt] /\ \A s \in Rebuilds : Sound(rebuilds[s].now)'
      BY <3>6 DEF Shapes, Soundness, Sound
    <3>8. UNCHANGED <<growth, removal>>
      BY <2>4 DEF AttemptEnds, Elsewhere
    <3> QED BY <1>5, <3>2, <3>4, <3>7, <3>8
  <2>5. CASE Answer(r)
    <3>1. t.name \in MachineName
      BY <2>1, <2>5 DEF Answer, Sound
    <3>2. Rest
      <4>1. mishaps' \in 0 .. mix'.mishaps
        BY <2>5, <1>0, MishapCounts DEF Answer
      <4>2. told' \in SUBSET MachineName /\ buried' \in SUBSET MachineName
        BY <2>5, <3>1 DEF Answer, Reports, Shapes
      <4> QED BY <2>5, <4>1, <4>2 DEF Answer, Elsewhere, Shapes
    <3>3. \E w2 \in {NextJob(w), Fail(w)} : rebuilds' = [rebuilds EXCEPT ![r] = w2]
      BY <2>5 DEF Answer
    <3>4. UNCHANGED <<growth, removal, late>>
      BY <2>5 DEF Answer, Elsewhere
    <3> QED BY <1>6, <1>7, <2>1, <3>2, <3>3, <3>4, NextJobType, FailType
  <2> QED BY <1>8, <2>2, <2>3, <2>4, <2>5 DEF RebuildStep
<1>9. ASSUME NEW l \in late, AttemptLate(l) PROVE (Shapes /\ Soundness)'
  <2> DEFINE t == l.try
  <2>1. t \in Try /\ Sound(t) /\ l \in [kind : {"one", "all"}, try : Try]
    BY DEF Shapes, Soundness
  <2>2. PICK pc \in {"remove", "make", "record", "ok", "error"},
             new \in Id \cup {NoRow, NoId}, seen \in {t.seen, listed} :
          LET u == [t EXCEPT !.pc = pc, !.new = new, !.seen = seen]
          IN  /\ TryStep(t, u, l.kind)
              /\ late' = (late \ {l}) \cup
                   (IF pc \in {"ok", "error"} THEN {} ELSE {[l EXCEPT !.try = u]})
    BY <1>9 DEF AttemptLate
  <2> DEFINE u == [t EXCEPT !.pc = pc, !.new = new, !.seen = seen]
  <2>3. seen \in SUBSET (Id \cup {NoId})
    BY <2>1 DEF Try, Shapes
  <2>4. u \in Try
    BY <2>1, <2>3 DEF Try
  <2>5. TryStep(t, u, l.kind) /\ late' \subseteq (late \ {l}) \cup {[l EXCEPT !.try = u]}
    BY <2>2
  <2> HIDE DEF u, t
  <2>6. UNCHANGED <<growth, removal, belated, rebuilds>>
    BY <1>9 DEF AttemptLate, Elsewhere
  <2>7. Rest /\ Sound(u)
    BY <1>0, <2>1, <2>4, <2>5, <2>6, TryTypes DEF Shapes
  <2>8. /\ [l EXCEPT !.try = u] \in [kind : {"one", "all"}, try : Try]
        /\ [l EXCEPT !.try = u].try = u
    BY <2>1, <2>4
  <2>9. late' \in SUBSET [kind : {"one", "all"}, try : Try] /\ \A k \in late' : Sound(k.try)
    BY <2>5, <2>7, <2>8 DEF Shapes, Soundness
  <2>10. rebuilds' \in [Rebuilds -> Rebuilt] /\ \A s \in Rebuilds : Sound(rebuilds[s].now)'
    BY <2>6 DEF Shapes, Soundness
  <2> QED BY <1>5, <2>6, <2>7, <2>9, <2>10
<1>10. ASSUME Removal PROVE (Shapes /\ Soundness)'
  <2> DEFINE Rem == [pc : {"none", "vms", "rows", "end"}, ids : SUBSET (Id \cup {NoId}),
                     names : SUBSET MachineName, failed : BOOLEAN]
  <2>1. ASSUME NEW from, NEW to \in Rem, Removes(from, to), 
               host' \in [Id -> MachineName \cup {Gone}], made' = made,
               machine' \in [MachineName -> Id \cup {NoRow, NoId}], UNCHANGED <<listed, total>>,
               poolRow' \in {"live", "gone"}, told' \in SUBSET MachineName, buried' \in SUBSET MachineName,
               mishaps' \in 0 .. mix'.mishaps
        PROVE  (Shapes /\ Soundness)'
    <3>1. removal' \in Rem /\ UNCHANGED <<growth, belated, rebuilds, late, mislaid>>
      BY <2>1 DEF Removes
    <3> QED BY <1>0, <2>1, <3>1 DEF Shapes, Soundness
  <2>2. removal \in Rem /\ mishaps \in 0 .. mix'.mishaps
    BY <1>0 DEF Shapes
  <2>3. CASE BeginRemoval
    <3>1. [pc |-> "vms", ids |-> listed, names |-> Machines, failed |-> FALSE] \in Rem
      BY DEF Shapes, Machines
    <3> QED BY <2>1, <2>2, <2>3, <3>1 DEF BeginRemoval, Shapes
  <2>4. ASSUME NEW id \in removal.ids, RemoveVm(id) PROVE (Shapes /\ Soundness)'
    <3>1. \A f \in {removal.failed, TRUE} :
            [removal EXCEPT !.ids = removal.ids \ {id}, !.failed = f] \in Rem
      BY <2>2
    <3>2. [removal EXCEPT !.ids = removal.ids \ {id}] \in Rem
      BY <2>2
    <3>3. mishaps' \in 0 .. mix'.mishaps
      BY <2>4, <1>0, MishapCounts DEF RemoveVm
    <3>4. host' \in [Id -> MachineName \cup {Gone}]
      BY <2>4 DEF RemoveVm, Shapes
    <3>5. \/ Removes("vms", [removal EXCEPT !.ids = removal.ids \ {id}])
          \/ Removes("vms", [removal EXCEPT !.ids = removal.ids \ {id}, !.failed = TRUE])
      BY <2>4 DEF RemoveVm
    <3>6. made' = made /\ UNCHANGED <<rowVars, reports>>
      BY <2>4 DEF RemoveVm
    <3> QED BY <2>1, <3>1, <3>2, <3>3, <3>4, <3>5, <3>6 DEF Shapes
  <2>5. CASE EndVms
    <3>1. [removal EXCEPT !.pc = IF removal.failed THEN "end" ELSE "rows"] \in Rem
      BY <2>2
    <3>2. told' \in SUBSET MachineName /\ buried' \in SUBSET MachineName
      BY <2>5 DEF EndVms, Machines, Shapes
    <3> QED BY <2>1, <2>2, <2>5, <3>1, <3>2 DEF EndVms, Shapes
  <2>6. ASSUME NEW n \in removal.names, RemoveMachine(n) PROVE (Shapes /\ Soundness)'
    <3>1. [removal EXCEPT !.names = removal.names \ {n}] \in Rem
      BY <2>2
    <3>2. machine' \in [MachineName -> Id \cup {NoRow, NoId}]
      BY <2>6 DEF RemoveMachine, Shapes
    <3> QED BY <2>1, <2>2, <2>6, <3>1, <3>2 DEF RemoveMachine, Shapes
  <2>7. CASE RemovePool
    <3>1. [removal EXCEPT !.pc = "end"] \in Rem
      BY <2>2
    <3> QED BY <2>1, <2>2, <2>7, <3>1 DEF RemovePool, Shapes
  <2> QED BY <1>10, <2>3, <2>4, <2>5, <2>6, <2>7 DEF Removal
<1>11. CASE NothingMore
  BY <1>11 DEF NothingMore, hyperVVars, Shapes, Soundness
<1> QED BY <1>3, <1>4, <1>8, <1>9, <1>10, <1>11 DEF HvStep, HyperVNext

(* In the first state no attempt has begun.                                *)
LEMMA SoundInit == HyperVInit => Soundness
BY DEF HyperVInit, Soundness, Sound, NoTry

(* So shapes and soundness always hold.                                    *)
LEMMA ShapesKept == HyperVSpec => [](Shapes /\ Soundness)
<1>1. HyperVInit => Shapes /\ Soundness
  BY ShapesInit, SoundInit
<1>2. Shapes /\ Soundness /\ [HvStep]_hyperVVars => (Shapes /\ Soundness)'
  <2>1. ASSUME Shapes /\ Soundness, UNCHANGED hyperVVars PROVE (Shapes /\ Soundness)'
    BY <2>1 DEF Shapes, Soundness, hyperVVars, hostVars, rowVars, auxiliary
  <2> QED BY <2>1, ShapesNext
<1> QED BY <1>1, <1>2, PTL DEF HyperVSpec, HvStep

(* The variables of a Hyper-V pool keep their types, whatever is asked of   *)
(* it and whatever goes wrong.                                              *)
THEOREM HyperVTypeCorrect == HyperVSpec => []HyperVTypeOK
BY ShapesKept, ShapesTyped, PTL

-----------------------------------------------------------------------------
(* An id belongs to the machine that its VM was made for: whatever holds it *)
(* - the host, a row, a clone's answer, an attempt of a rebuild - holds it  *)
(* for the same name.  Ids that were not given yet are held by nobody.      *)

Owners == [Id -> MachineName \cup {Gone}]

FitsUpTo(k, f, id, n) == id \in Id => id <= k /\ f[id] = n

Fits(f, id, n) == FitsUpTo(made, f, id, n)

TryFits(f, t) == Fits(f, t.old, t.name) /\ Fits(f, t.new, t.name)

Named(f) ==
    /\ \A id \in Id : host[id] # Gone => Fits(f, id, host[id])
    /\ \A n \in MachineName : Fits(f, machine[n], n)
    /\ \A g \in Growth : \A c \in growth[g].got : Fits(f, c.id, c.name)
    /\ \A r \in Rebuilds : /\ TryFits(f, rebuilds[r].now)
                           /\ \A q \in rebuilds[r].queue : Fits(f, q.id, q.name)
    /\ \A t \in late : TryFits(f, t.try)

NamedInv == \E f \in Owners : Named(f)

(* After a step, h names what the host has, and all that f named.           *)
Carries(f, h) ==
    /\ \A id, n : Fits(f, id, n) => FitsUpTo(made', h, id, n)
    /\ \A id \in Id : host'[id] # Gone => FitsUpTo(made', h, id, host'[id])

(* When a VM is made, the owners are extended by its machine's name.       *)
LEMMA MakesCarries ==
    ASSUME Shapes, NEW f \in Owners, Named(f), NEW n \in MachineName, Makes(n)
    PROVE  \E h \in Owners : Carries(f, h) /\ FitsUpTo(made', h, made', n)
<1> DEFINE h == [f EXCEPT ![made + 1] = n]
<1>1. made' = made + 1 /\ made \in Int /\ made + 1 \in Id
  <2>1. made \in Int
    BY HyperVAssumption DEF Shapes
  <2> QED BY <2>1, MakesTypes DEF Makes
<1>2. h \in Owners
  BY <1>1 DEF Owners
<1>3. \A id, m : FitsUpTo(made, f, id, m) => FitsUpTo(made', h, id, m)
  BY <1>1 DEF FitsUpTo, Owners, Id
<1>4. \A id \in Id : host'[id] # Gone => FitsUpTo(made', h, id, host'[id])
  BY <1>1 DEF Makes, Named, Fits, FitsUpTo, Owners, Id, Shapes
<1>5. FitsUpTo(made', h, made', n)
  BY <1>1 DEF Owners, FitsUpTo
<1> HIDE DEF h
<1>6. Carries(f, h)
  BY <1>3, <1>4 DEF Carries, Fits
<1> QED BY <1>2, <1>5, <1>6

(* When none is made, the names stay.                                       *)
LEMMA SameCarries ==
    ASSUME NEW f \in Owners, Named(f), made' = made,
           \A id \in Id : host'[id] \in {host[id], Gone}
    PROVE  Carries(f, f)
BY DEF Carries, Named, Fits

(* A rebuild's attempt names ids as before.                                 *)
LEMMA TryNamed ==
    ASSUME Shapes, UNCHANGED mix, NEW f \in Owners, Named(f),
           NEW t \in Try, Sound(t), TryFits(f, t), NEW u \in Try,
           NEW kind, TryStep(t, u, kind)
    PROVE  \E h \in Owners :
              /\ Carries(f, h)
              /\ FitsUpTo(made', h, u.old, u.name) /\ FitsUpTo(made', h, u.new, u.name)
              /\ \A n \in MachineName : FitsUpTo(made', h, machine'[n], n)
<1> USE DEF hostVars, rowVars, auxiliary
<1>0. /\ Fits(f, t.old, t.name) /\ Fits(f, t.new, t.name)
      /\ \A n \in MachineName : Fits(f, machine[n], n)
  BY DEF Named, TryFits
<1>1. CASE ReadForRebuild(t, u)
  <2>1. u.old = t.old /\ u.new = t.new /\ u.name = t.name
    BY <1>1 DEF ReadForRebuild, Try
  <2>2. Carries(f, f)
    BY <1>1, SameCarries DEF ReadForRebuild
  <2>3. UNCHANGED machine
    BY <1>1 DEF ReadForRebuild
  <2> QED BY <1>0, <2>1, <2>2, <2>3 DEF Carries
<1>2. CASE RemoveForRebuild(t, u)
  <2>1. u.old = t.old /\ u.new = t.new /\ u.name = t.name
    BY <1>2 DEF RemoveForRebuild, Try
  <2>2. Carries(f, f)
    BY <1>2, SameCarries DEF RemoveForRebuild, Shapes
  <2>3. UNCHANGED machine
    BY <1>2 DEF RemoveForRebuild
  <2> QED BY <1>0, <2>1, <2>2, <2>3 DEF Carries
<1>3. CASE MakeForRebuild(t, u)
  <2>0. u.old = t.old /\ u.name = t.name /\ t.name \in MachineName /\ UNCHANGED machine
    BY <1>3 DEF MakeForRebuild, Sound, Try
  <2>1. CASE Makes(t.name) /\ u.new \in {made + 1, t.new, NoId}
    <3>1. PICK h \in Owners : Carries(f, h) /\ FitsUpTo(made', h, made', t.name)
      BY <2>0, <2>1, MakesCarries
    <3>2. made' = made + 1
      BY <2>1 DEF Makes
    <3>3. FitsUpTo(made', h, NoId, t.name)
      BY HyperVAssumption DEF FitsUpTo, NoId, Id
    <3> QED BY <1>0, <2>0, <2>1, <3>1, <3>2, <3>3 DEF Carries
  <2>2. CASE u.new = t.new /\ UNCHANGED hostVars
    <3>1. Carries(f, f)
      BY <2>2, SameCarries
    <3> QED BY <1>0, <2>0, <2>2, <3>1 DEF Carries
  <2>3. \/ Makes(t.name) /\ u.new \in {made + 1, t.new, NoId}
        \/ u.new = t.new /\ UNCHANGED hostVars
    BY <1>3 DEF MakeForRebuild, Try
  <2> QED BY <2>1, <2>2, <2>3
<1>4. CASE RecordRebuild(t, u, kind)
  <2>1. Carries(f, f) /\ made' = made
    BY <1>4, SameCarries DEF RecordRebuild
  <2>2. CASE u = [t EXCEPT !.pc = "error"] /\ UNCHANGED rowVars
    <3>1. u.old = t.old /\ u.new = t.new /\ u.name = t.name
      BY <2>2 DEF Try
    <3> QED BY <1>0, <2>1, <2>2, <3>1 DEF Carries
  <2>3. ASSUME NEW id \in NewIds(t, kind),
               u = [t EXCEPT !.pc = "ok", !.new = id],
               machine' = [machine EXCEPT ![t.name] = IF id = t.old THEN @ ELSE id]
        PROVE  /\ FitsUpTo(made', f, u.old, u.name) /\ FitsUpTo(made', f, u.new, u.name)
               /\ \A n \in MachineName : FitsUpTo(made', f, machine'[n], n)
    <3>1. u.old = t.old /\ u.new = id /\ u.name = t.name
      BY <2>3 DEF Try
    <3>2. \A i \in Id : host[i] = t.name => Fits(f, i, t.name)
      <4>1. t.name # Gone
        <5>1. t.name \in MachineName
          BY <1>4 DEF RecordRebuild, Sound
        <5> QED BY <5>1, HyperVAssumption DEF MachineName, Gone
      <4> QED BY <4>1 DEF Named
    <3>3. Fits(f, id, t.name)
      BY <1>0, <2>3, <3>2 DEF NewIds
    <3>4. \A n \in MachineName : machine'[n] \in {machine[n]} \/ (n = t.name /\ machine'[n] = id)
      BY <2>3 DEF Shapes
    <3> QED BY <1>0, <2>1, <3>1, <3>3, <3>4 DEF Carries
  <2>4. \/ u = [t EXCEPT !.pc = "error"] /\ UNCHANGED rowVars
        \/ \E id \in NewIds(t, kind) :
              /\ u = [t EXCEPT !.pc = "ok", !.new = id]
              /\ machine' = [machine EXCEPT ![t.name] = IF id = t.old THEN @ ELSE id]
    BY <1>4 DEF RecordRebuild
  <2> QED BY <2>1, <2>2, <2>3, <2>4
<1> QED BY <1>1, <1>2, <1>3, <1>4 DEF TryStep

(* In the first state a VM's name is the machine it is made for.           *)
LEMMA NamedInit == HyperVInit => NamedInv
<1> SUFFICES ASSUME HyperVInit PROVE Named(host) /\ host \in Owners
  BY DEF NamedInv
<1>1. host \in Owners
  BY HyperVAssumption DEF HyperVInit, Owners, Id, MachineName, Gone
<1>2. \A id \in Id : host[id] # Gone => Fits(host, id, host[id])
  BY HyperVAssumption DEF HyperVInit, Id, Gone, Fits, FitsUpTo
<1>3. \A n \in MachineName : Fits(host, machine[n], n)
  BY HyperVAssumption DEF HyperVInit, Id, NoRow, MachineName, Fits, FitsUpTo
<1>4. \A f : TryFits(f, NoTry)
  BY HyperVAssumption DEF TryFits, Fits, FitsUpTo, NoTry, NoRow, Id
<1> QED BY <1>1, <1>2, <1>3, <1>4 DEF HyperVInit, Named

(* What follows of Named(h)' when h carries f and the claims are old ones   *)
(* or fit.                                                                  *)
LEMMA NamedThen ==
    ASSUME NEW f, Named(f), NEW h \in Owners, Carries(f, h),
           \A n \in MachineName : FitsUpTo(made', h, machine'[n], n),
           \A g \in Growth : \A c \in growth'[g].got :
              c \in growth[g].got \/ FitsUpTo(made', h, c.id, c.name),
           \A r \in Rebuilds :
              \/ rebuilds'[r] = rebuilds[r]
              \/ /\ FitsUpTo(made', h, rebuilds'[r].now.old, rebuilds'[r].now.name)
                 /\ FitsUpTo(made', h, rebuilds'[r].now.new, rebuilds'[r].now.name)
                 /\ \A q \in rebuilds'[r].queue :
                      q \in rebuilds[r].queue \/ FitsUpTo(made', h, q.id, q.name),
           \A t \in late' :
              \/ t \in late
              \/ /\ FitsUpTo(made', h, t.try.old, t.try.name)
                 /\ FitsUpTo(made', h, t.try.new, t.try.name)
    PROVE  NamedInv'
<1>1. \A id \in Id : host'[id] # Gone => FitsUpTo(made', h, id, host'[id])
  BY DEF Carries
<1>2. \A g \in Growth : \A c \in growth'[g].got : FitsUpTo(made', h, c.id, c.name)
  BY DEF Carries, Named
<1>3. \A r \in Rebuilds : /\ FitsUpTo(made', h, rebuilds'[r].now.old, rebuilds'[r].now.name)
                          /\ FitsUpTo(made', h, rebuilds'[r].now.new, rebuilds'[r].now.name)
                          /\ \A q \in rebuilds'[r].queue : FitsUpTo(made', h, q.id, q.name)
  <2>1. \A r \in Rebuilds :
          /\ FitsUpTo(made', h, rebuilds[r].now.old, rebuilds[r].now.name)
          /\ FitsUpTo(made', h, rebuilds[r].now.new, rebuilds[r].now.name)
          /\ \A q \in rebuilds[r].queue : FitsUpTo(made', h, q.id, q.name)
    BY DEF Carries, Named, TryFits
  <2> QED BY <2>1
<1>4. \A t \in late' : /\ FitsUpTo(made', h, t.try.old, t.try.name)
                       /\ FitsUpTo(made', h, t.try.new, t.try.name)
  <2>1. \A t \in late : /\ FitsUpTo(made', h, t.try.old, t.try.name)
                        /\ FitsUpTo(made', h, t.try.new, t.try.name)
    BY DEF Carries, Named, TryFits
  <2> QED BY <2>1
<1>5. Named(h)'
  BY <1>1, <1>2, <1>3, <1>4 DEF Named, Fits, TryFits
<1> QED BY <1>5 DEF NamedInv, Owners

(* A step keeps every id with the machine its VM was made for.             *)
LEMMA NamedNext == Shapes /\ Soundness /\ NamedInv /\ HvStep => NamedInv'
<1> SUFFICES ASSUME Shapes, Soundness, NamedInv, HvStep PROVE NamedInv'
  OBVIOUS
<1> USE DEF hostVars, rowVars, auxiliary
<1>0. UNCHANGED mix
  BY DEF HvStep
<1>1. PICK f \in Owners : Named(f)
  BY DEF NamedInv
<1>2. ASSUME Carries(f, f), UNCHANGED machine PROVE \A n \in MachineName : FitsUpTo(made', f, machine'[n], n)
  BY <1>1, <1>2 DEF Carries, Named
<1>3. ASSUME NEW g \in Growth, NEW w2, growth' = [growth EXCEPT ![g] = w2],
             NEW h \in Owners, \A c \in w2.got : c \in growth[g].got \/ FitsUpTo(made', h, c.id, c.name)
      PROVE  \A e \in Growth : \A c \in growth'[e].got :
                c \in growth[e].got \/ FitsUpTo(made', h, c.id, c.name)
  BY <1>3 DEF Shapes
<1>4. ASSUME NEW g \in Growth, NEW from, NEW w2, Grows(g, from, w2), w2.got \subseteq growth[g].got,
             UNCHANGED <<host, made, machine>>
      PROVE  NamedInv'
  <2>1. Carries(f, f)
    BY <1>1, <1>4, SameCarries
  <2>2. \A e \in Growth : \A c \in growth'[e].got :
           c \in growth[e].got \/ FitsUpTo(made', f, c.id, c.name)
    BY <1>3, <1>4 DEF Grows
  <2> QED BY <1>1, <1>2, <1>4, <2>1, <2>2, NamedThen DEF Grows
<1>5. ASSUME NEW g \in Growth, GrowthStep(g) PROVE NamedInv'
  <2> DEFINE w == growth[g]
  <2>1. w \in Grown /\ Again(w).got \subseteq w.got
    BY DEF Shapes, Again, Grown
  <2>2. CASE AskGrowth(g)
    <3>1. [w EXCEPT !.pc = "begin"].got = w.got
      BY <2>1 DEF Grown
    <3> QED BY <1>4, <2>2, <3>1 DEF AskGrowth
  <2>3. CASE BeginGrowth(g)
    <3>1. [w EXCEPT !.pc = IF Wanted[g] > total THEN "clone" ELSE "end", !.old = total].got = w.got
      BY <2>1 DEF Grown
    <3> QED BY <1>4, <2>1, <2>3, <3>1 DEF BeginGrowth
  <2>4. CASE ChooseNames(g)
    <3>1. \A names : [w EXCEPT !.pc = "cloning", !.names = names, !.got = {}].got = {}
      BY <2>1 DEF Grown
    <3>2. PICK names :
            Grows(g, "clone", [w EXCEPT !.pc = "cloning", !.names = names, !.got = {}])
      BY <2>4 DEF ChooseNames
    <3> QED BY <1>4, <2>4, <3>1, <3>2 DEF ChooseNames
  <2>5. CASE CloneOne(g)
    <3> DEFINE n == Least(w.names)
    <3>1. n \in MachineName
      <4>1. w.names \in SUBSET MachineName /\ w.names # {}
        BY <2>1, <2>5 DEF CloneOne, Grown
      <4> QED BY <4>1, LeastType
    <3> HIDE DEF n
    <3>2. CASE UNCHANGED hostVars
      <4>1. PICK names : Grows(g, "cloning", [w EXCEPT !.names = names])
        <5>1. made' # made \/ ~Makes(n)
          BY HyperVAssumption DEF Makes, Shapes
        <5> QED BY <2>5, <3>2, <5>1 DEF CloneOne, n
      <4>2. [w EXCEPT !.names = names].got = w.got
        BY <2>1 DEF Grown
      <4> QED BY <1>4, <2>5, <3>2, <4>1, <4>2 DEF CloneOne
    <3>3. CASE Makes(n)
      <4>1. PICK h \in Owners : Carries(f, h) /\ FitsUpTo(made', h, made', n)
        BY <1>1, <3>1, <3>3, MakesCarries
      <4>2. PICK to \in {[w EXCEPT !.names = w.names \ {n},
                                   !.got = w.got \cup {[name |-> n, id |-> made + 1]}],
                         [w EXCEPT !.names = w.names \ {n},
                                   !.got = w.got \cup {[name |-> n, id |-> NoId]}],
                         [w EXCEPT !.names = w.names \ {n}]} : Grows(g, "cloning", to)
        BY <2>5 DEF CloneOne, n
      <4>3. \A c \in to.got : \/ c \in w.got
                              \/ c = [name |-> n, id |-> made + 1]
                              \/ c = [name |-> n, id |-> NoId]
        <5> DEFINE both == [name |-> n, id |-> made + 1]
                   none == [name |-> n, id |-> NoId]
        <5>1. [w EXCEPT !.names = w.names \ {n}, !.got = w.got \cup {both}].got = w.got \cup {both}
          BY <2>1 DEF Grown
        <5>2. [w EXCEPT !.names = w.names \ {n}, !.got = w.got \cup {none}].got = w.got \cup {none}
          BY <2>1 DEF Grown
        <5>3. [w EXCEPT !.names = w.names \ {n}].got = w.got
          BY <2>1 DEF Grown
        <5> HIDE DEF both, none
        <5>4. to.got \in {w.got \cup {both}, w.got \cup {none}, w.got}
          BY <4>2, <5>1, <5>2, <5>3 DEF both, none
        <5>5. \A c \in to.got : c \in w.got \/ c = both \/ c = none
          BY <5>4
        <5> QED BY <5>5 DEF both, none
      <4>4. \A c \in to.got : c \in w.got \/ FitsUpTo(made', h, c.id, c.name)
        <5>1. made' = made + 1
          BY <3>3 DEF Makes
        <5>2. FitsUpTo(made', h, NoId, n)
          BY HyperVAssumption DEF FitsUpTo, NoId, Id
        <5> QED BY <4>1, <4>3, <5>1, <5>2
      <4>5. \A e \in Growth : \A c \in growth'[e].got :
               c \in growth[e].got \/ FitsUpTo(made', h, c.id, c.name)
        BY <1>3, <4>2, <4>4 DEF Grows
      <4>6. \A m \in MachineName : FitsUpTo(made', h, machine'[m], m)
        BY <1>1, <2>5, <4>1 DEF CloneOne, Carries, Named
      <4> QED BY <1>1, <2>5, <4>1, <4>2, <4>5, <4>6, NamedThen DEF Grows
    <3> QED BY <2>5, <3>2, <3>3 DEF CloneOne, n
  <2>6. CASE CloneBreaks(g)
    <3>1. PICK w2 \in {[w EXCEPT !.pc = "clone", !.cloneTry = w.cloneTry + 1, !.names = {}, !.got = {}],
                       Again(w)} : Grows(g, "cloning", w2)
      BY <2>6 DEF CloneBreaks
    <3>2. w2.got \subseteq w.got
      BY <2>1, <3>1 DEF Grown
    <3> QED BY <1>4, <2>6, <3>1, <3>2 DEF CloneBreaks
  <2>7. CASE RegisterClone(g)
    <3>1. PICK c \in w.got :
            \/ /\ UNCHANGED machine
               /\ \E w2 \in {[w EXCEPT !.got = w.got \ {c}], Again(w)} : Grows(g, "cloning", w2)
            \/ /\ Grows(g, "cloning", [w EXCEPT !.pc = "start"])
               /\ machine' = [machine EXCEPT ![c.name] = c.id]
      BY <2>7 DEF RegisterClone
    <3>2. UNCHANGED hostVars
      BY <2>7 DEF RegisterClone
    <3>3. [w EXCEPT !.got = w.got \ {c}].got \subseteq w.got /\ [w EXCEPT !.pc = "start"].got = w.got
      BY <2>1 DEF Grown
    <3>4. CASE UNCHANGED machine
      BY <1>4, <2>1, <3>1, <3>2, <3>3, <3>4
    <3>5. CASE /\ Grows(g, "cloning", [w EXCEPT !.pc = "start"])
               /\ machine' = [machine EXCEPT ![c.name] = c.id]
      <4>1. Carries(f, f)
        BY <1>1, <3>2, SameCarries
      <4>2. Fits(f, c.id, c.name) /\ \A n \in MachineName : Fits(f, machine[n], n)
        BY <1>1 DEF Named
      <4>3. \A n \in MachineName : FitsUpTo(made', f, machine'[n], n)
        BY <3>5, <4>1, <4>2 DEF Carries, Shapes
      <4>4. \A e \in Growth : \A d \in growth'[e].got :
               d \in growth[e].got \/ FitsUpTo(made', f, d.id, d.name)
        BY <1>3, <3>3, <3>5 DEF Grows
      <4> QED BY <1>1, <3>5, <4>1, <4>3, <4>4, NamedThen DEF Grows
    <3> QED BY <3>1, <3>4, <3>5
  <2>8. CASE StartClone(g)
    <3>1. PICK c \in w.got :
            \/ Grows(g, "start", [w EXCEPT !.pc = "cloning", !.got = w.got \ {c}, !.done = w.done + 1])
            \/ Grows(g, "start", Again(w))
      BY <2>8 DEF StartClone
    <3>2. [w EXCEPT !.pc = "cloning", !.got = w.got \ {c}, !.done = w.done + 1].got \subseteq w.got
      BY <2>1 DEF Grown
    <3> QED BY <1>4, <2>1, <2>8, <3>1, <3>2 DEF StartClone
  <2>9. CASE EndGrowth(g)
    <3>1. [w EXCEPT !.pc = "end"].got = w.got
      BY <2>1 DEF Grown
    <3> QED BY <1>4, <2>1, <2>9, <3>1 DEF EndGrowth
  <2> QED BY <1>5, <2>2, <2>3, <2>4, <2>5, <2>6, <2>7, <2>8, <2>9 DEF GrowthStep
<1>6. ASSUME NEW n \in belated, CloneLate(n) PROVE NamedInv'
  <2>1. n \in MachineName
    BY DEF Shapes
  <2>2. PICK h \in Owners : Carries(f, h)
    BY <1>1, <1>6, <2>1, MakesCarries DEF CloneLate
  <2>3. \A m \in MachineName : FitsUpTo(made', h, machine'[m], m)
    BY <1>1, <1>6, <2>2 DEF CloneLate, Carries, Named
  <2>4. growth' = growth /\ rebuilds' = rebuilds /\ late' = late
    BY <1>6 DEF CloneLate
  <2> QED BY <1>1, <2>2, <2>3, <2>4, NamedThen
<1>7. ASSUME NEW r \in Rebuilds, NEW w2, rebuilds' = [rebuilds EXCEPT ![r] = w2],
             NEW h \in Owners, Carries(f, h), growth' = growth,
             \A n \in MachineName : FitsUpTo(made', h, machine'[n], n),
             FitsUpTo(made', h, w2.now.old, w2.now.name),
             FitsUpTo(made', h, w2.now.new, w2.now.name),
             \A q \in w2.queue : q \in rebuilds[r].queue \/ FitsUpTo(made', h, q.id, q.name),
             \A t \in late' : t \in late \/ t.try = rebuilds[r].now
      PROVE  NamedInv'
  <2>1. \A s \in Rebuilds :
          \/ rebuilds'[s] = rebuilds[s]
          \/ /\ FitsUpTo(made', h, rebuilds'[s].now.old, rebuilds'[s].now.name)
             /\ FitsUpTo(made', h, rebuilds'[s].now.new, rebuilds'[s].now.name)
             /\ \A q \in rebuilds'[s].queue :
                  q \in rebuilds[s].queue \/ FitsUpTo(made', h, q.id, q.name)
    BY <1>7 DEF Shapes
  <2>2. \A t \in late' :
          \/ t \in late
          \/ /\ FitsUpTo(made', h, t.try.old, t.try.name)
             /\ FitsUpTo(made', h, t.try.new, t.try.name)
    BY <1>1, <1>7 DEF Carries, Named, TryFits
  <2> QED BY <1>1, <1>7, <2>1, <2>2, NamedThen
\* A rebuild that goes on to its next job, or ends.
<1>8. ASSUME NEW w \in Rebuilt, NEW w2 \in {NextJob(w), Fail(w)}, NEW h,
             \A q \in w.queue : FitsUpTo(made', h, q.id, q.name)
      PROVE  /\ FitsUpTo(made', h, w2.now.old, w2.now.name)
             /\ FitsUpTo(made', h, w2.now.new, w2.now.name)
             /\ \A q \in w2.queue : q \in w.queue
  <2>1. \A n : FitsUpTo(made', h, NoRow, n)
    BY HyperVAssumption DEF FitsUpTo, NoRow, Id
  <2>2. NoTry.old = NoRow /\ NoTry.new = NoRow
    BY DEF NoTry
  <2>3. CASE w2.now = NoTry /\ w2.queue \subseteq w.queue
    BY <2>1, <2>2, <2>3
  <2>4. ASSUME NEW q \in w.queue, w2 = [w EXCEPT !.queue = w.queue \ {q}, !.try = 1,
                                                 !.now = Job(q.name, q.id)]
        PROVE  /\ FitsUpTo(made', h, w2.now.old, w2.now.name)
               /\ FitsUpTo(made', h, w2.now.new, w2.now.name)
               /\ \A o \in w2.queue : o \in w.queue
    <3>1. w2.now = Job(q.name, q.id) /\ w2.queue = w.queue \ {q}
      BY <2>4 DEF Rebuilt
    <3>2. /\ Job(q.name, q.id).old = q.id /\ Job(q.name, q.id).name = q.name
          /\ Job(q.name, q.id).new = NoRow
      BY DEF Job, NoTry
    <3> QED BY <1>8, <2>1, <3>1, <3>2
  <2>5. \/ w2.now = NoTry /\ w2.queue \subseteq w.queue
        \/ \E q \in w.queue : w2 = [w EXCEPT !.queue = w.queue \ {q}, !.try = 1,
                                             !.now = Job(q.name, q.id)]
    <3>1. CASE w2 = Fail(w)
      BY <3>1 DEF Fail, Rebuilt
    <3>2. CASE w2 = NextJob(w)
      <4>1. CASE w.queue = {} /\ NextJob(w) = [w EXCEPT !.pc = "end", !.now = NoTry]
        BY <3>2, <4>1 DEF Rebuilt
      <4> QED BY <3>2, <4>1, NextJobIs
    <3> QED BY <3>1, <3>2
  <2> QED BY <2>3, <2>4, <2>5
<1>9. ASSUME NEW r \in Rebuilds, RebuildStep(r) PROVE NamedInv'
  <2> DEFINE w == rebuilds[r]
             t == w.now
  <2>1. /\ w \in Rebuilt /\ t \in Try /\ Sound(t) /\ TryFits(f, t)
        /\ \A q \in w.queue : Fits(f, q.id, q.name)
    BY <1>1 DEF Shapes, Soundness, Rebuilt, Named
  <2>2. CASE AskRebuild(r)
    <3>1. PICK chosen \in IF Kind[r] = "all" THEN {Machines} ELSE {{n} : n \in Machines} :
            rebuilds' = [rebuilds EXCEPT ![r] =
              NextJob([w EXCEPT !.pc = "run",
                                !.queue = {[name |-> n, id |-> machine[n]] : n \in chosen}])]
      BY <2>2 DEF AskRebuild
    <3> DEFINE queue == {[name |-> n, id |-> machine[n]] : n \in chosen}
               v == [w EXCEPT !.pc = "run", !.queue = queue]
    <3>2. chosen \subseteq Machines /\ Machines \subseteq MachineName
      BY DEF Machines
    <3>3. queue \in SUBSET NamedId
      BY <3>2 DEF Machines, NamedId, Shapes
    <3>4. v \in Rebuilt /\ v.queue = queue
      BY <2>1, <3>3 DEF Rebuilt
    <3>5. Carries(f, f)
      BY <1>1, <2>2, SameCarries DEF AskRebuild
    <3>6. \A q \in queue : FitsUpTo(made', f, q.id, q.name)
      BY <1>1, <3>2, <3>5 DEF Carries, Named
    <3>7. NextJob(v).queue \subseteq queue
          /\ FitsUpTo(made', f, NextJob(v).now.old, NextJob(v).now.name)
          /\ FitsUpTo(made', f, NextJob(v).now.new, NextJob(v).now.name)
      <4> HIDE DEF v, queue
      <4> QED BY <1>8, <3>4, <3>6
    <3>8. \A n \in MachineName : FitsUpTo(made', f, machine'[n], n)
      BY <1>2, <2>2, <3>5 DEF AskRebuild
    <3>9. growth' = growth /\ late' = late /\ rebuilds' = [rebuilds EXCEPT ![r] = NextJob(v)]
      BY <2>2, <3>1 DEF AskRebuild, Elsewhere
    <3> HIDE DEF v, queue
    <3> QED BY <1>7, <3>5, <3>6, <3>7, <3>8, <3>9
  <2>3. CASE Attempt(r)
    <3>1. PICK pc \in {"remove", "make", "record", "ok", "error"},
               new \in Id \cup {NoRow, NoId}, seen \in {t.seen, listed} :
            LET u == [t EXCEPT !.pc = pc, !.new = new, !.seen = seen]
            IN  TryStep(t, u, Kind[r]) /\ rebuilds' = [rebuilds EXCEPT ![r].now = u]
      BY <2>3 DEF Attempt
    <3> DEFINE u == [t EXCEPT !.pc = pc, !.new = new, !.seen = seen]
    <3>2. u \in Try
      BY <2>1 DEF Try, Shapes
    <3>3. TryStep(t, u, Kind[r]) /\ rebuilds' = [rebuilds EXCEPT ![r] = [w EXCEPT !.now = u]]
      BY <3>1 DEF Shapes
    <3> HIDE DEF u
    <3>4. [w EXCEPT !.now = u].now = u /\ [w EXCEPT !.now = u].queue = w.queue
      BY <2>1 DEF Rebuilt
    <3>5. PICK h \in Owners :
              /\ Carries(f, h)
              /\ FitsUpTo(made', h, u.old, u.name) /\ FitsUpTo(made', h, u.new, u.name)
              /\ \A n \in MachineName : FitsUpTo(made', h, machine'[n], n)
      BY <1>0, <1>1, <2>1, <3>2, <3>3, TryNamed
    <3>6. growth' = growth /\ late' = late
      BY <2>3 DEF Attempt, Elsewhere
    <3> QED BY <1>7, <3>3, <3>4, <3>5, <3>6
  <2>4. ASSUME NEW w2, rebuilds' = [rebuilds EXCEPT ![r] = w2], UNCHANGED <<host, made, machine, growth>>,
               \A l \in late' : l \in late \/ l.try = t,
               \/ w2 \in {NextJob(w), Fail(w)}
               \/ /\ w2.now.old = t.old /\ w2.now.name = t.name /\ w2.now.new = NoRow
                  /\ w2.queue = w.queue
        PROVE  NamedInv'
    <3>1. Carries(f, f)
      BY <1>1, <2>4, SameCarries
    <3>2. /\ FitsUpTo(made', f, t.old, t.name)
          /\ \A q \in w.queue : FitsUpTo(made', f, q.id, q.name)
      BY <2>1, <3>1 DEF Carries, TryFits
    <3>3. \A n : FitsUpTo(made', f, NoRow, n)
      BY HyperVAssumption DEF FitsUpTo, NoRow, Id
    <3>4. /\ FitsUpTo(made', f, w2.now.old, w2.now.name)
          /\ FitsUpTo(made', f, w2.now.new, w2.now.name)
          /\ \A q \in w2.queue : q \in w.queue
      <4>1. CASE w2 \in {NextJob(w), Fail(w)}
        BY <1>8, <2>1, <3>2, <4>1
      <4> QED BY <2>4, <3>2, <3>3, <4>1
    <3>5. \A n \in MachineName : FitsUpTo(made', f, machine'[n], n)
      BY <1>2, <2>4, <3>1
    <3> QED BY <1>7, <2>4, <3>1, <3>4, <3>5
  <2>5. CASE AttemptEnds(r)
    <3>1. \A l \in late' : l \in late \/ l.try = t
      BY <2>5 DEF AttemptEnds
    <3>2. CASE rebuilds' = [rebuilds EXCEPT ![r].try = @ + 1, ![r].now = Job(t.name, t.old)]
      <4> DEFINE w2 == [w EXCEPT !.try = w.try + 1, !.now = Job(t.name, t.old)]
      <4>1. rebuilds' = [rebuilds EXCEPT ![r] = w2]
        BY <3>2 DEF Shapes
      <4>2. w2.now = Job(t.name, t.old) /\ w2.queue = w.queue
        BY <2>1 DEF Rebuilt
      <4>3. /\ Job(t.name, t.old).old = t.old /\ Job(t.name, t.old).name = t.name
            /\ Job(t.name, t.old).new = NoRow
        BY DEF Job, NoTry
      <4> HIDE DEF w2
      <4> QED BY <2>4, <2>5, <3>1, <4>1, <4>2, <4>3 DEF AttemptEnds, Elsewhere
    <3>3. CASE rebuilds' = [rebuilds EXCEPT ![r] = Fail(w)]
      BY <2>4, <2>5, <3>1, <3>3 DEF AttemptEnds, Elsewhere
    <3> QED BY <2>5, <3>2, <3>3 DEF AttemptEnds
  <2>6. CASE Answer(r)
    <3>1. PICK w2 \in {NextJob(w), Fail(w)} : rebuilds' = [rebuilds EXCEPT ![r] = w2]
      BY <2>6 DEF Answer
    <3> QED BY <2>4, <2>6, <3>1 DEF Answer, Elsewhere
  <2> QED BY <1>9, <2>2, <2>3, <2>5, <2>6 DEF RebuildStep
<1>10. ASSUME NEW l \in late, AttemptLate(l) PROVE NamedInv'
  <2> DEFINE t == l.try
  <2>1. t \in Try /\ Sound(t) /\ TryFits(f, t) /\ l \in [kind : {"one", "all"}, try : Try]
    BY <1>1 DEF Shapes, Soundness, Named
  <2>2. PICK pc \in {"remove", "make", "record", "ok", "error"},
             new \in Id \cup {NoRow, NoId}, seen \in {t.seen, listed} :
          LET u == [t EXCEPT !.pc = pc, !.new = new, !.seen = seen]
          IN  /\ TryStep(t, u, l.kind)
              /\ late' = (late \ {l}) \cup
                   (IF pc \in {"ok", "error"} THEN {} ELSE {[l EXCEPT !.try = u]})
    BY <1>10 DEF AttemptLate
  <2> DEFINE u == [t EXCEPT !.pc = pc, !.new = new, !.seen = seen]
  <2>3. u \in Try
    BY <2>1 DEF Try, Shapes
  <2>4. TryStep(t, u, l.kind) /\ late' \subseteq (late \ {l}) \cup {[l EXCEPT !.try = u]}
    BY <2>2
  <2> HIDE DEF u
  <2>5. [l EXCEPT !.try = u].try = u
    BY <2>1
  <2>6. PICK h \in Owners :
            /\ Carries(f, h)
            /\ FitsUpTo(made', h, u.old, u.name) /\ FitsUpTo(made', h, u.new, u.name)
            /\ \A n \in MachineName : FitsUpTo(made', h, machine'[n], n)
    BY <1>0, <1>1, <2>1, <2>3, <2>4, TryNamed
  <2>7. growth' = growth /\ rebuilds' = rebuilds
    BY <1>10 DEF AttemptLate, Elsewhere
  <2>8. \A k \in late' : \/ k \in late
                         \/ /\ FitsUpTo(made', h, k.try.old, k.try.name)
                            /\ FitsUpTo(made', h, k.try.new, k.try.name)
    BY <2>4, <2>5, <2>6
  <2> QED BY <1>1, <2>6, <2>7, <2>8, NamedThen
<1>11. ASSUME Removal PROVE NamedInv'
  <2>1. growth' = growth /\ rebuilds' = rebuilds /\ late' = late /\ made' = made
    BY <1>11 DEF Removal, BeginRemoval, RemoveVm, EndVms, RemoveMachine, RemovePool, Removes
  <2>2. \A id \in Id : host'[id] \in {host[id], Gone}
    BY <1>11 DEF Removal, BeginRemoval, RemoveVm, EndVms, RemoveMachine, RemovePool, Shapes
  <2>3. Carries(f, f)
    BY <1>1, <2>1, <2>2, SameCarries
  <2>4. \A n \in MachineName : machine'[n] \in {machine[n], NoRow}
    BY <1>11 DEF Removal, BeginRemoval, RemoveVm, EndVms, RemoveMachine, RemovePool, Shapes
  <2>5. \A n : FitsUpTo(made', f, NoRow, n)
    BY HyperVAssumption DEF FitsUpTo, NoRow, Id
  <2>6. \A n \in MachineName : FitsUpTo(made', f, machine'[n], n)
    BY <1>1, <2>3, <2>4, <2>5 DEF Carries, Named
  <2> QED BY <1>1, <2>1, <2>3, <2>6, NamedThen
<1>12. CASE NothingMore
  BY <1>12 DEF NothingMore, hyperVVars, NamedInv, Named, Fits, TryFits, There
<1> QED BY <1>5, <1>6, <1>9, <1>10, <1>11, <1>12 DEF HvStep, HyperVNext

HvInv == Shapes /\ Soundness /\ NamedInv

(* The first state has the invariant.                                      *)
LEMMA HvInvInit == HyperVInit => HvInv
BY ShapesInit, SoundInit, NamedInit DEF HvInv

(* A stuttering step keeps the invariant.                                  *)
LEMMA HvStutter == UNCHANGED hyperVVars /\ HvInv => HvInv'
BY DEF HvInv, hyperVVars, hostVars, rowVars, auxiliary, Shapes, Soundness, NamedInv, Named,
   Fits, TryFits

(* A step keeps the invariant.                                             *)
LEMMA HvInvNext == HvInv /\ HvStep => HvInv'
BY ShapesNext, NamedNext DEF HvInv

(* A rebuild that takes an id from the list takes it from no other          *)
(* machine: the id was its machine's alone.                                 *)
LEMMA RecordKeepsList ==
    ASSUME HvInv, RowsAreListed, NEW t \in Try, Sound(t), NEW f \in Owners, Named(f), TryFits(f, t),
           NEW u, NEW kind, RecordRebuild(t, u, kind)
    PROVE  RowsAreListed'
<1> USE DEF rowVars, auxiliary
<1>1. t.old \in Id /\ f[t.old] = t.name
  BY DEF RecordRebuild, Sound, TryFits, Fits, FitsUpTo
<1>2. CASE UNCHANGED <<rowVars, auxiliary>>
  BY <1>2 DEF RowsAreListed, Machines
<1>3. ASSUME NEW id \in NewIds(t, kind),
             machine' = [machine EXCEPT ![t.name] = IF id = t.old THEN @ ELSE id],
             listed' = IF t.old \in t.seen /\ id # t.old THEN Replaced(t, id) ELSE listed,
             mislaid' = mislaid \cup (listed \ (listed' \cup {t.old}))
                             \cup (IF t.old \in t.seen THEN {} ELSE {id}),
             UNCHANGED <<total, poolRow, reports>>
      PROVE  RowsAreListed'
  <2> SUFFICES ASSUME poolRow = "live", NEW n \in MachineName, machine'[n] # NoRow
               PROVE  machine'[n] \in listed' \cup mislaid'
    BY <1>3 DEF RowsAreListed, Machines
  <2>0. machine \in [MachineName -> Id \cup {NoRow, NoId}]
    BY DEF HvInv, Shapes
  <2>1. CASE n = t.name /\ id # t.old
    <3>1. machine'[n] = id
      BY <1>3, <2>0, <2>1
    <3> QED BY <1>3, <2>1, <3>1 DEF Replaced
  <2>2. CASE ~(n = t.name /\ id # t.old)
    <3>1. machine'[n] = machine[n]
      BY <1>3, <2>0, <2>2
    <3>2. machine[n] \in listed \cup mislaid
      BY <3>1 DEF RowsAreListed, Machines
    <3>3. machine[n] = t.old => n = t.name
      BY <1>1 DEF Named, Fits, FitsUpTo
    <3>4. CASE id = t.old
      BY <1>3, <3>1, <3>2, <3>4
    <3>5. CASE machine[n] # t.old
      BY <1>3, <3>1, <3>2, <3>5
    <3> QED BY <2>2, <3>3, <3>4, <3>5
  <2> QED BY <2>1, <2>2
<1> QED BY <1>2, <1>3 DEF RecordRebuild

(* A step keeps the machines' ids in the pool's list.                      *)
LEMMA ListNext == HvInv /\ RowsAreListed /\ HvStep => RowsAreListed'
<1> SUFFICES ASSUME HvInv, RowsAreListed, HvStep PROVE RowsAreListed'
  OBVIOUS
<1> USE DEF hostVars, rowVars, auxiliary
<1>1. ASSUME \A n \in MachineName : machine'[n] \in {machine[n], NoRow},
             UNCHANGED <<listed, mislaid>>, poolRow' = "live" => poolRow = "live"
      PROVE  RowsAreListed'
  BY <1>1 DEF RowsAreListed, Machines
<1>2. ASSUME NEW g \in Growth, GrowthStep(g) PROVE RowsAreListed'
  <2>1. CASE RegisterClone(g)
    <3>1. PICK c \in growth[g].got :
            \/ UNCHANGED rowVars
            \/ /\ listed' = listed \cup {c.id}
               /\ machine' = [machine EXCEPT ![c.name] = c.id]
               /\ UNCHANGED <<poolRow, mislaid>>
            \/ /\ listed' = listed \cup {c.id}
               /\ UNCHANGED <<machine, poolRow, mislaid>>
      BY <2>1 DEF RegisterClone
    <3>2. UNCHANGED mislaid
      BY <2>1 DEF RegisterClone
    <3>3. machine \in [MachineName -> Id \cup {NoRow, NoId}]
      BY DEF HvInv, Shapes
    <3> QED BY <3>1, <3>2, <3>3 DEF RowsAreListed, Machines
  <2>2. CASE AskGrowth(g) \/ BeginGrowth(g) \/ ChooseNames(g) \/ CloneOne(g) \/ CloneBreaks(g)
             \/ StartClone(g) \/ EndGrowth(g)
    <3>1. UNCHANGED <<machine, listed, mislaid, poolRow>>
      BY <2>2 DEF AskGrowth, BeginGrowth, ChooseNames, CloneOne, CloneBreaks, StartClone, EndGrowth
    <3> QED BY <1>1, <3>1
  <2> QED BY <1>2, <2>1, <2>2 DEF GrowthStep
<1>3. ASSUME NEW n \in belated, CloneLate(n) PROVE RowsAreListed'
  BY <1>1, <1>3 DEF CloneLate
<1>4. ASSUME NEW t \in Try, NEW u, NEW kind, TryStep(t, u, kind), Sound(t),
             NEW f \in Owners, Named(f), TryFits(f, t)
      PROVE  RowsAreListed'
  <2>1. CASE RecordRebuild(t, u, kind)
    BY <1>4, <2>1, RecordKeepsList
  <2>2. CASE ReadForRebuild(t, u) \/ RemoveForRebuild(t, u) \/ MakeForRebuild(t, u)
    BY <1>1, <2>2 DEF ReadForRebuild, RemoveForRebuild, MakeForRebuild
  <2> QED BY <1>4, <2>1, <2>2 DEF TryStep
<1>5. PICK f \in Owners : Named(f)
  BY DEF HvInv, NamedInv
<1>6. ASSUME NEW r \in Rebuilds, RebuildStep(r) PROVE RowsAreListed'
  <2>1. CASE Attempt(r)
    <3>1. PICK u : TryStep(rebuilds[r].now, u, Kind[r])
      BY <2>1 DEF Attempt
    <3>2. /\ rebuilds[r].now \in Try /\ Sound(rebuilds[r].now)
          /\ TryFits(f, rebuilds[r].now)
      BY <1>5 DEF HvInv, Shapes, Soundness, Named, Rebuilt
    <3> QED BY <1>4, <1>5, <3>1, <3>2
  <2>2. CASE AskRebuild(r) \/ AttemptEnds(r) \/ Answer(r)
    BY <1>1, <2>2 DEF AskRebuild, AttemptEnds, Answer
  <2> QED BY <1>6, <2>1, <2>2 DEF RebuildStep
<1>7. ASSUME NEW l \in late, AttemptLate(l) PROVE RowsAreListed'
  <2>1. PICK u : TryStep(l.try, u, l.kind)
    BY <1>7 DEF AttemptLate
  <2>2. l.try \in Try /\ Sound(l.try) /\ TryFits(f, l.try)
    BY <1>5 DEF HvInv, Shapes, Soundness, Named
  <2> QED BY <1>4, <1>5, <2>1, <2>2
<1>8. ASSUME Removal PROVE RowsAreListed'
  <2>1. /\ \A n \in MachineName : machine'[n] \in {machine[n], NoRow}
        /\ UNCHANGED <<listed, mislaid>>
        /\ poolRow' = "live" => poolRow = "live"
    BY <1>8 DEF Removal, BeginRemoval, RemoveVm, EndVms, RemoveMachine, RemovePool, Removes, HvInv, Shapes
  <2> QED BY <1>1, <2>1
<1>9. CASE NothingMore
  BY <1>9 DEF NothingMore, hyperVVars, RowsAreListed, Machines
<1> QED BY <1>2, <1>3, <1>6, <1>7, <1>8, <1>9 DEF HvStep, HyperVNext

(* The VM of every machine is in pool_vmids, the only pointer to it, unless *)
(* a rebuild that began earlier wrote the list back without it              *)
(* (activities_pool.py, vm_rebuild_hyper_v_activity), for any number of     *)
(* machines, updates, rebuilds and attempts that outlive their time limit.  *)
THEOREM RowsStayListed == HyperVSpec => []RowsAreListed
<1>1. HyperVInit => HvInv /\ RowsAreListed
  <2>1. HyperVInit => RowsAreListed
    BY HyperVAssumption DEF HyperVInit, RowsAreListed, Machines, MachineName, NoRow
  <2> QED BY <2>1, HvInvInit
<1>2. HvInv /\ RowsAreListed /\ [HvStep]_hyperVVars => (HvInv /\ RowsAreListed)'
  <2>1. UNCHANGED hyperVVars /\ RowsAreListed => RowsAreListed'
    BY DEF hyperVVars, rowVars, auxiliary, RowsAreListed, Machines
  <2> QED BY <2>1, HvInvNext, HvStutter, ListNext
<1> QED BY <1>1, <1>2, PTL DEF HyperVSpec, HvStep

-----------------------------------------------------------------------------
(* LossHasReport.  Until the pool's rows are being removed, a machine        *)
(* without its VM is one whose loss is noted, by an answer or in the end of  *)
(* a workflow, or it waits for a rebuild that will fail, that is about to    *)
(* give it another VM, or that starts the one it has; and an attempt that    *)
(* outlived its time limit can take a VM only from a machine that is noted,  *)
(* or whose present attempt will then fail.                                 *)

Noted == told \cup buried
USE DEF Noted

Over == poolRow = "gone" \/ removal.pc = "rows"

Running(r, n) == rebuilds[r].pc = "run" /\ rebuilds[r].now.name = n

Doomed(r) ==
    \/ rebuilds[r].now.pc = "error"
    \/ rebuilds[r].now.pc \in {"read", "remove"} /\ ~There(rebuilds[r].now.old)

Awaits(r, n) ==
    /\ Running(r, n)
    /\ \/ Doomed(r)
       \/ rebuilds[r].now.pc \in {"make", "record"} /\ rebuilds[r].now.old = machine[n]
       \/ rebuilds[r].now.pc = "ok" /\ rebuilds[r].now.new = machine[n]

BegunBy(r, n, old) == /\ Running(r, n) /\ rebuilds[r].now.old = old
                      /\ rebuilds[r].now.pc \in {"read", "remove", "error"}

FailingBy(r, n) == Running(r, n) /\ Doomed(r)

LossTold ==
    \A n \in Machines : \/ There(machine[n]) \/ n \in Noted \/ removal.pc = "vms"
                        \/ \E r \in Rebuilds : Awaits(r, n)

Fair(t) ==
    /\ t.pc \in {"remove", "make", "record"} /\ t.name \in Machines
    /\ t.pc = "remove" /\ There(t.old) =>
         t.name \in Noted \/ \E r \in Rebuilds : BegunBy(r, t.name, t.old)
    /\ t.pc \in {"make", "record"} =>
         t.name \in Noted \/ \E r \in Rebuilds : FailingBy(r, t.name)

JobFair(r) ==
    /\ rebuilds[r].pc = "run" => rebuilds[r].now.pc # "none" /\ rebuilds[r].now.name \in Machines
    /\ rebuilds[r].now.pc \in {"make", "record"} => ~There(rebuilds[r].now.old)
    /\ \A q \in rebuilds[r].queue : q.name \in Machines

GotThere ==
    \A g \in Growth : \A c \in growth[g].got :
        machine[c.name] = NoRow /\ c.id \in Id => There(c.id)

Told == /\ LossTold
        /\ \A t \in late : Fair(t.try)
        /\ \A r \in Rebuilds : JobFair(r)
        /\ GotThere

TellInv == Over \/ Told

(* No id that was given away is given again.                                *)
Known(id) == id \in Id => id <= made

Quiet == \A id : Known(id) /\ There(id)' => There(id)

RowsStay == \A n \in MachineName : machine[n] # NoRow => machine'[n] # NoRow

(* Making a VM brings back no id that was given before, and removes none.  *)
LEMMA MakesQuiet ==
    ASSUME Shapes, NEW n \in MachineName, Makes(n)
    PROVE  Quiet /\ (\A id : There(id) => There(id)')
<1>1. made \in Int /\ made' = made + 1 /\ host' = [host EXCEPT ![made + 1] = n]
  BY HyperVAssumption DEF Shapes, Makes
<1>2. n # Gone
  BY HyperVAssumption DEF MachineName, Gone
<1>3. \A id \in Id : (id <= made => host'[id] = host[id]) /\ host'[id] \in {host[id], n}
  BY <1>1 DEF Shapes, Id
<1> QED BY <1>2, <1>3 DEF Quiet, There, Known

(* Nor does a step that at most removes VMs bring one back.                *)
LEMMA ShrinkQuiet ==
    ASSUME Shapes, \A id \in Id : host'[id] \in {host[id], Gone}
    PROVE  Quiet
BY DEF Quiet, There

(* Every id that anybody holds was given, and no two machines share one.    *)
LEMMA AllKnown ==
    ASSUME HvInv
    PROVE  /\ \A n \in MachineName : Known(machine[n])
           /\ \A r \in Rebuilds : Known(rebuilds[r].now.old) /\ Known(rebuilds[r].now.new)
           /\ \A t \in late : Known(t.try.old)
           /\ \A g \in Growth : \A c \in growth[g].got : Known(c.id)
BY DEF HvInv, NamedInv, Named, TryFits, Fits, FitsUpTo, Known

(* An id in a row is the id of that machine alone.                         *)
LEMMA OneOwner ==
    ASSUME HvInv, NEW n \in MachineName, machine[n] \in Id
    PROVE  /\ \A m \in MachineName : machine[m] = machine[n] => m = n
           /\ \A r \in Rebuilds : rebuilds[r].now.old = machine[n] => rebuilds[r].now.name = n
           /\ \A t \in late : t.try.old = machine[n] => t.try.name = n
           /\ \A g \in Growth : \A c \in growth[g].got : c.id = machine[n] => c.name = n
BY DEF HvInv, NamedInv, Named, TryFits, Fits, FitsUpTo

(* The ids that are not there stay so, for the attempts that are not at     *)
(* work in this step.                                                       *)
LEMMA WaitsKept ==
    ASSUME HvInv, Quiet, NEW r \in Rebuilds, rebuilds'[r] = rebuilds[r]
    PROVE  /\ Doomed(r) => Doomed(r)'
           /\ \A n : Running(r, n) => Running(r, n)'
           /\ \A n : Awaits(r, n) /\ machine'[n] = machine[n] => Awaits(r, n)'
<1>1. There(rebuilds[r].now.old)' => There(rebuilds[r].now.old)
  BY AllKnown DEF Quiet, There
<1>2. Doomed(r) => Doomed(r)'
  BY <1>1 DEF Doomed
<1>3. \A n : Running(r, n) => Running(r, n)'
  BY DEF Running
<1> QED BY <1>2, <1>3 DEF Awaits

TellsOn == \A n \in Machines : n \in Noted => n \in Noted'

(* A late attempt stays harmless if the rebuild it leans on does its part.  *)
LEMMA FairKept ==
    ASSUME Quiet, RowsStay, TellsOn, NEW t, Known(t.old), Fair(t),
           \A r \in Rebuilds :
              /\ BegunBy(r, t.name, t.old) =>
                    t.name \in Noted' \/ ~There(t.old)' \/ BegunBy(r, t.name, t.old)'
              /\ FailingBy(r, t.name) => t.name \in Noted' \/ FailingBy(r, t.name)'
    PROVE  Fair(t)'
<1>1. (t.name \in Machines)'
  BY DEF Fair, RowsStay, Machines
<1>2. t.name \in Noted => t.name \in Noted'
  BY DEF Fair, TellsOn
<1>3. There(t.old)' => There(t.old)
  BY DEF Quiet
<1>4. (t.pc = "remove" /\ There(t.old))' =>
        t.name \in Noted' \/ \E r \in Rebuilds : BegunBy(r, t.name, t.old)'
  BY <1>2, <1>3 DEF Fair
<1>5. t.pc \in {"make", "record"} =>
        t.name \in Noted' \/ \E r \in Rebuilds : FailingBy(r, t.name)'
  BY <1>2 DEF Fair
<1>6. t.pc \in {"remove", "make", "record"}
  BY DEF Fair
<1> QED BY <1>1, <1>4, <1>5, <1>6 DEF Fair

(* A quiet step leaves what an attempt relies on.                          *)
LEMMA LeaningKept ==
    ASSUME HvInv, Quiet, NEW r \in Rebuilds, rebuilds'[r] = rebuilds[r], NEW n, NEW old
    PROVE  /\ BegunBy(r, n, old) => BegunBy(r, n, old)'
           /\ FailingBy(r, n) => FailingBy(r, n)'
BY WaitsKept DEF BegunBy, FailingBy, Running

(* A quiet step leaves a waiting job as fair as it was.                    *)
LEMMA JobKept ==
    ASSUME HvInv, Quiet, RowsStay, NEW r \in Rebuilds, rebuilds'[r] = rebuilds[r], JobFair(r)
    PROVE  JobFair(r)'
<1>1. There(rebuilds[r].now.old)' => There(rebuilds[r].now.old)
  BY AllKnown DEF Quiet, There
<1>2. \A n : n \in Machines => (n \in Machines)'
  BY DEF RowsStay, Machines
<1> QED BY <1>1, <1>2 DEF JobFair

(* Steps that are not the rebuilds'.                                        *)
LEMMA OthersFair ==
    ASSUME HvInv, Told, Quiet, RowsStay, TellsOn, rebuilds' = rebuilds, late' = late
    PROVE  (\A t \in late : Fair(t.try))' /\ (\A r \in Rebuilds : JobFair(r))'
<1>1. ASSUME NEW t \in late PROVE Fair(t.try)'
  <2>1. Known(t.try.old) /\ Fair(t.try)
    BY AllKnown DEF Told
  <2> QED BY <2>1, FairKept, LeaningKept
<1>2. ASSUME NEW r \in Rebuilds PROVE JobFair(r)'
  BY JobKept DEF Told
<1> QED BY <1>1, <1>2

(* Steps that change no row, tell nothing and take no VM.                   *)
LEMMA MakersTold ==
    ASSUME HvInv, Told, Quiet, \A id : There(id) => There(id)',
           machine' = machine, Noted' = Noted, removal' = removal, rebuilds' = rebuilds, late' = late,
           \A g \in Growth : \A c \in growth'[g].got : c \in growth[g].got \/ (c.id \in Id => There(c.id)')
    PROVE  Told'
<1>1. RowsStay /\ TellsOn
  BY DEF RowsStay, TellsOn
<1>2. (\A t \in late : Fair(t.try))' /\ (\A r \in Rebuilds : JobFair(r))'
  BY <1>1, OthersFair
<1>3. LossTold'
  <2> SUFFICES ASSUME NEW n \in Machines'
               PROVE  \/ There(machine[n])' \/ n \in Noted' \/ removal'.pc = "vms"
                      \/ \E r \in Rebuilds : Awaits(r, n)'
    BY DEF LossTold
  <2>1. n \in Machines
    BY DEF Machines
  <2>2. There(machine[n]) => There(machine[n])'
    BY DEF There
  <2>3. \A r \in Rebuilds : Awaits(r, n) => Awaits(r, n)'
    BY WaitsKept
  <2> QED BY <2>1, <2>2, <2>3 DEF Told, LossTold
<1>4. GotThere'
  <2> SUFFICES ASSUME NEW g \in Growth, NEW c \in growth'[g].got, machine'[c.name] = NoRow, c.id \in Id
               PROVE  There(c.id)'
    BY DEF GotThere
  <2> QED BY DEF Told, GotThere
<1> QED BY <1>2, <1>3, <1>4 DEF Told

(* A step of an update keeps every loss noted.                              *)
LEMMA GrowthTold ==
    ASSUME HvInv, Told, poolRow = "live", NEW g \in Growth, GrowthStep(g)
    PROVE  Told'
<1> USE DEF hostVars, rowVars, auxiliary
<1> DEFINE w == growth[g]
<1>0. Shapes /\ w \in Grown /\ Again(w).got \subseteq w.got
  BY DEF HvInv, Shapes, Again, Grown
<1>1. ASSUME NEW from, NEW w2, Grows(g, from, w2), w2.got \subseteq w.got,
             UNCHANGED <<host, made, machine, Noted>>
      PROVE  Told'
  <2>1. Quiet /\ \A id : There(id) => There(id)'
    BY <1>1 DEF Quiet, There
  <2>2. \A e \in Growth : growth'[e].got \subseteq growth[e].got
    BY <1>0, <1>1 DEF Grows, Shapes
  <2> QED BY <1>1, <2>1, <2>2, MakersTold DEF Grows
<1>2. CASE AskGrowth(g)
  <2>1. [w EXCEPT !.pc = "begin"].got = w.got
    BY <1>0 DEF Grown
  <2> QED BY <1>1, <1>2, <2>1 DEF AskGrowth
<1>3. CASE BeginGrowth(g)
  <2>1. [w EXCEPT !.pc = IF Wanted[g] > total THEN "clone" ELSE "end", !.old = total].got = w.got
    BY <1>0 DEF Grown
  <2> QED BY <1>0, <1>1, <1>3, <2>1 DEF BeginGrowth
<1>4. CASE ChooseNames(g)
  <2>1. \A names : [w EXCEPT !.pc = "cloning", !.names = names, !.got = {}].got = {}
    BY <1>0 DEF Grown
  <2>2. PICK names :
          Grows(g, "clone", [w EXCEPT !.pc = "cloning", !.names = names, !.got = {}])
    BY <1>4 DEF ChooseNames
  <2> QED BY <1>1, <1>4, <2>1, <2>2 DEF ChooseNames
<1>5. CASE CloneOne(g)
  <2> DEFINE n == Least(w.names)
             both == [name |-> n, id |-> made + 1]
             none == [name |-> n, id |-> NoId]
             rest == w.names \ {n}
  <2>1. n \in MachineName
    <3>1. w.names \in SUBSET MachineName /\ w.names # {}
      BY <1>0, <1>5 DEF CloneOne, Grown
    <3> QED BY <3>1, LeastType
  <2> HIDE DEF n
  <2>2. PICK to \in {[w EXCEPT !.names = rest, !.got = w.got \cup {both}],
                     [w EXCEPT !.names = rest, !.got = w.got \cup {none}],
                     [w EXCEPT !.names = rest]} : Grows(g, "cloning", to)
    BY <1>5 DEF CloneOne, n
  <2>3. CASE UNCHANGED hostVars
    <3>1. made' # made \/ ~Makes(n)
      BY <1>0, HyperVAssumption DEF Makes, Shapes
    <3>2. Grows(g, "cloning", [w EXCEPT !.names = rest])
      BY <1>5, <2>3, <3>1 DEF CloneOne, n
    <3>3. [w EXCEPT !.names = rest].got = w.got
      BY <1>0 DEF Grown
    <3> QED BY <1>1, <1>5, <2>3, <3>2, <3>3 DEF CloneOne
  <2>4. CASE Makes(n)
    <3>1. Quiet /\ \A id : There(id) => There(id)'
      BY <1>0, <2>1, <2>4, MakesQuiet
    <3>2. PICK k \in Id : k = made + 1 /\ There(k)'
      <4>1. made + 1 \in Id /\ n # Gone
        BY <1>0, <2>1, <2>4, MakesTypes, HyperVAssumption DEF MachineName, Gone
      <4>2. host'[made + 1] = n
        BY <1>0, <2>4, <4>1 DEF Makes, Shapes
      <4>3. \A id : id = made + 1 => There(id)'
        BY <4>1, <4>2 DEF There
      <4> QED BY <4>1, <4>3
    <3>3. to.got \in {w.got \cup {both}, w.got \cup {none}, w.got}
      <4>1. [w EXCEPT !.names = rest, !.got = w.got \cup {both}].got = w.got \cup {both}
        BY <1>0 DEF Grown
      <4>2. [w EXCEPT !.names = rest, !.got = w.got \cup {none}].got = w.got \cup {none}
        BY <1>0 DEF Grown
      <4>3. [w EXCEPT !.names = rest].got = w.got
        BY <1>0 DEF Grown
      <4> HIDE DEF both, none, rest
      <4> QED BY <2>2, <4>1, <4>2, <4>3
    <3>4. NoId \notin Id
      BY HyperVAssumption DEF NoId, Id
    <3>5. \A c \in to.got : c \in w.got \/ (c.id \in Id => There(c.id)')
      BY <3>2, <3>3, <3>4
    <3>6. \A e \in Growth : \A c \in growth'[e].got : c \in growth[e].got \/ (c.id \in Id => There(c.id)')
      BY <1>0, <2>2, <3>5 DEF Grows, Shapes
    <3> QED BY <1>5, <2>2, <3>1, <3>6, MakersTold DEF Grows, CloneOne
  <2> QED BY <1>5, <2>3, <2>4 DEF CloneOne, n
<1>6. CASE CloneBreaks(g)
  <2>1. PICK w2 \in {[w EXCEPT !.pc = "clone", !.cloneTry = w.cloneTry + 1, !.names = {}, !.got = {}],
                     Again(w)} : Grows(g, "cloning", w2)
    BY <1>6 DEF CloneBreaks
  <2>2. w2.got \subseteq w.got
    BY <1>0, <2>1 DEF Grown
  <2> QED BY <1>1, <1>6, <2>1, <2>2 DEF CloneBreaks
<1>7. CASE RegisterClone(g)
  <2>1. PICK c \in w.got :
          \/ /\ UNCHANGED <<machine, Noted>>
             /\ \E w2 \in {[w EXCEPT !.got = w.got \ {c}], Again(w)} : Grows(g, "cloning", w2)
          \/ /\ c.id # NoId /\ machine[c.name] = NoRow
             /\ Grows(g, "cloning", [w EXCEPT !.pc = "start"])
             /\ machine' = [machine EXCEPT ![c.name] = c.id]
             /\ Noted' = Noted \ {c.name}
    BY <1>7 DEF RegisterClone
  <2>2. UNCHANGED hostVars
    BY <1>7 DEF RegisterClone
  <2>3. /\ [w EXCEPT !.got = w.got \ {c}].got \subseteq w.got
        /\ [w EXCEPT !.pc = "start"].got = w.got
    BY <1>0 DEF Grown
  <2>4. CASE UNCHANGED <<machine, Noted>>
    BY <1>0, <1>1, <2>1, <2>2, <2>3, <2>4
  <2>5. CASE /\ c.id # NoId /\ machine[c.name] = NoRow
             /\ Grows(g, "cloning", [w EXCEPT !.pc = "start"])
             /\ machine' = [machine EXCEPT ![c.name] = c.id]
             /\ Noted' = Noted \ {c.name}
    <3>1. c.id \in Id /\ c.name \in MachineName
      BY <1>0, <2>5 DEF Grown, NamedId
    <3>2. There(c.id)
      BY <2>5, <3>1 DEF Told, GotThere
    <3>3. \A n \in MachineName : machine'[n] = IF n = c.name THEN c.id ELSE machine[n]
      BY <1>0, <2>5 DEF Shapes
    <3>4. Quiet /\ \A id : There(id)' <=> There(id)
      BY <2>2 DEF Quiet, There
    <3>5. RowsStay /\ TellsOn
      <4>1. NoRow \notin Id
        BY HyperVAssumption DEF NoRow, Id
      <4>2. c.name \notin Machines
        BY <2>5 DEF Machines
      <4> QED BY <2>5, <3>1, <3>3, <4>1, <4>2 DEF RowsStay, TellsOn
    <3>6. (\A t \in late : Fair(t.try))' /\ (\A r \in Rebuilds : JobFair(r))'
      BY <2>5, <3>4, <3>5, OthersFair DEF Grows
    <3>7. LossTold'
      <4> SUFFICES ASSUME NEW n \in MachineName, machine'[n] # NoRow
                   PROVE  \/ There(machine[n])' \/ n \in Noted' \/ removal'.pc = "vms"
                          \/ \E r \in Rebuilds : Awaits(r, n)'
        BY DEF LossTold, Machines
      <4>1. CASE n = c.name
        <5>1. machine'[n] = c.id /\ There(c.id)'
          BY <3>2, <3>3, <3>4, <4>1
        <5> QED BY <5>1 DEF There
      <4>2. CASE n # c.name
        <5>1. machine'[n] = machine[n] /\ n \in Machines
          BY <3>3, <4>2 DEF Machines
        <5>2. There(machine[n]) => There(machine[n])'
          BY <2>2, <5>1 DEF There
        <5>3. n \in Noted => n \in Noted'
          BY <2>5, <4>2
        <5>4. \A r \in Rebuilds : Awaits(r, n) => Awaits(r, n)'
          BY <2>5, <3>4, <5>1, WaitsKept DEF Grows
        <5>5. removal' = removal
          BY <2>5 DEF Grows
        <5> QED BY <5>1, <5>2, <5>3, <5>4, <5>5 DEF Told, LossTold
      <4> QED BY <4>1, <4>2
    <3>8. GotThere'
      <4>1. \A e \in Growth : growth'[e].got = growth[e].got
        BY <1>0, <2>3, <2>5 DEF Grows, Shapes
      <4>2. \A e \in Growth : \A d \in growth[e].got : d.name \in MachineName
        BY <1>0 DEF Shapes, Grown, NamedId
      <4>3. NoRow \notin Id
        BY HyperVAssumption DEF NoRow, Id
      <4> SUFFICES ASSUME NEW e \in Growth, NEW d \in growth'[e].got, machine'[d.name] = NoRow, d.id \in Id
                   PROVE  There(d.id)'
        BY DEF GotThere
      <4>4. d \in growth[e].got /\ machine[d.name] = NoRow
        BY <3>1, <3>3, <4>1, <4>2, <4>3
      <4> QED BY <3>4, <4>4 DEF Told, GotThere
    <3> QED BY <3>6, <3>7, <3>8 DEF Told
  <2> QED BY <2>1, <2>4, <2>5
<1>8. CASE StartClone(g)
  <2>1. PICK c \in w.got :
          \/ Grows(g, "start", [w EXCEPT !.pc = "cloning", !.got = w.got \ {c}, !.done = w.done + 1])
          \/ Grows(g, "start", Again(w))
    BY <1>8 DEF StartClone
  <2>2. [w EXCEPT !.pc = "cloning", !.got = w.got \ {c}, !.done = w.done + 1].got \subseteq w.got
    BY <1>0 DEF Grown
  <2> QED BY <1>0, <1>1, <1>8, <2>1, <2>2 DEF StartClone
<1>9. CASE EndGrowth(g)
  <2>1. [w EXCEPT !.pc = "end"].got = w.got
    BY <1>0 DEF Grown
  <2> QED BY <1>0, <1>1, <1>9, <2>1 DEF EndGrowth
<1> QED BY <1>2, <1>3, <1>4, <1>5, <1>6, <1>7, <1>8, <1>9 DEF GrowthStep

(* What a step of a rebuild's attempt does to the machines: it takes a VM   *)
(* from its own machine only, and gives an id to its own machine only.      *)
TryEffect(t, u) ==
    /\ u.name = t.name /\ u.old = t.old
    /\ \/ t.pc = "read" /\ u.pc \in {"remove", "error"}
       \/ t.pc = "remove" /\ u.pc = "make" /\ There(t.old) /\ ~There(t.old)'
       \/ t.pc = "remove" /\ u.pc = "error"
       \/ t.pc = "make" /\ u.pc \in {"record", "error"}
       \/ t.pc = "record" /\ u.pc = "error"
       \/ /\ t.pc = "record" /\ u.pc = "ok"
          /\ machine'[t.name] = u.new \/ (u.new = t.old /\ machine' = machine)
    /\ \A n \in MachineName :
         machine'[n] = machine[n] \/ (n = t.name /\ u.pc = "ok" /\ machine'[n] = u.new)
    /\ \A n \in MachineName : There(machine[n]) =>
         \/ \A id : id = machine[n] => There(id)'
         \/ t.pc = "remove" /\ n = t.name /\ machine[n] = t.old /\ ~There(t.old)'

(* What a step of an attempt does to its own machine and to the others.    *)
LEMMA TryDoes ==
    ASSUME HvInv, Told, NEW t \in Try, Sound(t), t.name \in Machines,
           NEW f \in Owners, Named(f), TryFits(f, t), NEW u \in Try, NEW kind,
           TryStep(t, u, kind), growth' = growth
    PROVE  /\ Quiet /\ RowsStay /\ Noted' = Noted /\ GotThere'
           /\ TryEffect(t, u)
<1> USE DEF hostVars, rowVars, auxiliary
<1>0. Shapes /\ t.name \in MachineName /\ machine[t.name] # NoRow /\ UNCHANGED Noted
  BY DEF HvInv, Machines, TryStep, ReadForRebuild, RemoveForRebuild, MakeForRebuild, RecordRebuild
<1>1. ASSUME \A id : There(id) => There(id)', RowsStay PROVE GotThere'
  <2> SUFFICES ASSUME NEW g \in Growth, NEW c \in growth[g].got, machine'[c.name] = NoRow, c.id \in Id
               PROVE  There(c.id)'
    BY DEF GotThere
  <2>1. c.name \in MachineName
    BY <1>0 DEF Shapes, Grown, NamedId
  <2>2. machine[c.name] = NoRow
    BY <1>1, <2>1 DEF RowsStay
  <2> QED BY <1>1, <2>2 DEF Told, GotThere
<1>2. CASE ReadForRebuild(t, u)
  <2>1. UNCHANGED <<host, made, machine>> /\ t.pc = "read" /\ u.pc \in {"remove", "error"}
        /\ u.name = t.name /\ u.old = t.old
    BY <1>2 DEF ReadForRebuild, Try
  <2>2. Quiet /\ RowsStay /\ \A id : There(id) => There(id)'
    BY <2>1 DEF Quiet, RowsStay, There
  <2>3. TryEffect(t, u)
    BY <2>1, <2>2 DEF TryEffect
  <2> QED BY <1>0, <1>1, <2>2, <2>3
<1>3. CASE RemoveForRebuild(t, u)
  <2>1. /\ UNCHANGED <<made, machine>> /\ t.pc = "remove"
        /\ u.name = t.name /\ u.old = t.old
        /\ \/ /\ There(t.old) /\ host' = [host EXCEPT ![t.old] = Gone]
              /\ u.pc \in {"make", "error"}
           \/ UNCHANGED host /\ u.pc = "error"
    BY <1>3 DEF RemoveForRebuild, Try
  <2>2. RowsStay
    BY <2>1 DEF RowsStay
  <2>3. CASE UNCHANGED host /\ u.pc = "error"
    <3>1. Quiet /\ \A id : There(id) => There(id)'
      BY <2>1, <2>3 DEF Quiet, There
    <3>2. TryEffect(t, u)
      BY <2>1, <2>3, <3>1 DEF TryEffect
    <3> QED BY <1>0, <1>1, <2>2, <3>1, <3>2
  <2>4. CASE /\ There(t.old) /\ host' = [host EXCEPT ![t.old] = Gone]
             /\ u.pc \in {"make", "error"}
    <3>1. t.old \in Id /\ f[t.old] = t.name
      BY <2>4 DEF There, TryFits, Fits, FitsUpTo
    <3>2. \A id \in Id : host'[id] = IF id = t.old THEN Gone ELSE host[id]
      BY <1>0, <2>4 DEF Shapes
    <3>3. Quiet
      BY <1>0, <3>2, ShrinkQuiet
    <3>4. ~There(t.old)' /\ \A id : There(id) /\ id # t.old => There(id)'
      BY <3>1, <3>2 DEF There
    <3>5. \A n \in MachineName : machine[n] = t.old => n = t.name
      BY <3>1 DEF Named, Fits, FitsUpTo
    <3>6. TryEffect(t, u)
      BY <2>1, <2>4, <3>4, <3>5 DEF TryEffect
    <3>7. GotThere'
      <4> SUFFICES ASSUME NEW g \in Growth, NEW c \in growth[g].got, machine'[c.name] = NoRow, c.id \in Id
                   PROVE  There(c.id)'
        BY DEF GotThere
      <4>1. machine[c.name] = NoRow /\ There(c.id)
        BY <2>1 DEF Told, GotThere
      <4>2. c.id = t.old => c.name = t.name
        BY <3>1 DEF Named, Fits, FitsUpTo
      <4> QED BY <1>0, <3>4, <4>1, <4>2
    <3> QED BY <1>0, <2>2, <3>3, <3>6, <3>7
  <2> QED BY <2>1, <2>3, <2>4
<1>4. CASE MakeForRebuild(t, u)
  <2>1. /\ UNCHANGED machine /\ t.pc = "make" /\ u.pc \in {"record", "error"}
        /\ u.name = t.name /\ u.old = t.old
        /\ Makes(t.name) \/ UNCHANGED hostVars
    BY <1>4 DEF MakeForRebuild, Try
  <2>2. Quiet /\ \A id : There(id) => There(id)'
    <3>1. CASE Makes(t.name)
      BY <1>0, <3>1, MakesQuiet
    <3>2. CASE UNCHANGED hostVars
      BY <3>2 DEF Quiet, There
    <3> QED BY <2>1, <3>1, <3>2
  <2>3. RowsStay
    BY <2>1 DEF RowsStay
  <2>4. TryEffect(t, u)
    BY <2>1, <2>2 DEF TryEffect
  <2> QED BY <1>0, <1>1, <2>2, <2>3, <2>4
<1>5. CASE RecordRebuild(t, u, kind)
  <2>1. UNCHANGED <<host, made>> /\ t.pc = "record" /\ t.old \in Id /\ t.new \in Id \cup {NoId}
    BY <1>5 DEF RecordRebuild, Sound, Try
  <2>2. Quiet /\ \A id : There(id) => There(id)'
    BY <2>1 DEF Quiet, There
  <2>3. CASE u = [t EXCEPT !.pc = "error"] /\ UNCHANGED machine
    <3>1. u.pc = "error" /\ u.name = t.name /\ u.old = t.old
      BY <2>3 DEF Try
    <3>2. RowsStay
      BY <2>3 DEF RowsStay
    <3>3. TryEffect(t, u)
      BY <2>1, <2>2, <2>3, <3>1 DEF TryEffect
    <3> QED BY <1>0, <1>1, <2>2, <3>2, <3>3
  <2>4. ASSUME NEW id \in NewIds(t, kind),
               u = [t EXCEPT !.pc = "ok", !.new = id],
               machine' = [machine EXCEPT ![t.name] = IF id = t.old THEN @ ELSE id]
        PROVE  RowsStay /\ TryEffect(t, u)
    <3>1. u.pc = "ok" /\ u.name = t.name /\ u.old = t.old /\ u.new = id
      BY <2>4 DEF Try
    <3>2. id \in Id \cup {NoId}
      BY <2>1, <2>4 DEF NewIds
    <3>3. NoRow \notin Id \cup {NoId}
      BY HyperVAssumption DEF NoRow, NoId, Id
    <3>4. \A n \in MachineName : machine'[n] = IF n = t.name /\ id # t.old THEN id ELSE machine[n]
      BY <1>0, <2>4 DEF Shapes
    <3>5. RowsStay
      BY <3>2, <3>3, <3>4 DEF RowsStay
    <3>6. machine'[t.name] = u.new \/ (u.new = t.old /\ machine' = machine)
      BY <1>0, <2>4, <3>1 DEF Shapes
    <3>7. \A n \in MachineName :
            machine'[n] = machine[n] \/ (n = t.name /\ u.pc = "ok" /\ machine'[n] = u.new)
      BY <3>1, <3>4
    <3> QED BY <2>1, <2>2, <3>1, <3>5, <3>6, <3>7 DEF TryEffect
  <2>5. \/ u = [t EXCEPT !.pc = "error"] /\ UNCHANGED machine
        \/ \E id \in NewIds(t, kind) :
              /\ u = [t EXCEPT !.pc = "ok", !.new = id]
              /\ machine' = [machine EXCEPT ![t.name] = IF id = t.old THEN @ ELSE id]
    BY <1>5 DEF RecordRebuild
  <2> QED BY <1>0, <1>1, <2>2, <2>3, <2>4, <2>5
<1> QED BY <1>2, <1>3, <1>4, <1>5 DEF TryStep

(* A step of a rebuild's attempt keeps every loss noted.                    *)
LEMMA AttemptTold ==
    ASSUME HvInv, Told, NEW r \in Rebuilds, Attempt(r)
    PROVE  Told'
<1>0. rebuilds[r] \in Rebuilt /\ rebuilds[r].now \in Try
  BY DEF HvInv, Shapes, Rebuilt
<1>a. PICK w \in Rebuilt : w = rebuilds[r]
  BY <1>0
<1>b. PICK t \in Try : t = w.now
  BY <1>0, <1>a
<1>1. /\ w \in Rebuilt /\ t \in Try /\ Sound(t) /\ w.pc = "run"
      /\ t.pc # "none" /\ t.name \in Machines /\ rebuilds \in [Rebuilds -> Rebuilt]
  BY <1>a, <1>b DEF HvInv, Shapes, Soundness, Told, JobFair, Attempt
<1>2. PICK pc \in {"remove", "make", "record", "ok", "error"},
           new \in Id \cup {NoRow, NoId}, seen \in {rebuilds[r].now.seen, listed} :
        LET v == [rebuilds[r].now EXCEPT !.pc = pc, !.new = new, !.seen = seen]
        IN  TryStep(rebuilds[r].now, v, Kind[r]) /\ rebuilds' = [rebuilds EXCEPT ![r].now = v]
  BY DEF Attempt
<1> DEFINE u == [t EXCEPT !.pc = pc, !.new = new, !.seen = seen]
<1>3. u \in Try
  BY <1>1, <1>2, <1>a, <1>b DEF HvInv, Try, Shapes
<1>4. TryStep(t, u, Kind[r]) /\ rebuilds' = [rebuilds EXCEPT ![r] = [w EXCEPT !.now = u]]
  BY <1>1, <1>2, <1>a, <1>b
<1> HIDE DEF u
<1>5. /\ rebuilds'[r].now = u /\ rebuilds'[r].queue = w.queue /\ rebuilds'[r].pc = "run"
      /\ \A s \in Rebuilds \ {r} : rebuilds'[s] = rebuilds[s]
  BY <1>1, <1>4 DEF Rebuilt
<1>6. growth' = growth /\ late' = late /\ removal' = removal
  BY DEF Attempt, Elsewhere
<1>7. PICK f \in Owners : Named(f)
  BY DEF HvInv, NamedInv
<1>8. TryFits(f, t)
  BY <1>7, <1>a, <1>b DEF Named
<1>9. Quiet /\ RowsStay /\ Noted' = Noted /\ GotThere' /\ TryEffect(t, u)
  BY <1>1, <1>3, <1>4, <1>6, <1>7, <1>8, TryDoes
<1>10. TellsOn
  BY <1>9 DEF TellsOn
<1>11. There(u.old)' => There(t.old)
  BY <1>9, <1>a, <1>b, AllKnown DEF TryEffect, Quiet
<1>12. Doomed(r) => Doomed(r)'
  <2>1. Doomed(r) => t.pc \in {"read", "remove"} /\ ~There(t.old)
    BY <1>9, <1>a, <1>b DEF Doomed, TryEffect
  <2>2. t.pc \in {"read", "remove"} /\ ~There(t.old) => u.pc = "error" \/ (u.pc = "remove" /\ ~There(u.old)')
    BY <1>9, <1>11 DEF TryEffect
  <2> QED BY <1>5, <2>1, <2>2 DEF Doomed, There
<1>13. \A n : Running(r, n) <=> n = t.name
  BY <1>1, <1>a, <1>b DEF Running
<1>14. \A n : n = t.name => Running(r, n)'
  BY <1>5, <1>9 DEF Running, TryEffect
<1>15. ASSUME NEW n \in Machines' PROVE \/ There(machine[n])' \/ n \in Noted' \/ removal'.pc = "vms"
                                        \/ \E s \in Rebuilds : Awaits(s, n)'
  <2>1. CASE n # t.name
    <3>1. machine'[n] = machine[n] /\ n \in Machines
      BY <1>9, <2>1 DEF TryEffect, Machines
    <3>2. There(machine[n]) => There(machine[n])'
      BY <1>9, <2>1, <3>1 DEF TryEffect, Machines, There
    <3>3. \A s \in Rebuilds : Awaits(s, n) => Awaits(s, n)'
      <4> SUFFICES ASSUME NEW s \in Rebuilds, Awaits(s, n) PROVE Awaits(s, n)'
        OBVIOUS
      <4>1. s # r
        BY <1>13, <2>1 DEF Awaits
      <4> QED BY <1>5, <1>9, <3>1, <4>1, WaitsKept
    <3> QED BY <1>6, <1>9, <3>1, <3>2, <3>3 DEF Told, LossTold
  <2>2. CASE n = t.name /\ u.pc = "ok" /\ machine'[n] = u.new
    <3>1. Awaits(r, n)'
      BY <1>5, <1>14, <2>2 DEF Awaits
    <3> QED BY <3>1
  <2>3. CASE n = t.name /\ machine'[n] = machine[n]
    <3>0. n \in Machines
      BY <2>3 DEF Machines
    <3>1. CASE There(machine[n])
      <4>1. There(machine[n])' \/ (t.pc = "remove" /\ machine[n] = t.old /\ ~There(t.old)')
        BY <1>9, <2>3, <3>0, <3>1 DEF TryEffect, Machines, There
      <4>2. CASE t.pc = "remove" /\ machine[n] = t.old /\ ~There(t.old)'
        <5>1. u.pc = "error" \/ (u.pc = "make" /\ u.old = machine'[n])
          BY <1>9, <2>3, <4>2 DEF TryEffect
        <5>2. Awaits(r, n)'
          BY <1>5, <1>14, <2>3, <5>1 DEF Awaits, Doomed
        <5> QED BY <5>2
      <4> QED BY <4>1, <4>2
    <3>2. ASSUME NEW s \in Rebuilds, Awaits(s, n), ~There(machine[n]) PROVE Awaits(s, n)'
      <4>1. CASE s # r
        BY <1>5, <1>9, <2>3, <3>2, <4>1, WaitsKept
      <4>2. CASE s = r /\ Doomed(r)
        BY <1>12, <1>14, <2>3, <4>2 DEF Awaits
      <4>3. CASE s = r /\ t.pc \in {"make", "record"} /\ t.old = machine[n]
        <5>1. \/ u.pc = "error"
              \/ u.pc = "record" /\ u.old = machine'[n]
              \/ u.pc = "ok" /\ u.new = machine'[n]
          BY <1>9, <2>3, <4>3 DEF TryEffect
        <5> QED BY <1>5, <1>14, <2>3, <4>3, <5>1 DEF Awaits, Doomed
      <4>4. t.pc # "ok"
        BY <1>9 DEF TryEffect
      <4> QED BY <3>2, <4>1, <4>2, <4>3, <4>4, <1>a, <1>b DEF Awaits
    <3> QED BY <1>6, <1>9, <3>0, <3>1, <3>2 DEF Told, LossTold
  <2> QED BY <1>9, <2>1, <2>2, <2>3 DEF TryEffect, Machines
<1>16. ASSUME NEW l \in late PROVE Fair(l.try)'
  <2>1. Known(l.try.old) /\ Fair(l.try)
    BY AllKnown DEF Told
  <2>2. ASSUME NEW s \in Rebuilds, BegunBy(s, l.try.name, l.try.old)
        PROVE  ~There(l.try.old)' \/ BegunBy(s, l.try.name, l.try.old)'
    <3>1. CASE s # r
      BY <1>5, <1>9, <2>2, <3>1, LeaningKept
    <3>2. CASE s = r
      <4>1. t.old = l.try.old /\ t.name = l.try.name /\ t.pc \in {"read", "remove", "error"}
        BY <1>13, <1>a, <1>b, <2>2, <3>2 DEF BegunBy
      <4>2. u.old = l.try.old /\ (u.pc \in {"remove", "error"} \/ ~There(t.old)')
        BY <1>9, <4>1 DEF TryEffect
      <4>3. ~There(t.old)' => ~There(l.try.old)'
        BY <4>1 DEF There
      <4> QED BY <1>5, <1>14, <3>2, <4>1, <4>2, <4>3 DEF BegunBy
    <3> QED BY <3>1, <3>2
  <2>3. ASSUME NEW s \in Rebuilds, FailingBy(s, l.try.name) PROVE FailingBy(s, l.try.name)'
    <3>1. CASE s # r
      BY <1>5, <1>9, <2>3, <3>1, LeaningKept
    <3>2. CASE s = r
      BY <1>12, <1>13, <1>14, <2>3, <3>2 DEF FailingBy
    <3> QED BY <3>1, <3>2
  <2> QED BY <1>9, <1>10, <2>1, <2>2, <2>3, FairKept
<1>17. ASSUME NEW s \in Rebuilds PROVE JobFair(s)'
  <2>1. CASE s # r
    BY <1>5, <1>9, <2>1, JobKept DEF Told
  <2>2. CASE s = r
    <3>1. \A n : n \in Machines => (n \in Machines)'
      BY <1>9 DEF RowsStay, Machines
    <3>2. u.pc # "none" /\ u.name = t.name
      BY <1>9 DEF TryEffect
    <3>3. u.pc \in {"make", "record"} => ~There(u.old)'
      <4>1. CASE t.pc = "remove" /\ u.pc = "make" /\ ~There(t.old)'
        BY <1>9, <4>1 DEF TryEffect, There
      <4>2. CASE t.pc = "make"
        <5>1. ~There(t.old)
          BY <1>a, <1>b, <4>2 DEF Told, JobFair
        <5> QED BY <1>11, <5>1
      <4> QED BY <1>9, <4>1, <4>2 DEF TryEffect
    <3>4. \A q \in w.queue : q.name \in Machines
      BY <1>a DEF Told, JobFair
    <3> QED BY <1>1, <1>5, <2>2, <3>1, <3>2, <3>3, <3>4 DEF JobFair, There
  <2> QED BY <2>1, <2>2
<1> QED BY <1>6, <1>9, <1>15, <1>16, <1>17 DEF Told, LossTold

(* So does a step of an attempt that outlived its timeout.                 *)
LEMMA AttemptLateTold ==
    ASSUME HvInv, Told, NEW l \in late, AttemptLate(l)
    PROVE  Told'
<1> DEFINE t == l.try
<1>1. /\ t \in Try /\ Sound(t) /\ Fair(t) /\ t.name \in Machines
      /\ l \in [kind : {"one", "all"}, try : Try]
  BY DEF HvInv, Shapes, Soundness, Told, Fair
<1>2. PICK pc \in {"remove", "make", "record", "ok", "error"},
           new \in Id \cup {NoRow, NoId}, seen \in {t.seen, listed} :
        LET u == [t EXCEPT !.pc = pc, !.new = new, !.seen = seen]
        IN  /\ TryStep(t, u, l.kind)
            /\ late' = (late \ {l}) \cup
                 (IF pc \in {"ok", "error"} THEN {} ELSE {[l EXCEPT !.try = u]})
  BY DEF AttemptLate
<1> DEFINE u == [t EXCEPT !.pc = pc, !.new = new, !.seen = seen]
<1>3. u \in Try /\ u.pc = pc
  BY <1>1 DEF HvInv, Try, Shapes
<1>4. /\ TryStep(t, u, l.kind) /\ [l EXCEPT !.try = u].try = u
      /\ \A k \in late' : k \in late \/ (k = [l EXCEPT !.try = u] /\ u.pc \notin {"ok", "error"})
  BY <1>1, <1>2, <1>3
<1> HIDE DEF u
<1>5. growth' = growth /\ rebuilds' = rebuilds /\ removal' = removal
  BY DEF AttemptLate, Elsewhere
<1>6. PICK f \in Owners : Named(f)
  BY DEF HvInv, NamedInv
<1>7. TryFits(f, t)
  BY <1>6 DEF Named
<1>8. Quiet /\ RowsStay /\ Noted' = Noted /\ GotThere' /\ TryEffect(t, u)
  BY <1>1, <1>3, <1>4, <1>5, <1>6, <1>7, TryDoes
<1>9. TellsOn
  BY <1>8 DEF TellsOn
<1>10. ASSUME NEW k, Fair(k.try), Known(k.try.old) PROVE Fair(k.try)'
  BY <1>5, <1>8, <1>9, <1>10, FairKept, LeaningKept
\* Once it has taken the VM, the present attempt of the rebuild must fail.
<1>11. t.pc = "remove" /\ There(t.old) /\ ~There(t.old)' =>
         t.name \in Noted' \/ \E s \in Rebuilds : FailingBy(s, t.name)'
  <2> SUFFICES ASSUME t.pc = "remove", There(t.old), ~There(t.old)', NEW s \in Rebuilds,
                      BegunBy(s, t.name, t.old)
               PROVE  FailingBy(s, t.name)'
    BY <1>1, <1>8 DEF Fair
  <2> QED BY <1>5 DEF BegunBy, FailingBy, Running, Doomed, There
<1>12. \A s \in Rebuilds : FailingBy(s, t.name) => FailingBy(s, t.name)'
  BY <1>5, <1>8, LeaningKept
<1>13. \A s \in Rebuilds : \A n : FailingBy(s, n)' => Awaits(s, n)'
  BY DEF FailingBy, Awaits
<1>14. ASSUME NEW n \in Machines' PROVE \/ There(machine[n])' \/ n \in Noted' \/ removal'.pc = "vms"
                                        \/ \E s \in Rebuilds : Awaits(s, n)'
  <2>1. CASE machine'[n] = machine[n]
    <3>0. n \in Machines
      BY <2>1 DEF Machines
    <3>1. CASE There(machine[n])
      <4>1. There(machine[n])' \/ (t.pc = "remove" /\ n = t.name /\ machine[n] = t.old /\ ~There(t.old)')
        BY <1>8, <2>1, <3>0, <3>1 DEF TryEffect, Machines, There
      <4> QED BY <1>11, <1>13, <3>1, <4>1 DEF There
    <3>2. \A s \in Rebuilds : Awaits(s, n) => Awaits(s, n)'
      BY <1>5, <1>8, <2>1, WaitsKept
    <3> QED BY <1>5, <1>8, <3>0, <3>1, <3>2 DEF Told, LossTold
  <2>2. CASE n = t.name /\ u.pc = "ok"
    <3>1. t.pc = "record"
      BY <1>8, <2>2 DEF TryEffect
    <3>2. t.name \in Noted \/ \E s \in Rebuilds : FailingBy(s, t.name)
      BY <1>1, <3>1 DEF Fair
    <3> QED BY <1>8, <1>12, <1>13, <2>2, <3>2
  <2> QED BY <1>8, <2>1, <2>2 DEF TryEffect, Machines
<1>15. ASSUME NEW k \in late' PROVE Fair(k.try)'
  <2>1. CASE k \in late
    BY <1>10, <2>1, AllKnown DEF Told
  <2>2. CASE k = [l EXCEPT !.try = u] /\ u.pc \notin {"ok", "error"}
    <3>1. k.try = u /\ u.name = t.name
      BY <1>4, <1>8, <2>2 DEF TryEffect
    <3>2. (u.name \in Machines)'
      BY <1>1, <1>8, <3>1 DEF RowsStay, Machines
    <3>3. u.pc \in {"make", "record"}
      BY <1>1, <1>8, <2>2 DEF TryEffect, Fair
    <3>4. t.name \in Noted' \/ \E s \in Rebuilds : FailingBy(s, t.name)'
      <4>1. CASE t.pc = "remove"
        BY <1>8, <1>11, <3>3, <4>1 DEF TryEffect
      <4>2. CASE t.pc \in {"make", "record"}
        BY <1>1, <1>8, <1>12, <4>2 DEF Fair
      <4> QED BY <1>1, <4>1, <4>2 DEF Fair
    <3>5. Fair(u)'
      BY <3>1, <3>2, <3>3, <3>4 DEF Fair
    <3> QED BY <3>1, <3>5
  <2> QED BY <1>4, <2>1, <2>2
<1>16. \A s \in Rebuilds : JobFair(s)'
  BY <1>5, <1>8, JobKept DEF Told
<1> QED BY <1>5, <1>8, <1>14, <1>15, <1>16 DEF Told, LossTold

(* Steps of a rebuild's workflow, which leave the host and the rows alone.  *)
LEMMA WorkflowTold ==
    ASSUME HvInv, Told, NEW r \in Rebuilds, NEW w2, rebuilds' = [rebuilds EXCEPT ![r] = w2],
           UNCHANGED <<host, made, machine, growth, removal>>, Noted \subseteq Noted',
           \A n : Awaits(r, n) => There(machine[n]) \/ n \in Noted' \/ Awaits(r, n)',
           \A n, old : BegunBy(r, n, old) => n \in Noted' \/ BegunBy(r, n, old)',
           \A n : FailingBy(r, n) => n \in Noted' \/ FailingBy(r, n)',
           JobFair(r)',
           \A l \in late' : l \in late \/ Fair(l.try)'
    PROVE  Told'
<1>1. Quiet /\ RowsStay /\ TellsOn
  BY DEF Quiet, RowsStay, TellsOn, There
<1>2. \A s \in Rebuilds \ {r} : rebuilds'[s] = rebuilds[s]
  BY DEF HvInv, Shapes
<1>3. ASSUME NEW n \in Machines' PROVE \/ There(machine[n])' \/ n \in Noted' \/ removal'.pc = "vms"
                                       \/ \E s \in Rebuilds : Awaits(s, n)'
  <2>1. n \in Machines /\ (There(machine[n]) => There(machine[n])')
    BY DEF Machines, There
  <2>2. \A s \in Rebuilds \ {r} : Awaits(s, n) => Awaits(s, n)'
    BY <1>1, <1>2, WaitsKept
  <2> QED BY <2>1, <2>2 DEF Told, LossTold
<1>4. ASSUME NEW l \in late' PROVE Fair(l.try)'
  <2>1. CASE l \in late
    <3>1. Known(l.try.old) /\ Fair(l.try)
      BY <2>1, AllKnown DEF Told
    <3>2. \A s \in Rebuilds :
            /\ BegunBy(s, l.try.name, l.try.old) =>
                 l.try.name \in Noted' \/ BegunBy(s, l.try.name, l.try.old)'
            /\ FailingBy(s, l.try.name) => l.try.name \in Noted' \/ FailingBy(s, l.try.name)'
      BY <1>1, <1>2, LeaningKept
    <3> QED BY <1>1, <3>1, <3>2, FairKept
  <2> QED BY <2>1
<1>5. \A s \in Rebuilds : JobFair(s)'
  BY <1>1, <1>2, JobKept DEF Told
<1>6. GotThere'
  BY DEF Told, GotThere, There
<1> QED BY <1>3, <1>4, <1>5, <1>6 DEF Told, LossTold

(* The next job of a rebuild whose machines are in the pool is fair.       *)
LEMMA NextJobFair ==
    ASSUME HvInv, NEW r \in Rebuilds, NEW w \in Rebuilt, \A q \in w.queue : q.name \in Machines,
           machine' = machine, NEW w2 \in {NextJob(w), Fail(w)}, rebuilds'[r] = w2
    PROVE  JobFair(r)'
<1>1. \A n : n \in Machines => (n \in Machines)'
  BY DEF Machines
<1>2. CASE w2.pc = "end" /\ w2.now = NoTry /\ w2.queue \subseteq w.queue
  BY <1>1, <1>2 DEF JobFair, NoTry
<1>3. ASSUME NEW q \in w.queue, w2.now = Job(q.name, q.id), w2.queue = w.queue \ {q}
      PROVE  JobFair(r)'
  <2>1. w2.now.pc = "read" /\ w2.now.name = q.name
    BY <1>3 DEF Job, NoTry
  <2> QED BY <1>1, <1>3, <2>1 DEF JobFair
<1>4. CASE w2 = Fail(w)
  BY <1>2, <1>4 DEF Fail, Rebuilt
<1>5. CASE w2 = NextJob(w)
  <2>1. CASE w.queue = {} /\ NextJob(w) = [w EXCEPT !.pc = "end", !.now = NoTry]
    BY <1>2, <1>5, <2>1 DEF Rebuilt
  <2>2. ASSUME NEW q \in w.queue,
               NextJob(w) = [w EXCEPT !.queue = w.queue \ {q}, !.try = 1, !.now = Job(q.name, q.id)]
        PROVE  JobFair(r)'
    <3>1. w2.now = Job(q.name, q.id) /\ w2.queue = w.queue \ {q}
      BY <1>5, <2>2 DEF Rebuilt
    <3> QED BY <1>3, <3>1
  <2> QED BY <2>1, <2>2, NextJobIs
<1> QED BY <1>4, <1>5

(* The other steps of a rebuild keep every loss noted.                      *)
LEMMA RebuildTold ==
    ASSUME HvInv, Told, NEW r \in Rebuilds, RebuildStep(r)
    PROVE  Told'
<1> USE DEF hostVars, rowVars, auxiliary
<1>0. rebuilds[r] \in Rebuilt /\ rebuilds[r].now \in Try
  BY DEF HvInv, Shapes, Rebuilt
<1>a. PICK w \in Rebuilt : w = rebuilds[r]
  BY <1>0
<1>b. PICK t \in Try : t = w.now
  BY <1>0, <1>a
<1>1. /\ \A q \in w.queue : q.name \in Machines
      /\ w.pc = "run" => t.pc # "none" /\ t.name \in Machines
      /\ t.pc \in {"make", "record"} => ~There(t.old)
      /\ Sound(t)
  BY <1>a, <1>b DEF Told, JobFair, HvInv, Soundness
<1>2. CASE AskRebuild(r)
  <2>1. PICK chosen \in IF Kind[r] = "all" THEN {Machines} ELSE {{n} : n \in Machines} :
          rebuilds' = [rebuilds EXCEPT ![r] =
            NextJob([rebuilds[r] EXCEPT !.pc = "run",
                            !.queue = {[name |-> n, id |-> machine[n]] : n \in chosen}])]
    BY <1>2 DEF AskRebuild
  <2>2. PICK v \in Rebuilt : v = [w EXCEPT !.pc = "run",
                                    !.queue = {[name |-> n, id |-> machine[n]] : n \in chosen}]
    <3>1. chosen \subseteq Machines
      OBVIOUS
    <3>2. {[name |-> n, id |-> machine[n]] : n \in chosen} \in SUBSET NamedId
      BY <3>1 DEF Machines, NamedId, HvInv, Shapes
    <3>3. [w EXCEPT !.pc = "run", !.queue = {[name |-> n, id |-> machine[n]] : n \in chosen}] \in Rebuilt
      BY <3>2 DEF Rebuilt
    <3> QED BY <3>3
  <2>3. \A q \in v.queue : q.name \in Machines
    <3>1. v.queue = {[name |-> n, id |-> machine[n]] : n \in chosen}
      BY <2>2 DEF Rebuilt
    <3> QED BY <3>1
  <2>4. rebuilds' = [rebuilds EXCEPT ![r] = NextJob(v)] /\ UNCHANGED <<hostVars, rowVars, late, auxiliary>>
        /\ UNCHANGED <<growth, removal>>
    BY <1>2, <1>a, <2>1, <2>2 DEF AskRebuild, Elsewhere
  <2>5. rebuilds'[r] = NextJob(v)
    BY <2>4 DEF HvInv, Shapes
  <2>6. JobFair(r)'
    BY <2>3, <2>4, <2>5, NextJobFair
  <2>7. w.pc = "none"
    BY <1>2, <1>a DEF AskRebuild
  <2>8. \A n, old : ~Awaits(r, n) /\ ~BegunBy(r, n, old) /\ ~FailingBy(r, n)
    BY <1>a, <2>7 DEF Awaits, BegunBy, FailingBy, Running
  <2> QED BY <2>4, <2>6, <2>8, WorkflowTold
<1>3. CASE AttemptEnds(r)
  <2>1. /\ w.pc = "run" /\ t.pc \in {"remove", "make", "record"}
        /\ late' \in {late, late \cup {[kind |-> Kind[r], try |-> t]}}
        /\ UNCHANGED <<hostVars, rowVars, growth, removal>>
    BY <1>3, <1>a, <1>b DEF AttemptEnds, Elsewhere
  <2>2. \A n : Running(r, n) <=> n = t.name
    BY <1>a, <1>b, <2>1 DEF Running
  <2>3. PICK j \in Try : j = Job(t.name, t.old)
    <3>1. t.name \in MachineName /\ t.old \in Id \cup {NoRow, NoId}
      BY <1>1, <2>1 DEF Machines, Try
    <3> QED BY <3>1, JobType
  <2>4. j.pc = "read" /\ j.name = t.name /\ j.old = t.old
    BY <2>3 DEF Job, NoTry
  \* Another attempt, with what the machine had at first.
  <2>5. CASE /\ rebuilds' = [rebuilds EXCEPT ![r].try = @ + 1, ![r].now = j]
             /\ UNCHANGED Noted
    <3>1. PICK w2 : w2 = [w EXCEPT !.try = w.try + 1, !.now = j]
      OBVIOUS
    <3>2. rebuilds' = [rebuilds EXCEPT ![r] = w2] /\ rebuilds'[r] = w2
      BY <1>a, <2>5, <3>1 DEF HvInv, Shapes
    <3>3. rebuilds'[r].now = j /\ rebuilds'[r].queue = w.queue /\ rebuilds'[r].pc = "run"
      BY <2>1, <3>1, <3>2, ZenonT(60) DEF Rebuilt
    <3>4. \A n : n = t.name => Running(r, n)'
      BY <2>4, <3>3 DEF Running
    <3>5. ~There(t.old) => ~There(t.old)'
      BY <2>1 DEF There
    <3>6. ~There(t.old) => Doomed(r)'
      BY <2>4, <3>3, <3>5 DEF Doomed, There
    <3>7. Doomed(r) => ~There(t.old)
      BY <1>a, <1>b, <2>1 DEF Doomed
    <3>8. \A n : Awaits(r, n) => n = t.name /\ ~There(t.old)
      BY <1>a, <1>b, <1>1, <2>1, <2>2, <3>7 DEF Awaits
    <3>9. \A n : Awaits(r, n) => Awaits(r, n)'
      BY <3>4, <3>6, <3>8 DEF Awaits
    <3>10. \A n : FailingBy(r, n) => FailingBy(r, n)'
      BY <2>2, <3>4, <3>6, <3>7 DEF FailingBy
    <3>11. BegunBy(r, t.name, t.old)'
      BY <2>4, <3>3, <3>4 DEF BegunBy
    <3>12. \A n, old : BegunBy(r, n, old) => BegunBy(r, n, old)'
      BY <1>a, <1>b, <2>2, <3>11 DEF BegunBy
    <3>13. JobFair(r)'
      BY <1>1, <2>1, <2>4, <3>3 DEF JobFair, Machines
    <3>14. Fair(t)'
      <4>1. (t.name \in Machines)'
        BY <1>1, <2>1 DEF Machines
      <4>2. t.pc \in {"make", "record"} => FailingBy(r, t.name)'
        BY <1>1, <3>4, <3>6 DEF FailingBy
      <4> QED BY <2>1, <3>11, <4>1, <4>2 DEF Fair
    <3>15. \A l \in late' : l \in late \/ Fair(l.try)'
      <4> SUFFICES ASSUME NEW l \in late', l \notin late PROVE Fair(l.try)'
        OBVIOUS
      <4>1. l.try = t
        BY <2>1
      <4> QED BY <3>14, <4>1
    <3> QED BY <2>1, <2>5, <3>2, <3>9, <3>10, <3>12, <3>13, <3>15, WorkflowTold
  \* The last one: the rebuild fails.
  <2>6. CASE /\ rebuilds' = [rebuilds EXCEPT ![r] = Fail(w)]
             /\ Noted' = Noted \cup {t.name}
    <3>1. rebuilds'[r] = Fail(w)
      BY <2>6 DEF HvInv, Shapes
    <3>2. JobFair(r)'
      BY <1>1, <2>1, <3>1, NextJobFair
    <3>3. \A n, old : Awaits(r, n) \/ BegunBy(r, n, old) \/ FailingBy(r, n) => n \in Noted'
      BY <2>2, <2>6 DEF Awaits, BegunBy, FailingBy
    <3>4. \A l \in late' : l \in late \/ Fair(l.try)'
      <4> SUFFICES ASSUME NEW l \in late', l \notin late PROVE Fair(l.try)'
        OBVIOUS
      <4>1. l.try = t
        BY <2>1
      <4>2. t.name \in Noted' /\ (t.name \in Machines)'
        BY <1>1, <2>1, <2>6 DEF Machines
      <4> QED BY <2>1, <4>1, <4>2 DEF Fair
    <3> QED BY <2>1, <2>6, <3>2, <3>3, <3>4, WorkflowTold
  <2> QED BY <1>3, <1>a, <1>b, <2>3, <2>5, <2>6 DEF AttemptEnds, Reports
<1>4. CASE Answer(r)
  <2>1. /\ w.pc = "run"
        /\ UNCHANGED <<hostVars, rowVars, late, growth, removal>>
        /\ \/ /\ t.pc = "error" \/ (t.pc = "ok" /\ ~Starts(t.new)) \/ t.pc = "ok"
              /\ Noted' = Noted \cup {t.name}
           \/ t.pc = "ok" /\ Starts(t.new) /\ UNCHANGED Noted
    BY <1>4, <1>a, <1>b DEF Answer, Reports, Elsewhere
  <2>2. PICK w2 \in {NextJob(w), Fail(w)} : rebuilds' = [rebuilds EXCEPT ![r] = w2]
    BY <1>4, <1>a DEF Answer
  <2>3. rebuilds'[r] = w2
    BY <2>2 DEF HvInv, Shapes
  <2>4. JobFair(r)'
    BY <1>1, <2>1, <2>2, <2>3, NextJobFair
  <2>5. \A n : Running(r, n) <=> n = t.name
    BY <1>a, <1>b, <2>1 DEF Running
  <2>6. CASE Noted' = Noted \cup {t.name}
    <3>1. \A n, old : Awaits(r, n) \/ BegunBy(r, n, old) \/ FailingBy(r, n) => n \in Noted'
      BY <2>5, <2>6 DEF Awaits, BegunBy, FailingBy
    <3> QED BY <2>1, <2>2, <2>4, <2>6, <3>1, WorkflowTold
  <2>7. CASE t.pc = "ok" /\ Starts(t.new) /\ UNCHANGED Noted
    <3>1. \A n : Awaits(r, n) => n = t.name /\ t.new = machine[n]
      BY <1>a, <1>b, <2>5, <2>7 DEF Awaits, Doomed
    <3>2. \A n : Awaits(r, n) => There(machine[n])
      <4> SUFFICES ASSUME NEW n, Awaits(r, n) PROVE There(machine[n])
        OBVIOUS
      <4>1. n \in MachineName /\ machine[n] = t.new
        BY <1>1, <2>1, <3>1 DEF Machines
      <4>2. There(t.new)
        BY <2>7, <4>1 DEF Starts
      <4> QED BY <4>1, <4>2
    <3>3. \A n, old : ~BegunBy(r, n, old) /\ ~FailingBy(r, n)
      BY <1>a, <1>b, <2>7 DEF BegunBy, FailingBy, Doomed
    <3> QED BY <2>1, <2>2, <2>4, <2>7, <3>2, <3>3, WorkflowTold
  <2> QED BY <2>1, <2>6, <2>7
<1> QED BY <1>2, <1>3, <1>4, AttemptTold DEF RebuildStep

(* The deletion: while it removes the VMs it is at work on every machine,   *)
(* and if it fails it says so of all that are left.                         *)
LEMMA RemovalTold ==
    ASSUME HvInv, Told, ~Over, Removal
    PROVE  TellInv'
<1> USE DEF hostVars, rowVars, auxiliary
<1>0. Shapes /\ removal.pc # "rows"
  BY DEF HvInv, Over
<1>1. UNCHANGED <<growth, rebuilds, late>>
  BY DEF Removal, BeginRemoval, RemoveVm, EndVms, RemoveMachine, RemovePool, Removes
<1>2. ASSUME Quiet, machine' = machine, Noted \subseteq Noted', GotThere', LossTold' PROVE TellInv'
  <2>1. RowsStay /\ TellsOn
    BY <1>2 DEF RowsStay, TellsOn
  <2>2. (\A t \in late : Fair(t.try))' /\ (\A r \in Rebuilds : JobFair(r))'
    BY <1>1, <1>2, <2>1, OthersFair
  <2> QED BY <1>2, <2>2 DEF TellInv, Told
<1>3. UNCHANGED host => Quiet
  BY DEF Quiet, There
<1>4. UNCHANGED <<host, machine>> => GotThere'
  BY <1>1 DEF Told, GotThere, There
<1>5. CASE BeginRemoval
  <2>1. removal'.pc = "vms" /\ UNCHANGED <<host, machine, Noted>>
    BY <1>5 DEF BeginRemoval, Removes
  <2> QED BY <1>2, <1>3, <1>4, <2>1 DEF LossTold
<1>6. ASSUME NEW id \in removal.ids, RemoveVm(id) PROVE TellInv'
  <2>1. removal'.pc = "vms" /\ UNCHANGED <<machine, Noted, made>>
    BY <1>0, <1>6 DEF RemoveVm, Removes, Shapes
  <2>2. \A i \in Id : host'[i] \in {host[i], Gone}
    BY <1>0, <1>6 DEF RemoveVm, Shapes
  <2>3. Quiet
    BY <1>0, <2>2, ShrinkQuiet
  <2>4. \A i \in Id : host'[i] = host[i] \/ \E n \in MachineName : machine[n] = i
    BY <1>0, <1>6 DEF RemoveVm, Shapes
  <2>5. GotThere'
    <3> SUFFICES ASSUME NEW g \in Growth, NEW c \in growth[g].got, machine[c.name] = NoRow, c.id \in Id
                 PROVE  There(c.id)'
      BY <1>1, <2>1 DEF GotThere
    <3>1. There(c.id)
      BY DEF Told, GotThere
    <3>2. \A n \in MachineName : machine[n] # c.id
      <4> SUFFICES ASSUME NEW n \in MachineName, machine[n] = c.id PROVE FALSE
        OBVIOUS
      <4>1. c.name = n
        BY OneOwner
      <4> QED BY <4>1, HyperVAssumption DEF NoRow, Id
    <3>3. host'[c.id] = host[c.id]
      BY <2>4, <3>2
    <3> QED BY <3>1, <3>3 DEF There
  <2>6. LossTold'
    BY <2>1 DEF LossTold
  <2> QED BY <1>2, <2>1, <2>3, <2>5, <2>6
<1>7. CASE EndVms
  <2>1. /\ removal.pc = "vms" /\ UNCHANGED <<host, machine>>
        /\ removal' = [removal EXCEPT !.pc = IF removal.failed THEN "end" ELSE "rows"]
        /\ Noted' = IF removal.failed THEN Noted \cup Machines ELSE Noted
    BY <1>7 DEF EndVms, Removes
  <2>2. CASE removal.failed
    <3>1. LossTold'
      BY <2>1, <2>2 DEF LossTold, Machines
    <3> QED BY <1>2, <1>3, <1>4, <2>1, <2>2, <3>1
  <2>3. CASE ~removal.failed
    <3>1. removal'.pc = "rows"
      BY <1>0, <2>1, <2>3 DEF Shapes
    <3> QED BY <3>1 DEF TellInv, Over
  <2> QED BY <2>2, <2>3
<1>8. ~RemovePool /\ \A n \in removal.names : ~RemoveMachine(n)
  BY <1>0 DEF RemovePool, RemoveMachine, Removes
<1> QED BY <1>5, <1>6, <1>7, <1>8 DEF Removal

(* A pool that is being deleted stays so.                                  *)
LEMMA OverStays == Over /\ HvStep => Over'
<1> SUFFICES ASSUME Over, HvStep PROVE Over'
  OBVIOUS
<1> USE DEF hostVars, rowVars, auxiliary
<1>1. ASSUME NEW g \in Growth, GrowthStep(g) PROVE Over'
  BY <1>1 DEF Over, GrowthStep, AskGrowth, BeginGrowth, ChooseNames, CloneOne, CloneBreaks,
     RegisterClone, StartClone, EndGrowth, Grows
<1>2. ASSUME NEW n \in belated, CloneLate(n) PROVE Over'
  BY <1>2 DEF Over, CloneLate
<1>3. ASSUME NEW t, NEW u, NEW kind, TryStep(t, u, kind) PROVE UNCHANGED poolRow
  BY <1>3 DEF TryStep, ReadForRebuild, RemoveForRebuild, MakeForRebuild, RecordRebuild
<1>4. ASSUME NEW r \in Rebuilds, RebuildStep(r) PROVE Over'
  <2>1. removal' = removal
    BY <1>4 DEF RebuildStep, AskRebuild, Attempt, AttemptEnds, Answer, Elsewhere
  <2>2. poolRow' = poolRow
    <3>1. CASE Attempt(r)
      BY <1>3, <3>1 DEF Attempt
    <3>2. CASE AskRebuild(r) \/ AttemptEnds(r) \/ Answer(r)
      BY <3>2 DEF AskRebuild, AttemptEnds, Answer
    <3> QED BY <1>4, <3>1, <3>2 DEF RebuildStep
  <2> QED BY <2>1, <2>2 DEF Over
<1>5. ASSUME NEW l \in late, AttemptLate(l) PROVE Over'
  <2>1. removal' = removal /\ poolRow' = poolRow
    BY <1>3, <1>5 DEF AttemptLate, Elsewhere
  <2> QED BY <2>1 DEF Over
<1>6. CASE Removal
  <2>1. poolRow = "gone" => poolRow' = "gone"
    BY <1>6 DEF Removal, BeginRemoval, RemoveVm, EndVms, RemoveMachine, RemovePool, Removes
  <2>2. removal.pc = "rows" => Over'
    <3> SUFFICES ASSUME removal.pc = "rows" PROVE Over'
      OBVIOUS
    <3>1. CASE RemovePool
      BY <3>1 DEF RemovePool, Over
    <3>2. ASSUME NEW n \in removal.names, RemoveMachine(n) PROVE Over'
      BY <3>2 DEF RemoveMachine, Removes, Over
    <3>3. ~BeginRemoval /\ ~EndVms /\ \A id \in removal.ids : ~RemoveVm(id)
      BY DEF BeginRemoval, EndVms, RemoveVm, Removes
    <3> QED BY <1>6, <3>1, <3>2, <3>3 DEF Removal
  <2> QED BY <2>1, <2>2 DEF Over
<1>7. CASE NothingMore
  BY <1>7 DEF NothingMore, hyperVVars, Over
<1> QED BY <1>1, <1>2, <1>4, <1>5, <1>6, <1>7 DEF HvStep, HyperVNext

(* In the first state nothing is lost.                                     *)
LEMMA TellInit == HyperVInit => TellInv
<1> SUFFICES ASSUME HyperVInit PROVE Told
  BY DEF TellInv
<1> USE DEF HyperVInit
<1>1. LossTold
  <2> SUFFICES ASSUME NEW n \in Machines PROVE There(machine[n])
    BY DEF LossTold
  <2> QED BY HyperVAssumption DEF Machines, MachineName, There, Id, NoRow, Gone
<1>2. \A r \in Rebuilds : JobFair(r)
  BY DEF JobFair, NoTry
<1>3. GotThere
  BY DEF GotThere
<1> QED BY <1>1, <1>2, <1>3 DEF Told

(* A stuttering step keeps every loss noted.                                *)
LEMMA ToldStutter ==
    ASSUME HvInv, UNCHANGED hyperVVars, TellInv
    PROVE  TellInv'
<1> USE DEF hyperVVars, hostVars, rowVars, auxiliary
<1>1. Over => Over'
  BY DEF Over
<1>2. ASSUME Told PROVE Told'
  <2>1. Quiet /\ \A id : There(id) => There(id)'
    BY DEF Quiet, There
  <2> QED BY <1>2, <2>1, MakersTold
<1> QED BY <1>1, <1>2 DEF TellInv

(* So does every step.                                                     *)
LEMMA TellNext == HvInv /\ TellInv /\ HvStep => TellInv'
<1> SUFFICES ASSUME HvInv, TellInv, HvStep PROVE TellInv'
  OBVIOUS
<1>1. CASE Over
  BY <1>1, OverStays DEF TellInv
<1>2. CASE ~Over
  <2>1. Told /\ poolRow = "live"
    BY <1>2 DEF TellInv, Over, HvInv, Shapes
  <2>2. ASSUME NEW g \in Growth, GrowthStep(g) PROVE TellInv'
    BY <2>1, <2>2, GrowthTold DEF TellInv
  <2>3. ASSUME NEW n \in belated, CloneLate(n) PROVE TellInv'
    <3>1. Quiet /\ \A id : There(id) => There(id)'
      BY <2>3, MakesQuiet DEF CloneLate, HvInv, Shapes
    <3>2. Told'
      BY <2>1, <2>3, <3>1, MakersTold DEF CloneLate, rowVars, auxiliary
    <3> QED BY <3>2 DEF TellInv
  <2>4. ASSUME NEW r \in Rebuilds, RebuildStep(r) PROVE TellInv'
    BY <2>1, <2>4, RebuildTold DEF TellInv
  <2>5. ASSUME NEW l \in late, AttemptLate(l) PROVE TellInv'
    BY <2>1, <2>5, AttemptLateTold DEF TellInv
  <2>6. CASE Removal
    BY <1>2, <2>1, <2>6, RemovalTold
  <2>7. CASE NothingMore
    BY <2>7, ToldStutter DEF NothingMore
  <2> QED BY <2>2, <2>3, <2>4, <2>5, <2>6, <2>7 DEF HvStep, HyperVNext
<1> QED BY <1>1, <1>2

(* And then the loss of a VM has its report.                               *)
LEMMA TellGives == HvInv /\ TellInv => LossHasReport
<1> SUFFICES ASSUME HvInv, TellInv, poolRow = "live", NEW n \in Machines
             PROVE  There(machine[n]) \/ n \in Noted \/ AtWorkOn(n)
  BY DEF LossHasReport
<1>1. CASE Over
  BY <1>1 DEF Over, AtWorkOn
<1>2. CASE Told
  <2>1. \A r \in Rebuilds : Awaits(r, n) => AtWorkOn(n)
    BY DEF Awaits, Running, AtWorkOn
  <2>2. removal.pc = "vms" => AtWorkOn(n)
    BY DEF AtWorkOn
  <2> QED BY <1>2, <2>1, <2>2 DEF Told, LossTold
<1> QED BY <1>1, <1>2 DEF TellInv

(* A machine whose VM is gone was rebuilt with an error for an answer       *)
(* (vm_rebuild), or with the pool, or its pool's deletion failed, which only *)
(* the workflow's end says (HyperVPoolRebuildWorkflow, delete_pool), also    *)
(* when attempts that were timed out go on and take the VM that the next     *)
(* attempt, or another rebuild, gave it.                                    *)
THEOREM LossesHaveReports == HyperVSpec => []LossHasReport
<1>1. HyperVInit => HvInv /\ TellInv
  BY HvInvInit, TellInit
<1>2. HvInv /\ TellInv /\ [HvStep]_hyperVVars => (HvInv /\ TellInv)'
  BY HvInvNext, HvStutter, TellNext, ToldStutter
<1>3. HvInv /\ TellInv => LossHasReport
  BY TellGives
<1> QED BY <1>1, <1>2, <1>3, PTL DEF HyperVSpec, HvStep
=============================================================================
