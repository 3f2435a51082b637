------------------------ MODULE MachineAccess_proofs ------------------------
(***************************************************************************)
(* What MachineAccess does for any machines, users and clients, and any    *)
(* number of attempts: its types, that rows, connections and the pool's    *)
(* list agree, and assignments with permissions, up to what is named as    *)
(* left behind.                                                            *)
(***************************************************************************)
EXTENDS MachineAccess, TLAPS

(* A request that owns a connection: it has made it and not yet the row, or *)
(* it has deleted the row and not yet the connection.                       *)
Owns(c, m) ==
    /\ About(c, m)
    /\ \/ At(c, "create", "insert")
       \/ At(c, "create", "undo")
       \/ At(c, "delete", "drop")

(* One owner, and no row beside it; a connection without either is named in *)
(* stranded.                                                                *)
OwnerInv ==
    /\ machines \subseteq connections
    /\ \A c \in Admin, m \in Machine :
           Owns(c, m) => m \in connections /\ m \notin machines
    /\ \A c, d \in Admin, m \in Machine :
           Owns(c, m) /\ Owns(d, m) => c = d
    /\ \A m \in connections :
           m \in machines \/ m \in stranded \/ \E c \in Admin : Owns(c, m)

ListInv ==
    /\ \A m \in machines : m \in mislisted \/ m \in listed
    /\ \A m \in listed : m \in mislisted \/ m \in machines

AccessInv == AccessTypeOK /\ OwnerInv /\ ListInv

-----------------------------------------------------------------------------
(* How the steps change a client's request: they touch no other's, and what *)
(* ends or starts anew owns nothing.                                        *)

(* Only c's request changes, to one of the right type.                      *)
OnlyOf(c) ==
    /\ request' \in [Admin -> RequestType]
    /\ \A d \in Admin \ {c} : request'[d] = request[d]
OwnsNothing(c) == \A m \in Machine : ~Owns(c, m)

(* An activity that starts is at an await of its own.                       *)
LEMMA FirstAwaits ==
  ASSUME NEW o
  PROVE  FirstAwait(o) \in Awaits
         /\ FirstAwait(o) \notin {"insert", "undo", "drop", "idle"}
  BY DEF FirstAwait, Awaits

(* A request ends.                                                          *)
LEMMA FinishStep ==
  ASSUME AccessTypeOK, NEW c \in Admin, Finish(c)
  PROVE  OnlyOf(c) /\ OwnsNothing(c)'
<1>1. Resting \in RequestType
  BY MachineAccessAssumption DEF Resting, RequestType
<1>2. request'[c].pc = "idle"
  BY DEF AccessTypeOK, Finish, Resting
<1> QED BY <1>1, <1>2 DEF AccessTypeOK, Finish, OnlyOf, OwnsNothing, Owns, At

(* Its next attempt begins.                                                 *)
LEMMA AgainStep ==
  ASSUME AccessTypeOK, NEW c \in Admin, Again(c)
  PROVE  OnlyOf(c) /\ OwnsNothing(c)'
<1> DEFINE o == Op(c)
           r == [request[c] EXCEPT
                   !.pc = FirstAwait(o), !.list = ListSeen(o),
                   !.users = IF o = "update" THEN request[c].users ELSE {},
                   !.others = FALSE, !.left = request[c].left - 1]
<1>1. request' = [request EXCEPT ![c] = r]
  BY DEF Again
<1>2. request[c] \in RequestType
  BY DEF AccessTypeOK
<1>3. ListSeen(o) \subseteq Machine
  BY DEF ListSeen, AccessTypeOK
<1>4. request[c].left - 1 \in 0..MachineAttempts
  BY <1>2, MachineAccessAssumption DEF Again, RequestType
<1>5. r \in RequestType
  <2>1. FirstAwait(o) \in Awaits
    BY FirstAwaits
  <2> HIDE DEF o
  <2> QED BY <1>2, <1>3, <1>4, <2>1 DEF RequestType
<1>6. r.pc \notin {"insert", "undo", "drop"}
  BY <1>2, FirstAwaits DEF RequestType
<1> HIDE DEF r
<1>7. request'[c] = r
  BY <1>1 DEF AccessTypeOK
<1> QED BY <1>1, <1>5, <1>6, <1>7
        DEF AccessTypeOK, OnlyOf, OwnsNothing, Owns, At

(* However an attempt ends.                                                 *)
LEMMA EndStep ==
  ASSUME AccessTypeOK, NEW c \in Admin,
         Raise(c) \/ ReturnOrLost(c) \/ OutOfAttempts(c)
  PROVE  OnlyOf(c) /\ OwnsNothing(c)'
  BY FinishStep, AgainStep DEF Raise, ReturnOrLost, OutOfAttempts

(* A client asks for something.                                             *)
LEMMA SubmitStep ==
  ASSUME AccessTypeOK, NEW c \in Admin, NEW o \in Requests,
         NEW m \in Machine, NEW u \in SUBSET User, NEW seen \in SUBSET User,
         Submit(c, o, m, u, seen)
  PROVE  /\ OnlyOf(c) /\ OwnsNothing(c)'
         /\ Op(c) = "none"
         /\ UNCHANGED <<rowVars, guacVars, leftVars>>
<1> DEFINE r == [op |-> o, pc |-> FirstAwait(o), machine |-> {m}, user |-> u,
                    users |-> seen, list |-> ListSeen(o), others |-> FALSE,
                    left |-> MachineAttempts]
<1>1. request' = [request EXCEPT ![c] = r]
  BY DEF Submit
<1>2. ListSeen(o) \subseteq Machine
  BY DEF ListSeen, AccessTypeOK
<1>3. r \in RequestType
  <2>1. FirstAwait(o) \in Awaits
    BY FirstAwaits
  <2>2. MachineAttempts \in 0..MachineAttempts
    BY MachineAccessAssumption
  <2> QED BY <1>2, <2>1, <2>2 DEF RequestType
<1>4. r.pc \notin {"insert", "undo", "drop"}
  BY FirstAwaits
<1> HIDE DEF r
<1>5. request'[c] = r
  BY <1>1 DEF AccessTypeOK
<1>6. OnlyOf(c) /\ OwnsNothing(c)'
  BY <1>1, <1>3, <1>4, <1>5 DEF AccessTypeOK, OnlyOf, OwnsNothing, Owns, At
<1> QED BY <1>6 DEF Submit

(* An activity goes on.                                                     *)
LEMMA ProceedStep ==
  ASSUME AccessTypeOK, NEW c \in Admin, NEW pc \in Awaits, Proceed(c, pc)
  PROVE  /\ OnlyOf(c)
         /\ request'[c] = [request[c] EXCEPT !.pc = pc]
         /\ Op(c)' = Op(c)
         /\ request'[c].pc = pc
         /\ request'[c].machine = request[c].machine
<1>1. request[c] \in RequestType
  BY DEF AccessTypeOK
<1>2. [request[c] EXCEPT !.pc = pc] \in RequestType
  BY <1>1 DEF RequestType
<1>3. request'[c] = [request[c] EXCEPT !.pc = pc]
  BY DEF AccessTypeOK, Proceed
<1> QED BY <1>1, <1>2, <1>3 DEF AccessTypeOK, OnlyOf, Proceed, Op, RequestType

-----------------------------------------------------------------------------
(* Types.                                                                   *)

LEMMA InitTypes == AccessInit => AccessTypeOK
<1> SUFFICES ASSUME AccessInit PROVE AccessTypeOK
  OBVIOUS
<1>1. Resting \in RequestType
  BY MachineAccessAssumption DEF Resting, RequestType
<1> QED BY <1>1 DEF AccessInit, AccessTypeOK

(* The variables of a step other than the request.                          *)
LEMMA CreateTypes ==
  ASSUME AccessTypeOK, NEW c \in Admin,
         \/ CreateNames(c) \/ CreateConnect(c) \/ CreateConnectFail(c)
         \/ CreateInsert(c) \/ CreateInsertFail(c) \/ CreateUndo(c)
         \/ CreateDie(c),
         UNCHANGED wants
  PROVE  AccessTypeOK'
<1>1. request[c] \in RequestType
  BY DEF AccessTypeOK
<1>2. request[c].machine \subseteq Machine /\ request[c].list \subseteq Machine
  BY <1>1 DEF RequestType
<1>3. {"connect", "insert", "undo"} \subseteq Awaits
  BY DEF Awaits
<1>4. request' \in [Admin -> RequestType]
  BY <1>3, FinishStep, EndStep, ProceedStep
     DEF CreateNames, CreateConnect, CreateConnectFail, CreateInsert,
         CreateInsertFail, CreateUndo, CreateDie, OnlyOf
<1>5. CASE CreateInsert(c)
  BY <1>2, <1>4, <1>5 DEF CreateInsert, AccessTypeOK, guacVars
<1>6. CASE CreateConnectFail(c) \/ CreateUndo(c) \/ CreateDie(c)
  BY <1>2, <1>4, <1>6
     DEF CreateConnectFail, CreateUndo, CreateDie, AccessTypeOK, rowVars,
         guacVars, leftVars
<1>7. CASE CreateNames(c) \/ CreateConnect(c) \/ CreateInsertFail(c)
  BY <1>2, <1>4, <1>7
     DEF CreateNames, CreateConnect, CreateInsertFail, AccessTypeOK, rowVars,
         guacVars, leftVars
<1> QED BY <1>5, <1>6, <1>7

LEMMA DeleteTypes ==
  ASSUME AccessTypeOK, NEW c \in Admin,
         DeleteFind(c) \/ DeleteHalf(c) \/ DeleteDrop(c) \/ DeleteDropFail(c),
         UNCHANGED wants
  PROVE  AccessTypeOK'
<1>1. request[c] \in RequestType
  BY DEF AccessTypeOK
<1>2. request[c].machine \subseteq Machine
  BY <1>1 DEF RequestType
<1>3. "drop" \in Awaits
  BY DEF Awaits
<1>4. request' \in [Admin -> RequestType]
  BY <1>3, FinishStep, AgainStep, EndStep, ProceedStep
     DEF DeleteFind, DeleteHalf, DeleteDrop, DeleteDropFail, OnlyOf
<1>5. CASE DeleteFind(c)
  BY <1>2, <1>4, <1>5 DEF DeleteFind, AccessTypeOK, rowVars, guacVars, leftVars
<1>6. CASE DeleteHalf(c)
  BY <1>2, <1>4, <1>6 DEF DeleteHalf, AccessTypeOK, guacVars
<1>7. CASE DeleteDrop(c) \/ DeleteDropFail(c)
  BY <1>2, <1>4, <1>7
     DEF DeleteDrop, DeleteDropFail, AccessTypeOK, rowVars, guacVars, leftVars
<1> QED BY <1>5, <1>6, <1>7

LEMMA AddTypes ==
  ASSUME AccessTypeOK, NEW c \in Admin,
         \/ AddDetails(c) \/ AddMake(c) \/ AddGrant(c) \/ AddRefused(c)
         \/ AddGrantFail(c),
         UNCHANGED wants
  PROVE  AccessTypeOK'
<1>1. request[c] \in RequestType
  BY DEF AccessTypeOK
<1>2. request[c].machine \subseteq Machine /\ request[c].user \subseteq User
  BY <1>1 DEF RequestType
<1>3. {"make", "grant", "grant_new"} \subseteq Awaits
  BY DEF Awaits
<1>4. request' \in [Admin -> RequestType]
  BY <1>3, FinishStep, AgainStep, EndStep, ProceedStep
     DEF AddDetails, AddMake, AddGrant, AddRefused, AddGrantFail, OnlyOf
<1>5. Granted(c) \subseteq User \X Machine
  BY <1>2 DEF Granted, AccessTypeOK
<1>6. CASE AddGrant(c)
  BY <1>2, <1>4, <1>5, <1>6 DEF AddGrant, AccessTypeOK, leftVars
<1>7. CASE AddDetails(c) \/ AddMake(c) \/ AddRefused(c) \/ AddGrantFail(c)
  BY <1>2, <1>4, <1>5, <1>7
     DEF AddDetails, AddMake, AddRefused, AddGrantFail, AccessTypeOK, rowVars,
         guacVars, leftVars
<1> QED BY <1>6, <1>7

(* delete_user_from_machine remembers what it has read.                     *)
LEMMA RemoveCheckStep ==
  ASSUME AccessTypeOK, NEW c \in Admin, RemoveCheck(c)
  PROVE  OnlyOf(c) /\ request'[c].pc = "apply"
<1>1. PICK m \in request[c].machine \cap machines :
        \E u \in request[c].user \cap assigned[m] :
           request' = [request EXCEPT ![c].pc = "apply",
                                      ![c].users = assigned[m],
                                      ![c].others = HasOther(u, m)]
  BY DEF RemoveCheck
<1>2. PICK u \in request[c].user \cap assigned[m] :
           request' = [request EXCEPT ![c].pc = "apply",
                                      ![c].users = assigned[m],
                                      ![c].others = HasOther(u, m)]
  BY <1>1
<1> DEFINE r == [request[c] EXCEPT !.pc = "apply", !.users = assigned[m],
                                   !.others = HasOther(u, m)]
<1>3. request' = [request EXCEPT ![c] = r]
  BY <1>2 DEF AccessTypeOK
<1>4. request[c] \in RequestType /\ assigned[m] \subseteq User
  BY DEF AccessTypeOK
<1>5. HasOther(u, m) \in BOOLEAN
  BY DEF HasOther
<1>6. r \in RequestType /\ r.pc = "apply"
  <2> HIDE DEF HasOther
  <2> QED BY <1>4, <1>5 DEF RequestType, Awaits
<1> HIDE DEF r
<1> QED BY <1>3, <1>6 DEF AccessTypeOK, OnlyOf

LEMMA RemoveTypes ==
  ASSUME AccessTypeOK, NEW c \in Admin,
         \/ RemoveCheck(c) \/ RemoveUnknown(c) \/ RemoveApply(c)
         \/ RemoveApplyFail(c) \/ RemoveRefused(c),
         UNCHANGED wants
  PROVE  AccessTypeOK'
<1>1. request[c] \in RequestType
  BY DEF AccessTypeOK
<1>2. /\ request[c].machine \subseteq Machine
      /\ request[c].user \subseteq User /\ request[c].users \subseteq User
  BY <1>1 DEF RequestType
<1>3. request' \in [Admin -> RequestType]
  BY FinishStep, AgainStep, EndStep, RemoveCheckStep
     DEF RemoveUnknown, RemoveApply, RemoveApplyFail, RemoveRefused, OnlyOf
<1>4. Hasty(c) \subseteq User
  BY <1>2 DEF Hasty
<1>5. \A m \in Machine : Overwritten(c, m) \subseteq User
  BY <1>2 DEF Overwritten, AccessTypeOK
<1>6. RemoveInGuacamole(c) => grants' \subseteq User \X Machine
                              /\ accounts' \subseteq User
  BY DEF RemoveInGuacamole, Revoked, WithoutUser, AccessTypeOK
<1>7. CASE RemoveApply(c)
  <2>1. disturbed' \subseteq User
    BY <1>2, <1>4, <1>5, <1>7 DEF RemoveApply, AccessTypeOK
  <2>2. assigned' \in [Machine -> SUBSET User]
    BY <1>2, <1>7 DEF RemoveApply, AccessTypeOK
  <2> QED BY <1>3, <1>6, <1>7, <2>1, <2>2 DEF RemoveApply, AccessTypeOK
<1>8. CASE RemoveApplyFail(c)
  BY <1>2, <1>3, <1>4, <1>6, <1>8 DEF RemoveApplyFail, AccessTypeOK, rowVars
<1>9. CASE RemoveCheck(c) \/ RemoveUnknown(c) \/ RemoveRefused(c)
  BY <1>2, <1>3, <1>9
     DEF RemoveCheck, RemoveUnknown, RemoveRefused, AccessTypeOK, rowVars,
         guacVars, leftVars
<1> QED BY <1>7, <1>8, <1>9

(* Asking, updating, failing to log in.                                     *)
AskFor(c) ==
    \/ AskCreate(c) \/ AskDelete(c) \/ AskUpdate(c) \/ AskAdd(c)
    \/ AskRemove(c)

LEMMA AskStep ==
  ASSUME AccessTypeOK, NEW c \in Admin, AskFor(c)
  PROVE  /\ OnlyOf(c) /\ OwnsNothing(c)'
         /\ Op(c) = "none"
         /\ UNCHANGED <<rowVars, guacVars, leftVars>>
<1> USE DEF Requests
<1>1. CASE AskCreate(c)
  BY <1>1, SubmitStep DEF AskCreate
<1>2. CASE AskDelete(c)
  BY <1>2, SubmitStep DEF AskDelete, AccessTypeOK
<1>3. CASE AskUpdate(c)
  <2>1. PICK m \in machines : Submit(c, "update", m, {}, assigned[m])
    BY <1>3 DEF AskUpdate
  <2>2. m \in Machine /\ assigned[m] \subseteq User
    BY DEF AccessTypeOK
  <2> QED BY <2>1, <2>2, SubmitStep
<1>4. CASE AskAdd(c)
  BY <1>4, SubmitStep DEF AskAdd
<1>5. CASE AskRemove(c)
  BY <1>5, SubmitStep DEF AskRemove
<1> QED BY <1>1, <1>2, <1>3, <1>4, <1>5 DEF AskFor

LEMMA OtherTypes ==
  ASSUME AccessTypeOK, NEW c \in Admin,
         AskFor(c) \/ UpdatePut(c) \/ LoginFail(c),
         UNCHANGED wants
  PROVE  AccessTypeOK'
<1>1. request[c] \in RequestType
  BY DEF AccessTypeOK
<1>2. request[c].users \subseteq User /\ request[c].user \subseteq User
  BY <1>1 DEF RequestType
<1>3. CASE AskFor(c)
  BY <1>3, AskStep DEF OnlyOf, AccessTypeOK, rowVars, guacVars, leftVars
<1>4. CASE UpdatePut(c)
  <2>1. request' \in [Admin -> RequestType]
    BY <1>4, FinishStep, EndStep DEF UpdatePut, OnlyOf
  <2>2. \A m \in Machine : Overwritten(c, m) \subseteq User
    BY <1>2 DEF Overwritten, AccessTypeOK
  <2>3. request[c].machine \subseteq Machine
    BY <1>1 DEF RequestType
  <2>4. disturbed' \subseteq User
    BY <1>4, <2>2, <2>3 DEF UpdatePut, AccessTypeOK
  <2>5. assigned' \in [Machine -> SUBSET User]
    BY <1>2, <1>4 DEF UpdatePut, AccessTypeOK
  <2> QED BY <1>4, <2>1, <2>4, <2>5 DEF UpdatePut, AccessTypeOK, guacVars
<1>5. CASE LoginFail(c)
  <2>1. request' \in [Admin -> RequestType]
    BY <1>5, FinishStep, AgainStep, EndStep DEF LoginFail, OnlyOf
  <2> QED BY <1>2, <1>5, <2>1 DEF LoginFail, AccessTypeOK, rowVars, guacVars
<1> QED BY <1>3, <1>4, <1>5

LEMMA StepTypes == AccessTypeOK /\ [AccessNext]_accessVars => AccessTypeOK'
<1> SUFFICES ASSUME AccessTypeOK, [AccessNext]_accessVars PROVE AccessTypeOK'
  OBVIOUS
<1>1. CASE UNCHANGED accessVars
  BY <1>1 DEF AccessTypeOK, accessVars, rowVars, guacVars, leftVars
<1>2. CASE AccessNext
  <2>1. PICK c \in Admin : AccessStep(c) /\ UNCHANGED wants
    BY <1>2 DEF AccessNext
  <2> QED BY <2>1, CreateTypes, DeleteTypes, AddTypes, RemoveTypes, OtherTypes
          DEF AccessStep, AskFor
<1> QED BY <1>1, <1>2

(* Every variable keeps its type.                                           *)
THEOREM AccessTypeCorrect == AccessSpec => []AccessTypeOK
  BY InitTypes, StepTypes, PTL DEF AccessSpec

-----------------------------------------------------------------------------
(* Owners and the list.                                                     *)

(* A step that touches neither rows nor connections nor the list, and       *)
(* leaves c the owner of what it owned.                                     *)
LEMMA Quiet ==
  ASSUME AccessInv, NEW c \in Admin, OnlyOf(c),
         UNCHANGED <<machines, connections, listed, stranded, mislisted>>,
         \A m \in Machine : Owns(c, m)' <=> Owns(c, m)
  PROVE  (OwnerInv /\ ListInv)'
<1>1. \A d \in Admin, m \in Machine : Owns(d, m)' <=> Owns(d, m)
  BY DEF OnlyOf, Owns, About, At
<1>2. connections \subseteq Machine
  BY DEF AccessInv, AccessTypeOK
<1> QED BY <1>1, <1>2 DEF AccessInv, OwnerInv, ListInv

(* Not at one of the three awaits, nothing is owned.                        *)
LEMMA OwnsAt ==
  ASSUME NEW c, request[c].pc \notin {"insert", "undo", "drop"}
  PROVE  OwnsNothing(c)
  BY DEF OwnsNothing, Owns, At

(* A step that proceeds to another await.                                   *)
LEMMA ProceedOwns ==
  ASSUME AccessTypeOK, NEW c \in Admin,
         NEW pc \in Awaits \ {"insert", "undo", "drop"}, Proceed(c, pc)
  PROVE  OnlyOf(c) /\ OwnsNothing(c)'
  BY ProceedStep DEF OwnsNothing, Owns, At

(* Every step of adding, removing and updating, and what does not reach     *)
(* rows, connections or the list of the others.                             *)
QuietStep(c) ==
    \/ AskFor(c) \/ UpdatePut(c) \/ LoginFail(c)
    \/ AddDetails(c) \/ AddMake(c) \/ AddGrant(c) \/ AddRefused(c)
    \/ AddGrantFail(c)
    \/ RemoveCheck(c) \/ RemoveUnknown(c) \/ RemoveApply(c)
    \/ RemoveApplyFail(c) \/ RemoveRefused(c)
    \/ CreateNames(c)

LEMMA QuietSteps ==
  ASSUME AccessInv, NEW c \in Admin, QuietStep(c)
  PROVE  (OwnerInv /\ ListInv)'
<1> USE DEF AccessInv
<1>1. OnlyOf(c) /\ OwnsNothing(c)'
  <2>1. {"make", "grant", "grant_new", "connect"}
           \subseteq Awaits \ {"insert", "undo", "drop"}
    BY DEF Awaits
  <2>2. CASE RemoveCheck(c)
    BY <2>2, RemoveCheckStep DEF OwnsNothing, Owns, At
  <2>3. CASE AddDetails(c) \/ AddMake(c) \/ CreateNames(c)
    BY <2>1, <2>3, ProceedOwns, FinishStep DEF AddDetails, AddMake, CreateNames
  <2>4. CASE AskFor(c)
    BY <2>4, AskStep
  <2>5. CASE \/ UpdatePut(c) \/ LoginFail(c) \/ AddGrant(c) \/ AddRefused(c)
             \/ AddGrantFail(c) \/ RemoveUnknown(c) \/ RemoveApply(c)
             \/ RemoveApplyFail(c) \/ RemoveRefused(c)
    BY <2>5, FinishStep, AgainStep, EndStep
       DEF UpdatePut, LoginFail, AddGrant, AddRefused, AddGrantFail,
           RemoveUnknown, RemoveApply, RemoveApplyFail, RemoveRefused
  <2> QED BY <2>2, <2>3, <2>4, <2>5 DEF QuietStep
<1>2. OwnsNothing(c)
  <2>1. CASE AskFor(c)
    BY <2>1, AskStep DEF OwnsNothing, Owns, At, Op
  <2>2. CASE ~AskFor(c)
    BY <2>2, OwnsAt
       DEF QuietStep, UpdatePut, LoginFail, AddDetails, AddMake, AddGrant,
           AddRefused, AddGrantFail, AtGrant, RemoveCheck, RemoveUnknown,
           RemoveApply, RemoveApplyFail, RemoveRefused, CreateNames, At
  <2> QED BY <2>1, <2>2
<1>3. UNCHANGED <<machines, connections, listed, stranded, mislisted>>
  <2>1. CASE AskFor(c)
    BY <2>1, AskStep DEF rowVars, guacVars, leftVars
  <2>2. CASE ~AskFor(c)
    BY <2>2
       DEF QuietStep, UpdatePut, LoginFail, AddDetails, AddMake, AddGrant,
           AddRefused, AddGrantFail, RemoveCheck, RemoveUnknown, RemoveApply,
           RemoveApplyFail, RemoveRefused, CreateNames, rowVars, guacVars,
           leftVars
  <2> QED BY <2>1, <2>2
<1> QED BY <1>1, <1>2, <1>3, Quiet DEF OwnsNothing

(* The connection is made: its request owns it.                             *)
LEMMA CreateConnectOwners ==
  ASSUME AccessInv, NEW c \in Admin, CreateConnect(c)
  PROVE  (OwnerInv /\ ListInv)'
<1> USE DEF AccessInv
<1>1. /\ OnlyOf(c)
      /\ \A m \in Machine : Owns(c, m)' <=> About(c, m)
  BY ProceedStep DEF CreateConnect, Awaits, Owns, At, About, Op
<1>2. OwnsNothing(c)
  BY OwnsAt DEF CreateConnect, At
<1>3. \A d \in Admin \ {c}, m \in Machine : Owns(d, m)' <=> Owns(d, m)
  BY <1>1 DEF OnlyOf, Owns, About, At
<1>4. connections' \subseteq Machine
  BY DEF CreateConnect, AccessTypeOK, RequestType
<1> QED BY <1>1, <1>2, <1>3, <1>4
        DEF CreateConnect, OwnerInv, ListInv, OwnsNothing, About, rowVars,
            leftVars, AccessTypeOK

(* It may be made although the answer says no: it is stranded then.         *)
LEMMA CreateConnectFailOwners ==
  ASSUME AccessInv, NEW c \in Admin, CreateConnectFail(c)
  PROVE  (OwnerInv /\ ListInv)'
<1> USE DEF AccessInv
<1>1. OnlyOf(c) /\ OwnsNothing(c)'
  BY EndStep DEF CreateConnectFail
<1>2. OwnsNothing(c)
  BY OwnsAt DEF CreateConnectFail, At
<1>3. \A d \in Admin, m \in Machine : Owns(d, m)' <=> Owns(d, m)
  BY <1>1, <1>2 DEF OnlyOf, OwnsNothing, Owns, About, At
<1>4. UNCHANGED <<machines, listed, mislisted>>
  BY DEF CreateConnectFail, rowVars
<1>5. CASE UNCHANGED <<connections, stranded>>
  BY <1>3, <1>4, <1>5 DEF OwnerInv, ListInv, AccessTypeOK
<1>6. CASE /\ request[c].machine \cap connections = {}
           /\ connections' = connections \cup request[c].machine
           /\ stranded' = stranded \cup request[c].machine
  BY <1>3, <1>4, <1>6 DEF OwnerInv, ListInv, AccessTypeOK
<1> QED BY <1>5, <1>6 DEF CreateConnectFail

(* The row takes the connection over from its request.                      *)
LEMMA CreateInsertOwners ==
  ASSUME AccessInv, NEW c \in Admin, CreateInsert(c)
  PROVE  (OwnerInv /\ ListInv)'
<1> USE DEF AccessInv
<1>1. OnlyOf(c) /\ OwnsNothing(c)'
  BY EndStep DEF CreateInsert
<1>2. \A m \in Machine : Owns(c, m) <=> About(c, m)
  BY DEF CreateInsert, Owns, At
<1>3. \A d \in Admin \ {c}, m \in Machine : Owns(d, m)' <=> Owns(d, m)
  BY <1>1 DEF OnlyOf, Owns, About, At
<1>4. request[c].machine \subseteq Machine /\ request[c].list \subseteq Machine
  BY DEF AccessTypeOK, RequestType
<1>5. UNCHANGED <<connections, stranded>>
  BY DEF CreateInsert, guacVars
<1>6. OwnerInv'
  BY <1>1, <1>2, <1>3, <1>4, <1>5
     DEF CreateInsert, OwnerInv, OwnsNothing, About, AccessTypeOK
<1>7. ListInv'
  BY <1>4 DEF CreateInsert, ListInv
<1> QED BY <1>6, <1>7

(* The insertion failed: the request goes on owning what it made.           *)
LEMMA CreateInsertFailOwners ==
  ASSUME AccessInv, NEW c \in Admin, CreateInsertFail(c)
  PROVE  (OwnerInv /\ ListInv)'
<1>1. OnlyOf(c) /\ \A m \in Machine : Owns(c, m)' <=> Owns(c, m)
  BY ProceedStep
     DEF AccessInv, CreateInsertFail, Awaits, Owns, At, About, Op
<1> QED BY <1>1, Quiet DEF CreateInsertFail, rowVars, guacVars, leftVars

(* The owner removes its connection.                                        *)
LEMMA RemovedByOwner ==
  ASSUME AccessInv, NEW c \in Admin, CreateUndo(c) \/ DeleteDrop(c)
  PROVE  (OwnerInv /\ ListInv)'
<1> USE DEF AccessInv
<1>1. OnlyOf(c) /\ OwnsNothing(c)'
  BY EndStep DEF CreateUndo, DeleteDrop
<1>2. \A m \in Machine : Owns(c, m) <=> About(c, m)
  BY DEF CreateUndo, DeleteDrop, Owns, At
<1>3. \A d \in Admin \ {c}, m \in Machine : Owns(d, m)' <=> Owns(d, m)
  BY <1>1 DEF OnlyOf, Owns, About, At
<1>4. /\ UNCHANGED <<machines, listed, stranded, mislisted>>
      /\ connections' = connections \ request[c].machine
  BY DEF CreateUndo, DeleteDrop, rowVars, leftVars
<1> QED BY <1>1, <1>2, <1>3, <1>4
        DEF OwnerInv, ListInv, OwnsNothing, About, AccessTypeOK

(* The owner is gone or is refused.                                         *)
LEMMA StrandedByOwner ==
  ASSUME AccessInv, NEW c \in Admin, CreateDie(c) \/ DeleteDropFail(c)
  PROVE  (OwnerInv /\ ListInv)'
<1> USE DEF AccessInv
<1>1. OnlyOf(c) /\ OwnsNothing(c)'
  BY EndStep, FinishStep, AgainStep DEF CreateDie, DeleteDropFail
<1>2. \A m \in Machine : Owns(c, m) <=> About(c, m)
  BY DEF CreateDie, DeleteDropFail, Owns, At
<1>3. \A d \in Admin \ {c}, m \in Machine : Owns(d, m)' <=> Owns(d, m)
  BY <1>1 DEF OnlyOf, Owns, About, At
<1>4. /\ UNCHANGED <<machines, connections, listed, mislisted>>
      /\ stranded' = stranded \cup request[c].machine
  BY DEF CreateDie, DeleteDropFail, rowVars, guacVars
<1> QED BY <1>1, <1>2, <1>3, <1>4
        DEF OwnerInv, ListInv, OwnsNothing, About, AccessTypeOK

(* The row goes: the deletion owns the connection.                          *)
LEMMA DeleteFindOwners ==
  ASSUME AccessInv, NEW c \in Admin, DeleteFind(c)
  PROVE  (OwnerInv /\ ListInv)'
<1> USE DEF AccessInv
<1>1. OwnsNothing(c)
  BY OwnsAt DEF DeleteFind, At
<1>2. CASE request[c].machine \subseteq machines
  <2>1. /\ machines' = machines \ request[c].machine
        /\ listed' = listed \ request[c].machine
        /\ Proceed(c, "drop")
        /\ UNCHANGED <<connections, stranded, mislisted>>
    BY <1>2 DEF DeleteFind, guacVars, leftVars
  <2>2. OnlyOf(c) /\ \A m \in Machine : Owns(c, m)' <=> About(c, m)
    BY <2>1, ProceedStep DEF DeleteFind, Awaits, Owns, At, About, Op
  <2>3. \A d \in Admin \ {c}, m \in Machine : Owns(d, m)' <=> Owns(d, m)
    BY <2>2 DEF OnlyOf, Owns, About, At
  <2> QED BY <1>1, <1>2, <2>1, <2>2, <2>3
          DEF OwnerInv, ListInv, OwnsNothing, About, AccessTypeOK
<1>3. CASE ~(request[c].machine \subseteq machines)
  <2>1. OnlyOf(c) /\ OwnsNothing(c)'
    BY <1>3, FinishStep DEF DeleteFind
  <2> QED BY <1>1, <1>3, <2>1, Quiet
          DEF DeleteFind, rowVars, guacVars, leftVars, OwnsNothing
<1> QED BY <1>2, <1>3

(* It goes alone: connection and entry of the list are left.                *)
LEMMA DeleteHalfOwners ==
  ASSUME AccessInv, NEW c \in Admin, DeleteHalf(c)
  PROVE  (OwnerInv /\ ListInv)'
<1> USE DEF AccessInv
<1>1. OnlyOf(c) /\ OwnsNothing(c)'
  BY EndStep DEF DeleteHalf
<1>2. OwnsNothing(c)
  BY OwnsAt DEF DeleteHalf, At
<1>3. \A d \in Admin, m \in Machine : Owns(d, m)' <=> Owns(d, m)
  BY <1>1, <1>2 DEF OnlyOf, OwnsNothing, Owns, About, At
<1>4. UNCHANGED <<listed, connections>>
  BY DEF DeleteHalf, guacVars
<1> QED BY <1>3, <1>4 DEF DeleteHalf, OwnerInv, ListInv, AccessTypeOK

LEMMA StepOwners ==
  AccessInv /\ [AccessNext]_accessVars => (OwnerInv /\ ListInv)'
<1> SUFFICES ASSUME AccessInv, [AccessNext]_accessVars
             PROVE  (OwnerInv /\ ListInv)'
  OBVIOUS
<1>1. CASE UNCHANGED accessVars
  BY <1>1 DEF AccessInv, OwnerInv, ListInv, Owns, About, At, accessVars,
              rowVars, guacVars, leftVars
<1>2. CASE AccessNext
  <2>1. PICK c \in Admin : AccessStep(c)
    BY <1>2 DEF AccessNext
  <2> QED BY <2>1, QuietSteps, CreateConnectOwners, CreateConnectFailOwners,
             CreateInsertOwners, CreateInsertFailOwners, RemovedByOwner,
             StrandedByOwner, DeleteFindOwners, DeleteHalfOwners
          DEF AccessStep, QuietStep, AskFor
<1> QED BY <1>1, <1>2

LEMMA InitOwners == AccessInit => AccessInv
<1> SUFFICES ASSUME AccessInit PROVE OwnerInv /\ ListInv
  BY InitTypes DEF AccessInv
<1>1. \A c \in Admin : OwnsNothing(c)
  BY DEF AccessInit, Resting, OwnsNothing, Owns, At
<1> QED BY <1>1 DEF AccessInit, OwnerInv, ListInv, OwnsNothing

(* Every machine has its connection, a connection its machine or a request  *)
(* that is about to finish the pair, and the pool lists its machines: up to *)
(* what is named in stranded and mislisted.                                 *)
THEOREM MachinesStayTogether == AccessSpec => []MachinesAgree
<1>1. AccessInit => AccessInv
  BY InitOwners
<1>2. AccessInv /\ [AccessNext]_accessVars => AccessInv'
  BY StepTypes, StepOwners DEF AccessInv
<1>3. AccessInv => MachinesAgree
  BY DEF AccessInv, OwnerInv, ListInv, MachinesAgree, Owns, Doing, At, Op,
         AccessTypeOK
<1> QED BY <1>1, <1>2, <1>3, PTL DEF AccessSpec

-----------------------------------------------------------------------------
(* Rows and permissions.                                                    *)

(* A request is about one machine, and one user if it is about any.         *)
Single ==
    \A c \in Admin : Op(c) \in {"add", "remove"} =>
        \E m \in Machine, u \in User :
            request[c].machine = {m} /\ request[c].user = {u}

(* Guacamole forgets permissions with the account or the connection.        *)
Linked ==
    \A u \in User, m \in Machine :
        <<u, m>> \in grants => u \in accounts /\ m \in connections

(* What an attempt that failed half way may have left, until the next one    *)
(* has seen to it.                                                          *)
HalfRemoved(c, u, m) ==
    /\ Op(c) = "remove" /\ About(c, m) /\ For(c, u)
    /\ request[c].left < MachineAttempts

HalfAdded(c, u, m) ==
    /\ Op(c) = "add" /\ About(c, m) /\ For(c, u)
    /\ request[c].left < MachineAttempts
    /\ request[c].pc \notin {"make", "grant_new"}

Dropping(c, m) == At(c, "delete", "drop") /\ About(c, m)

Has(u, m) == m \in machines /\ u \in assigned[m]
Opens(u, m) == u \in accounts /\ <<u, m>> \in grants

Agree(u, m) ==
    /\ Has(u, m) => Opens(u, m) \/ \E c \in Admin : HalfRemoved(c, u, m)
    /\ <<u, m>> \in grants =>
          \/ Has(u, m) \/ m \in stranded
          \/ \E c \in Admin : HalfAdded(c, u, m) \/ Dropping(c, m)

GrantInv ==
    /\ Single
    /\ Linked
    /\ \A u \in User \ disturbed, m \in Machine : Agree(u, m)

(* At first who is assigned can open, and nobody else.                      *)
LEMMA InitGrants == AccessInit => GrantInv
<1> SUFFICES ASSUME AccessInit PROVE GrantInv
  OBVIOUS
<1>1. Single
  BY DEF AccessInit, Resting, Single, Op
<1>2. \A u \in User, m \in Machine : <<u, m>> \in grants <=> u \in assigned[m]
  BY DEF AccessInit
<1>3. \A u \in User, m \in Machine : u \in assigned[m] =>
          m \in machines /\ m \in connections /\ u \in accounts
  BY DEF AccessInit
<1> QED BY <1>1, <1>2, <1>3 DEF GrantInv, Linked, Agree, Has, Opens

(* What a request is about does not change before it ends.                  *)
LEMMA AgainKeeps ==
  ASSUME AccessTypeOK, NEW c \in Admin, Again(c)
  PROVE  /\ OnlyOf(c)
         /\ Op(c)' = Op(c) /\ request'[c].machine = request[c].machine
         /\ request'[c].user = request[c].user
         /\ request'[c].pc \notin {"make", "grant_new"}
         /\ request'[c].left < MachineAttempts
<1> DEFINE o == Op(c)
           r == [request[c] EXCEPT
                   !.pc = FirstAwait(o), !.list = ListSeen(o),
                   !.users = IF o = "update" THEN request[c].users ELSE {},
                   !.others = FALSE, !.left = request[c].left - 1]
<1>1. request'[c] = r
  BY DEF Again, AccessTypeOK
<1>2. request[c] \in RequestType
  BY DEF AccessTypeOK
<1>3. FirstAwait(o) \notin {"make", "grant_new"}
  BY DEF FirstAwait
<1>4. /\ r.op = request[c].op /\ r.machine = request[c].machine
      /\ r.user = request[c].user /\ r.pc = FirstAwait(o) /\ r.left = request[c].left - 1
  <2> HIDE DEF o
  <2> QED BY <1>2 DEF RequestType
<1>5. request[c].left - 1 < MachineAttempts
  BY <1>2, MachineAccessAssumption DEF RequestType
<1> HIDE DEF o, r
<1> QED BY <1>1, <1>3, <1>4, <1>5, AgainStep DEF Op

(* It goes on being about them.                                             *)
LEMMA ProceedKeeps ==
  ASSUME AccessTypeOK, NEW c \in Admin, NEW pc \in Awaits, Proceed(c, pc)
  PROVE  /\ OnlyOf(c) /\ Op(c)' = Op(c) /\ request'[c].machine = request[c].machine
         /\ request'[c].user = request[c].user
         /\ request'[c].left = request[c].left
         /\ request'[c].pc = pc
<1>1. request'[c] = [request[c] EXCEPT !.pc = pc] /\ request[c] \in RequestType
  BY ProceedStep DEF AccessTypeOK
<1>2. request'[c].user = request[c].user /\ request'[c].left = request[c].left
  BY <1>1 DEF RequestType
<1> QED BY <1>2, ProceedStep

(* However an attempt ends: its request ends or stays what it is.           *)
Ends(c) ==
    \/ Finish(c)
    \/ /\ Op(c)' = Op(c) /\ request'[c].machine = request[c].machine
       /\ request'[c].user = request[c].user
       /\ request'[c].pc \notin {"make", "grant_new"}
       /\ request'[c].left < MachineAttempts

(* Both ways of ending.                                                     *)
LEMMA EndKeeps ==
  ASSUME AccessTypeOK, NEW c \in Admin,
         Raise(c) \/ ReturnOrLost(c) \/ OutOfAttempts(c) \/ Again(c) \/ Finish(c)
  PROVE  OnlyOf(c) /\ Ends(c)
BY AgainKeeps, FinishStep DEF Raise, ReturnOrLost, OutOfAttempts, Ends

(* The requests stay about one machine and one user.                        *)
LEMMA SingleStays ==
  ASSUME AccessTypeOK, Single, NEW c \in Admin, OnlyOf(c),
         \/ Ends(c)
         \/ /\ Op(c)' = Op(c) /\ request'[c].machine = request[c].machine
            /\ request'[c].user = request[c].user
  PROVE  Single'
<1>1. Finish(c) => Op(c)' = "none"
  BY DEF Finish, Resting, AccessTypeOK, Op
<1>2. \A d \in Admin \ {c} : Op(d)' = Op(d)
  BY DEF OnlyOf, Op
<1> QED BY <1>1, <1>2 DEF Single, OnlyOf, Ends

(* A step whose request leaves nothing behind that is not named.            *)
LEMMA AgreeStays ==
  ASSUME NEW c \in Admin, OnlyOf(c), NEW u \in User, NEW m \in Machine, Agree(u, m),
         Has(u, m)' => \/ Opens(u, m)' \/ HalfRemoved(c, u, m)'
                       \/ /\ Has(u, m) /\ (Opens(u, m) => Opens(u, m)')
                          /\ ~HalfRemoved(c, u, m),
         <<u, m>> \in grants' =>
             \/ Has(u, m)' \/ m \in stranded' \/ HalfAdded(c, u, m)' \/ Dropping(c, m)'
             \/ /\ <<u, m>> \in grants /\ (m \in stranded => m \in stranded')
                /\ ~Has(u, m) /\ ~HalfAdded(c, u, m) /\ ~Dropping(c, m)
  PROVE  Agree(u, m)'
<1>1. \A d \in Admin \ {c} :
          /\ HalfRemoved(d, u, m)' = HalfRemoved(d, u, m)
          /\ HalfAdded(d, u, m)' = HalfAdded(d, u, m)
          /\ Dropping(d, m)' = Dropping(d, m)
  BY DEF OnlyOf, HalfRemoved, HalfAdded, Dropping, Op, At, About, For
<1> QED BY <1>1 DEF Agree

-----------------------------------------------------------------------------
(* The steps.                                                               *)

(* Asking.                                                                  *)
LEMMA SubmitSingle ==
  ASSUME AccessTypeOK, Single, NEW c \in Admin, AskFor(c)
  PROVE  Single'
<1>0. OnlyOf(c)
  BY AskStep
<1>1. \A d \in Admin \ {c} : Op(d)' = Op(d)
  BY <1>0 DEF OnlyOf, Op
<1>2. CASE \/ AskCreate(c) \/ AskDelete(c) \/ AskUpdate(c)
  <2>1. Op(c)' \in {"create", "delete", "update"}
    BY <1>2 DEF AskCreate, AskDelete, AskUpdate, Submit, AccessTypeOK, Op
  <2> QED BY <1>0, <1>1, <2>1 DEF Single, OnlyOf
<1>3. CASE AskAdd(c) \/ AskRemove(c)
  <2>1. PICK m \in Machine, u \in User :
            Submit(c, "add", m, {u}, {}) \/ Submit(c, "remove", m, {u}, {})
    BY <1>3 DEF AskAdd, AskRemove
  <2>2. request'[c].machine = {m} /\ request'[c].user = {u}
    BY <2>1 DEF Submit, AccessTypeOK
  <2> QED BY <1>0, <1>1, <2>2 DEF Single, OnlyOf
<1> QED BY <1>2, <1>3 DEF AskFor

(* A request that begins has nothing half done.                             *)
LEMMA AskGrants ==
  ASSUME AccessTypeOK, GrantInv, NEW c \in Admin, AskFor(c)
  PROVE  GrantInv'
<1>0. OnlyOf(c) /\ Op(c) = "none" /\ UNCHANGED <<rowVars, guacVars, leftVars>>
  BY AskStep
<1>1. Single'
  BY SubmitSingle DEF GrantInv
<1>2. Linked'
  BY <1>0 DEF GrantInv, Linked, rowVars, guacVars
<1>3. ASSUME NEW u \in User \ disturbed', NEW m \in Machine PROVE Agree(u, m)'
  <2>1. Agree(u, m) /\ u \in User
    BY <1>0, <1>3 DEF GrantInv, leftVars
  <2>2. ~HalfRemoved(c, u, m) /\ ~HalfAdded(c, u, m) /\ ~Dropping(c, m)
    BY <1>0 DEF HalfRemoved, HalfAdded, Dropping, At, Op
  <2>3. /\ Has(u, m)' = Has(u, m) /\ Opens(u, m)' = Opens(u, m)
        /\ grants' = grants /\ stranded' = stranded
    BY <1>0 DEF Has, Opens, rowVars, guacVars, leftVars
  <2> QED BY <1>0, <2>1, <2>2, <2>3, AgreeStays
<1> QED BY <1>1, <1>2, <1>3 DEF GrantInv

(* The steps of a creation.                                                 *)
LEMMA CreateGrants ==
  ASSUME AccessInv, GrantInv, NEW c \in Admin,
         \/ CreateNames(c) \/ CreateConnect(c) \/ CreateConnectFail(c)
         \/ CreateInsert(c) \/ CreateInsertFail(c) \/ CreateUndo(c) \/ CreateDie(c)
  PROVE  GrantInv'
<1> USE DEF AccessInv
<1>0. /\ OnlyOf(c) /\ Op(c) = "create"
      /\ \/ Ends(c)
         \/ /\ Op(c)' = Op(c) /\ request'[c].machine = request[c].machine
            /\ request'[c].user = request[c].user
  <2>1. {"connect", "insert", "undo"} \subseteq Awaits
    BY DEF Awaits
  <2> QED BY <2>1, ProceedKeeps, EndKeeps
      DEF CreateNames, CreateConnect, CreateConnectFail, CreateInsert, CreateInsertFail,
          CreateUndo, CreateDie, At, Op
<1>1. Single'
  BY <1>0, SingleStays DEF GrantInv
<1>2. \A u, m : ~HalfRemoved(c, u, m) /\ ~HalfAdded(c, u, m) /\ ~Dropping(c, m)
  BY <1>0 DEF HalfRemoved, HalfAdded, Dropping, At, Op
<1>3. /\ disturbed \subseteq disturbed' /\ stranded \subseteq stranded'
      /\ accounts' = accounts
  BY DEF CreateNames, CreateConnect, CreateConnectFail, CreateInsert, CreateInsertFail,
         CreateUndo, CreateDie, leftVars, guacVars
<1>4. CASE CreateInsert(c)
  <2>1. UNCHANGED guacVars
    BY <1>4 DEF CreateInsert
  <2>2. Linked'
    BY <2>1 DEF GrantInv, Linked, guacVars
  <2>3. ASSUME NEW m \in Machine, About(c, m) PROVE m \notin machines /\ assigned'[m] = {}
    BY <1>4, <2>3 DEF CreateInsert, OwnerInv, Owns
  <2>4. ASSUME NEW m \in Machine, NEW u \in User
        PROVE  Has(u, m)' = Has(u, m)
    BY <1>4, <2>3 DEF CreateInsert, Has, About
  <2>5. ASSUME NEW u \in User \ disturbed', NEW m \in Machine PROVE Agree(u, m)'
    <3>1. Agree(u, m) /\ Opens(u, m)' = Opens(u, m) /\ grants' = grants
      BY <1>3, <2>1, <2>5 DEF GrantInv, Opens, guacVars
    <3> QED BY <1>0, <1>2, <1>3, <2>4, <3>1, AgreeStays
  <2> QED BY <1>1, <2>2, <2>5 DEF GrantInv
<1>5. CASE CreateUndo(c)
  <2>1. /\ grants' = {g \in grants : g[2] \notin request[c].machine}
        /\ connections' = connections \ request[c].machine /\ UNCHANGED rowVars
    BY <1>5 DEF CreateUndo
  <2>2. \A u \in User, m \in Machine :
           <<u, m>> \in grants' <=> <<u, m>> \in grants /\ ~About(c, m)
    BY <2>1 DEF About
  <2>3. Linked'
    BY <1>3, <2>1, <2>2 DEF GrantInv, Linked, About
  <2>4. ASSUME NEW u \in User, NEW m \in Machine
        PROVE  /\ Has(u, m)' = Has(u, m)
               /\ Has(u, m) /\ Opens(u, m) => Opens(u, m)'
    <3>1. About(c, m) => m \notin machines
      BY <1>5 DEF CreateUndo, OwnerInv, Owns
    <3> QED BY <1>3, <2>1, <2>2, <3>1 DEF Has, Opens, rowVars
  <2>5. ASSUME NEW u \in User \ disturbed', NEW m \in Machine PROVE Agree(u, m)'
    <3>1. Agree(u, m)
      BY <1>3, <2>5 DEF GrantInv
    <3> QED BY <1>0, <1>2, <1>3, <2>2, <2>4, <3>1, AgreeStays
  <2> QED BY <1>1, <2>3, <2>5 DEF GrantInv
<1>6. CASE \/ CreateNames(c) \/ CreateConnect(c) \/ CreateConnectFail(c)
           \/ CreateInsertFail(c) \/ CreateDie(c)
  <2>1. UNCHANGED <<rowVars, grants>> /\ connections \subseteq connections'
    BY <1>6 DEF CreateNames, CreateConnect, CreateConnectFail, CreateInsertFail, CreateDie,
       guacVars
  <2>2. Linked'
    BY <1>3, <2>1 DEF GrantInv, Linked
  <2>3. ASSUME NEW u \in User \ disturbed', NEW m \in Machine PROVE Agree(u, m)'
    <3>1. Agree(u, m) /\ Has(u, m)' = Has(u, m) /\ Opens(u, m)' = Opens(u, m)
      BY <1>3, <2>1, <2>3 DEF GrantInv, Has, Opens, rowVars
    <3> QED BY <1>0, <1>2, <1>3, <2>1, <3>1, AgreeStays
  <2> QED BY <1>1, <2>2, <2>3 DEF GrantInv
<1> QED BY <1>4, <1>5, <1>6

(* A deletion: the row goes, then the connection with its permissions.      *)
LEMMA DeleteGrants ==
  ASSUME AccessInv, GrantInv, NEW c \in Admin,
         DeleteFind(c) \/ DeleteHalf(c) \/ DeleteDrop(c) \/ DeleteDropFail(c)
  PROVE  GrantInv'
<1> USE DEF AccessInv
<1>0. /\ OnlyOf(c) /\ Op(c) = "delete"
      /\ \/ Ends(c)
         \/ /\ Op(c)' = Op(c) /\ request'[c].machine = request[c].machine
            /\ request'[c].user = request[c].user
  <2>1. "drop" \in Awaits
    BY DEF Awaits
  <2> QED BY <2>1, ProceedKeeps, EndKeeps
      DEF DeleteFind, DeleteHalf, DeleteDrop, DeleteDropFail, At, Op
<1>1. Single'
  BY <1>0, SingleStays DEF GrantInv
<1>2. \A u, m : ~HalfRemoved(c, u, m) /\ ~HalfAdded(c, u, m)
  BY <1>0 DEF HalfRemoved, HalfAdded
<1>3. /\ disturbed \subseteq disturbed' /\ stranded \subseteq stranded'
      /\ accounts' = accounts
  BY DEF DeleteFind, DeleteHalf, DeleteDrop, DeleteDropFail, leftVars, guacVars
<1>4. CASE DeleteDrop(c)
  <2>1. /\ grants' = {g \in grants : g[2] \notin request[c].machine}
        /\ connections' = connections \ request[c].machine /\ UNCHANGED rowVars
    BY <1>4 DEF DeleteDrop
  <2>2. \A u \in User, m \in Machine :
           <<u, m>> \in grants' <=> <<u, m>> \in grants /\ ~About(c, m)
    BY <2>1 DEF About
  <2>3. Linked'
    BY <1>3, <2>1, <2>2 DEF GrantInv, Linked, About
  <2>4. ASSUME NEW u \in User, NEW m \in Machine
        PROVE  /\ Has(u, m)' = Has(u, m)
               /\ Has(u, m) /\ Opens(u, m) => Opens(u, m)'
    <3>1. About(c, m) => m \notin machines
      BY <1>4 DEF DeleteDrop, OwnerInv, Owns
    <3> QED BY <1>3, <2>1, <2>2, <3>1 DEF Has, Opens, rowVars
  <2>5. ASSUME NEW u \in User \ disturbed', NEW m \in Machine PROVE Agree(u, m)'
    <3>1. Agree(u, m) /\ (Dropping(c, m) => About(c, m))
      BY <1>3, <2>5 DEF GrantInv, Dropping
    <3> QED BY <1>0, <1>2, <1>3, <2>2, <2>4, <3>1, AgreeStays
  <2> QED BY <1>1, <2>3, <2>5 DEF GrantInv
<1>5. CASE DeleteFind(c) \/ DeleteHalf(c) \/ DeleteDropFail(c)
  <2>1. UNCHANGED guacVars
    BY <1>5 DEF DeleteFind, DeleteHalf, DeleteDropFail
  <2>2. Linked'
    BY <2>1 DEF GrantInv, Linked, guacVars
  <2>3. ASSUME NEW u \in User \ disturbed', NEW m \in Machine PROVE Agree(u, m)'
    <3>1. Agree(u, m) /\ Opens(u, m)' = Opens(u, m) /\ grants' = grants
      BY <1>3, <2>1, <2>3 DEF GrantInv, Opens, guacVars
    <3>2. CASE DeleteDropFail(c)
      <4>1. Has(u, m)' = Has(u, m) /\ (Dropping(c, m) => m \in stranded')
        BY <3>2 DEF DeleteDropFail, Has, rowVars, Dropping, About
      <4> QED BY <1>0, <1>2, <1>3, <3>1, <4>1, AgreeStays
    <3>3. CASE DeleteHalf(c)
      <4>1. /\ Has(u, m)' => Has(u, m)
            /\ Has(u, m) => Has(u, m)' \/ m \in stranded'
            /\ ~Dropping(c, m)
        BY <3>3 DEF DeleteHalf, Has, Dropping, About, At
      <4> QED BY <1>0, <1>2, <1>3, <3>1, <4>1, AgreeStays
    <3>4. CASE DeleteFind(c)
      <4>1. ~Dropping(c, m)
        BY <3>4 DEF DeleteFind, Dropping, At
      <4>2. CASE request[c].machine \subseteq machines
        <5>1. Proceed(c, "drop") /\ "drop" \in Awaits
          BY <3>4, <4>2 DEF DeleteFind, Awaits
        <5>2. request'[c].machine = request[c].machine /\ request'[c].pc = "drop"
              /\ Op(c)' = "delete"
          BY <1>0, <5>1, ProceedKeeps
        <5>3. /\ Has(u, m)' => Has(u, m)
              /\ Has(u, m) => Has(u, m)' \/ About(c, m)
          BY <3>4, <4>2 DEF DeleteFind, Has, About
        <5>4. About(c, m) => Dropping(c, m)'
          BY <5>2 DEF Dropping, At, About, Op
        <5> QED BY <1>0, <1>2, <1>3, <3>1, <4>1, <5>3, <5>4, AgreeStays
      <4>3. CASE ~(request[c].machine \subseteq machines)
        <5>1. Has(u, m)' = Has(u, m)
          BY <3>4, <4>3 DEF DeleteFind, Has, rowVars
        <5> QED BY <1>0, <1>2, <1>3, <3>1, <4>1, <5>1, AgreeStays
      <4> QED BY <4>2, <4>3
    <3> QED BY <1>5, <3>2, <3>3, <3>4
  <2> QED BY <1>1, <2>2, <2>3 DEF GrantInv
<1> QED BY <1>4, <1>5

(* An update writes the list of users: only of those it may have changed,    *)
(* who are named.                                                           *)
LEMMA UpdateGrants ==
  ASSUME AccessInv, GrantInv, NEW c \in Admin, UpdatePut(c)
  PROVE  GrantInv'
<1> USE DEF AccessInv
<1>0. OnlyOf(c) /\ Op(c) = "update" /\ Ends(c)
  BY EndKeeps DEF UpdatePut, At, Op
<1>1. Single'
  BY <1>0, SingleStays DEF GrantInv
<1>2. \A u, m : ~HalfRemoved(c, u, m) /\ ~HalfAdded(c, u, m) /\ ~Dropping(c, m)
  BY <1>0 DEF HalfRemoved, HalfAdded, Dropping, At, Op
<1>3. /\ disturbed \subseteq disturbed' /\ UNCHANGED <<machines, guacVars, stranded>>
  BY DEF UpdatePut
<1>4. Linked'
  BY <1>3 DEF GrantInv, Linked, guacVars
<1>5. ASSUME NEW u \in User \ disturbed', NEW m \in Machine PROVE Agree(u, m)'
  <2>1. Agree(u, m) /\ Opens(u, m)' = Opens(u, m) /\ grants' = grants
    BY <1>3, <1>5 DEF GrantInv, Opens, guacVars
  <2>2. u \in assigned'[m] <=> u \in assigned[m]
    BY <1>5 DEF UpdatePut, Overwritten, About
  <2>3. Has(u, m)' = Has(u, m)
    BY <1>3, <2>2 DEF Has
  <2> QED BY <1>0, <1>2, <1>3, <2>1, <2>3, AgreeStays
<1> QED BY <1>1, <1>4, <1>5 DEF GrantInv

(* An assignment: the permission and then the row.  What an attempt that     *)
(* failed between them has left is seen to by the next one, for it takes the *)
(* account it finds; one that finds none finds no permission either.        *)
LEMMA AddGrants ==
  ASSUME AccessInv, GrantInv, NEW c \in Admin,
         \/ AddDetails(c) \/ AddMake(c) \/ AddGrant(c) \/ AddRefused(c) \/ AddGrantFail(c)
  PROVE  GrantInv'
<1> USE DEF AccessInv
<1>0. /\ OnlyOf(c) /\ Op(c) = "add"
      /\ \/ Ends(c)
         \/ /\ Op(c)' = Op(c) /\ request'[c].machine = request[c].machine
            /\ request'[c].user = request[c].user
  <2>1. {"make", "grant", "grant_new"} \subseteq Awaits
    BY DEF Awaits
  <2> QED BY <2>1, ProceedKeeps, EndKeeps
      DEF AddDetails, AddMake, AddGrant, AddRefused, AddGrantFail, AtGrant, At, Op
<1>1. Single'
  BY <1>0, SingleStays DEF GrantInv
<1>2. \A u, m : ~HalfRemoved(c, u, m) /\ ~Dropping(c, m)
  BY <1>0 DEF HalfRemoved, Dropping, At, Op
<1>3. /\ disturbed \subseteq disturbed' /\ UNCHANGED <<machines, connections, stranded>>
      /\ accounts \subseteq accounts' /\ grants \subseteq grants'
  BY DEF AddDetails, AddMake, AddGrant, AddRefused, AddGrantFail, rowVars, guacVars, leftVars,
     Granted
<1>4. PICK n \in Machine, w \in User : request[c].machine = {n} /\ request[c].user = {w}
  BY <1>0 DEF GrantInv, Single
<1>5. \A u \in User, m \in Machine : About(c, m) /\ For(c, u) <=> m = n /\ u = w
  BY <1>4 DEF About, For
<1>6. CASE AddDetails(c) \/ AddMake(c) \/ AddRefused(c)
  <2>1. UNCHANGED <<rowVars, grants>>
    BY <1>6 DEF AddDetails, AddMake, AddRefused, guacVars
  <2>2. Linked'
    BY <1>3, <2>1 DEF GrantInv, Linked
  <2>3. ASSUME HalfAdded(c, w, n), <<w, n>> \in grants PROVE HalfAdded(c, w, n)'
    <3>1. w \in accounts /\ n \in connections
      BY <2>3 DEF GrantInv, Linked
    <3>2. CASE AddDetails(c)
      <4>1. Proceed(c, "grant") /\ "grant" \in Awaits
        BY <1>4, <3>1, <3>2 DEF AddDetails, Awaits
      <4> QED BY <2>3, <4>1, ProceedKeeps DEF HalfAdded, About, For
    <3>3. CASE AddMake(c)
      BY <2>3, <3>3 DEF AddMake, HalfAdded, At
    <3>4. CASE AddRefused(c)
      BY <1>4, <2>3, <3>1, <3>4 DEF AddRefused, CanGrant, HalfAdded, AtGrant, At
    <3> QED BY <1>6, <3>2, <3>3, <3>4
  <2>4. ASSUME NEW u \in User \ disturbed', NEW m \in Machine PROVE Agree(u, m)'
    <3>1. Agree(u, m)
      BY <1>3, <2>4 DEF GrantInv
    <3>2. Has(u, m)' = Has(u, m) /\ (Opens(u, m) => Opens(u, m)')
      BY <1>3, <2>1 DEF Has, Opens, rowVars
    <3>3. <<u, m>> \in grants /\ HalfAdded(c, u, m) => HalfAdded(c, u, m)'
      BY <1>5, <2>3 DEF HalfAdded
    <3> QED BY <1>0, <1>2, <1>3, <2>1, <3>1, <3>2, <3>3, AgreeStays
  <2> QED BY <1>1, <2>2, <2>4 DEF GrantInv
<1>7. CASE AddGrant(c) \/ AddGrantFail(c)
  <2>1. grants' = grants \cup {<<w, n>>} /\ UNCHANGED <<connections, accounts>>
        /\ w \in accounts /\ n \in connections
    BY <1>4, <1>7 DEF AddGrant, AddGrantFail, Granted, CanGrant
  <2>2. Linked'
    BY <2>1 DEF GrantInv, Linked
  <2>3. ASSUME NEW u \in User, NEW m \in Machine, ~(u = w /\ m = n)
        PROVE  /\ Has(u, m)' = Has(u, m) /\ Opens(u, m)' = Opens(u, m)
               /\ <<u, m>> \in grants' <=> <<u, m>> \in grants
               /\ ~HalfAdded(c, u, m)
    BY <1>4, <1>5, <1>7, <2>1, <2>3
       DEF AddGrant, AddGrantFail, Has, Opens, HalfAdded, About, For, rowVars
  <2>4. Opens(w, n)'
    BY <2>1 DEF Opens
  <2>5. w \in disturbed' \/ Has(w, n)' \/ HalfAdded(c, w, n)'
    <3>1. CASE AddGrant(c)
      BY <1>4, <3>1 DEF AddGrant, Has, About
    <3>2. CASE AddGrantFail(c)
      <4>1. CASE Again(c)
        BY <1>0, <1>5, <4>1, AgainKeeps DEF HalfAdded, About, For
      <4>2. CASE ~Again(c)
        BY <1>4, <3>2, <4>2 DEF AddGrantFail
      <4> QED BY <4>1, <4>2
    <3> QED BY <1>7, <3>1, <3>2
  <2>6. ASSUME NEW u \in User \ disturbed', NEW m \in Machine PROVE Agree(u, m)'
    <3>1. Agree(u, m)
      BY <1>3, <2>6 DEF GrantInv
    <3>2. CASE u = w /\ m = n
      BY <1>0, <1>2, <2>4, <2>5, <2>6, <3>1, <3>2, AgreeStays
    <3>3. CASE ~(u = w /\ m = n)
      BY <1>0, <1>2, <1>3, <2>3, <3>1, <3>3, AgreeStays
    <3> QED BY <3>2, <3>3
  <2> QED BY <1>1, <2>2, <2>6 DEF GrantInv
<1> QED BY <1>6, <1>7

(* A removal: the account or the permission goes, and then the row; other    *)
(* machines of the user are looked for again, the list is written back.      *)
LEMMA RemoveGrants ==
  ASSUME AccessInv, GrantInv, NEW c \in Admin,
         \/ RemoveCheck(c) \/ RemoveUnknown(c) \/ RemoveApply(c) \/ RemoveApplyFail(c)
         \/ RemoveRefused(c)
  PROVE  GrantInv'
<1> USE DEF AccessInv
<1>0. OnlyOf(c) /\ Op(c) = "remove"
  BY RemoveCheckStep, EndKeeps
  DEF RemoveCheck, RemoveUnknown, RemoveApply, RemoveApplyFail, RemoveRefused, At, Op
<1>1. \/ Ends(c)
      \/ /\ Op(c)' = Op(c) /\ request'[c].machine = request[c].machine
         /\ request'[c].user = request[c].user /\ request'[c].left = request[c].left
  <2>1. CASE RemoveCheck(c)
    <3>1. PICK m, u : request' = [request EXCEPT ![c].pc = "apply", ![c].users = assigned[m],
                                                 ![c].others = HasOther(u, m)]
      BY <2>1 DEF RemoveCheck
    <3>2. request[c] \in RequestType
      BY DEF AccessTypeOK
    <3> QED BY <3>1, <3>2 DEF AccessTypeOK, RequestType, Op
  <2>2. CASE ~RemoveCheck(c)
    BY <2>2, EndKeeps DEF RemoveUnknown, RemoveApply, RemoveApplyFail, RemoveRefused
  <2> QED BY <2>1, <2>2
<1>2. Single'
  BY <1>0, <1>1, SingleStays DEF GrantInv
<1>3. \A u, m : ~HalfAdded(c, u, m) /\ ~Dropping(c, m)
  BY <1>0 DEF HalfAdded, Dropping, At, Op
<1>4. disturbed \subseteq disturbed' /\ UNCHANGED <<machines, connections, stranded>>
  BY DEF RemoveCheck, RemoveUnknown, RemoveApply, RemoveApplyFail, RemoveRefused, rowVars,
     guacVars, leftVars
<1>5. PICK n \in Machine, w \in User : request[c].machine = {n} /\ request[c].user = {w}
  BY <1>0 DEF GrantInv, Single
<1>6. \A u \in User, m \in Machine : About(c, m) /\ For(c, u) <=> m = n /\ u = w
  BY <1>5 DEF About, For
<1>7. CASE RemoveCheck(c) \/ RemoveUnknown(c) \/ RemoveRefused(c)
  <2>1. UNCHANGED <<rowVars, guacVars>>
    BY <1>7 DEF RemoveCheck, RemoveUnknown, RemoveRefused
  <2>2. Linked'
    BY <2>1 DEF GrantInv, Linked, guacVars
  <2>3. ASSUME HalfRemoved(c, w, n), Has(w, n), w \notin disturbed'
        PROVE  HalfRemoved(c, w, n)'
    <3>1. CASE RemoveUnknown(c)
      BY <1>5, <2>3, <3>1 DEF RemoveUnknown, Has
    <3>2. CASE RemoveRefused(c)
      BY <1>5, <2>3, <3>2 DEF RemoveRefused
    <3>3. CASE RemoveCheck(c)
      <4>1. ~Finish(c)
        BY <3>3, RemoveCheckStep DEF Finish, Resting, AccessTypeOK
      <4> QED BY <1>1, <2>3, <4>1 DEF HalfRemoved, About, For, Ends
    <3> QED BY <1>7, <3>1, <3>2, <3>3
  <2>4. ASSUME NEW u \in User \ disturbed', NEW m \in Machine PROVE Agree(u, m)'
    <3>1. Agree(u, m) /\ Has(u, m)' = Has(u, m) /\ Opens(u, m)' = Opens(u, m)
          /\ grants' = grants
      BY <1>4, <2>1, <2>4 DEF GrantInv, Has, Opens, rowVars, guacVars
    <3>2. Has(u, m) /\ HalfRemoved(c, u, m) => HalfRemoved(c, u, m)'
      BY <1>6, <2>3, <2>4 DEF HalfRemoved
    <3> QED BY <1>0, <1>3, <1>4, <3>1, <3>2, AgreeStays
  <2> QED BY <1>2, <2>2, <2>4 DEF GrantInv
<1>8. CASE RemoveApply(c) \/ RemoveApplyFail(c)
  <2>1. RemoveInGuacamole(c)
    BY <1>8 DEF RemoveApply, RemoveApplyFail
  <2>2. /\ grants' \subseteq grants /\ <<w, n>> \notin grants'
        /\ \A u \in User, m \in Machine :
              u # w => /\ <<u, m>> \in grants' <=> <<u, m>> \in grants
                       /\ u \in accounts' <=> u \in accounts
        /\ request[c].others => /\ accounts' = accounts
                                /\ \A m \in Machine :
                                     m # n => (<<w, m>> \in grants' <=> <<w, m>> \in grants)
        /\ ~request[c].others => \A m \in Machine : <<w, m>> \notin grants'
    BY <1>5, <2>1 DEF RemoveInGuacamole, Revoked, WithoutUser
  <2>3. Linked'
    <3>1. \A u \in User, m \in Machine : <<u, m>> \in grants' => u \in accounts'
      BY <2>2 DEF GrantInv, Linked
    <3> QED BY <1>4, <2>2, <3>1 DEF GrantInv, Linked
  <2>4. w \notin disturbed' /\ ~request[c].others =>
           \A m \in Machine : m # n => ~Has(w, m)
    <3>1. Hasty(c) \subseteq disturbed' \/ w \in disturbed'
      BY <1>5, <1>8 DEF RemoveApply, RemoveApplyFail
    <3>2. ~request[c].others /\ HasOther(w, n) => w \in Hasty(c)
      BY <1>5 DEF Hasty
    <3> QED BY <3>1, <3>2 DEF HasOther, Has
  <2>5. ASSUME NEW u \in User \ disturbed', NEW m \in Machine, ~(u = w /\ m = n)
        PROVE  Has(u, m)' = Has(u, m) /\ ~HalfRemoved(c, u, m)
    <3>1. u \in assigned'[m] <=> u \in assigned[m]
      <4>1. CASE RemoveApply(c)
        <5>1. CASE m # n
          BY <1>5, <4>1, <5>1 DEF RemoveApply, About
        <5>2. CASE m = n /\ u # w
          <6>1. u \notin Overwritten(c, n)
            <7>1. u \in Overwritten(c, n) =>
                     u \in UNION {Overwritten(c, k) : k \in request[c].machine}
              BY <1>5
            <7> HIDE DEF Overwritten
            <7>2. u \notin (UNION {Overwritten(c, k) : k \in request[c].machine}) \ {w}
              BY <1>5, <2>5, <4>1 DEF RemoveApply
            <7> QED BY <5>2, <7>1, <7>2
          <6>2. assigned'[n] = request[c].users \ {w}
            BY <1>5, <4>1 DEF RemoveApply, About
          <6> QED BY <5>2, <6>1, <6>2 DEF Overwritten
        <5> QED BY <2>5, <5>1, <5>2
      <4>2. CASE RemoveApplyFail(c)
        BY <4>2 DEF RemoveApplyFail, rowVars
      <4> QED BY <1>8, <4>1, <4>2
    <3> QED BY <1>4, <1>6, <2>5, <3>1 DEF Has, HalfRemoved
  <2>6. w \in disturbed' \/ ~Has(w, n)' \/ HalfRemoved(c, w, n)'
    <3>1. CASE RemoveApply(c)
      BY <1>5, <3>1 DEF RemoveApply, Has, About
    <3>2. CASE RemoveApplyFail(c)
      <4>1. CASE Again(c)
        BY <1>0, <1>6, <4>1, AgainKeeps DEF HalfRemoved, About, For
      <4>2. CASE ~Again(c)
        BY <1>5, <3>2, <4>2 DEF RemoveApplyFail
      <4> QED BY <4>1, <4>2
    <3> QED BY <1>8, <3>1, <3>2
  <2>7. ASSUME NEW u \in User \ disturbed', NEW m \in Machine PROVE Agree(u, m)'
    <3>1. Agree(u, m)
      BY <1>4, <2>7 DEF GrantInv
    <3>2. CASE u = w /\ m = n
      BY <1>0, <2>2, <2>6, <2>7, <3>1, <3>2, AgreeStays
    <3>3. CASE ~(u = w /\ m = n)
      <4>1. Has(u, m) /\ Opens(u, m) => Opens(u, m)'
        BY <2>2, <2>4, <2>7, <3>3 DEF Opens
      <4>2. <<u, m>> \in grants' => <<u, m>> \in grants
        BY <2>2
      <4> QED BY <1>0, <1>3, <1>4, <2>5, <2>7, <3>1, <3>3, <4>1, <4>2, AgreeStays
    <3> QED BY <3>2, <3>3
  <2> QED BY <1>2, <2>3, <2>7 DEF GrantInv
<1> QED BY <1>7, <1>8

(* A login that fails names the user, if an earlier attempt got further.     *)
LEMMA LoginGrants ==
  ASSUME AccessInv, GrantInv, NEW c \in Admin, LoginFail(c)
  PROVE  GrantInv'
<1> USE DEF AccessInv
<1>0. OnlyOf(c) /\ Ends(c)
  BY EndKeeps DEF LoginFail
<1>1. Single'
  BY <1>0, SingleStays DEF GrantInv
<1>2. UNCHANGED <<rowVars, guacVars, stranded>> /\ disturbed \subseteq disturbed'
  BY DEF LoginFail
<1>3. Linked'
  BY <1>2 DEF GrantInv, Linked, guacVars
<1>4. ASSUME NEW u \in User \ disturbed', NEW m \in Machine PROVE Agree(u, m)'
  <2>1. Agree(u, m) /\ Has(u, m)' = Has(u, m) /\ Opens(u, m)' = Opens(u, m)
        /\ grants' = grants
    BY <1>2, <1>4 DEF GrantInv, Has, Opens, rowVars, guacVars
  <2>2. ~Dropping(c, m)
    BY DEF LoginFail, Dropping, At
  <2>3. /\ HalfRemoved(c, u, m) => HalfRemoved(c, u, m)'
        /\ HalfAdded(c, u, m) => HalfAdded(c, u, m)'
    <3>1. CASE Again(c)
      BY <3>1, AgainKeeps DEF HalfRemoved, HalfAdded, About, For
    <3>2. CASE ~Again(c)
      BY <1>4, <3>2 DEF LoginFail, HalfRemoved, HalfAdded, For
    <3> QED BY <3>1, <3>2
  <2> QED BY <1>0, <1>2, <2>1, <2>2, <2>3, AgreeStays
<1> QED BY <1>1, <1>3, <1>4 DEF GrantInv

(* Every step of the specification.                                         *)
LEMMA StepGrants ==
  AccessInv /\ GrantInv /\ [AccessNext]_accessVars => GrantInv'
<1> SUFFICES ASSUME AccessInv, GrantInv, [AccessNext]_accessVars PROVE GrantInv'
  OBVIOUS
<1>1. CASE UNCHANGED accessVars
  <2>1. /\ Single'
        /\ Linked'
    BY <1>1 DEF GrantInv, Single, Linked, Op, accessVars, rowVars, guacVars
  <2>2. \A u \in User, m \in Machine : Agree(u, m)' = Agree(u, m)
    BY <1>1 DEF Agree, Has, Opens, HalfRemoved, HalfAdded, Dropping, At, About, For, Op,
       accessVars, rowVars, guacVars, leftVars
  <2> QED BY <1>1, <2>1, <2>2 DEF GrantInv, accessVars, leftVars
<1>2. CASE AccessNext
  <2>1. PICK c \in Admin : AccessStep(c)
    BY <1>2 DEF AccessNext
  <2> QED BY <2>1, AskGrants, CreateGrants, DeleteGrants, UpdateGrants, AddGrants,
             RemoveGrants, LoginGrants
          DEF AccessStep, AskFor, AccessInv
<1> QED BY <1>1, <1>2

(* Who is assigned to a machine can open it and nobody else can, but while a *)
(* request about it is under way, for any number of requests at once, any    *)
(* attempts and failures: up to the users named in disturbed.               *)
THEOREM AccessStaysTogether == AccessSpec => []AccessAgrees
<1>1. AccessInit => AccessInv /\ GrantInv
  BY InitOwners, InitGrants
<1>2. AccessInv /\ GrantInv /\ [AccessNext]_accessVars => (AccessInv /\ GrantInv)'
  BY StepTypes, StepOwners, StepGrants DEF AccessInv
<1>3. AccessInv /\ GrantInv => AccessAgrees
  BY DEF GrantInv, AccessAgrees, Agree, Has, Opens, HalfRemoved, HalfAdded, Dropping, Doing,
         At, Op
<1> QED BY <1>1, <1>2, <1>3, PTL DEF AccessSpec
=============================================================================
