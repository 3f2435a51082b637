-------------------------- MODULE OpenWebUi_proofs --------------------------
(***************************************************************************)
(* What OpenWebUi does for every set of clients, LLMs and databases: its   *)
(* types, that a patch keeps what others wrote, that somebody can log in,  *)
(* and that the row lists the LLMs OpenWebUI was given.                    *)
(***************************************************************************)
EXTENDS OpenWebUi, TLAPS

(* What an operation can be in the middle of.                              *)
ShapeOf(o) ==
    /\ o.kind = "none" <=> o.pc = "idle"
    /\ o.act # "none" <=> o.pc \in {"record", "answered"}
    /\ o.pc \in {"start", "record", "answered"}
          => o.kind \in {"connect", "disconnect"}
    /\ o.pc = "call" => o.kind = "sync"
    /\ o.pc = "form" => o.kind \in KeycloakKinds
    /\ o.pc \in {"get", "put"}
          => o.kind \in VectorKinds \cup KeycloakKinds \cup {"repair"}
    /\ o.pc = "commit" => o.kind \in VectorKinds \cup KeycloakKinds
    /\ o.kind = "no_vectordb" => o.db = NoDb

(* Whose copy is fresh is about to replace the Deployment with it.         *)
FreshOf(c) == /\ op[c].copy = env
              /\ op[c].pc = "put" \/ op[c].act = "put"

TypeInv ==
    /\ TypeOK
    /\ \A c \in Client : ShapeOf(op[c])
    /\ \A c \in fresh : FreshOf(c)

(* One client's step, as Next has it.                                      *)
StepOf(c) == Request(c) \/ Handler(c) \/ Activity(c) \/ Die(c)

-----------------------------------------------------------------------------
(* Types.                                                                  *)

(* The records the operations are built from have their types.             *)
LEMMA Blank == /\ NoRow \in RowType
               /\ NoEnv \in EnvType
               /\ Idle \in OpType
               /\ ShapeOf(Idle)
  BY DEF NoRow, NoEnv, Idle, RowType, EnvType, OpType, ShapeOf, Settled,
         Running, Kinds, LlmKinds, VectorKinds, KeycloakKinds, HandlerPcs,
         ActivityPcs

(* The first state is of the invariant.                                    *)
LEMMA InitTypes == Init => TypeInv
<1> SUFFICES ASSUME Init PROVE TypeInv
  OBVIOUS
<1>1. row \in RowType
  BY Blank DEF Init, RowType, Settled, Running, NoRow
<1>2. env \in EnvType
  BY Blank DEF Init, EnvType, NoEnv
<1>3. TypeOK
  BY <1>1, <1>2, Blank DEF Init, TypeOK
<1> QED BY <1>3, Blank DEF Init, TypeInv

(* What two operations disturb is one of the aspects.                      *)
LEMMA AspectsOfKinds ==
  ASSUME NEW k, NEW k2
  PROVE  /\ Own(k) \subseteq Aspects
         /\ Disturbed(k, k2) \subseteq Aspects
<1>1. \A j : Own(j) \subseteq Aspects
  BY DEF Own, Aspects
<1> QED BY <1>1 DEF Disturbed, Aspects

(* The aspects of the kinds.                                               *)
LEMMA OwnKinds ==
  /\ \A k \in VectorKinds : Own(k) = {"vdb"}
  /\ \A k \in KeycloakKinds : Own(k) = {"kc", "form"}
  /\ \A k \in LlmKinds : Own(k) = {"llm"}
  /\ Own("repair") = {} /\ Own("none") = {}
  /\ \A k \in Kinds \cup {"none"} :
       k \notin VectorKinds \cup KeycloakKinds \cup LlmKinds => Own(k) = {}
  BY DEF Own, VectorKinds, KeycloakKinds, LlmKinds, Kinds

(* What a request has read of the row is a row.                            *)
LEMMA SeenType ==
  ASSUME TypeOK, NEW k
  PROVE  Seen(k) \in RowType
<1>1. row \in RowType
  BY DEF TypeOK
<1>2. /\ (IF k \in {"sync", "repair"} THEN {} ELSE row.linked) \in SUBSET Llm
      /\ (k \in LlmKinds /\ row.err) \in BOOLEAN
      /\ (IF k \in VectorKinds THEN row.vdb ELSE NoDb) \in VectorDb \cup {NoDb}
      /\ (k \in KeycloakKinds /\ row.kc) \in BOOLEAN
  BY <1>1 DEF RowType
<1> QED BY <1>2 DEF Seen, NoRow, RowType, Settled

(* A request of kind k enters: its operation, and what it does to others.  *)
LEMMA EnterEffect ==
  ASSUME TypeInv, NEW c \in Client, NEW k \in Kinds, NEW pc \in HandlerPcs,
         NEW target \in SUBSET Llm, NEW db \in VectorDb \cup {NoDb},
         Enter(c, k, pc, target, db)
  PROVE  /\ op[c].kind = "none"
         /\ UNCHANGED <<row, env, config, fresh>>
         /\ op' \in [Client -> OpType]
         /\ upset' = upset \cup UNION {Disturbed(k, op[d].kind) : d \in Client}
         /\ upset' \subseteq Aspects \cup {"stuck"}
         /\ op'[c].kind = k /\ op'[c].pc = pc /\ op'[c].act = "none"
         /\ op'[c].snap = Seen(k) /\ op'[c].target = target
         /\ op'[c].db = db
         /\ op'[c].clean <=>
              (UNION {Disturbed(k, op[d].kind) : d \in Client}) \cap Own(k) = {}
         /\ \A d \in Client \ {c} :
               /\ op'[d] = [op[d] EXCEPT !.clean = op'[d].clean]
               /\ op'[d].clean <=> (op[d].clean /\
                    Disturbed(k, op[d].kind) \cap Own(op[d].kind) = {})
<1> DEFINE all == UNION {Disturbed(k, op[d].kind) : d \in Client}
<1>1. [Idle EXCEPT !.kind = k, !.pc = pc, !.snap = Seen(k), !.target = target,
                   !.db = db, !.clean = all \cap Own(k) = {}] \in OpType
  BY Blank, SeenType DEF TypeInv, OpType, Idle
<1>2. ASSUME NEW d \in Client
      PROVE  [op[d] EXCEPT !.clean = @ /\
                Disturbed(k, op[d].kind) \cap Own(op[d].kind) = {}] \in OpType
  BY ZenonT(60) DEF TypeInv, TypeOK, OpType
<1>3. op' \in [Client -> OpType]
  BY <1>1, <1>2 DEF Enter
<1>4. upset' = upset \cup all
  BY DEF Enter
<1>5. all \subseteq Aspects
  BY AspectsOfKinds
<1>6. upset' \subseteq Aspects \cup {"stuck"}
  BY <1>4, <1>5 DEF TypeInv, TypeOK
<1>7. /\ op'[c] = [Idle EXCEPT !.kind = k, !.pc = pc, !.snap = Seen(k),
                     !.target = target, !.db = db, !.clean = all \cap Own(k) = {}]
      /\ \A d \in Client \ {c} :
            op'[d] = [op[d] EXCEPT !.clean = @ /\
                        Disturbed(k, op[d].kind) \cap Own(op[d].kind) = {}]
  BY DEF Enter
<1>8. ASSUME NEW d \in Client \ {c}
      PROVE  /\ op'[d] = [op[d] EXCEPT !.clean = op'[d].clean]
             /\ op'[d].clean <=> (op[d].clean /\
                    Disturbed(k, op[d].kind) \cap Own(op[d].kind) = {})
  <2> DEFINE b == op[d].clean /\ Disturbed(k, op[d].kind) \cap Own(op[d].kind) = {}
  <2>1. op'[d] = [op[d] EXCEPT !.clean = b]
    BY <1>7
  <2>2. op[d] \in OpType
    BY DEF TypeInv, TypeOK
  <2>3. b \in BOOLEAN
    OBVIOUS
  <2> HIDE DEF b
  <2>4. op'[d].clean = b /\ op'[d] = [op[d] EXCEPT !.clean = op'[d].clean]
    BY <2>1, <2>2 DEF OpType
  <2> QED BY <2>4, <2>3 DEF b
<1>9. /\ op[c].kind = "none"
      /\ UNCHANGED <<row, env, config, fresh>>
  BY DEF Enter
<1>10. /\ op'[c].kind = k /\ op'[c].pc = pc /\ op'[c].act = "none"
       /\ op'[c].snap = Seen(k) /\ op'[c].target = target
       /\ op'[c].db = db
       /\ op'[c].clean <=> (all \cap Own(k) = {})
  BY <1>7 DEF Idle
<1>11. \A d \in Client \ {c} :
         /\ op'[d] = [op[d] EXCEPT !.clean = op'[d].clean]
         /\ op'[d].clean <=> (op[d].clean /\
                Disturbed(k, op[d].kind) \cap Own(op[d].kind) = {})
  BY <1>8
<1> QED BY <1>3, <1>4, <1>6, <1>9, <1>10, <1>11

(* Every request enters, with a kind and a place to go on that fit.        *)
LEMMA RequestEnters ==
  ASSUME TypeInv, NEW c \in Client, Request(c)
  PROVE  \E k \in Kinds, pc \in HandlerPcs \ {"commit"},
            target \in SUBSET Llm, db \in VectorDb \cup {NoDb} :
           /\ Enter(c, k, pc, target, db)
           /\ pc \in {"start", "call", "form", "get"}
           /\ pc = "start" => k \in {"connect", "disconnect"}
           /\ pc = "call" => k = "sync" /\ target = row.linked
           /\ pc = "form" => k \in KeycloakKinds
           /\ pc = "get" => k \in VectorKinds \cup {"repair"}
           /\ k = "sync" => pc = "call"
           /\ k \in KeycloakKinds => pc = "form"
           /\ k = "no_vectordb" => db = NoDb
<1>2. row.linked \in SUBSET Llm
  BY DEF TypeInv, TypeOK, RowType
<1> USE DEF Kinds, LlmKinds, VectorKinds, KeycloakKinds, HandlerPcs
<1>3. CASE ConnectLlm(c)
  BY <1>2, <1>3 DEF ConnectLlm
<1>4. CASE DisconnectLlm(c)
  BY <1>2, <1>4 DEF DisconnectLlm
<1>5. CASE SyncLlm(c)
  BY <1>2, <1>5 DEF SyncLlm
<1>6. CASE ConnectVectorDb(c) \/ DisconnectVectorDb(c)
  BY <1>6 DEF ConnectVectorDb, DisconnectVectorDb
<1>7. CASE ConnectKeycloak(c) \/ DisconnectKeycloak(c)
  BY <1>7 DEF ConnectKeycloak, DisconnectKeycloak
<1>8. CASE RepairDatabaseUrl(c)
  BY <1>8 DEF RepairDatabaseUrl
<1> QED BY <1>3, <1>4, <1>5, <1>6, <1>7, <1>8 DEF Request

(* A request enters with the types and the shape it needs.                 *)
LEMMA RequestTypes ==
  ASSUME TypeInv, NEW c \in Client, Request(c), UNCHANGED asks
  PROVE  TypeInv'
<1>1. ASSUME NEW k \in Kinds, NEW pc \in HandlerPcs,
             NEW target \in SUBSET Llm, NEW db \in VectorDb \cup {NoDb},
             Enter(c, k, pc, target, db),
             pc \in {"start", "call", "form", "get"},
             pc = "start" => k \in {"connect", "disconnect"},
             pc = "call" => k = "sync",
             pc = "form" => k \in KeycloakKinds,
             pc = "get" => k \in VectorKinds \cup {"repair"},
             k = "no_vectordb" => db = NoDb
      PROVE  TypeInv'
  <2>0. /\ op[c].kind = "none"
        /\ UNCHANGED <<row, env, config, fresh>>
        /\ op' \in [Client -> OpType]
        /\ upset' \subseteq Aspects \cup {"stuck"}
        /\ op'[c].kind = k /\ op'[c].pc = pc /\ op'[c].act = "none"
        /\ op'[c].db = db
    BY <1>1, EnterEffect, SMTT(30)
  <2>1. TypeOK'
    BY <2>0 DEF TypeInv, TypeOK
  <2>2. ShapeOf(op'[c])
    BY <1>1, <2>0 DEF ShapeOf, Kinds, LlmKinds, VectorKinds, KeycloakKinds
  <2>3. ASSUME NEW d \in Client \ {c}
        PROVE  ShapeOf(op'[d])
    <3>1. op'[d] = [op[d] EXCEPT !.clean = op'[d].clean]
      BY <1>1, EnterEffect
    <3>2. op[d] \in OpType /\ ShapeOf(op[d])
      BY DEF TypeInv, TypeOK
    <3> QED BY <3>1, <3>2 DEF ShapeOf, OpType
  <2>4. ASSUME NEW d \in fresh'
        PROVE  FreshOf(d)'
    <3>1. d \in fresh /\ FreshOf(d) /\ d \in Client /\ ShapeOf(op[d])
      BY <1>1, EnterEffect DEF TypeInv, TypeOK
    <3>2. d # c
      BY <2>0, <3>1 DEF FreshOf, ShapeOf
    <3>3. op'[d] = [op[d] EXCEPT !.clean = op'[d].clean] /\ env' = env
      BY <1>1, <3>1, <3>2, EnterEffect
    <3>4. op[d] \in OpType
      BY <3>1 DEF TypeInv, TypeOK
    <3> QED BY <3>1, <3>3, <3>4 DEF FreshOf, OpType
  <2> QED BY <2>1, <2>2, <2>3, <2>4 DEF TypeInv
<1> QED BY <1>1, RequestEnters

(* A step that changes the operation of c, but not the pod, keeps what is  *)
(* said of the operations and of the fresh copies.                         *)
LEMMA OpChanges ==
  ASSUME TypeInv, NEW c \in Client, NEW o \in OpType, ShapeOf(o),
         op' = [op EXCEPT ![c] = o], env' = env,
         fresh' \subseteq fresh \cup {c},
         c \in fresh' => o.copy = env /\ (o.pc = "put" \/ o.act = "put")
  PROVE  /\ op' \in [Client -> OpType]
         /\ \A d \in Client : ShapeOf(op'[d])
         /\ \A d \in fresh' : FreshOf(d)'
         /\ fresh' \subseteq Client
<1>1. op' \in [Client -> OpType]
  BY DEF TypeInv, TypeOK
<1>2. op'[c] = o /\ \A d \in Client \ {c} : op'[d] = op[d]
  BY DEF TypeInv, TypeOK
<1>3. \A d \in fresh' : FreshOf(d)'
  BY <1>2 DEF TypeInv, TypeOK, FreshOf
<1> QED BY <1>1, <1>2, <1>3 DEF TypeInv, TypeOK

(* A step of c that replaces the Deployment leaves no copy fresh.          *)
LEMMA OpReplaces ==
  ASSUME TypeInv, NEW c \in Client, NEW o \in OpType, ShapeOf(o),
         op' = [op EXCEPT ![c] = o], fresh' = {}
  PROVE  /\ op' \in [Client -> OpType]
         /\ \A d \in Client : ShapeOf(op'[d])
         /\ \A d \in fresh' : FreshOf(d)'
         /\ fresh' \subseteq Client
<1>1. op'[c] = o /\ \A d \in Client \ {c} : op'[d] = op[d]
  BY DEF TypeInv, TypeOK
<1> QED BY <1>1 DEF TypeInv, TypeOK

(* What a patch writes is an environment, and DATABASE_URL stays in it.    *)
LEMMA PatchTypes ==
  ASSUME TypeInv, NEW c \in Client
  PROVE  /\ Patched(op[c]) \in EnvType
         /\ op[c].copy.dburl => Patched(op[c]).dburl
<1> DEFINE o == op[c]
<1>1. o \in OpType
  BY DEF TypeInv, TypeOK
<1>2. /\ o.copy \in EnvType /\ o.snap \in RowType /\ o.target \in SUBSET Llm
      /\ o.db \in VectorDb \cup {NoDb}
  BY <1>1 DEF OpType
<1> DEFINE v == CASE o.kind = "vectordb" -> o.db
                  [] o.kind = "no_vectordb" -> NoDb
                  [] OTHER -> o.copy.vdb
           k == (o.copy.kc \/ o.kind = "keycloak") /\ o.kind # "no_keycloak"
           u == o.copy.dburl \/ o.kind \in VectorKinds \cup {"repair"}
           l == CASE o.kind \in LlmKinds -> o.target
                  [] o.kind = "repair" -> o.copy.llm
                  [] OTHER -> IF o.snap.linked = {} THEN o.copy.llm
                              ELSE o.snap.linked
<1>3. v \in VectorDb \cup {NoDb}
  BY <1>2 DEF EnvType
<1>4. k \in BOOLEAN /\ u \in BOOLEAN
  OBVIOUS
<1>5. l \in SUBSET Llm
  BY <1>2 DEF EnvType, RowType
<1>6. Patched(o) = [o.copy EXCEPT !.vdb = v, !.kc = k, !.dburl = u, !.llm = l]
  BY DEF Patched
<1> HIDE DEF v, k, u, l
<1>7. Patched(o) \in EnvType /\ Patched(o).dburl = u
  BY <1>2, <1>3, <1>4, <1>5, <1>6 DEF EnvType
<1> QED BY <1>7 DEF u

(* A request that leaves, or goes on with another pc.                      *)
LEMMA LeaveAndMove ==
  ASSUME TypeInv, NEW c \in Client
  PROVE  /\ op[c] \in OpType /\ ShapeOf(op[c])
         /\ Idle \in OpType /\ ShapeOf(Idle)
         /\ \A pc \in HandlerPcs : [op[c] EXCEPT !.pc = pc] \in OpType
         /\ \A pc \in HandlerPcs : [op[c] EXCEPT !.pc = pc] =
               [op[c] EXCEPT !.pc = pc, !.act = op[c].act]
         /\ \A pc \in HandlerPcs, a \in ActivityPcs :
               [op[c] EXCEPT !.pc = pc, !.act = a] \in OpType
         /\ \A a \in ActivityPcs : [op[c] EXCEPT !.act = a] \in OpType
         /\ \A a \in ActivityPcs, e \in EnvType :
               [op[c] EXCEPT !.act = a, !.copy = e] \in OpType
         /\ \A pc \in HandlerPcs, e \in EnvType, b \in BOOLEAN :
               /\ [op[c] EXCEPT !.pc = pc, !.copy = e] \in OpType
               /\ [op[c] EXCEPT !.pc = pc, !.copy = e, !.clean = b] \in OpType
  BY Blank DEF TypeInv, TypeOK, OpType

(* What c does not change has its types afterwards.                        *)
LEMMA StoresTypes ==
  ASSUME TypeInv
  PROVE  /\ row \in RowType /\ row.linked \in SUBSET Llm
         /\ row.vdb \in VectorDb \cup {NoDb} /\ row.kc \in BOOLEAN
         /\ env \in EnvType
         /\ config \in [llm : SUBSET Llm, form : BOOLEAN]
         /\ config.llm \in SUBSET Llm /\ config.form \in BOOLEAN
         /\ NoEnv \in EnvType
         /\ upset \subseteq Aspects \cup {"stuck"}
         /\ \A c \in Client : /\ op[c].target \in SUBSET Llm
                              /\ op[c].snap \in RowType
                              /\ op[c].db \in VectorDb \cup {NoDb}
                              /\ op[c].kind \in Kinds \cup {"none"}
  BY Blank DEF TypeInv, TypeOK, RowType, OpType

(* The requests' own steps keep the types.                                 *)
LEMMA HandlerTypes ==
  ASSUME TypeInv, NEW c \in Client, Handler(c), UNCHANGED asks
  PROVE  TypeInv'
<1> DEFINE o == op[c]
           Ops == /\ op' \in [Client -> OpType]
                  /\ \A d \in Client : ShapeOf(op'[d])
                  /\ \A d \in fresh' : FreshOf(d)'
                  /\ fresh' \subseteq Client
<1>a. /\ c \in fresh => FreshOf(c)
      /\ ShapeOf(o)
      /\ o \in OpType
  BY DEF TypeInv, TypeOK
<1>b. ASSUME Ops, row' \in RowType, env' \in EnvType,
             config' \in [llm : SUBSET Llm, form : BOOLEAN],
             upset' \subseteq Aspects \cup {"stuck"}
      PROVE  TypeInv'
  BY <1>b DEF TypeInv, TypeOK
<1>c. ASSUME NEW p \in OpType, ShapeOf(p), op' = [op EXCEPT ![c] = p],
             env' = env, fresh' \subseteq fresh \cup {c},
             c \in fresh' => p.copy = env /\ (p.pc = "put" \/ p.act = "put")
      PROVE  Ops
  BY <1>c, OpChanges
<1>d. ASSUME NEW p \in OpType, ShapeOf(p), op' = [op EXCEPT ![c] = p],
             fresh' = {}
      PROVE  Ops
  BY <1>d, OpReplaces
<1>e. \A p \in HandlerPcs : op' = [op EXCEPT ![c].pc = p]
                            => op' = [op EXCEPT ![c] = [o EXCEPT !.pc = p]]
  BY DEF TypeInv, TypeOK
<1> HIDE DEF Ops
<1>1. CASE Resync(c)
  <2>1. Ops
    BY <1>1, <1>a, <1>c, LeaveAndMove DEF Resync, Leave, FreshOf, ShapeOf
  <2>2. config' \in [llm : SUBSET Llm, form : BOOLEAN]
    BY <1>1, StoresTypes DEF Resync
  <2> QED BY <1>1, <2>1, <2>2, <1>b, StoresTypes DEF Resync
<1>2. CASE StartWorkflow(c)
  <2>1. c \notin fresh
    BY <1>2, <1>a DEF StartWorkflow, FreshOf, ShapeOf
  <2>2. CASE Leave(c)
    BY <1>2, <2>2, <2>1, <1>c, <1>b, LeaveAndMove, StoresTypes
    DEF StartWorkflow, Leave
  <2>3. ASSUME NEW pc \in {"record", "answered"},
               op' = [op EXCEPT ![c].pc = pc, ![c].act = "sync"]
        PROVE  TypeInv'
    <3>1. op' = [op EXCEPT ![c] = [o EXCEPT !.pc = pc, !.act = "sync"]]
      BY <2>3 DEF TypeInv, TypeOK
    <3>2. /\ [o EXCEPT !.pc = pc, !.act = "sync"] \in OpType
          /\ pc \in HandlerPcs
      BY LeaveAndMove DEF HandlerPcs, ActivityPcs
    <3>3. ShapeOf([o EXCEPT !.pc = pc, !.act = "sync"])
      BY <1>2, <1>a DEF StartWorkflow, ShapeOf, OpType
    <3>4. Ops
      BY <1>2, <2>1, <3>1, <3>2, <3>3, <1>c DEF StartWorkflow
    <3> QED BY <1>2, <3>4, <1>b, StoresTypes DEF StartWorkflow
  <2> QED BY <1>2, <2>2, <2>3 DEF StartWorkflow
<1>3. CASE Record(c)
  <2>1. c \in fresh => FreshOf(c)
    BY <1>a
  <2>2. row' \in RowType
    <3>1. Written(o.target, o.snap.linked, row.linked) \in SUBSET Llm
      BY StoresTypes DEF Written
    <3>2. Written(FALSE, o.snap.err, row.err) \in BOOLEAN
      BY StoresTypes DEF Written, RowType
    <3> QED BY <1>3, <3>1, <3>2, StoresTypes DEF Record, RowType, Running
  <2>3. upset' \subseteq Aspects \cup {"stuck"}
    BY <1>3, StoresTypes DEF Record
  <2>4. CASE o.act = "over" /\ Leave(c)
    <3>1. c \notin fresh
      BY <1>3, <2>4, <1>a DEF Record, FreshOf
    <3>2. Ops
      BY <1>3, <2>4, <3>1, <1>c, LeaveAndMove DEF Record, Leave
    <3> QED BY <1>3, <2>2, <2>3, <3>2, <1>b, StoresTypes DEF Record
  <2>5. CASE o.act # "over" /\ Move(c, "answered")
    <3> DEFINE p == [o EXCEPT !.pc = "answered"]
    <3>1. p \in OpType /\ op' = [op EXCEPT ![c] = p]
      BY <2>5, <1>e, LeaveAndMove DEF Move, HandlerPcs
    <3>2. ShapeOf(p)
      BY <1>3, <1>a DEF Record, ShapeOf, OpType
    <3>3. c \in fresh => p.copy = env /\ p.act = "put"
      BY <1>3, <1>a, LeaveAndMove DEF Record, FreshOf, OpType
    <3>4. Ops
      BY <1>3, <3>1, <3>2, <3>3, <1>c DEF Record
    <3> QED BY <1>3, <2>2, <2>3, <3>4, <1>b, StoresTypes DEF Record
  <2> QED BY <1>3, <2>4, <2>5 DEF Record
<1>4. CASE KeycloakForm(c)
  <2>1. c \notin fresh
    BY <1>4, <1>a DEF KeycloakForm, ClientRefused, CaCertificate, FreshOf, ShapeOf
  <2>2. config' \in [llm : SUBSET Llm, form : BOOLEAN]
    BY <1>4, StoresTypes DEF KeycloakForm, ClientRefused, CaCertificate
  <2>3. fresh' \subseteq fresh
    BY <1>4 DEF KeycloakForm, ClientRefused, CaCertificate
  <2>4. CASE Leave(c)
    <3>1. Ops
      BY <1>4, <2>4, <2>1, <2>3, <1>c, LeaveAndMove DEF KeycloakForm,
      ClientRefused, CaCertificate, Leave
    <3> QED BY <1>4, <3>1, <2>2, <1>b, StoresTypes DEF KeycloakForm,
    ClientRefused, CaCertificate
  <2>5. CASE Move(c, "get")
    <3> DEFINE p == [o EXCEPT !.pc = "get"]
    <3>1. p \in OpType /\ op' = [op EXCEPT ![c] = p]
      BY <2>5, <1>e, LeaveAndMove DEF Move, HandlerPcs
    <3>2. ShapeOf(p)
      BY <1>4, <1>a DEF KeycloakForm, ClientRefused, CaCertificate, ShapeOf,
                        OpType, KeycloakKinds, VectorKinds
    <3>3. Ops
      BY <1>4, <2>1, <2>3, <3>1, <3>2, <1>c DEF KeycloakForm, ClientRefused,
                                                CaCertificate
    <3> QED BY <1>4, <3>3, <2>2, <1>b, StoresTypes DEF KeycloakForm,
    ClientRefused, CaCertificate
  <2> QED BY <1>4, <2>4, <2>5 DEF KeycloakForm, ClientRefused, CaCertificate
<1>5. CASE Get(c)
  <2> DEFINE p == [o EXCEPT !.pc = "put", !.copy = env]
  <2>1. p \in OpType
    BY LeaveAndMove, StoresTypes DEF HandlerPcs
  <2>2. ShapeOf(p) /\ p.copy = env /\ p.pc = "put"
    BY <1>5, <1>a DEF Get, ShapeOf, OpType
  <2>3. Ops
    BY <1>5, <2>1, <2>2, <1>c DEF Get, ReadDeployment
  <2> QED BY <1>5, <2>3, <1>b, StoresTypes DEF Get, ReadDeployment
<1>6. ASSUME NEW a \in BOOLEAN, PatchFails(c, a), o.pc \in {"get", "put"},
             c \notin fresh', fresh' \subseteq fresh,
             env' = env \/ fresh' = {}
      PROVE  Ops /\ upset' \subseteq Aspects \cup {"stuck"}
  <2>1. upset' \subseteq Aspects \cup {"stuck"}
    BY <1>6, StoresTypes, AspectsOfKinds DEF PatchFails
  <2>2. CASE Leave(c)
    BY <1>6, <2>1, <2>2, <1>c, <1>d, LeaveAndMove DEF Leave
  <2>3. CASE o.kind = "no_vectordb"
    <3> DEFINE p == [o EXCEPT !.pc = "commit", !.copy = NoEnv, !.clean = FALSE]
    <3>1. p \in OpType
      BY LeaveAndMove, StoresTypes DEF HandlerPcs
    <3>2. ShapeOf(p)
      BY <1>6, <2>3, <1>a DEF ShapeOf, OpType, VectorKinds
    <3>3. op' = [op EXCEPT ![c] = p]
      BY <1>6, <2>3 DEF PatchFails, TypeInv, TypeOK
    <3> QED BY <1>6, <2>1, <3>1, <3>2, <3>3, <1>c, <1>d
  <2> QED BY <1>6, <2>2, <2>3 DEF PatchFails
<1>7. CASE Put(c)
  <2>1. env' \in EnvType /\ fresh' = {}
    BY <1>7, PatchTypes DEF Put, Replace
  <2>2. Ops /\ upset' \subseteq Aspects \cup {"stuck"}
    <3>1. CASE PatchFails(c, TRUE)
      BY <1>7, <3>1, <2>1, <1>6 DEF Put
    <3>2. CASE Leave(c) /\ UNCHANGED upset
      BY <3>2, <2>1, <1>d, LeaveAndMove, StoresTypes DEF Leave
    <3>3. CASE /\ o.kind # "repair" /\ UNCHANGED upset
               /\ op' = [op EXCEPT ![c].pc = "commit", ![c].copy = NoEnv]
      <4> DEFINE p == [o EXCEPT !.pc = "commit", !.copy = NoEnv]
      <4>1. p \in OpType
        BY LeaveAndMove, StoresTypes DEF HandlerPcs
      <4>2. ShapeOf(p)
        BY <1>7, <3>3, <1>a DEF Put, ShapeOf, OpType
      <4>3. op' = [op EXCEPT ![c] = p]
        BY <3>3 DEF TypeInv, TypeOK
      <4> QED BY <3>3, <2>1, <4>1, <4>2, <4>3, <1>d, StoresTypes
    <3> QED BY <1>7, <3>1, <3>2, <3>3 DEF Put
  <2> QED BY <1>7, <2>1, <2>2, <1>b, StoresTypes DEF Put
<1>8. CASE Refused(c)
  <2>1. Ops /\ upset' \subseteq Aspects \cup {"stuck"}
    BY <1>8, <1>6 DEF Refused
  <2> QED BY <1>8, <2>1, <1>b, StoresTypes DEF Refused
<1>9. CASE Commit(c)
  <2>1. c \notin fresh
    BY <1>9, <1>a DEF Commit, FreshOf, ShapeOf
  <2>2. Ops
    BY <1>9, <2>1, <1>c, LeaveAndMove DEF Commit, Leave
  <2>3. row' \in RowType
    <3>1. Written(o.db, o.snap.vdb, row.vdb) \in VectorDb \cup {NoDb}
      BY StoresTypes DEF Written
    <3>2. Written(o.kind = "keycloak", o.snap.kc, row.kc) \in BOOLEAN
      BY StoresTypes DEF Written
    <3> QED BY <1>9, <3>1, <3>2, StoresTypes DEF Commit, RowType
  <2>4. upset' \subseteq Aspects \cup {"stuck"}
    BY <1>9, StoresTypes DEF Commit, Aspects
  <2> QED BY <1>9, <2>2, <2>3, <2>4, <1>b, StoresTypes DEF Commit
<1> QED BY <1>1, <1>2, <1>3, <1>4, <1>5, <1>7, <1>8, <1>9 DEF Handler

(* The activities keep the types.                                          *)
LEMMA ActivityTypes ==
  ASSUME TypeInv, NEW c \in Client, Activity(c), UNCHANGED asks
  PROVE  TypeInv'
<1> DEFINE o == op[c]
           Ops == /\ op' \in [Client -> OpType]
                  /\ \A d \in Client : ShapeOf(op'[d])
                  /\ \A d \in fresh' : FreshOf(d)'
                  /\ fresh' \subseteq Client
           At(a) == [o EXCEPT !.act = a]
           Cleared(a) == [o EXCEPT !.act = a, !.copy = NoEnv]
<1>a. /\ c \in fresh => FreshOf(c)
      /\ ShapeOf(o)
      /\ o \in OpType
  BY DEF TypeInv, TypeOK
<1>b. ASSUME Ops, row' \in RowType, env' \in EnvType,
             config' \in [llm : SUBSET Llm, form : BOOLEAN],
             upset' \subseteq Aspects \cup {"stuck"}
      PROVE  TypeInv'
  BY <1>b DEF TypeInv, TypeOK
<1>c. ASSUME NEW p \in OpType, ShapeOf(p), op' = [op EXCEPT ![c] = p],
             env' = env, fresh' \subseteq fresh \cup {c},
             c \in fresh' => p.copy = env /\ (p.pc = "put" \/ p.act = "put")
      PROVE  Ops
  BY <1>c, OpChanges
<1>d. ASSUME NEW p \in OpType, ShapeOf(p), op' = [op EXCEPT ![c] = p],
             fresh' = {}
      PROVE  Ops
  BY <1>d, OpReplaces
<1>e. \A a \in ActivityPcs :
         /\ ActivityAt(c, a) => op' = [op EXCEPT ![c] = At(a)]
         /\ op' = [op EXCEPT ![c].act = a, ![c].copy = NoEnv]
              => op' = [op EXCEPT ![c] = Cleared(a)]
  BY DEF TypeInv, TypeOK, ActivityAt
<1>f. o.pc \in {"record", "answered"} \/ o.act = "none"
  BY <1>a DEF ShapeOf
<1>g. \A a \in ActivityPcs \ {"none"} :
         o.act # "none" => At(a) \in OpType /\ ShapeOf(At(a))
  <2> SUFFICES ASSUME NEW a \in ActivityPcs \ {"none"}, o.act # "none"
               PROVE  At(a) \in OpType /\ ShapeOf(At(a))
    OBVIOUS
  <2>1. At(a) \in OpType
    BY LeaveAndMove
  <2>2. ShapeOf(At(a))
    BY <1>a DEF ShapeOf, OpType
  <2> QED BY <2>1, <2>2
<1>h. \A a \in ActivityPcs \ {"none"} :
         o.act # "none" => Cleared(a) \in OpType /\ ShapeOf(Cleared(a))
  <2> SUFFICES ASSUME NEW a \in ActivityPcs \ {"none"}, o.act # "none"
               PROVE  Cleared(a) \in OpType /\ ShapeOf(Cleared(a))
    OBVIOUS
  <2>1. Cleared(a) \in OpType
    BY LeaveAndMove, StoresTypes
  <2>2. ShapeOf(Cleared(a))
    BY <1>a DEF ShapeOf, OpType
  <2> QED BY <2>1, <2>2
<1>i. ASSUME o.act # "none", c \notin fresh, ActivityEnds(c), env' = env,
             fresh' = fresh
      PROVE  Ops
  <2>1. CASE Leave(c)
    BY <1>i, <2>1, <1>c, LeaveAndMove DEF Leave
  <2>2. CASE ActivityAt(c, "over")
    BY <1>i, <2>2, <1>c, <1>e, <1>g DEF ActivityPcs
  <2> QED BY <1>i, <2>1, <2>2 DEF ActivityEnds
<1>j. o.act \notin {"none", "put"} => c \notin fresh
  BY <1>a DEF FreshOf, ShapeOf
<1> HIDE DEF Ops, At, Cleared
<1>1. CASE SyncConfig(c) \/ Rollout(c)
  <2>1. PICK a \in {"get", "save"} : ActivityAt(c, a)
    BY <1>1 DEF SyncConfig, Rollout
  <2>2. Ops
    BY <1>1, <2>1, <1>c, <1>e, <1>g, <1>j
    DEF SyncConfig, Rollout, ActivityPcs
  <2>3. config' \in [llm : SUBSET Llm, form : BOOLEAN]
    BY <1>1, StoresTypes DEF SyncConfig, Rollout
  <2> QED BY <1>1, <2>2, <2>3, <1>b, StoresTypes DEF SyncConfig, Rollout
<1>2. CASE ActivityGet(c)
  <2> DEFINE p == [o EXCEPT !.act = "put", !.copy = env]
  <2>1. p \in OpType /\ p.copy = env /\ p.act = "put"
    BY <1>a, StoresTypes DEF OpType, ActivityPcs
  <2>2. ShapeOf(p)
    BY <1>2, <1>a DEF ActivityGet, ShapeOf, OpType
  <2>3. Ops
    BY <1>2, <2>1, <2>2, <1>c DEF ActivityGet, ReadDeployment
  <2> QED BY <1>2, <2>3, <1>b, StoresTypes DEF ActivityGet, ReadDeployment
<1>3. CASE ActivityPut(c)
  <2>1. env' \in EnvType /\ fresh' = {}
    BY <1>3, PatchTypes DEF ActivityPut, Replace
  <2>2. Ops
    <3>1. op' = [op EXCEPT ![c] = Cleared("rollout")] /\ o.act # "none"
      BY <1>3, <1>e DEF ActivityPut, ActivityPcs
    <3>2. Cleared("rollout") \in OpType /\ ShapeOf(Cleared("rollout"))
      BY <3>1, <1>h DEF ActivityPcs
    <3> QED BY <2>1, <3>1, <3>2, <1>d
  <2> QED BY <1>3, <2>1, <2>2, <1>b, StoresTypes DEF ActivityPut
<1>4. CASE Raises(c)
  <2>1. Ops
    <3>1. op' = [op EXCEPT ![c] = Cleared("fail")] /\ o.act # "none"
      BY <1>4, <1>e DEF Raises, ActivityPcs
    <3>2. Cleared("fail") \in OpType /\ ShapeOf(Cleared("fail"))
      BY <3>1, <1>h DEF ActivityPcs
    <3>3. env' = env /\ fresh' \subseteq fresh \ {c}
      BY <1>4 DEF Raises
    <3> QED BY <3>1, <3>2, <3>3, <1>c
  <2> QED BY <1>4, <2>1, <1>b, StoresTypes DEF Raises
<1>5. CASE Save(c)
  <2>1. Ops
    BY <1>5, <1>i, <1>j DEF Save
  <2>2. row' \in RowType
    BY <1>5, StoresTypes DEF Save, RowType, Settled
  <2> QED BY <1>5, <2>1, <2>2, <1>b, StoresTypes DEF Save
<1>6. CASE Fail(c)
  <2>1. Ops
    BY <1>6, <1>i, <1>j DEF Fail
  <2>2. row' \in RowType
    BY <1>6, StoresTypes DEF Fail, RowType, Settled
  <2> QED BY <1>6, <2>1, <2>2, <1>b, StoresTypes DEF Fail
<1> QED BY <1>1, <1>2, <1>3, <1>4, <1>5, <1>6 DEF Activity

(* So does what dies.                                                      *)
LEMMA DieTypes ==
  ASSUME TypeInv, NEW c \in Client, Die(c), UNCHANGED asks
  PROVE  TypeInv'
<1>1. /\ op' \in [Client -> OpType]
      /\ \A d \in Client : ShapeOf(op'[d])
      /\ \A d \in fresh' : FreshOf(d)'
      /\ fresh' \subseteq Client
  BY OpChanges, LeaveAndMove DEF Die, Leave
<1>2. upset' \subseteq Aspects \cup {"stuck"}
  BY StoresTypes, AspectsOfKinds DEF Die
<1> QED BY <1>1, <1>2 DEF Die, TypeInv, TypeOK

(* Every step keeps the types.                                             *)
LEMMA NextTypes == TypeInv /\ [Next]_vars => TypeInv'
<1> SUFFICES ASSUME TypeInv, [Next]_vars PROVE TypeInv'
  OBVIOUS
<1>1. CASE Next
  BY <1>1, RequestTypes, HandlerTypes, ActivityTypes, DieTypes DEF Next
<1>2. CASE UNCHANGED vars
  BY <1>2 DEF vars, TypeInv, TypeOK, FreshOf, ShapeOf
<1> QED BY <1>1, <1>2

(* Whatever users ask for, in whatever order requests, activities and      *)
(* restarts of the backend come, the row, the environment and every        *)
(* operation have their types.                                             *)
THEOREM OpenWebUiTypeCorrect == Spec => []TypeOK
<1>1. Spec => []TypeInv
  BY InitTypes, NextTypes, PTL DEF Spec
<1>2. TypeInv => TypeOK
  BY DEF TypeInv
<1> QED BY <1>1, <1>2, PTL

-----------------------------------------------------------------------------
(* The environment of the pod.                                             *)

(* The environment changes only when a copy that is the current one        *)
(* replaces it.                                                            *)
LEMMA EnvChanges ==
  ASSUME TypeInv, [Next]_vars
  PROVE  \/ env' = env
         \/ \E c \in Client : /\ Put(c) \/ ActivityPut(c)
                              /\ op[c].copy = env
                              /\ env' = Patched(op[c])
<1>1. ASSUME NEW c \in Client, StepOf(c)
      PROVE  \/ env' = env
             \/ /\ Put(c) \/ ActivityPut(c)
                /\ op[c].copy = env
                /\ env' = Patched(op[c])
  <2>1. CASE Put(c) \/ ActivityPut(c)
    BY <2>1 DEF Put, ActivityPut, Replace, TypeInv, FreshOf
  <2>2. CASE Request(c)
    BY <2>2 DEF Request, ConnectLlm, DisconnectLlm, SyncLlm, ConnectVectorDb,
       DisconnectVectorDb, ConnectKeycloak, DisconnectKeycloak,
       RepairDatabaseUrl, Enter
  <2>3. CASE Handler(c) /\ ~Put(c)
    BY <2>3 DEF Handler, Resync, StartWorkflow, Record, KeycloakForm,
                ClientRefused, CaCertificate, Get,
       ReadDeployment, Refused, Commit
  <2>4. CASE (Activity(c) /\ ~ActivityPut(c)) \/ Die(c)
    BY <2>4 DEF Activity, SyncConfig, ActivityGet, ReadDeployment, Rollout,
       Raises, Save, Fail, Die
  <2> QED BY <1>1, <2>1, <2>2, <2>3, <2>4 DEF StepOf
<1>2. CASE Next
  BY <1>1, <1>2 DEF Next, StepOf
<1>3. CASE UNCHANGED vars
  BY <1>3 DEF vars
<1> QED BY <1>2, <1>3

(* No request and no activity, stale or not, takes DATABASE_URL away from  *)
(* a pod that has it.                                                      *)
THEOREM DatabaseUrlIsKept == Spec => DbUrlStays
<1>1. ASSUME TypeInv, [Next]_vars
      PROVE  env.dburl => env'.dburl
  BY <1>1, EnvChanges, PatchTypes
<1>2. TypeInv /\ [Next]_vars => [env.dburl => env'.dburl]_vars
  BY <1>1
<1>3. Spec => []TypeInv
  BY InitTypes, NextTypes, PTL DEF Spec
<1> QED BY <1>2, <1>3, PTL DEF Spec, DbUrlStays

(* A step of c that is not a request changes no other operation, and its   *)
(* own keeps what the request brought with it, unless it ends.             *)
LEMMA StepOps ==
  ASSUME TypeInv, NEW c \in Client, Handler(c) \/ Activity(c) \/ Die(c)
  PROVE  /\ \A d \in Client \ {c} : op'[d] = op[d]
         /\ \/ op'[c] = Idle
            \/ /\ op'[c].kind = op[c].kind /\ op'[c].snap = op[c].snap
               /\ op'[c].target = op[c].target /\ op'[c].db = op[c].db
               /\ \/ op'[c].clean = op[c].clean
                  \/ /\ ~op'[c].clean /\ op[c].kind = "no_vectordb"
                     /\ "vdb" \in upset'
<1>1. op \in [Client -> OpType] /\ op[c] \in OpType
  BY DEF TypeInv, TypeOK
<1> USE <1>1 DEF OpType
<1>2. CASE Leave(c)
  BY <1>2 DEF Leave
<1>3. CASE \E pc \in HandlerPcs : Move(c, pc)
  BY <1>3 DEF Move
<1>4. CASE \E a \in ActivityPcs : ActivityAt(c, a)
  BY <1>4 DEF ActivityAt
<1>5. CASE ActivityEnds(c)
  BY <1>2, <1>4, <1>5 DEF ActivityEnds, ActivityPcs
<1>6. ASSUME NEW a \in BOOLEAN, PatchFails(c, a)
      PROVE  /\ \A d \in Client \ {c} : op'[d] = op[d]
             /\ \/ op'[c] = Idle
                \/ /\ op'[c].kind = op[c].kind /\ op'[c].snap = op[c].snap
                   /\ op'[c].target = op[c].target /\ op'[c].db = op[c].db
                   /\ ~op'[c].clean /\ op[c].kind = "no_vectordb"
                   /\ "vdb" \in upset'
  <2>1. CASE op[c].kind = "no_vectordb"
    <3>1. Own("no_vectordb") = {"vdb"}
      BY OwnKinds DEF VectorKinds
    <3>2. op' = [op EXCEPT ![c].pc = "commit", ![c].copy = NoEnv,
                           ![c].clean = FALSE]
      BY <1>6, <2>1 DEF PatchFails
    <3>3. "vdb" \in upset'
      BY <1>6, <2>1, <3>1 DEF PatchFails
    <3> QED BY <2>1, <3>2, <3>3
  <2>2. CASE op[c].kind # "no_vectordb"
    <3>1. op' = [op EXCEPT ![c] = Idle]
      BY <1>6, <2>2 DEF PatchFails, Leave
    <3> QED BY <3>1
  <2> QED BY <2>1, <2>2
<1>7. CASE Handler(c)
  <2>1. CASE Resync(c) \/ Commit(c)
    BY <2>1, <1>2 DEF Resync, Commit
  <2>2. CASE StartWorkflow(c)
    BY <2>2, <1>2 DEF StartWorkflow
  <2>3. CASE Record(c) \/ KeycloakForm(c)
    BY <2>3, <1>2, <1>3 DEF Record, KeycloakForm, ClientRefused, CaCertificate,
                            HandlerPcs
  <2>4. CASE Get(c)
    BY <2>4 DEF Get, ReadDeployment
  <2>5. CASE Put(c)
    <3>1. CASE op' = [op EXCEPT ![c].pc = "commit", ![c].copy = NoEnv]
      BY <3>1
    <3>2. CASE PatchFails(c, TRUE)
      <4>1. \/ op'[c] = Idle
            \/ /\ op'[c].kind = op[c].kind /\ op'[c].snap = op[c].snap
               /\ op'[c].target = op[c].target /\ op'[c].db = op[c].db
               /\ ~op'[c].clean /\ op[c].kind = "no_vectordb"
               /\ "vdb" \in upset'
        BY <3>2, <1>6
      <4>2. \A d \in Client \ {c} : op'[d] = op[d]
        BY <3>2, <1>6
      <4> QED BY <4>1, <4>2
    <3> QED BY <2>5, <3>1, <3>2, <1>2 DEF Put
  <2>6. CASE Refused(c)
    BY <2>6, <1>6 DEF Refused
  <2> QED BY <1>7, <2>1, <2>2, <2>3, <2>4, <2>5, <2>6 DEF Handler
<1>8. CASE Activity(c)
  <2>1. CASE SyncConfig(c) \/ Rollout(c)
    BY <2>1, <1>4 DEF SyncConfig, Rollout, ActivityPcs
  <2>2. CASE ActivityGet(c) \/ ActivityPut(c) \/ Raises(c)
    <3>1. CASE ActivityGet(c)
      BY <3>1 DEF ActivityGet, ReadDeployment
    <3>2. CASE ActivityPut(c) \/ Raises(c)
      <4>1. PICK a \in ActivityPcs :
               op' = [op EXCEPT ![c].act = a, ![c].copy = NoEnv]
        BY <3>2 DEF ActivityPut, Raises, ActivityPcs
      <4> QED BY <4>1
    <3> QED BY <2>2, <3>1, <3>2
  <2>3. CASE Save(c) \/ Fail(c)
    BY <2>3, <1>5 DEF Save, Fail
  <2> QED BY <1>8, <2>1, <2>2, <2>3 DEF Activity
<1>9. CASE Die(c)
  BY <1>9, <1>2 DEF Die
<1> QED BY <1>7, <1>8, <1>9

-----------------------------------------------------------------------------
(* The vector database.                                                    *)

Vector(c) == op[c].kind \in VectorKinds

(* Who is undisturbed still knows the row, and has written the pod before  *)
(* it writes the row; two of them have disturbed each other.               *)
VectorInv ==
    /\ \A c \in Client : Vector(c) =>
         /\ "vdb" \in upset \/ op[c].clean
         /\ op[c].clean => /\ op[c].snap.vdb = row.vdb
                           /\ op[c].pc = "commit" => env.vdb = op[c].db
    /\ \A c, d \in Client :
         c # d /\ Vector(c) /\ Vector(d) => ~op[c].clean
    /\ \/ "vdb" \in upset
       \/ env.vdb = row.vdb
       \/ \E c \in Client : Vector(c) /\ op[c].pc = "commit"

(* A step after which the vector operations are the same, or fewer, or     *)
(* disturbed.                                                              *)
VectorKeeps(d) ==
    \/ ~Vector(d)'
    \/ /\ op'[d].kind = op[d].kind /\ op'[d].db = op[d].db
       /\ op'[d].snap = op[d].snap
       /\ \/ /\ op'[d].clean = op[d].clean
             /\ (op'[d].pc = "commit" <=> op[d].pc = "commit")
          \/ ~op'[d].clean /\ "vdb" \in upset'

VectorQuiet ==
    /\ row'.vdb = row.vdb
    /\ env'.vdb = env.vdb
    /\ "vdb" \in upset => "vdb" \in upset'
    /\ \A d \in Client :
         /\ VectorKeeps(d)
         /\ Vector(d) /\ op[d].pc = "commit" /\ ~Vector(d)'
              => "vdb" \in upset'

(* Such a step keeps the invariant.                                        *)
LEMMA QuietVector == VectorInv /\ VectorQuiet => VectorInv'
<1> SUFFICES ASSUME VectorInv, VectorQuiet PROVE VectorInv'
  OBVIOUS
<1>1. ASSUME NEW c \in Client, Vector(c)'
      PROVE  /\ "vdb" \in upset' \/ op'[c].clean
             /\ op'[c].clean => /\ op'[c].snap.vdb = row'.vdb
                                /\ op'[c].pc = "commit" => env'.vdb = op'[c].db
  BY <1>1 DEF VectorInv, VectorQuiet, VectorKeeps, Vector
<1>2. ASSUME NEW c \in Client, NEW d \in Client \ {c}, Vector(c)', Vector(d)'
      PROVE  ~op'[c].clean
  BY <1>2 DEF VectorInv, VectorQuiet, VectorKeeps, Vector
<1>3. \/ "vdb" \in upset'
      \/ env'.vdb = row'.vdb
      \/ \E c \in Client : Vector(c)' /\ op'[c].pc = "commit"
  BY DEF VectorInv, VectorQuiet, VectorKeeps, Vector
<1> QED BY <1>1, <1>2, <1>3 DEF VectorInv, Vector

(* What an entering request disturbs: those of its own kind.               *)
LEMMA EnterDisturbs ==
  ASSUME TypeInv, NEW c \in Client, NEW k \in Kinds, NEW pc \in HandlerPcs,
         NEW target \in SUBSET Llm, NEW db \in VectorDb \cup {NoDb},
         Enter(c, k, pc, target, db)
  PROVE  /\ \A a \in upset : a \in upset'
         /\ \A d \in Client : \A a \in Disturbed(k, op[d].kind) : a \in upset'
         /\ \A d \in Client : \A a \in Disturbed(k, op[d].kind) \cap Own(k) :
               ~op'[c].clean
         /\ \A d \in Client \ {c} :
               /\ op'[d].kind = op[d].kind /\ op'[d].pc = op[d].pc
               /\ op'[d].act = op[d].act /\ op'[d].snap = op[d].snap
               /\ op'[d].target = op[d].target /\ op'[d].db = op[d].db
               /\ op'[d].copy = op[d].copy
               /\ op'[d].clean <=> (op[d].clean /\
                    Disturbed(k, op[d].kind) \cap Own(op[d].kind) = {})
         /\ \/ op'[c].clean
            \/ \E d \in Client : Disturbed(k, op[d].kind) \cap Own(k) # {}
<1> DEFINE all == UNION {Disturbed(k, op[d].kind) : d \in Client}
<1>1. /\ upset' = upset \cup all
      /\ op'[c].clean <=> (all \cap Own(k) = {})
      /\ \A d \in Client \ {c} :
            /\ op'[d] = [op[d] EXCEPT !.clean = op'[d].clean]
            /\ op'[d].clean <=> (op[d].clean /\
                 Disturbed(k, op[d].kind) \cap Own(op[d].kind) = {})
  BY EnterEffect
<1>2. \A d \in Client \ {c} : op[d] \in OpType
  BY DEF TypeInv, TypeOK
<1>3. \A d \in Client \ {c} :
               /\ op'[d].kind = op[d].kind /\ op'[d].pc = op[d].pc
               /\ op'[d].act = op[d].act /\ op'[d].snap = op[d].snap
               /\ op'[d].target = op[d].target /\ op'[d].db = op[d].db
               /\ op'[d].copy = op[d].copy
  <2> SUFFICES ASSUME NEW d \in Client \ {c}
               PROVE  /\ op'[d].kind = op[d].kind /\ op'[d].pc = op[d].pc
                      /\ op'[d].act = op[d].act /\ op'[d].snap = op[d].snap
                      /\ op'[d].target = op[d].target /\ op'[d].db = op[d].db
                      /\ op'[d].copy = op[d].copy
    OBVIOUS
  <2> DEFINE b == op'[d].clean
  <2>1. op'[d] = [op[d] EXCEPT !.clean = b]
    BY <1>1
  <2> HIDE DEF b
  <2> QED BY <2>1, <1>2 DEF OpType
<1>4. \A d \in Client : Disturbed(k, op[d].kind) \subseteq all
  OBVIOUS
<1>5. \/ op'[c].clean
      \/ \E d \in Client : Disturbed(k, op[d].kind) \cap Own(k) # {}
  BY <1>1
<1>6. \A d \in Client : \A a \in Disturbed(k, op[d].kind) \cap Own(k) :
         ~op'[c].clean
  BY <1>1, <1>4
<1> HIDE DEF all
<1> QED BY <1>1, <1>3, <1>4, <1>5, <1>6

(* A vector operation is not in the middle of the others' steps.           *)
LEMMA VectorShape ==
  ASSUME TypeInv, NEW c \in Client, Vector(c)
  PROVE  /\ op[c].pc \in {"get", "put", "commit"} /\ op[c].act = "none"
         /\ op[c].kind = "no_vectordb" => op[c].db = NoDb
  BY DEF TypeInv, TypeOK, ShapeOf, Vector, VectorKinds, KeycloakKinds, OpType,
     HandlerPcs

(* Every step but the success of a vector patch, its commit and a new      *)
(* vector request is quiet, or disturbs all vector operations.             *)
LEMMA VectorHandler ==
  ASSUME TypeInv, VectorInv, NEW c \in Client, Handler(c)
  PROVE  VectorInv'
<1>a. \A d \in Client \ {c} : op'[d] = op[d]
  BY StepOps
<1>b. op'[c] = Idle => ~Vector(c)'
  BY DEF Vector, Idle, VectorKinds
<1>1. CASE Vector(c)
  <2>a. op[c].kind \in VectorKinds /\ Own(op[c].kind) = {"vdb"}
    BY <1>1, OwnKinds DEF Vector
  <2>b. op \in [Client -> OpType] /\ op[c] \in OpType
    BY DEF TypeInv, TypeOK
  <2>1. CASE Get(c)
    <3>1. op'[c] = [op[c] EXCEPT !.pc = "put", !.copy = env]
      BY <2>1, <2>b DEF Get, ReadDeployment
    <3>2. VectorKeeps(c)
      BY <2>1, <3>1, <2>b DEF VectorKeeps, Get, OpType
    <3>3. VectorQuiet
      BY <2>1, <1>a, <3>1, <3>2, <2>b
      DEF VectorQuiet, VectorKeeps, Get, ReadDeployment, Vector, OpType
    <3> QED BY <3>3, QuietVector
  <2>2. CASE Put(c) /\ PatchFails(c, TRUE)
    <3>1. PatchFails(c, TRUE) /\ row' = row
      BY <2>2 DEF Put
    <3>2. "vdb" \in upset'
      BY <3>1, <2>a DEF PatchFails
    <3>3. ~Vector(c)' \/ ~op'[c].clean
      <4>1. CASE Leave(c)
        BY <4>1, <1>b, <2>b DEF Leave
      <4>2. CASE op' = [op EXCEPT ![c].pc = "commit", ![c].copy = NoEnv,
                                  ![c].clean = FALSE]
        BY <4>2, <2>b DEF OpType
      <4> QED BY <3>1, <4>1, <4>2 DEF PatchFails
    <3>4. \A d \in Client \ {c} : Vector(d) => ~op[d].clean
      BY <1>1 DEF VectorInv
    <3> QED BY <1>a, <3>1, <3>2, <3>3, <3>4 DEF VectorInv, Vector
  <2>3. CASE Put(c) /\ op[c].kind # "repair" /\ UNCHANGED upset
             /\ op' = [op EXCEPT ![c].pc = "commit", ![c].copy = NoEnv]
    <3>1. op'[c] = [op[c] EXCEPT !.pc = "commit", !.copy = NoEnv]
      BY <2>3, <2>b
    <3>2. env'.vdb = op[c].db /\ row' = row
      BY <2>3, <2>a, <2>b, <1>1, VectorShape, StoresTypes
      DEF Put, Replace, Patched, VectorKinds, OpType, EnvType
    <3>3. \A d \in Client \ {c} : Vector(d) => ~op[d].clean
      BY <1>1 DEF VectorInv
    <3>4. op'[c].kind = op[c].kind /\ op'[c].clean = op[c].clean
          /\ op'[c].snap = op[c].snap /\ op'[c].db = op[c].db
          /\ op'[c].pc = "commit"
      BY <3>1, <2>b DEF OpType
    <3>5. ASSUME NEW d \in Client, Vector(d)'
          PROVE  /\ "vdb" \in upset' \/ op'[d].clean
                 /\ op'[d].clean => /\ op'[d].snap.vdb = row'.vdb
                                    /\ op'[d].pc = "commit" =>
                                         env'.vdb = op'[d].db
      <4>1. CASE d = c
        BY <4>1, <2>3, <3>2, <3>4, <1>1 DEF VectorInv
      <4>2. CASE d # c
        BY <4>2, <3>5, <1>a, <2>3, <3>3 DEF VectorInv, Vector
      <4> QED BY <4>1, <4>2
    <3>6. ASSUME NEW d \in Client, NEW e \in Client, d # e,
                 Vector(d)', Vector(e)'
          PROVE  ~op'[d].clean
      BY <3>6, <1>a, <3>3, <3>4, <1>1 DEF VectorInv, Vector
    <3>7. Vector(c)' /\ op'[c].pc = "commit"
      BY <3>4, <1>1 DEF Vector
    <3> QED BY <3>5, <3>6, <3>7 DEF VectorInv, Vector
  <2>4. CASE Refused(c)
    <3>1. PatchFails(c, FALSE) /\ row' = row /\ env' = env
      BY <2>4 DEF Refused
    <3>2. CASE op[c].kind = "no_vectordb"
      <4>1. /\ op' = [op EXCEPT ![c].pc = "commit", ![c].copy = NoEnv,
                                 ![c].clean = FALSE]
            /\ "vdb" \in upset'
        BY <3>1, <3>2, <2>a DEF PatchFails
      <4>2. ~op'[c].clean
        BY <4>1, <2>b DEF OpType
      <4>3. VectorQuiet
        <5>1. VectorKeeps(c)
          BY <4>1, <4>2, <2>b DEF VectorKeeps, OpType
        <5>2. \A d \in Client \ {c} : VectorKeeps(d)
          BY <1>a DEF VectorKeeps
        <5>3. Vector(c)'
          BY <4>1, <1>1, <2>b DEF Vector, OpType
        <5> QED BY <1>a, <3>1, <4>1, <5>1, <5>2, <5>3 DEF VectorQuiet, Vector
      <4> QED BY <4>3, QuietVector
    <3>3. CASE op[c].kind # "no_vectordb"
      <4>1. op' = [op EXCEPT ![c] = Idle] /\ upset' = upset
        BY <3>1, <3>3, <2>a DEF PatchFails, Leave
      <4>2. VectorQuiet
        BY <1>a, <1>b, <3>1, <4>1, <2>4, <2>b
        DEF VectorQuiet, VectorKeeps, Refused, Vector
      <4> QED BY <4>2, QuietVector
    <3> QED BY <3>2, <3>3
  <2>5. CASE Commit(c)
    <3>1. /\ row'.vdb = Written(op[c].db, op[c].snap.vdb, row.vdb)
          /\ env' = env /\ op' = [op EXCEPT ![c] = Idle]
          /\ op[c].pc = "commit"
          /\ upset' = IF op[c].clean THEN upset \ {"vdb"} ELSE upset
      BY <2>5, <2>a, StoresTypes DEF Commit, Leave, RowType
    <3>2. ~Vector(c)'
      BY <3>1, <1>b, <2>b
    <3>3. \A d \in Client \ {c} : Vector(d) => ~op[d].clean
      BY <1>1 DEF VectorInv
    <3>4. CASE op[c].clean
      <4>1. \A d \in Client \ {c} : ~Vector(d)
        BY <1>1, <3>4 DEF VectorInv
      <4>2. row'.vdb = env.vdb
        BY <3>1, <3>4, <1>1 DEF VectorInv, Written
      <4> QED BY <1>a, <3>1, <3>2, <4>1, <4>2 DEF VectorInv, Vector
    <3>5. CASE ~op[c].clean
      <4>1. "vdb" \in upset'
        BY <3>1, <3>5, <1>1 DEF VectorInv
      <4> QED BY <1>a, <3>2, <3>3, <4>1 DEF VectorInv, Vector
    <3> QED BY <3>4, <3>5
  <2>6. ~Resync(c) /\ ~StartWorkflow(c) /\ ~Record(c) /\ ~KeycloakForm(c)
    BY <1>1, VectorShape DEF Resync, StartWorkflow, Record, KeycloakForm,
                             ClientRefused, CaCertificate
  <2>7. Put(c) => \/ PatchFails(c, TRUE)
                  \/ /\ op[c].kind # "repair" /\ UNCHANGED upset
                     /\ op' = [op EXCEPT ![c].pc = "commit", ![c].copy = NoEnv]
    BY <2>a DEF Put, VectorKinds
  <2> QED BY <2>1, <2>2, <2>3, <2>4, <2>5, <2>6, <2>7 DEF Handler
<1>2. CASE ~Vector(c)
  <2>1. ~Vector(c)'
    BY <1>2, StepOps, <1>b DEF Vector
  <2>2. row'.vdb = row.vdb
    BY <1>2, StoresTypes
    DEF Handler, Resync, StartWorkflow, Record, KeycloakForm, ClientRefused,
        CaCertificate, Get,
        ReadDeployment, Put, Refused, Commit, Vector, RowType
  <2>3. env'.vdb = env.vdb
    <3>1. CASE Put(c)
      <4>1. op[c].copy = env /\ env' = Patched(op[c])
        BY <3>1 DEF Put, Replace, TypeInv, FreshOf
      <4> QED BY <4>1, <1>2, StoresTypes
              DEF Patched, Vector, VectorKinds, EnvType
    <3>2. CASE ~Put(c)
      BY <3>2 DEF Handler, Resync, StartWorkflow, Record, KeycloakForm,
                  ClientRefused, CaCertificate, Get,
         ReadDeployment, Refused, Commit
    <3> QED BY <3>1, <3>2
  <2>4. "vdb" \in upset => "vdb" \in upset'
    BY <1>2
    DEF Handler, Resync, StartWorkflow, Record, KeycloakForm, ClientRefused,
        CaCertificate, Get,
        ReadDeployment, Put, Refused, PatchFails, Commit, Vector
  <2>5. VectorQuiet
    BY <1>a, <1>2, <2>1, <2>2, <2>3, <2>4 DEF VectorQuiet, VectorKeeps, Vector
  <2> QED BY <2>5, QuietVector
<1> QED BY <1>1, <1>2

(* Activities and deaths disturb no vector operation but their own.        *)
LEMMA VectorRest ==
  ASSUME TypeInv, VectorInv, NEW c \in Client, Activity(c) \/ Die(c)
  PROVE  VectorInv'
<1>1. CASE Activity(c)
  <2>1. ~Vector(c)
    BY <1>1, VectorShape DEF Activity, SyncConfig, ActivityGet, ActivityPut,
       Rollout, Raises, Save, Fail
  <2>2. ~Vector(c)'
    BY <1>1, <2>1, StepOps DEF Vector, Idle, VectorKinds
  <2>3. row'.vdb = row.vdb
    BY <1>1, StoresTypes
    DEF Activity, SyncConfig, ActivityGet, ReadDeployment, ActivityPut,
        Rollout, Raises, Save, Fail, RowType
  <2>4. env'.vdb = env.vdb
    <3>1. CASE ActivityPut(c)
      <4>1. op[c].copy = env /\ env' = Patched(op[c])
        BY <3>1 DEF ActivityPut, Replace, TypeInv, FreshOf
      <4> QED BY <4>1, <2>1, StoresTypes
              DEF Patched, Vector, VectorKinds, EnvType
    <3>2. CASE ~ActivityPut(c)
      BY <1>1, <3>2 DEF Activity, SyncConfig, ActivityGet, ReadDeployment,
         Rollout, Raises, Save, Fail
    <3> QED BY <3>1, <3>2
  <2>5. "vdb" \in upset => "vdb" \in upset'
    BY <1>1 DEF Activity, SyncConfig, ActivityGet, ReadDeployment,
       ActivityPut, Rollout, Raises, Save, Fail
  <2>6. VectorQuiet
    BY <1>1, StepOps, <2>1, <2>2, <2>3, <2>4, <2>5
    DEF VectorQuiet, VectorKeeps, Vector
  <2> QED BY <2>6, QuietVector
<1>2. CASE Die(c)
  <2>1. op' = [op EXCEPT ![c] = Idle] /\ op \in [Client -> OpType]
    BY <1>2 DEF Die, Leave, TypeInv, TypeOK
  <2>2. ~Vector(c)' /\ \A d \in Client \ {c} : op'[d] = op[d]
    BY <2>1 DEF Vector, Idle, VectorKinds
  <2>3. Vector(c) => "vdb" \in upset'
    BY <1>2, OwnKinds DEF Die, Vector
  <2>4. VectorQuiet
    BY <1>2, <2>2, <2>3 DEF VectorQuiet, VectorKeeps, Die, Vector
  <2> QED BY <2>4, QuietVector
<1> QED BY <1>1, <1>2

(* A request about the vector database disturbs the others, any other      *)
(* request none.                                                           *)
LEMMA VectorRequest ==
  ASSUME TypeInv, VectorInv, NEW c \in Client, Request(c)
  PROVE  VectorInv'
<1>1. ASSUME NEW k \in Kinds, NEW pc \in HandlerPcs \ {"commit"},
             NEW target \in SUBSET Llm, NEW db \in VectorDb \cup {NoDb},
             Enter(c, k, pc, target, db)
      PROVE  VectorInv'
  <2>1. /\ op[c].kind = "none" /\ UNCHANGED <<row, env>>
        /\ op'[c].kind = k /\ op'[c].pc = pc /\ op'[c].snap = Seen(k)
        /\ op'[c].db = db
    BY <1>1, EnterEffect
  <2>2. /\ \A a \in upset : a \in upset'
        /\ \A d \in Client : \A a \in Disturbed(k, op[d].kind) : a \in upset'
        /\ \A d \in Client : \A a \in Disturbed(k, op[d].kind) \cap Own(k) :
              ~op'[c].clean
        /\ \A d \in Client \ {c} :
              /\ op'[d].kind = op[d].kind /\ op'[d].pc = op[d].pc
              /\ op'[d].snap = op[d].snap /\ op'[d].db = op[d].db
              /\ op'[d].clean <=> (op[d].clean /\
                    Disturbed(k, op[d].kind) \cap Own(op[d].kind) = {})
        /\ \/ op'[c].clean
           \/ \E d \in Client : Disturbed(k, op[d].kind) \cap Own(k) # {}
    BY <1>1, EnterDisturbs
  <2>3. /\ \A d \in Client : op[d].kind \in Kinds \cup {"none"}
        /\ \A d \in Client : op[d].clean \in BOOLEAN
        /\ \A d \in Client : op'[d].clean \in BOOLEAN
    <3>1. op' \in [Client -> OpType]
      BY <1>1, EnterEffect
    <3> QED BY <3>1 DEF TypeInv, TypeOK, OpType
  <2>4. CASE k \in VectorKinds
    <3>1. \A d \in Client : Vector(d) => Disturbed(k, op[d].kind) = {"vdb"}
      BY <2>4, OwnKinds DEF Disturbed, Vector
    <3>2. \A d \in Client : ~Vector(d) =>
             Disturbed(k, op[d].kind) \cap {"vdb"} = {}
      BY <2>4, <2>3, OwnKinds DEF Disturbed, Vector
    <3>3. Own(k) = {"vdb"} /\ Seen(k).vdb = row.vdb
      BY <2>4, OwnKinds, Blank DEF Seen, NoRow
    <3>4. \A d \in Client \ {c} : Vector(d)' <=> Vector(d)
      BY <2>2 DEF Vector
    <3>5. \A d \in Client \ {c} : Vector(d) =>
             ~op'[d].clean /\ ~op'[c].clean /\ "vdb" \in upset'
      BY <2>2, <3>1, <3>3, OwnKinds DEF Vector
    <3>6. op'[c].clean \/ "vdb" \in upset'
      BY <2>2, <3>2, <3>3, <3>1
    <3>7. ASSUME NEW d \in Client, Vector(d)'
          PROVE  /\ "vdb" \in upset' \/ op'[d].clean
                 /\ op'[d].clean => /\ op'[d].snap.vdb = row'.vdb
                                    /\ op'[d].pc = "commit" =>
                                         env'.vdb = op'[d].db
      <4>1. CASE d = c
        BY <4>1, <2>1, <3>3, <3>6, <1>1
      <4>2. CASE d # c
        BY <4>2, <3>4, <3>5, <3>7
      <4> QED BY <4>1, <4>2
    <3>8. ASSUME NEW d \in Client, NEW e \in Client, d # e,
                 Vector(d)', Vector(e)'
          PROVE  ~op'[d].clean
      BY <3>8, <3>4, <3>5
    <3>9. \/ "vdb" \in upset'
          \/ env'.vdb = row'.vdb
          \/ \E d \in Client : Vector(d)' /\ op'[d].pc = "commit"
      BY <2>1, <2>2 DEF VectorInv, Vector, VectorKinds
    <3> QED BY <3>7, <3>8, <3>9 DEF VectorInv, Vector
  <2>5. CASE k \notin VectorKinds
    <3>1. \A d \in Client : Vector(d) =>
             Disturbed(k, op[d].kind) \cap Own(op[d].kind) = {}
      BY <2>5, <2>3, <1>1, OwnKinds DEF Disturbed, Vector
    <3>2. \A d \in Client \ {c} : VectorKeeps(d)
      BY <2>2, <2>3, <3>1 DEF VectorKeeps, Vector
    <3>3. ~Vector(c) /\ ~Vector(c)'
      BY <2>1, <2>5 DEF Vector, VectorKinds
    <3>4. VectorQuiet
      BY <2>1, <2>2, <3>2, <3>3 DEF VectorQuiet, VectorKeeps, Vector
    <3> QED BY <3>4, QuietVector
  <2> QED BY <2>4, <2>5
<1> QED BY <1>1, RequestEnters

(* The invariant holds of all behaviours.                                  *)
LEMMA VectorAlways == Spec => []VectorInv
<1>1. Init => VectorInv
  BY DEF Init, VectorInv, Vector, Idle, VectorKinds, NoRow, NoEnv
<1>2. TypeInv /\ VectorInv /\ [Next]_vars => VectorInv'
  <2> SUFFICES ASSUME TypeInv, VectorInv, [Next]_vars PROVE VectorInv'
    OBVIOUS
  <2>1. CASE Next
    BY <2>1, VectorHandler, VectorRest, VectorRequest DEF Next
  <2>2. CASE UNCHANGED vars
    BY <2>2 DEF vars, VectorInv, Vector
  <2> QED BY <2>1, <2>2
<1>3. Spec => []TypeInv
  BY InitTypes, NextTypes, PTL DEF Spec
<1> QED BY <1>1, <1>2, <1>3, PTL DEF Spec

-----------------------------------------------------------------------------
(* Keycloak and the login form.                                            *)

OnKeycloak(c) == op[c].kind \in KeycloakKinds

(* As for the vector database; and the form is shown or the pod has the    *)
(* client unless somebody is past the form.                                *)
KeycloakInv ==
    /\ \A c \in Client : OnKeycloak(c) =>
         /\ {"kc", "form"} \subseteq upset \/ op[c].clean
         /\ op[c].clean => /\ op[c].snap.kc = row.kc
                           /\ op[c].pc = "commit" =>
                                env.kc = (op[c].kind = "keycloak")
    /\ \A c, d \in Client :
         c # d /\ OnKeycloak(c) /\ OnKeycloak(d) => ~op[c].clean
    /\ \/ "kc" \in upset
       \/ env.kc = row.kc
       \/ \E c \in Client : OnKeycloak(c) /\ op[c].pc = "commit"
    /\ \/ "form" \in upset
       \/ config.form
       \/ env.kc
       \/ \E c \in Client : OnKeycloak(c) /\ op[c].pc # "form"

KeycloakKeeps(d) ==
    \/ ~OnKeycloak(d)'
    \/ /\ op'[d].kind = op[d].kind /\ op'[d].snap = op[d].snap
       /\ op'[d].clean = op[d].clean
       /\ (op'[d].pc = "commit" <=> op[d].pc = "commit")
       /\ op[d].pc # "form" => op'[d].pc # "form"

(* A step after which the Keycloak operations are the same, or fewer.      *)
KeycloakQuiet ==
    /\ row'.kc = row.kc
    /\ env'.kc = env.kc
    /\ \/ config'.form = config.form
       \/ \E d \in Client : OnKeycloak(d)' /\ op'[d].pc # "form"
    /\ upset \cap {"kc", "form"} \subseteq upset'
    /\ \A d \in Client :
         /\ KeycloakKeeps(d)
         /\ OnKeycloak(d) /\ ~OnKeycloak(d)' =>
              /\ op[d].pc = "commit" => "kc" \in upset'
              /\ op[d].pc # "form" => "form" \in upset'

(* Such a step keeps the invariant.                                        *)
LEMMA QuietKeycloak == KeycloakInv /\ KeycloakQuiet => KeycloakInv'
<1> SUFFICES ASSUME KeycloakInv, KeycloakQuiet PROVE KeycloakInv'
  OBVIOUS
<1>1. ASSUME NEW c \in Client, OnKeycloak(c)'
      PROVE  /\ {"kc", "form"} \subseteq upset' \/ op'[c].clean
             /\ op'[c].clean => /\ op'[c].snap.kc = row'.kc
                                /\ op'[c].pc = "commit" =>
                                     env'.kc = (op'[c].kind = "keycloak")
  BY <1>1 DEF KeycloakInv, KeycloakQuiet, KeycloakKeeps, OnKeycloak
<1>2. ASSUME NEW c \in Client, NEW d \in Client, c # d,
             OnKeycloak(c)', OnKeycloak(d)'
      PROVE  ~op'[c].clean
  BY <1>2 DEF KeycloakInv, KeycloakQuiet, KeycloakKeeps, OnKeycloak
<1>3. \/ "kc" \in upset'
      \/ env'.kc = row'.kc
      \/ \E c \in Client : OnKeycloak(c)' /\ op'[c].pc = "commit"
  BY DEF KeycloakInv, KeycloakQuiet, KeycloakKeeps, OnKeycloak
<1>4. \/ "form" \in upset'
      \/ config'.form
      \/ env'.kc
      \/ \E c \in Client : OnKeycloak(c)' /\ op'[c].pc # "form"
  BY DEF KeycloakInv, KeycloakQuiet, KeycloakKeeps, OnKeycloak
<1> QED BY <1>1, <1>2, <1>3, <1>4 DEF KeycloakInv, OnKeycloak

(* A Keycloak operation is not in the middle of the others' steps.         *)
LEMMA KeycloakShape ==
  ASSUME TypeInv, NEW c \in Client, OnKeycloak(c)
  PROVE  op[c].pc \in {"form", "get", "put", "commit"} /\ op[c].act = "none"
  BY DEF TypeInv, TypeOK, ShapeOf, OnKeycloak, KeycloakKinds, VectorKinds,
     OpType, HandlerPcs

(* The requests' own steps keep the invariant.                             *)
LEMMA KeycloakHandler ==
  ASSUME TypeInv, KeycloakInv, NEW c \in Client, Handler(c)
  PROVE  KeycloakInv'
<1>a. \A d \in Client \ {c} : op'[d] = op[d]
  BY StepOps
<1>b. op'[c] = Idle => ~OnKeycloak(c)'
  BY DEF OnKeycloak, Idle, KeycloakKinds
<1>c. op \in [Client -> OpType] /\ op[c] \in OpType
  BY DEF TypeInv, TypeOK
<1>1. CASE OnKeycloak(c)
  <2>a. /\ op[c].kind \in KeycloakKinds /\ Own(op[c].kind) = {"kc", "form"}
        /\ op[c].kind # "no_vectordb"
    BY <1>1, OwnKinds DEF OnKeycloak, KeycloakKinds
  <2>b. \A d \in Client \ {c} : OnKeycloak(d) => ~op[d].clean
    BY <1>1 DEF KeycloakInv
  <2>1. CASE Get(c) \/ (KeycloakForm(c) /\ Move(c, "get"))
    <3>1. PICK e \in EnvType, pc \in {"get", "put"} :
            op'[c] = [op[c] EXCEPT !.pc = pc, !.copy = e]
      <4>1. CASE Get(c)
        BY <4>1, <1>c, StoresTypes DEF Get, ReadDeployment
      <4>2. CASE Move(c, "get")
        <5>1. op'[c] = [op[c] EXCEPT !.pc = "get", !.copy = op[c].copy]
          BY <4>2, <1>c DEF Move, OpType
        <5> QED BY <5>1, <1>c DEF OpType
      <4> QED BY <2>1, <4>1, <4>2
    <3>2. /\ op'[c].kind = op[c].kind /\ op'[c].snap = op[c].snap
          /\ op'[c].clean = op[c].clean /\ op'[c].pc = pc
      BY <3>1, <1>c DEF OpType
    <3>3. op[c].pc # "commit" /\ row' = row /\ env' = env /\ upset' = upset
      BY <2>1 DEF Get, ReadDeployment, KeycloakForm, ClientRefused, CaCertificate
    <3>4. OnKeycloak(c)' /\ op'[c].pc # "form" /\ op'[c].pc # "commit"
      BY <1>1, <3>2 DEF OnKeycloak
    <3>5. KeycloakQuiet
      BY <1>a, <3>2, <3>3, <3>4 DEF KeycloakQuiet, KeycloakKeeps, OnKeycloak
    <3> QED BY <3>5, QuietKeycloak
  <2>2. CASE Leave(c) /\ (KeycloakForm(c) \/ Refused(c))
    <3>1. ~OnKeycloak(c)'
      BY <2>2, <1>b, <1>c DEF Leave
    <3>2. /\ row' = row /\ env' = env /\ upset \subseteq upset'
          /\ op[c].pc # "commit"
      BY <2>2 DEF KeycloakForm, ClientRefused, CaCertificate, Refused, PatchFails
    <3>3. config' = config
      <4>1. CASE Refused(c)
        BY <4>1 DEF Refused
      <4>2. CASE KeycloakForm(c)
        <5>1. op'[c].pc = "idle"
          BY <2>2, <1>c DEF Leave, Idle
        <5>2. ~Move(c, "get")
          BY <5>1, <1>c DEF Move, OpType
        <5> QED BY <4>2, <5>2 DEF KeycloakForm, ClientRefused, CaCertificate
      <4> QED BY <2>2, <4>1, <4>2
    <3>4. op[c].pc # "form" => "form" \in upset'
      BY <2>2, <2>a DEF KeycloakForm, ClientRefused, CaCertificate, Refused,
                        PatchFails
    <3>5. KeycloakQuiet
      BY <1>a, <3>1, <3>2, <3>3, <3>4
      DEF KeycloakQuiet, KeycloakKeeps, OnKeycloak
    <3> QED BY <3>5, QuietKeycloak
  <2>3. CASE Put(c) /\ PatchFails(c, TRUE)
    <3>1. /\ op' = [op EXCEPT ![c] = Idle] /\ {"kc", "form"} \subseteq upset'
          /\ row' = row
      BY <2>3, <2>a DEF Put, PatchFails, Leave
    <3>2. ~OnKeycloak(c)'
      BY <3>1, <1>b, <1>c
    <3> QED BY <1>a, <2>b, <3>1, <3>2 DEF KeycloakInv, OnKeycloak
  <2>4. CASE /\ Put(c) /\ op[c].kind # "repair" /\ UNCHANGED upset
             /\ op' = [op EXCEPT ![c].pc = "commit", ![c].copy = NoEnv]
    <3>1. op'[c] = [op[c] EXCEPT !.pc = "commit", !.copy = NoEnv]
      BY <2>4, <1>c
    <3>2. /\ op'[c].kind = op[c].kind /\ op'[c].snap = op[c].snap
          /\ op'[c].clean = op[c].clean /\ op'[c].pc = "commit"
      BY <3>1, <1>c DEF OpType
    <3>3. env'.kc = (op[c].kind = "keycloak") /\ row' = row
      <4>1. env' = Patched(op[c]) /\ op[c].copy = env /\ row' = row
        BY <2>4 DEF Put, Replace, TypeInv, FreshOf
      <4> QED BY <4>1, <2>a, StoresTypes DEF Patched, KeycloakKinds, EnvType
    <3>4. ASSUME NEW d \in Client, OnKeycloak(d)'
          PROVE  /\ {"kc", "form"} \subseteq upset' \/ op'[d].clean
                 /\ op'[d].clean => /\ op'[d].snap.kc = row'.kc
                                    /\ op'[d].pc = "commit" =>
                                         env'.kc = (op'[d].kind = "keycloak")
      <4>1. CASE d = c
        BY <4>1, <2>4, <3>2, <3>3, <1>1 DEF KeycloakInv
      <4>2. CASE d # c
        BY <4>2, <3>4, <1>a, <2>4, <2>b DEF KeycloakInv, OnKeycloak
      <4> QED BY <4>1, <4>2
    <3>5. ASSUME NEW d \in Client, NEW e \in Client, d # e,
                 OnKeycloak(d)', OnKeycloak(e)'
          PROVE  ~op'[d].clean
      BY <3>5, <1>a, <2>b, <3>2, <1>1 DEF KeycloakInv, OnKeycloak
    <3>6. OnKeycloak(c)' /\ op'[c].pc = "commit" /\ op'[c].pc # "form"
      BY <3>2, <1>1 DEF OnKeycloak
    <3> QED BY <3>4, <3>5, <3>6 DEF KeycloakInv, OnKeycloak
  <2>5. CASE Commit(c)
    <3> DEFINE healed == {"kc"} \cup (IF op[c].kind = "keycloak" \/ config.form
                                      THEN {"form"} ELSE {})
    <3>1. /\ row'.kc = Written(op[c].kind = "keycloak", op[c].snap.kc, row.kc)
          /\ env' = env /\ config' = config /\ op' = [op EXCEPT ![c] = Idle]
          /\ op[c].pc = "commit"
          /\ upset' = (IF op[c].clean THEN upset \ healed ELSE upset)
                      \cup ({"form"} \ healed)
      BY <2>5, <2>a, StoresTypes
      DEF Commit, Leave, RowType, KeycloakKinds, VectorKinds
    <3>2. ~OnKeycloak(c)'
      BY <3>1, <1>b, <1>c
    <3>3. CASE op[c].clean
      <4>1. \A d \in Client \ {c} : ~OnKeycloak(d)
        BY <1>1, <3>3 DEF KeycloakInv
      <4>2. env.kc = (op[c].kind = "keycloak") /\ op[c].snap.kc = row.kc
        BY <3>1, <3>3, <1>1 DEF KeycloakInv
      <4>3. env'.kc = row'.kc
        BY <3>1, <4>2 DEF Written
      <4>4. "form" \in upset' \/ config'.form \/ env'.kc
        BY <3>1, <4>2
      <4> QED BY <1>a, <3>2, <4>1, <4>3, <4>4 DEF KeycloakInv, OnKeycloak
    <3>4. CASE ~op[c].clean
      <4>1. {"kc", "form"} \subseteq upset'
        BY <3>1, <3>4, <1>1 DEF KeycloakInv
      <4> QED BY <1>a, <3>2, <2>b, <4>1 DEF KeycloakInv, OnKeycloak
    <3> QED BY <3>3, <3>4
  <2>6. ~Resync(c) /\ ~StartWorkflow(c) /\ ~Record(c)
    BY <1>1, KeycloakShape DEF Resync, StartWorkflow, Record
  <2>7. /\ Refused(c) => Leave(c)
        /\ KeycloakForm(c) => Leave(c) \/ Move(c, "get")
        /\ Put(c) => \/ PatchFails(c, TRUE)
                     \/ /\ op[c].kind # "repair" /\ UNCHANGED upset
                        /\ op' = [op EXCEPT ![c].pc = "commit",
                                            ![c].copy = NoEnv]
    BY <2>a DEF Refused, PatchFails, KeycloakForm, ClientRefused,
                CaCertificate, Put, KeycloakKinds
  <2> QED BY <2>1, <2>2, <2>3, <2>4, <2>5, <2>6, <2>7 DEF Handler
<1>2. CASE ~OnKeycloak(c)
  <2>1. ~OnKeycloak(c)'
    BY <1>2, StepOps, <1>b DEF OnKeycloak
  <2>2. ~KeycloakForm(c)
    BY <1>2 DEF KeycloakForm, ClientRefused, CaCertificate, TypeInv, ShapeOf,
                OnKeycloak
  <2>3. Commit(c) => op[c].kind \in VectorKinds
    BY <1>2 DEF Commit, TypeInv, ShapeOf, OnKeycloak
  <2>4. row'.kc = row.kc
    BY <2>2, <2>3, StoresTypes
    DEF Handler, Resync, StartWorkflow, Record, Get, ReadDeployment, Put,
        Refused, Commit, RowType
  <2>5. env'.kc = env.kc
    <3>1. CASE Put(c)
      <4>1. op[c].copy = env /\ env' = Patched(op[c])
        BY <3>1 DEF Put, Replace, TypeInv, FreshOf
      <4> QED BY <4>1, <1>2, StoresTypes
              DEF Patched, OnKeycloak, KeycloakKinds, EnvType
    <3>2. CASE ~Put(c)
      BY <2>2, <3>2 DEF Handler, Resync, StartWorkflow, Record, Get,
         ReadDeployment, Refused, Commit
    <3> QED BY <3>1, <3>2
  <2>6. config'.form = config.form
    BY <2>2, StoresTypes
    DEF Handler, Resync, StartWorkflow, Record, Get, ReadDeployment, Put,
        Refused, Commit
  <2>7. upset \cap {"kc", "form"} \subseteq upset'
    BY <2>2, <2>3
    DEF Handler, Resync, StartWorkflow, Record, Get, ReadDeployment, Put,
        Refused, PatchFails, Commit
  <2>8. KeycloakQuiet
    BY <1>a, <1>2, <2>1, <2>4, <2>5, <2>6, <2>7
    DEF KeycloakQuiet, KeycloakKeeps, OnKeycloak
  <2> QED BY <2>8, QuietKeycloak
<1> QED BY <1>1, <1>2

(* Activities and deaths disturb no Keycloak operation but their own.      *)
LEMMA KeycloakRest ==
  ASSUME TypeInv, KeycloakInv, NEW c \in Client, Activity(c) \/ Die(c)
  PROVE  KeycloakInv'
<1>1. CASE Activity(c)
  <2>1. ~OnKeycloak(c)
    BY <1>1, KeycloakShape DEF Activity, SyncConfig, ActivityGet, ActivityPut,
       Rollout, Raises, Save, Fail
  <2>2. ~OnKeycloak(c)'
    BY <1>1, <2>1, StepOps DEF OnKeycloak, Idle, KeycloakKinds
  <2>3. row'.kc = row.kc /\ config'.form = config.form
    BY <1>1, StoresTypes
    DEF Activity, SyncConfig, ActivityGet, ReadDeployment, ActivityPut,
        Rollout, Raises, Save, Fail, RowType
  <2>4. env'.kc = env.kc
    <3>1. CASE ActivityPut(c)
      <4>1. op[c].copy = env /\ env' = Patched(op[c])
        BY <3>1 DEF ActivityPut, Replace, TypeInv, FreshOf
      <4> QED BY <4>1, <2>1, StoresTypes
              DEF Patched, OnKeycloak, KeycloakKinds, EnvType
    <3>2. CASE ~ActivityPut(c)
      BY <1>1, <3>2 DEF Activity, SyncConfig, ActivityGet, ReadDeployment,
         Rollout, Raises, Save, Fail
    <3> QED BY <3>1, <3>2
  <2>5. upset \cap {"kc", "form"} \subseteq upset'
    BY <1>1 DEF Activity, SyncConfig, ActivityGet, ReadDeployment,
       ActivityPut, Rollout, Raises, Save, Fail
  <2>6. KeycloakQuiet
    BY <1>1, StepOps, <2>1, <2>2, <2>3, <2>4, <2>5
    DEF KeycloakQuiet, KeycloakKeeps, OnKeycloak
  <2> QED BY <2>6, QuietKeycloak
<1>2. CASE Die(c)
  <2>1. op' = [op EXCEPT ![c] = Idle] /\ op \in [Client -> OpType]
    BY <1>2 DEF Die, Leave, TypeInv, TypeOK
  <2>2. ~OnKeycloak(c)' /\ \A d \in Client \ {c} : op'[d] = op[d]
    BY <2>1 DEF OnKeycloak, Idle, KeycloakKinds
  <2>3. OnKeycloak(c) => {"kc", "form"} \subseteq upset'
    BY <1>2, OwnKinds DEF Die, OnKeycloak
  <2>4. KeycloakQuiet
    BY <1>2, <2>2, <2>3 DEF KeycloakQuiet, KeycloakKeeps, Die, OnKeycloak
  <2> QED BY <2>4, QuietKeycloak
<1> QED BY <1>1, <1>2

(* A request about Keycloak disturbs the others, any other request none.   *)
LEMMA KeycloakRequest ==
  ASSUME TypeInv, KeycloakInv, NEW c \in Client, Request(c)
  PROVE  KeycloakInv'
<1>1. ASSUME NEW k \in Kinds, NEW pc \in HandlerPcs \ {"commit"},
             NEW target \in SUBSET Llm, NEW db \in VectorDb \cup {NoDb},
             Enter(c, k, pc, target, db), k \in KeycloakKinds => pc = "form"
      PROVE  KeycloakInv'
  <2>1. /\ op[c].kind = "none" /\ UNCHANGED <<row, env, config>>
        /\ op'[c].kind = k /\ op'[c].pc = pc /\ op'[c].snap = Seen(k)
    BY <1>1, EnterEffect
  <2>2. /\ \A a \in upset : a \in upset'
        /\ \A d \in Client : \A a \in Disturbed(k, op[d].kind) : a \in upset'
        /\ \A d \in Client : \A a \in Disturbed(k, op[d].kind) \cap Own(k) :
              ~op'[c].clean
        /\ \A d \in Client \ {c} :
              /\ op'[d].kind = op[d].kind /\ op'[d].pc = op[d].pc
              /\ op'[d].snap = op[d].snap /\ op'[d].db = op[d].db
              /\ op'[d].clean <=> (op[d].clean /\
                    Disturbed(k, op[d].kind) \cap Own(op[d].kind) = {})
        /\ \/ op'[c].clean
           \/ \E d \in Client : Disturbed(k, op[d].kind) \cap Own(k) # {}
    <3>1. Enter(c, k, pc, target, db) /\ pc \in HandlerPcs
      BY <1>1
    <3> QED BY <3>1, EnterDisturbs
  <2>3. /\ \A d \in Client : op[d].kind \in Kinds \cup {"none"}
        /\ \A d \in Client : op[d].clean \in BOOLEAN
        /\ \A d \in Client : op'[d].clean \in BOOLEAN
    <3>1. op' \in [Client -> OpType]
      BY <1>1, EnterEffect
    <3> QED BY <3>1 DEF TypeInv, TypeOK, OpType
  <2>4. CASE k \in KeycloakKinds
    <3>1. \A d \in Client : OnKeycloak(d) =>
             Disturbed(k, op[d].kind) = {"kc", "form"}
      BY <2>4, OwnKinds DEF Disturbed, OnKeycloak
    <3>2. \A d \in Client : ~OnKeycloak(d) =>
             Disturbed(k, op[d].kind) \cap {"kc", "form"} = {}
      BY <2>4, <2>3, OwnKinds DEF Disturbed, OnKeycloak
    <3>3. Own(k) = {"kc", "form"} /\ Seen(k).kc = row.kc
      BY <2>4, OwnKinds, StoresTypes DEF Seen, NoRow
    <3>4. \A d \in Client \ {c} : OnKeycloak(d)' <=> OnKeycloak(d)
      BY <2>2 DEF OnKeycloak
    <3>5. \A d \in Client \ {c} : OnKeycloak(d) =>
             ~op'[d].clean /\ ~op'[c].clean /\ {"kc", "form"} \subseteq upset'
      BY <2>2, <3>1, <3>3, OwnKinds DEF OnKeycloak
    <3>6. op'[c].clean \/ {"kc", "form"} \subseteq upset'
      BY <2>2, <3>2, <3>3, <3>1
    <3>7. ASSUME NEW d \in Client, OnKeycloak(d)'
          PROVE  /\ {"kc", "form"} \subseteq upset' \/ op'[d].clean
                 /\ op'[d].clean => /\ op'[d].snap.kc = row'.kc
                                    /\ op'[d].pc = "commit" =>
                                         env'.kc = (op'[d].kind = "keycloak")
      <4>1. CASE d = c
        BY <4>1, <2>1, <3>3, <3>6, <1>1
      <4>2. CASE d # c
        BY <4>2, <3>4, <3>5, <3>7
      <4> QED BY <4>1, <4>2
    <3>8. ASSUME NEW d \in Client, NEW e \in Client, d # e,
                 OnKeycloak(d)', OnKeycloak(e)'
          PROVE  ~op'[d].clean
      BY <3>8, <3>4, <3>5
    <3>9. \A d \in Client : OnKeycloak(d) =>
             d # c /\ OnKeycloak(d)' /\ op'[d].pc = op[d].pc
      BY <2>1, <2>2 DEF OnKeycloak, KeycloakKinds
    <3>10. /\ \/ "kc" \in upset'
              \/ env'.kc = row'.kc
              \/ \E d \in Client : OnKeycloak(d)' /\ op'[d].pc = "commit"
           /\ \/ "form" \in upset'
              \/ config'.form
              \/ env'.kc
              \/ \E d \in Client : OnKeycloak(d)' /\ op'[d].pc # "form"
      BY <2>1, <2>2, <3>9 DEF KeycloakInv
    <3> QED BY <3>7, <3>8, <3>10 DEF KeycloakInv, OnKeycloak
  <2>5. CASE k \notin KeycloakKinds
    <3>1. \A d \in Client : OnKeycloak(d) =>
             Disturbed(k, op[d].kind) \cap Own(op[d].kind) = {}
      BY <2>5, <2>3, <1>1, OwnKinds DEF Disturbed, OnKeycloak
    <3>2. \A d \in Client \ {c} : KeycloakKeeps(d)
      BY <2>2, <2>3, <3>1 DEF KeycloakKeeps, OnKeycloak
    <3>3. ~OnKeycloak(c) /\ ~OnKeycloak(c)'
      BY <2>1, <2>5 DEF OnKeycloak, KeycloakKinds
    <3>4. KeycloakQuiet
      BY <2>1, <2>2, <3>2, <3>3 DEF KeycloakQuiet, KeycloakKeeps, OnKeycloak
    <3> QED BY <3>4, QuietKeycloak
  <2> QED BY <2>4, <2>5
<1> QED BY <1>1, RequestEnters

(* The invariant holds of all behaviours.                                  *)
LEMMA KeycloakAlways == Spec => []KeycloakInv
<1>1. Init => KeycloakInv
  <2> SUFFICES ASSUME Init PROVE KeycloakInv
    OBVIOUS
  <2>1. row.kc = FALSE /\ env.kc = FALSE /\ config.form
    BY DEF Init, NoRow, NoEnv
  <2>2. \A c \in Client : ~OnKeycloak(c)
    BY DEF Init, OnKeycloak, Idle, KeycloakKinds
  <2> QED BY <2>1, <2>2 DEF KeycloakInv
<1>2. TypeInv /\ KeycloakInv /\ [Next]_vars => KeycloakInv'
  <2> SUFFICES ASSUME TypeInv, KeycloakInv, [Next]_vars PROVE KeycloakInv'
    OBVIOUS
  <2>1. CASE Next
    BY <2>1, KeycloakHandler, KeycloakRest, KeycloakRequest DEF Next
  <2>2. CASE UNCHANGED vars
    BY <2>2 DEF vars, KeycloakInv, OnKeycloak
  <2> QED BY <2>1, <2>2
<1>3. Spec => []TypeInv
  BY InitTypes, NextTypes, PTL DEF Spec
<1> QED BY <1>1, <1>2, <1>3, PTL DEF Spec

(* However the patches of the vector database, Keycloak and the LLMs       *)
(* interleave, with stale copies, refusals and restarts, the pod has the   *)
(* vector database and the Keycloak client that the row says.              *)
THEOREM PatchesAreKept == Spec => []PatchesKept
<1>1. VectorInv /\ KeycloakInv => PatchesKept
  BY DEF VectorInv, KeycloakInv, PatchesKept, Busy, Vector, OnKeycloak
<1> QED BY <1>1, VectorAlways, KeycloakAlways, PTL

(* Nobody is locked out: the form is shown or the pod has the client.      *)
THEOREM SomebodyCanLogIn == Spec => []LoginPossible
<1>1. KeycloakInv => LoginPossible
  BY DEF KeycloakInv, LoginPossible, Busy, OnKeycloak
<1> QED BY <1>1, KeycloakAlways, PTL

-----------------------------------------------------------------------------
(* The LLMs.                                                               *)

OnLlm(c) == op[c].kind \in LlmKinds
Acting(o) == o.act \notin {"none", "over"}

(* What is left to do of an undisturbed LLM operation fits the stores.     *)
LlmReady(o) ==
    /\ o.kind = "sync" => o.target = row.linked
    /\ o.act = "rollout" => env.llm = o.target
    /\ o.act = "save" => o.target \in {config.llm, env.llm}

(* An LLM operation and any other have disturbed each other; patches know  *)
(* the LLMs of the row; and the row agrees with a source unless an         *)
(* activity is under way.                                                  *)
LlmInv ==
    /\ \A c \in Client : OnLlm(c) => "llm" \in upset \/ op[c].clean
    /\ \A c \in Client : OnLlm(c) /\ op[c].clean => LlmReady(op[c])
    /\ \A c, d \in Client :
         c # d /\ OnLlm(c) /\ Own(op[d].kind) # {}
           => ~op[c].clean /\ "llm" \in upset
    /\ \A c \in Client : Vector(c) \/ OnKeycloak(c) =>
         "llm" \in upset \/ op[c].snap.linked = row.linked
    /\ \/ "llm" \in upset
       \/ row.status # "deployed"
       \/ row.err
       \/ row.linked \in {config.llm, env.llm}
       \/ \E c \in Client : OnLlm(c) /\ Acting(op[c])

(* Who takes part in what LlmInv says of two operations.                   *)
LEMMA Touching ==
  ASSUME TypeInv, NEW c \in Client
  PROVE  /\ op[c].kind \in Kinds \cup {"none"} /\ op[c].clean \in BOOLEAN
         /\ Own(op[c].kind) # {} <=> (OnLlm(c) \/ Vector(c) \/ OnKeycloak(c))
         /\ OnLlm(c) => ~Vector(c) /\ ~OnKeycloak(c)
         /\ Acting(op[c]) => OnLlm(c) /\ op[c].kind # "sync"
         /\ OnLlm(c) => op[c].pc \in {"start", "call", "record", "answered"}
         /\ op[c].act # "none" => OnLlm(c) /\ op[c].kind # "sync"
                                  /\ op[c].pc \in {"record", "answered"}
<1>1. op[c] \in OpType /\ ShapeOf(op[c])
  BY DEF TypeInv, TypeOK
<1>2. op[c].kind \in Kinds \cup {"none"} /\ op[c].clean \in BOOLEAN
  BY <1>1 DEF OpType
<1>3. Own(op[c].kind) # {} <=> (OnLlm(c) \/ Vector(c) \/ OnKeycloak(c))
  BY <1>2, OwnKinds DEF OnLlm, Vector, OnKeycloak
<1>4. OnLlm(c) => ~Vector(c) /\ ~OnKeycloak(c)
  BY DEF OnLlm, Vector, OnKeycloak, LlmKinds, VectorKinds, KeycloakKinds
<1>5. OnLlm(c) => op[c].pc \in {"start", "call", "record", "answered"}
  BY <1>1 DEF ShapeOf, OpType, HandlerPcs, OnLlm, LlmKinds, VectorKinds,
     KeycloakKinds
<1>6. op[c].act # "none" => OnLlm(c) /\ op[c].kind # "sync"
                            /\ op[c].pc \in {"record", "answered"}
  BY <1>1 DEF ShapeOf, OnLlm, LlmKinds
<1> QED BY <1>2, <1>3, <1>4, <1>5, <1>6 DEF Acting

(* A step of c, an LLM operation: the others are disturbed already, so     *)
(* only what is said of c and of the row needs a look.                     *)
LEMMA LlmOthers ==
  ASSUME TypeInv, LlmInv, NEW c \in Client, OnLlm(c),
         \A d \in Client \ {c} : op'[d] = op[d],
         OnLlm(c)' => op'[c].clean = op[c].clean /\ (op[c].clean => LlmReady(op[c])'),
         ~OnLlm(c)' => Own(op'[c].kind) = {},
         \/ "llm" \in upset'
         \/ op[c].clean,
         "llm" \in upset /\ ~op[c].clean => "llm" \in upset',
         \/ "llm" \in upset'
         \/ row'.status # "deployed"
         \/ row'.err
         \/ row'.linked \in {config'.llm, env'.llm}
         \/ OnLlm(c)' /\ Acting(op'[c])
  PROVE  LlmInv'
<1>1. \A d \in Client \ {c} :
         /\ OnLlm(d)' <=> OnLlm(d)
         /\ Vector(d)' <=> Vector(d)
         /\ OnKeycloak(d)' <=> OnKeycloak(d)
  BY DEF OnLlm, Vector, OnKeycloak
<1>2. \A d \in Client \ {c} : Own(op[d].kind) # {} =>
         ~op[c].clean /\ "llm" \in upset /\ "llm" \in upset'
  BY DEF LlmInv
<1>3. \A d \in Client \ {c} : OnLlm(d) => ~op[d].clean /\ "llm" \in upset'
  BY <1>2, Touching DEF LlmInv
<1>4. ~Vector(c)' \/ ~OnLlm(c)'
  BY DEF Vector, OnLlm, VectorKinds, LlmKinds
<1>5. ~OnKeycloak(c)' \/ ~OnLlm(c)'
  BY DEF OnKeycloak, OnLlm, KeycloakKinds, LlmKinds
<1>6. ~Vector(c)' /\ ~OnKeycloak(c)'
  BY <1>4, <1>5, OwnKinds DEF Vector, OnKeycloak
<1>7. \A d \in Client : OnLlm(d)' => "llm" \in upset' \/ op'[d].clean
  BY <1>1, <1>3
<1>8. ASSUME NEW d \in Client, OnLlm(d)', op'[d].clean
      PROVE  LlmReady(op[d])'
  BY <1>8, <1>1, <1>3
<1>9. ASSUME NEW d \in Client, NEW e \in Client, d # e, OnLlm(d)',
             Own(op'[e].kind) # {}
      PROVE  ~op'[d].clean /\ "llm" \in upset'
  <2>1. CASE d = c
    BY <2>1, <1>9, <1>2
  <2>2. CASE d # c
    BY <2>2, <1>9, <1>1, <1>3
  <2> QED BY <2>1, <2>2
<1>10. \A d \in Client : (Vector(d) \/ OnKeycloak(d))' =>
          "llm" \in upset' \/ op'[d].snap.linked = row'.linked
  <2> SUFFICES ASSUME NEW d \in Client, (Vector(d) \/ OnKeycloak(d))'
               PROVE  "llm" \in upset'
    OBVIOUS
  <2>1. d # c /\ (Vector(d) \/ OnKeycloak(d))
    BY <1>1, <1>6
  <2> QED BY <2>1, <1>2, Touching
<1> QED BY <1>7, <1>8, <1>9, <1>10 DEF LlmInv

(* The LLM requests' own steps keep the invariant.                         *)
LEMMA LlmHandler ==
  ASSUME TypeInv, LlmInv, NEW c \in Client, OnLlm(c), Handler(c)
  PROVE  LlmInv'
<1> DEFINE o == op[c]
<1>a. \A d \in Client \ {c} : op'[d] = op[d]
  BY StepOps
<1>b. Own(Idle.kind) = {} /\ Idle.kind \notin LlmKinds
  BY OwnKinds DEF Idle, LlmKinds
<1>c. op \in [Client -> OpType] /\ o \in OpType
  BY DEF TypeInv, TypeOK
<1>d. /\ "llm" \in upset \/ o.clean
      /\ o.clean => LlmReady(o)
  BY DEF LlmInv
<1>e. o.kind \in LlmKinds /\ o.pc \in {"start", "call", "record", "answered"}
  BY Touching DEF OnLlm
<1>1. CASE Resync(c)
  <2>1. /\ o.pc = "call" /\ row' = row /\ env' = env /\ upset' = upset
        /\ op' = [op EXCEPT ![c] = Idle]
        /\ config'.llm \in {config.llm, o.target}
    BY <1>1, StoresTypes DEF Resync, Leave
  <2>2. op'[c] = Idle /\ ~OnLlm(c)'
    BY <2>1, <1>b, <1>c DEF OnLlm
  <2>3. o.kind = "sync" /\ ~Acting(o)
    BY <2>1 DEF TypeInv, ShapeOf, Acting
  <2>4. \/ "llm" \in upset
        \/ row.status # "deployed"
        \/ row.err
        \/ row.linked \in {config'.llm, env.llm}
    <3>1. o.clean => o.target = row.linked
      BY <1>d, <2>3 DEF LlmReady
    <3>2. ASSUME NEW d \in Client \ {c}, OnLlm(d)
          PROVE  "llm" \in upset
      BY <3>2, Touching DEF LlmInv
    <3> QED BY <2>1, <2>3, <3>1, <3>2, <1>d DEF LlmInv
  <2> QED BY <1>a, <1>b, <1>d, <2>1, <2>2, <2>4, LlmOthers
<1>2. CASE StartWorkflow(c)
  <2>1. /\ row' = row /\ env' = env /\ upset' = upset /\ config' = config
        /\ o.pc = "start"
    BY <1>2 DEF StartWorkflow
  <2>2. ~Acting(o) /\ o.kind # "sync"
    BY <2>1 DEF TypeInv, ShapeOf, Acting
  <2>3. \/ "llm" \in upset
        \/ row.status # "deployed"
        \/ row.err
        \/ row.linked \in {config.llm, env.llm}
    <3>1. ASSUME NEW d \in Client \ {c}, OnLlm(d)
          PROVE  "llm" \in upset
      BY <3>1, Touching DEF LlmInv
    <3> QED BY <2>2, <3>1 DEF LlmInv
  <2>4. CASE Leave(c)
    <3>1. op'[c] = Idle /\ ~OnLlm(c)'
      BY <2>4, <1>b, <1>c DEF Leave, OnLlm
    <3> QED BY <1>a, <1>b, <1>d, <2>1, <2>3, <3>1, LlmOthers
  <2>5. ASSUME NEW pc \in {"record", "answered"},
               op' = [op EXCEPT ![c].pc = pc, ![c].act = "sync"]
        PROVE  LlmInv'
    <3>1. /\ op'[c].kind = o.kind /\ op'[c].clean = o.clean
          /\ op'[c].act = "sync" /\ op'[c].target = o.target
      BY <2>5, <1>c DEF OpType
    <3>2. LlmReady(op[c])'
      BY <3>1, <2>2 DEF LlmReady
    <3>3. OnLlm(c)'
      BY <3>1, <1>e DEF OnLlm
    <3> QED BY <1>a, <1>d, <2>1, <2>3, <3>1, <3>2, <3>3, LlmOthers
  <2> QED BY <1>2, <2>4, <2>5 DEF StartWorkflow
<1>3. CASE Record(c)
  <2>1. /\ o.pc = "record" /\ env' = env /\ config' = config
        /\ row'.status # "deployed" /\ upset \subseteq upset'
    BY <1>3, StoresTypes DEF Record, RowType
  <2>2. CASE Leave(c)
    <3>1. op'[c] = Idle /\ ~OnLlm(c)'
      BY <2>2, <1>b, <1>c DEF Leave, OnLlm
    <3> QED BY <1>a, <1>b, <1>d, <2>1, <3>1, LlmOthers
  <2>3. CASE Move(c, "answered")
    <3>1. /\ op'[c].kind = o.kind /\ op'[c].clean = o.clean
          /\ op'[c].act = o.act /\ op'[c].target = o.target
      BY <2>3, <1>c DEF Move, OpType
    <3>2. o.kind # "sync"
      BY <2>1 DEF TypeInv, ShapeOf
    <3>3. o.clean => LlmReady(op[c])'
      BY <1>d, <2>1, <3>1, <3>2 DEF LlmReady
    <3>4. OnLlm(c)'
      BY <3>1, <1>e DEF OnLlm
    <3> QED BY <1>a, <1>d, <2>1, <3>1, <3>3, <3>4, LlmOthers
  <2> QED BY <1>3, <2>2, <2>3 DEF Record
<1>4. /\ ~KeycloakForm(c) /\ ~Get(c) /\ ~Put(c) /\ ~Refused(c)
      /\ ~Commit(c)
  BY <1>e DEF KeycloakForm, ClientRefused, CaCertificate, Get, Put, Refused, Commit
<1> QED BY <1>1, <1>2, <1>3, <1>4 DEF Handler

(* The activities keep the invariant.                                      *)
LEMMA LlmActivity ==
  ASSUME TypeInv, LlmInv, NEW c \in Client, Activity(c)
  PROVE  LlmInv'
<1> DEFINE o == op[c]
<1>a. \A d \in Client \ {c} : op'[d] = op[d]
  BY StepOps
<1>b. Own(Idle.kind) = {} /\ Idle.kind \notin LlmKinds
  BY OwnKinds DEF Idle, LlmKinds
<1>c. op \in [Client -> OpType] /\ o \in OpType
  BY DEF TypeInv, TypeOK
<1>d. o.act # "none"
  BY DEF Activity, SyncConfig, ActivityGet, ActivityPut, Rollout, Raises,
     Save, Fail
<1>e. OnLlm(c) /\ o.kind \in LlmKinds /\ o.kind # "sync"
  BY <1>d, Touching DEF OnLlm
<1>f. /\ "llm" \in upset \/ o.clean
      /\ o.clean => LlmReady(o)
  BY <1>e DEF LlmInv
<1>g. ASSUME NEW a \in ActivityPcs, NEW e \in EnvType,
             op' = [op EXCEPT ![c].act = a, ![c].copy = e]
      PROVE  /\ op'[c].kind = o.kind /\ op'[c].clean = o.clean
             /\ op'[c].act = a /\ op'[c].target = o.target
             /\ OnLlm(c)'
  <2>1. /\ op'[c].kind = o.kind /\ op'[c].clean = o.clean
        /\ op'[c].act = a /\ op'[c].target = o.target
    BY <1>g, <1>c DEF OpType
  <2> QED BY <2>1, <1>e DEF OnLlm
<1>h. ASSUME NEW a \in ActivityPcs, ActivityAt(c, a)
      PROVE  /\ op'[c].kind = o.kind /\ op'[c].clean = o.clean
             /\ op'[c].act = a /\ op'[c].target = o.target
             /\ OnLlm(c)'
  <2>1. /\ op'[c].kind = o.kind /\ op'[c].clean = o.clean
        /\ op'[c].act = a /\ op'[c].target = o.target
    BY <1>h, <1>c DEF OpType, ActivityAt
  <2> QED BY <2>1, <1>e DEF OnLlm
<1>i. ASSUME ActivityEnds(c)
      PROVE  \/ op'[c] = Idle /\ ~OnLlm(c)'
             \/ /\ op'[c].kind = o.kind /\ op'[c].clean = o.clean
                /\ op'[c].act = "over" /\ OnLlm(c)'
  <2>1. CASE Leave(c)
    BY <2>1, <1>b, <1>c DEF Leave, OnLlm
  <2>2. CASE ActivityAt(c, "over")
    BY <2>2, <1>h DEF ActivityPcs
  <2> QED BY <1>i, <2>1, <2>2 DEF ActivityEnds
<1>1. CASE SyncConfig(c) \/ Rollout(c)
  <2>1. /\ row' = row /\ env' = env /\ upset' = upset
    BY <1>1 DEF SyncConfig, Rollout
  <2>2. PICK a \in {"save", "get"} :
           /\ ActivityAt(c, a)
           /\ a = "save" => config'.llm = o.target \/ o.act = "rollout"
    BY <1>1, StoresTypes DEF SyncConfig, Rollout
  <2>3. /\ op'[c].kind = o.kind /\ op'[c].clean = o.clean
        /\ op'[c].act = a /\ op'[c].target = o.target
        /\ OnLlm(c)'
    BY <2>2, <1>h DEF ActivityPcs
  <2>4. o.clean => LlmReady(op[c])'
    BY <1>e, <1>f, <2>1, <2>2, <2>3 DEF LlmReady
  <2>5. Acting(op'[c])
    BY <2>3 DEF Acting
  <2> QED BY <1>a, <1>e, <1>f, <2>1, <2>3, <2>4, <2>5, LlmOthers
<1>2. CASE ActivityGet(c) \/ Raises(c)
  <2>1. /\ row' = row /\ env' = env /\ upset' = upset /\ config' = config
    BY <1>2 DEF ActivityGet, ReadDeployment, Raises
  <2>2. /\ op'[c].kind = o.kind /\ op'[c].clean = o.clean
        /\ op'[c].act \in {"put", "fail"} /\ OnLlm(c)'
    <3>1. CASE ActivityGet(c)
      <4>1. op'[c] = [o EXCEPT !.act = "put", !.copy = env]
        BY <3>1, <1>c DEF ActivityGet, ReadDeployment
      <4> QED BY <4>1, <1>c, <1>e DEF OpType, OnLlm
    <3>2. CASE Raises(c)
      BY <3>2, <1>g, StoresTypes DEF Raises, ActivityPcs
    <3> QED BY <1>2, <3>1, <3>2
  <2>3. LlmReady(op[c])' /\ Acting(op'[c])
    BY <2>2, <1>e DEF LlmReady, Acting
  <2> QED BY <1>a, <1>e, <1>f, <2>1, <2>2, <2>3, LlmOthers
<1>3. CASE ActivityPut(c)
  <2>1. /\ row' = row /\ upset' = upset /\ config' = config
        /\ env' = Patched(o) /\ o.copy = env
    BY <1>3 DEF ActivityPut, Replace, TypeInv, FreshOf
  <2>2. env'.llm = o.target
    BY <2>1, <1>e, StoresTypes DEF Patched, EnvType, LlmKinds
  <2>3. /\ op'[c].kind = o.kind /\ op'[c].clean = o.clean
        /\ op'[c].act = "rollout" /\ op'[c].target = o.target /\ OnLlm(c)'
    BY <1>3, <1>g, StoresTypes DEF ActivityPut, ActivityPcs
  <2>4. LlmReady(op[c])' /\ Acting(op'[c])
    BY <2>2, <2>3, <1>e DEF LlmReady, Acting
  <2> QED BY <1>a, <1>e, <1>f, <2>1, <2>3, <2>4, LlmOthers
<1>4. ASSUME ActivityEnds(c), o.clean \/ "llm" \in upset',
             "llm" \in upset /\ ~o.clean => "llm" \in upset',
             \/ "llm" \in upset'
             \/ row'.status # "deployed"
             \/ row'.err
             \/ row'.linked \in {config'.llm, env'.llm}
      PROVE  LlmInv'
  <2>1. CASE op'[c] = Idle /\ ~OnLlm(c)'
    BY <1>a, <1>b, <1>e, <1>4, <2>1, LlmOthers
  <2>2. CASE /\ op'[c].kind = o.kind /\ op'[c].clean = o.clean
             /\ op'[c].act = "over" /\ OnLlm(c)'
    <3>1. LlmReady(op[c])'
      BY <2>2, <1>e DEF LlmReady
    <3> QED BY <1>a, <1>e, <1>4, <2>2, <3>1, LlmOthers
  <2> QED BY <1>4, <1>i, <2>1, <2>2
<1>5. CASE Save(c)
  <2>1. /\ row'.linked = o.target /\ env' = env /\ config' = config
        /\ upset' = IF o.clean THEN upset \ {"llm"} ELSE upset
        /\ o.act = "save" /\ ActivityEnds(c)
    BY <1>5, StoresTypes DEF Save, RowType
  <2>2. o.clean => row'.linked \in {config'.llm, env'.llm}
    BY <2>1, <1>f DEF LlmReady
  <2> QED BY <2>1, <2>2, <1>f, <1>4
<1>6. CASE Fail(c)
  <2>1. row'.err /\ upset' = upset /\ ActivityEnds(c)
    BY <1>6, StoresTypes DEF Fail, RowType
  <2> QED BY <2>1, <1>f, <1>4
<1> QED BY <1>1, <1>2, <1>3, <1>5, <1>6 DEF Activity

(* A step of an operation that is not about LLMs: a patch that brings the  *)
(* LLMs along brings those of the row.                                     *)
LEMMA LlmElsewhere ==
  ASSUME TypeInv, LlmInv, NEW c \in Client, ~OnLlm(c), Handler(c) \/ Die(c)
  PROVE  LlmInv'
<1> DEFINE o == op[c]
<1>a. \A d \in Client \ {c} : op'[d] = op[d]
  BY StepOps
<1>b. Own(Idle.kind) = {} /\ Idle.kind \notin LlmKinds
      /\ Idle.kind \notin VectorKinds /\ Idle.kind \notin KeycloakKinds
  BY OwnKinds DEF Idle, LlmKinds, VectorKinds, KeycloakKinds
<1>c. /\ ~OnLlm(c)'
      /\ (Vector(c) \/ OnKeycloak(c))' =>
            (Vector(c) \/ OnKeycloak(c)) /\ op'[c].snap = o.snap
      /\ Own(op'[c].kind) # {} => Own(o.kind) # {}
  <2>1. op'[c] = Idle \/ (op'[c].kind = o.kind /\ op'[c].snap = o.snap)
    BY StepOps
  <2>2. CASE op'[c] = Idle
    BY <2>2, <1>b DEF OnLlm, Vector, OnKeycloak
  <2>3. CASE op'[c].kind = o.kind /\ op'[c].snap = o.snap
    BY <2>3 DEF OnLlm, Vector, OnKeycloak
  <2> QED BY <2>1, <2>2, <2>3
<1>d. ~Resync(c) /\ ~StartWorkflow(c) /\ ~Record(c)
  BY DEF Resync, StartWorkflow, Record, TypeInv, ShapeOf, OnLlm, LlmKinds
<1>1. /\ row'.linked = row.linked /\ row'.status = row.status
      /\ row'.err = row.err
  BY <1>d, StoresTypes
  DEF Handler, KeycloakForm, ClientRefused, CaCertificate, Get, ReadDeployment,
      Put, Refused, Commit, Die,
      RowType
<1>2. config'.llm = config.llm
  BY <1>d, StoresTypes
  DEF Handler, KeycloakForm, ClientRefused, CaCertificate, Get, ReadDeployment,
      Put, Refused, Commit, Die
<1>3. "llm" \in upset => "llm" \in upset'
  BY <1>d
  DEF Handler, KeycloakForm, ClientRefused, CaCertificate, Get, ReadDeployment,
      Put, Refused, PatchFails,
      Commit, Die
<1>4. \/ env'.llm = env.llm
      \/ /\ Vector(c) \/ OnKeycloak(c)
         /\ env'.llm = o.snap.linked
  <2>1. CASE Put(c)
    <3>1. o.copy = env /\ env' = Patched(o)
      BY <2>1 DEF Put, Replace, TypeInv, FreshOf
    <3>2. o.kind \in VectorKinds \cup KeycloakKinds \cup {"repair"}
      BY <2>1 DEF Put, TypeInv, ShapeOf
    <3>3. env'.llm = CASE o.kind \in LlmKinds -> o.target
                       [] o.kind = "repair" -> env.llm
                       [] OTHER -> IF o.snap.linked = {} THEN env.llm
                                   ELSE o.snap.linked
      BY <3>1, StoresTypes DEF Patched, EnvType
    <3>4. env'.llm = env.llm \/ (o.kind # "repair" /\ env'.llm = o.snap.linked)
      BY <3>2, <3>3 DEF LlmKinds, VectorKinds, KeycloakKinds
    <3> QED BY <3>2, <3>4 DEF Vector, OnKeycloak
  <2>2. CASE ~Put(c)
    BY <1>d, <2>2
    DEF Handler, KeycloakForm, ClientRefused, CaCertificate, Get,
        ReadDeployment, Refused, Commit, Die
  <2> QED BY <2>1, <2>2
<1>5. \A d \in Client : OnLlm(d)' <=> OnLlm(d)
  BY <1>a, <1>c DEF OnLlm
<1>6. \A d \in Client : OnLlm(d) => d # c /\ op'[d] = op[d]
  BY <1>a
<1>7. \A d \in Client : OnLlm(d)' => "llm" \in upset' \/ op'[d].clean
  BY <1>3, <1>5, <1>6 DEF LlmInv
<1>8. ASSUME NEW d \in Client, OnLlm(d)', op'[d].clean
      PROVE  LlmReady(op[d])'
  <2>1. OnLlm(d) /\ d # c /\ op'[d] = op[d] /\ LlmReady(op[d])
    BY <1>5, <1>6, <1>8 DEF LlmInv
  <2>2. ~Vector(c) /\ ~OnKeycloak(c)
    BY <2>1, <1>8, Touching DEF LlmInv
  <2>3. env'.llm = env.llm
    BY <2>2, <1>4
  <2> QED BY <2>1, <2>3, <1>1, <1>2 DEF LlmReady
<1>9. ASSUME NEW d \in Client, NEW e \in Client, d # e, OnLlm(d)',
             Own(op'[e].kind) # {}
      PROVE  ~op'[d].clean /\ "llm" \in upset'
  <2>1. OnLlm(d) /\ op'[d] = op[d] /\ Own(op[e].kind) # {}
    BY <1>9, <1>5, <1>6, <1>a, <1>c
  <2> QED BY <2>1, <1>9, <1>3 DEF LlmInv
<1>10. ASSUME NEW d \in Client, (Vector(d) \/ OnKeycloak(d))'
       PROVE  "llm" \in upset' \/ op'[d].snap.linked = row'.linked
  <2>1. (Vector(d) \/ OnKeycloak(d)) /\ op'[d].snap = op[d].snap
    BY <1>10, <1>a, <1>c DEF Vector, OnKeycloak
  <2> QED BY <2>1, <1>1, <1>3 DEF LlmInv
<1>11. \/ "llm" \in upset'
       \/ row'.status # "deployed"
       \/ row'.err
       \/ row'.linked \in {config'.llm, env'.llm}
       \/ \E d \in Client : OnLlm(d)' /\ Acting(op'[d])
  <2>1. CASE \E d \in Client : OnLlm(d) /\ Acting(op[d])
    BY <2>1, <1>5, <1>6
  <2>2. CASE row.linked \in {config.llm, env.llm}
    BY <2>2, <1>1, <1>2, <1>3, <1>4 DEF LlmInv
  <2> QED BY <2>1, <2>2, <1>1, <1>3 DEF LlmInv
<1> QED BY <1>7, <1>8, <1>9, <1>10, <1>11 DEF LlmInv

(* An LLM operation that dies is a disturbance.                            *)
LEMMA LlmDies ==
  ASSUME TypeInv, LlmInv, NEW c \in Client, OnLlm(c), Die(c)
  PROVE  LlmInv'
<1>1. op'[c] = Idle
  BY DEF Die, Leave, TypeInv, TypeOK
<1>2. ~OnLlm(c)' /\ Own(op'[c].kind) = {}
  BY <1>1, OwnKinds DEF OnLlm, Idle, LlmKinds
<1>3. "llm" \in upset'
  BY OwnKinds DEF Die, OnLlm
<1> QED BY <1>2, <1>3, StepOps, LlmOthers

(* A request disturbs the LLM operations, or is one that is disturbed.     *)
LEMMA LlmRequest ==
  ASSUME TypeInv, LlmInv, NEW c \in Client, Request(c)
  PROVE  LlmInv'
<1>1. ASSUME NEW k \in Kinds, NEW pc \in HandlerPcs \ {"commit"},
             NEW target \in SUBSET Llm, NEW db \in VectorDb \cup {NoDb},
             Enter(c, k, pc, target, db), k = "sync" => target = row.linked
      PROVE  LlmInv'
  <2>1. /\ op[c].kind = "none" /\ UNCHANGED <<row, env, config>>
        /\ op'[c].kind = k /\ op'[c].pc = pc /\ op'[c].snap = Seen(k)
        /\ op'[c].act = "none" /\ op'[c].target = target
    BY <1>1, EnterEffect
  <2>2. /\ \A a \in upset : a \in upset'
        /\ \A d \in Client : \A a \in Disturbed(k, op[d].kind) : a \in upset'
        /\ \A d \in Client : \A a \in Disturbed(k, op[d].kind) \cap Own(k) :
              ~op'[c].clean
        /\ \A d \in Client \ {c} :
              /\ op'[d].kind = op[d].kind /\ op'[d].pc = op[d].pc
              /\ op'[d].act = op[d].act /\ op'[d].snap = op[d].snap
              /\ op'[d].target = op[d].target /\ op'[d].db = op[d].db
              /\ op'[d].clean <=> (op[d].clean /\
                    Disturbed(k, op[d].kind) \cap Own(op[d].kind) = {})
        /\ \/ op'[c].clean
           \/ \E d \in Client : Disturbed(k, op[d].kind) \cap Own(k) # {}
    <3>1. Enter(c, k, pc, target, db) /\ pc \in HandlerPcs
      BY <1>1
    <3> QED BY <3>1, EnterDisturbs
  <2>3. \A d \in Client \ {c} :
           /\ OnLlm(d)' <=> OnLlm(d)
           /\ Vector(d)' <=> Vector(d)
           /\ OnKeycloak(d)' <=> OnKeycloak(d)
           /\ Own(op'[d].kind) = Own(op[d].kind)
    BY <2>2 DEF OnLlm, Vector, OnKeycloak
  <2>4. ~OnLlm(c) /\ ~Vector(c) /\ ~OnKeycloak(c) /\ Own(op[c].kind) = {}
    BY <2>1, OwnKinds
    DEF OnLlm, Vector, OnKeycloak, LlmKinds, VectorKinds, KeycloakKinds
  <2>5. \A d \in Client : OnLlm(d) /\ Own(k) # {} =>
           /\ Disturbed(k, op[d].kind) = {"llm"}
           /\ Own(op[d].kind) = {"llm"}
    BY OwnKinds DEF Disturbed, OnLlm
  <2>6. \A d \in Client : k \in LlmKinds =>
           /\ Own(k) = {"llm"}
           /\ Disturbed(k, op[d].kind) = IF Own(op[d].kind) = {} THEN {}
                                         ELSE {"llm"}
    BY OwnKinds DEF Disturbed
  <2>7. /\ OnLlm(c)' <=> k \in LlmKinds
        /\ Own(op'[c].kind) = Own(k)
    BY <2>1 DEF OnLlm
  <2>8. ASSUME NEW d \in Client, OnLlm(d)'
        PROVE  "llm" \in upset' \/ op'[d].clean
    <3>1. CASE d = c
      BY <3>1, <2>8, <2>2, <2>6, <2>7
    <3>2. CASE d # c
      <4>1. OnLlm(d) /\ ("llm" \in upset \/ op[d].clean)
        BY <3>2, <2>8, <2>3 DEF LlmInv
      <4>2. Own(k) = {} => Disturbed(k, op[d].kind) = {}
        BY DEF Disturbed
      <4> QED BY <3>2, <4>1, <4>2, <2>2, <2>5
    <3> QED BY <3>1, <3>2
  <2>9. ASSUME NEW d \in Client, OnLlm(d)', op'[d].clean
        PROVE  LlmReady(op[d])'
    <3>1. CASE d = c
      BY <3>1, <2>1, <1>1 DEF LlmReady
    <3>2. CASE d # c
      <4>1. OnLlm(d) /\ op[d].clean
        BY <3>2, <2>9, <2>3, <2>2
      <4> QED BY <3>2, <4>1, <2>1, <2>2 DEF LlmInv, LlmReady
    <3> QED BY <3>1, <3>2
  <2>10. ASSUME NEW d \in Client, NEW e \in Client, d # e, OnLlm(d)',
                Own(op'[e].kind) # {}
         PROVE  ~op'[d].clean /\ "llm" \in upset'
    <3>1. CASE d = c
      <4>1. Own(op[e].kind) # {} /\ k \in LlmKinds
        BY <3>1, <2>10, <2>3, <2>7
      <4> QED BY <3>1, <4>1, <2>2, <2>6
    <3>2. CASE e = c
      <4>1. OnLlm(d) /\ Own(k) # {} /\ d # c
        BY <3>2, <2>10, <2>3, <2>7
      <4> QED BY <4>1, <2>2, <2>5
    <3>3. CASE d # c /\ e # c
      <4>1. OnLlm(d) /\ Own(op[e].kind) # {}
        BY <3>3, <2>10, <2>3
      <4> QED BY <3>3, <4>1, <2>10, <2>2 DEF LlmInv
    <3> QED BY <3>1, <3>2, <3>3
  <2>11. ASSUME NEW d \in Client, (Vector(d) \/ OnKeycloak(d))'
         PROVE  "llm" \in upset' \/ op'[d].snap.linked = row'.linked
    <3>1. CASE d = c
      <4>1. k \notin {"sync", "repair"}
        BY <3>1, <2>11, <2>1 DEF Vector, OnKeycloak, VectorKinds,
           KeycloakKinds
      <4> QED BY <3>1, <4>1, <2>1 DEF Seen, NoRow
    <3>2. CASE d # c
      BY <3>2, <2>11, <2>1, <2>2, <2>3 DEF LlmInv
    <3> QED BY <3>1, <3>2
  <2>12. \/ "llm" \in upset'
         \/ row'.status # "deployed"
         \/ row'.err
         \/ row'.linked \in {config'.llm, env'.llm}
         \/ \E d \in Client : OnLlm(d)' /\ Acting(op'[d])
    <3>1. \A d \in Client : OnLlm(d) /\ Acting(op[d]) =>
             d # c /\ OnLlm(d)' /\ Acting(op'[d])
      BY <2>2, <2>3, <2>4 DEF Acting
    <3> QED BY <3>1, <2>1, <2>2 DEF LlmInv
  <2> QED BY <2>8, <2>9, <2>10, <2>11, <2>12 DEF LlmInv
<1>2. PICK k \in Kinds, pc \in HandlerPcs \ {"commit"},
           target \in SUBSET Llm, db \in VectorDb \cup {NoDb} :
        Enter(c, k, pc, target, db) /\ (k = "sync" => target = row.linked)
  BY RequestEnters
<1> QED BY <1>1, <1>2

(* A row that is deployed without an error lists the LLMs of OpenWebUI's   *)
(* config table or those of the pod, unless operations overlapped or one   *)
(* died: for any number of LLMs, users and failures.                       *)
THEOREM LlmsKeepAgreeing == Spec => []LlmsAgree
<1>1. Init => LlmInv
  <2> SUFFICES ASSUME Init PROVE LlmInv
    OBVIOUS
  <2>1. \A c \in Client : /\ ~OnLlm(c) /\ ~Vector(c) /\ ~OnKeycloak(c)
                          /\ Own(op[c].kind) = {}
    BY OwnKinds DEF Init, Idle, OnLlm, Vector, OnKeycloak, LlmKinds,
       VectorKinds, KeycloakKinds
  <2>2. row.linked = {} /\ config.llm = {}
    BY DEF Init, NoRow
  <2> QED BY <2>1, <2>2 DEF LlmInv
<1>2. TypeInv /\ LlmInv /\ [Next]_vars => LlmInv'
  <2> SUFFICES ASSUME TypeInv, LlmInv, [Next]_vars PROVE LlmInv'
    OBVIOUS
  <2>1. CASE Next
    <3>1. PICK c \in Client : StepOf(c)
      BY <2>1 DEF Next, StepOf
    <3> QED BY <3>1, LlmRequest, LlmHandler, LlmElsewhere, LlmDies,
               LlmActivity DEF StepOf
  <2>2. CASE UNCHANGED vars
    BY <2>2 DEF vars, LlmInv, LlmReady, Acting, OnLlm, Vector, OnKeycloak
  <2> QED BY <2>1, <2>2
<1>3. LlmInv => LlmsAgree
  BY DEF LlmInv, LlmsAgree, Busy, OnLlm
<1>4. Spec => []TypeInv
  BY InitTypes, NextTypes, PTL DEF Spec
<1> QED BY <1>1, <1>2, <1>3, <1>4, PTL DEF Spec
=============================================================================
