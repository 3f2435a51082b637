------------------------------ MODULE OpenWebUi -----------------------------
(***************************************************************************)
(* The connections of one deployed OpenWebUI: connect_private_llm,         *)
(* disconnect_private_llm and sync_llm_connections with the activities of  *)
(* workflows_connect_llm.py, connect_vectordb and disconnect_vectordb,     *)
(* connect_keycloak and disconnect_keycloak, and repair_database_url.      *)
(*                                                                         *)
(* What is connected is kept three times: in the row of app_deployments,   *)
(* in the environment of the pod (replaced as a whole, refused when the    *)
(* Deployment changed since it was read) and in OpenWebUI's own config     *)
(* table.  Requests run in threads, LLM workflows after their request.     *)
(***************************************************************************)
EXTENDS Naturals, FiniteSets

CONSTANTS
    Llm,         \* rows of llm_inferences
    VectorDb,    \* deployed rows of app_deployments of type vectordb
    Client,      \* users, each with one request or workflow at a time
    Asks,        \* bound: the kinds of requests that users combine
    NoDb

LlmKinds == {"connect", "disconnect", "sync"}
VectorKinds == {"vectordb", "no_vectordb"}
KeycloakKinds == {"keycloak", "no_keycloak"}
Kinds == LlmKinds \cup VectorKinds \cup KeycloakKinds \cup {"repair"}

ASSUME OpenWebUiAssumption ==
    /\ NoDb \notin VectorDb
    /\ Asks \subseteq [Client -> SUBSET Kinds]

Settled == {"deployed", "failed", "llm_connect_failed"}
Running == {"connecting_llm", "disconnecting_llm"}

Aspects == {"llm", "vdb", "kc", "form"}

VARIABLES
    row,         \* the row: status, linked (ids), err, vdb, kc
    env,         \* the pod's environment: llm (urls), vdb, kc, dburl
    config,      \* OpenWebUI's config table: llm (urls), form
    op,          \* the request and the activity of each client
    fresh,       \* clients whose copy of the Deployment is the current one
    \* auxiliary: what operations disturbed that overlapped or failed half
    \* way, and "stuck" when an LLM workflow can no longer settle the row
    upset,
    asks         \* what each client asks for, however often

vars == <<row, env, config, op, fresh, upset, asks>>

RowType == [status : Settled \cup Running, linked : SUBSET Llm,
            err : BOOLEAN, vdb : VectorDb \cup {NoDb}, kc : BOOLEAN]
EnvType == [llm : SUBSET Llm, vdb : VectorDb \cup {NoDb},
            kc : BOOLEAN, dburl : BOOLEAN]

HandlerPcs == {"idle", "start", "record", "answered", "call", "form",
               "get", "put", "commit"}
ActivityPcs == {"none", "sync", "get", "put", "rollout", "save", "fail",
                "over"}

OpType == [kind : Kinds \cup {"none"},
           pc : HandlerPcs,
           act : ActivityPcs,
           snap : RowType,              \* what the request read of the row
           target : SUBSET Llm,         \* new_ids or remaining_ids
           db : VectorDb \cup {NoDb},   \* vectordb_deploy_id
           copy : EnvType,              \* the Deployment as it was read
           clean : BOOLEAN]             \* auxiliary: nobody disturbed it

TypeOK ==
    /\ row \in RowType
    /\ env \in EnvType
    /\ config \in [llm : SUBSET Llm, form : BOOLEAN]
    /\ op \in [Client -> OpType]
    /\ fresh \subseteq Client
    /\ upset \subseteq Aspects \cup {"stuck"}
    /\ asks \in Asks

NoRow == [status |-> "failed", linked |-> {}, err |-> FALSE, vdb |-> NoDb,
          kc |-> FALSE]
NoEnv == [llm |-> {}, vdb |-> NoDb, kc |-> FALSE, dburl |-> FALSE]
Idle == [kind |-> "none", pc |-> "idle", act |-> "none", snap |-> NoRow,
         target |-> {}, db |-> NoDb, copy |-> NoEnv, clean |-> FALSE]

(* A deployment nothing is connected to; early ones lost DATABASE_URL.     *)
Init ==
    /\ \E s \in {"deployed", "failed"} :
           row = [NoRow EXCEPT !.status = s, !.err = (s = "failed")]
    /\ \E b \in BOOLEAN : env = [NoEnv EXCEPT !.dburl = b]
    /\ config = [llm |-> {}, form |-> TRUE]
    /\ op = [c \in Client |-> Idle]
    /\ fresh = {}
    /\ upset = {}
    /\ asks \in Asks

-----------------------------------------------------------------------------
(* What an operation is about, and what two of them at the same time may   *)
(* do to each other.                                                       *)

Own(k) == CASE k \in VectorKinds -> {"vdb"}
            [] k \in KeycloakKinds -> {"kc", "form"}
            [] k \in LlmKinds -> {"llm"}
            [] OTHER -> {}

Disturbed(k1, k2) ==
    IF Own(k1) = {} \/ Own(k2) = {} THEN {}
    ELSE IF "llm" \in Own(k1) \cup Own(k2) THEN {"llm"}
    ELSE Own(k1) \cap Own(k2)

(* The columns that a request of kind k uses later.                        *)
Seen(k) ==
    [NoRow EXCEPT
       !.linked = IF k \in {"sync", "repair"} THEN @ ELSE row.linked,
       !.err = k \in LlmKinds /\ row.err,
       !.vdb = IF k \in VectorKinds THEN row.vdb ELSE @,
       !.kc = k \in KeycloakKinds /\ row.kc]

(* Client c enters with request k, which reads the row.                    *)
Enter(c, k, pc, target, db) ==
    LET shared(d) == Disturbed(k, op[d].kind)
        all == UNION {shared(d) : d \in Client}
    IN  /\ op[c].kind = "none"
        /\ k \in asks[c]
        /\ op' = [d \in Client |->
                    IF d = c
                    THEN [Idle EXCEPT !.kind = k, !.pc = pc, !.snap = Seen(k),
                                      !.target = target, !.db = db,
                                      !.clean = all \cap Own(k) = {}]
                    ELSE [op[d] EXCEPT
                            !.clean = @ /\ shared(d) \cap Own(op[d].kind) = {}]]
        /\ upset' = upset \cup all
        /\ UNCHANGED <<row, env, config, fresh>>

Move(c, pc) == op' = [op EXCEPT ![c].pc = pc]
Leave(c) == op' = [op EXCEPT ![c] = Idle]

(* The column is part of the UPDATE only if the request changed the value  *)
(* it had read.                                                            *)
Written(new, old, current) == IF new = old THEN current ELSE new

-----------------------------------------------------------------------------
(* The requests.  Those about LLMs run on the event loop and wait for      *)
(* Temporal; the others are threads.                                       *)

ConnectLlm(c) ==
    \E chosen \in SUBSET Llm \ {{}} :
        LET target == row.linked \cup chosen
        IN  /\ row.status \in Settled
            /\ IF target = row.linked
               THEN Enter(c, "sync", "call", target, NoDb)
               ELSE Enter(c, "connect", "start", target, NoDb)

DisconnectLlm(c) ==
    \E gone \in {row.linked} \cup {{l} : l \in row.linked} :
        /\ row.status \notin Running
        /\ Enter(c, "disconnect", "start", row.linked \ gone, NoDb)

SyncLlm(c) == Enter(c, "sync", "call", row.linked, NoDb)

ConnectVectorDb(c) ==
    /\ row.status \in Settled
    /\ \E v \in VectorDb : Enter(c, "vectordb", "get", {}, v)

DisconnectVectorDb(c) ==
    /\ row.vdb # NoDb
    /\ Enter(c, "no_vectordb", "get", {}, NoDb)

ConnectKeycloak(c) ==
    /\ row.status \in Settled
    /\ Enter(c, "keycloak", "form", {}, NoDb)

DisconnectKeycloak(c) ==
    /\ row.kc
    /\ Enter(c, "no_keycloak", "form", {}, NoDb)

RepairDatabaseUrl(c) == Enter(c, "repair", "get", {}, NoDb)

Request(c) ==
    \/ ConnectLlm(c) \/ DisconnectLlm(c) \/ SyncLlm(c)
    \/ ConnectVectorDb(c) \/ DisconnectVectorDb(c)
    \/ ConnectKeycloak(c) \/ DisconnectKeycloak(c)
    \/ RepairDatabaseUrl(c)

(* sync_llm_connections, and connect_private_llm with nothing to add: the  *)
(* API or PostgreSQL, neither if the OpenWebUI does not answer.            *)
Resync(c) ==
    /\ op[c].pc = "call"
    /\ \E l \in {config.llm, op[c].target} : config' = [config EXCEPT !.llm = l]
    /\ Leave(c)
    /\ UNCHANGED <<row, env, fresh, upset>>

(* The workflow starts, or does not, or does but the answer is lost.       *)
StartWorkflow(c) ==
    /\ op[c].pc = "start"
    /\ \/ op' = [op EXCEPT ![c].pc = "record", ![c].act = "sync"]
       \/ op' = [op EXCEPT ![c].pc = "answered", ![c].act = "sync"]
       \/ Leave(c)
    /\ UNCHANGED <<row, env, config, fresh, upset>>

(* The request writes the row after the start, whatever the activity has   *)
(* written since.                                                          *)
Record(c) ==
    LET o == op[c]
    IN  /\ o.pc = "record"
        /\ row' = [row EXCEPT
                     !.status = IF o.kind = "connect" THEN "connecting_llm"
                                ELSE "disconnecting_llm",
                     !.linked = Written(o.target, o.snap.linked, @),
                     !.err = Written(FALSE, o.snap.err, @)]
        /\ IF o.act = "over"
           THEN Leave(c) /\ upset' = upset \cup {"stuck"}
           ELSE Move(c, "answered") /\ UNCHANGED upset
        /\ UNCHANGED <<env, config, fresh>>

(* Keycloak does not give a client and its secret: the request ends.       *)
ClientRefused(c) ==
    /\ op[c].kind = "keycloak"
    /\ Leave(c)
    /\ UNCHANGED <<config, fresh>>

(* The CA certificate is mounted by a patch of the Deployment of its own,  *)
(* unless it is there already; that it fails is not noticed.               *)
CaCertificate(c) ==
    \/ UNCHANGED fresh
    \/ op[c].kind = "keycloak" /\ fresh' = {}

(* The Keycloak client, then the login form through the API and psql in    *)
(* the PostgreSQL pod: both may fail unnoticed.                            *)
KeycloakForm(c) ==
    /\ op[c].pc = "form"
    /\ \/ ClientRefused(c)
       \/ /\ \E f \in {config.form, op[c].kind = "no_keycloak"} :
                 config' = [config EXCEPT !.form = f]
          /\ CaCertificate(c)
          /\ Move(c, "get")
    /\ UNCHANGED <<row, env, upset>>

-----------------------------------------------------------------------------
(* Patches of the Deployment: read, change the environment, replace.       *)

\* mutants of Patched
PatchedThenCleaned(o) == [o.copy EXCEPT !.kc = o.kind = "repair" /\ @]
PatchedFromScratch(o) ==
    [o.copy EXCEPT !.dburl = o.kind \notin VectorKinds /\ @]

Patched(o) ==
    [o.copy EXCEPT
       !.vdb = CASE o.kind = "vectordb" -> o.db
                 [] o.kind = "no_vectordb" -> NoDb
                 [] OTHER -> @,
       !.kc = (@ \/ o.kind = "keycloak") /\ o.kind # "no_keycloak",
       !.dburl = @ \/ o.kind \in VectorKinds \cup {"repair"},
       !.llm = CASE o.kind \in LlmKinds -> o.target
                 [] o.kind = "repair" -> @
                 [] OTHER -> IF o.snap.linked = {} THEN @ ELSE o.snap.linked]

ReadDeployment(c, o) ==
    /\ op' = [op EXCEPT ![c] = o]
    /\ fresh' = fresh \cup {c}
    /\ UNCHANGED <<row, env, config, upset>>

\* mutant of Replace
ReplaceAnyway(c) == env' = Patched(op[c]) /\ fresh' = {}

(* Kubernetes refuses a copy that is not the current one.                  *)
Replace(c) ==
    /\ c \in fresh
    /\ env' = Patched(op[c])
    /\ fresh' = {}

Get(c) ==
    /\ op[c].pc = "get"
    /\ ReadDeployment(c, [op[c] EXCEPT !.pc = "put", !.copy = env])

(* HTTP 500 or 502, but disconnect_vectordb only adds a warning.           *)
PatchFails(c, applied) ==
    LET k == op[c].kind
    IN  /\ IF k = "no_vectordb"
           THEN op' = [op EXCEPT ![c].pc = "commit", ![c].copy = NoEnv,
                                 ![c].clean = FALSE]
           ELSE Leave(c)
        /\ upset' = upset
              \cup (IF applied \/ k = "no_vectordb" THEN Own(k)
                    ELSE Own(k) \cap {"form"})

Put(c) ==
    /\ op[c].pc = "put"
    /\ Replace(c)
    /\ \/ /\ IF op[c].kind = "repair" THEN Leave(c)
             ELSE op' = [op EXCEPT ![c].pc = "commit", ![c].copy = NoEnv]
          /\ UNCHANGED upset
       \/ PatchFails(c, TRUE)
    /\ UNCHANGED <<row, config>>

Refused(c) ==
    /\ op[c].pc \in {"get", "put"}
    /\ PatchFails(c, FALSE)
    /\ fresh' = fresh \ {c}
    /\ UNCHANGED <<row, env, config>>

Commit(c) ==
    LET o == op[c]
        healed == {"kc"} \cup (IF o.kind = "keycloak" \/ config.form
                               THEN {"form"} ELSE {})
    IN  /\ o.pc = "commit"
        /\ IF o.kind \in VectorKinds
           THEN /\ row' = [row EXCEPT !.vdb = Written(o.db, o.snap.vdb, @)]
                /\ upset' = IF o.clean THEN upset \ {"vdb"} ELSE upset
           ELSE /\ row' = [row EXCEPT
                             !.kc = Written(o.kind = "keycloak", o.snap.kc, @)]
                /\ upset' = (IF o.clean THEN upset \ healed ELSE upset)
                            \cup ({"form"} \ healed)
        /\ Leave(c)
        /\ UNCHANGED <<env, config, fresh>>

Handler(c) ==
    \/ Resync(c) \/ StartWorkflow(c) \/ Record(c) \/ KeycloakForm(c)
    \/ Get(c) \/ Put(c) \/ Refused(c) \/ Commit(c)

-----------------------------------------------------------------------------
(* connect_llm_activity and disconnect_llm_activity: one attempt.          *)

ActivityAt(c, pc) == op' = [op EXCEPT ![c].act = pc]
ActivityEnds(c) ==
    IF op[c].pc = "answered" THEN Leave(c) ELSE ActivityAt(c, "over")

\* mutant of SyncConfig
SyncOnce(c) ==
    /\ op[c].act = "sync"
    /\ \E l \in {config.llm, op[c].target} : config' = [config EXCEPT !.llm = l]
    /\ ActivityAt(c, "save")
    /\ UNCHANGED <<row, env, fresh, upset>>

(* Stages 1 and 1.5: the API, then PostgreSQL.                             *)
SyncConfig(c) ==
    /\ op[c].act = "sync"
    /\ \/ /\ config' = [config EXCEPT !.llm = op[c].target]
          /\ \E pc \in {"save", "get"} : ActivityAt(c, pc)
       \/ /\ UNCHANGED config
          /\ ActivityAt(c, "get")
    /\ UNCHANGED <<row, env, fresh, upset>>

(* Stages 2 to 5, if both failed.                                          *)
ActivityGet(c) ==
    /\ op[c].act = "get"
    /\ ReadDeployment(c, [op[c] EXCEPT !.act = "put", !.copy = env])

ActivityPut(c) ==
    /\ op[c].act = "put"
    /\ Replace(c)
    /\ op' = [op EXCEPT ![c].act = "rollout", ![c].copy = NoEnv]
    /\ UNCHANGED <<row, config, upset>>

(* Stages 6 and 6.5: a rollout that does not end in time is only logged,   *)
(* and so is an OpenWebUI that does not answer afterwards.                 *)
Rollout(c) ==
    /\ op[c].act = "rollout"
    /\ \E l \in {config.llm, op[c].target} : config' = [config EXCEPT !.llm = l]
    /\ ActivityAt(c, "save")
    /\ UNCHANGED <<row, env, fresh, upset>>

Raises(c) ==
    /\ op[c].act \in {"get", "put", "rollout"}
    /\ op' = [op EXCEPT ![c].act = "fail", ![c].copy = NoEnv]
    /\ fresh' = fresh \ {c}
    /\ UNCHANGED <<row, env, config, upset>>

(* Stage 7.                                                                *)
Save(c) ==
    /\ op[c].act = "save"
    /\ row' = [row EXCEPT !.linked = op[c].target, !.status = "deployed",
                          !.err = FALSE]
    /\ upset' = IF op[c].clean THEN upset \ {"llm"} ELSE upset
    /\ ActivityEnds(c)
    /\ UNCHANGED <<env, config, fresh>>

\* mutant of Fail
FailSilently(c) ==
    /\ op[c].act = "fail"
    /\ ActivityEnds(c)
    /\ UNCHANGED <<row, env, config, fresh, upset>>

(* except: a connection that failed is taken back, a disconnection not.    *)
Fail(c) ==
    LET connecting == op[c].kind = "connect"
    IN  /\ op[c].act = "fail"
        /\ row' = [row EXCEPT
                     !.status = IF connecting THEN "llm_connect_failed"
                                ELSE "deployed",
                     !.linked = IF connecting THEN op[c].snap.linked ELSE @,
                     !.err = TRUE]
        /\ ActivityEnds(c)
        /\ UNCHANGED <<env, config, fresh, upset>>

Activity(c) ==
    \/ SyncConfig(c) \/ ActivityGet(c) \/ ActivityPut(c) \/ Rollout(c)
    \/ Raises(c) \/ Save(c) \/ Fail(c)

(* The backend is restarted, or the database refuses a commit, in the      *)
(* middle of an operation.  Nothing takes it up again.                     *)
Die(c) ==
    /\ op[c].kind # "none"
    /\ upset' = upset \cup Own(op[c].kind)
          \cup (IF op[c].act \in {"none", "over"} THEN {} ELSE {"stuck"})
    /\ Leave(c)
    /\ fresh' = fresh \ {c}
    /\ UNCHANGED <<row, env, config>>

Next ==
    /\ \E c \in Client : Request(c) \/ Handler(c) \/ Activity(c) \/ Die(c)
    /\ UNCHANGED asks

Spec == Init /\ [][Next]_vars

(* Requests and activities go on; nobody has to make a request.            *)
Fairness ==
    \A c \in Client : /\ WF_vars(Handler(c) /\ UNCHANGED asks)
                    /\ WF_vars(Activity(c) /\ UNCHANGED asks)

FairSpec == Spec /\ Fairness

-----------------------------------------------------------------------------

Busy(kinds) == \E c \in Client : op[c].kind \in kinds

(* Every patch replaces the whole Deployment, yet none takes back what     *)
(* another wrote: when no operation on the vector database is under way,   *)
(* the environment has the one of the row, whatever Keycloak and LLM       *)
(* patches came in between, and the same for Keycloak.  Two operations on  *)
(* the same thing at once, or one that stops half way, may break this; the *)
(* next one that succeeds undisturbed restores it.                         *)
PatchesKept ==
    /\ "vdb" \notin upset /\ ~Busy(VectorKinds) => env.vdb = row.vdb
    /\ "kc" \notin upset /\ ~Busy(KeycloakKinds) => env.kc = row.kc

(* A row that is deployed without an error lists the LLMs that OpenWebUI   *)
(* was given by one of its two sources, its config table or the pod's      *)
(* environment, whichever of the stages of the activities failed and       *)
(* whatever patches came since.  Operations that overlap may break this,   *)
(* as may one that dies; the next undisturbed one restores it.             *)
LlmsAgree ==
    /\ row.status = "deployed"
    /\ ~row.err
    /\ "llm" \notin upset
    /\ ~Busy(LlmKinds)
    => row.linked \in {config.llm, env.llm}

(* When no Keycloak operation is under way somebody can log in: the form   *)
(* is shown or the pod has the Keycloak client.  A connection that fails   *)
(* after the form is hidden, and a form that is not shown again, break     *)
(* this; an undisturbed connection restores it.                            *)
LoginPossible ==
    "form" \notin upset /\ ~Busy(KeycloakKinds) => config.form \/ env.kc

(* No patch takes DATABASE_URL away from a pod that has it, as the pgvector *)
(* patch once did.                                                         *)
DbUrlStays == [][env.dburl => env'.dburl]_vars

(* A row that says an LLM is being connected or disconnected gets another  *)
(* status, unless the operation died or its request wrote the row only     *)
(* after the activity had ended.                                           *)
WorkflowSettles ==
    row.status \in Running ~> (row.status \notin Running \/ "stuck" \in upset)
=============================================================================
