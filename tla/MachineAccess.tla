--------------------------- MODULE MachineAccess ----------------------------
(***************************************************************************)
(* The machines of a Manual pool and the users assigned to them: the       *)
(* workflows of workflows_machine.py with the activities of                *)
(* activities_machine.py and the calls of gucamoleService.py they make.    *)
(*                                                                         *)
(* What belongs together is kept in two places, rows of the database and   *)
(* connections, accounts and permissions of Guacamole.  Every activity     *)
(* runs on the Core event loop, so that its steps are its segments from    *)
(* one await to the next, and other requests are served in between.        *)
(***************************************************************************)
EXTENDS Naturals, FiniteSets

CONSTANTS
    Machine,     \* names of machines; a connection's name is unique
    User,
    Admin,       \* each with one request at a time, however often
    Wants,       \* bound: the requests that clients combine
    MachineAttempts   \* of an activity (maximum_attempts)

(* The requests and the awaits their activities pass.                      *)
Requests == {"create", "delete", "update", "add", "remove"}
FirstAwait(o) ==
    CASE o = "create" -> "names" [] o = "delete" -> "find"
      [] o = "update" -> "put" [] o = "add" -> "details"
      [] OTHER -> "check"
Awaits == {"names", "connect", "insert", "undo", "find", "drop", "put",
           "details", "make", "grant", "grant_new", "check", "apply"}

Ask == [op : Requests,
        machine : Machine,
        user : User]

ASSUME MachineAccessAssumption ==
    /\ Wants \subseteq [Admin -> SUBSET Ask]
    /\ MachineAttempts \in Nat \ {0}

VARIABLES
    machines,    \* rows of machines_clone
    assigned,    \* their users_assigned
    listed,      \* pool_machines of the pool
    connections, \* Guacamole's connections,
    accounts,    \* its users
    grants,      \* and which may open which
    request,     \* of each client, with the activity's local state
    \* auxiliary: what a request left behind that ended half way or wrote
    \* back a list that had changed: connections, entries of the list, users
    stranded, mislisted, disturbed,
    wants        \* what each client asks for, however often

rowVars == <<machines, assigned, listed>>
guacVars == <<connections, accounts, grants>>
leftVars == <<stranded, mislisted, disturbed>>
accessVars == <<rowVars, guacVars, request, leftVars, wants>>

RequestType ==
    [op : Requests \cup {"none"},
     pc : Awaits \cup {"idle"},
     machine : SUBSET Machine,      \* the one it is about
     user : SUBSET User,
     users : SUBSET User,           \* users_assigned as it was read
     list : SUBSET Machine,         \* pool_machines as it was read
     others : BOOLEAN,              \* other_machine_with_user
     left : 0..MachineAttempts]

Resting == [op |-> "none", pc |-> "idle", machine |-> {}, user |-> {},
         users |-> {}, list |-> {}, others |-> FALSE, left |-> 0]

AccessTypeOK ==
    /\ machines \subseteq Machine
    /\ assigned \in [Machine -> SUBSET User]
    /\ listed \subseteq Machine
    /\ connections \subseteq Machine
    /\ accounts \subseteq User
    /\ grants \subseteq User \X Machine
    /\ request \in [Admin -> RequestType]
    /\ stranded \subseteq Machine
    /\ mislisted \subseteq Machine
    /\ disturbed \subseteq User
    /\ wants \in Wants

(* Any machines made before, and any users assigned to them.                *)
AccessInit ==
    /\ machines \in SUBSET Machine
    /\ accounts \in SUBSET User
    /\ assigned \in [Machine -> SUBSET accounts]
    /\ \A m \in Machine \ machines : assigned[m] = {}
    /\ listed = machines
    /\ connections = machines
    /\ grants = {g \in User \X Machine : g[1] \in assigned[g[2]]}
    /\ request = [c \in Admin |-> Resting]
    /\ stranded = {}
    /\ mislisted = {}
    /\ disturbed = {}
    /\ wants \in Wants

-----------------------------------------------------------------------------
(* Steps of every request.                                                 *)

Op(c) == request[c].op
At(c, o, pc) == request[c].op = o /\ request[c].pc = pc
About(c, m) == m \in request[c].machine
For(c, u) == u \in request[c].user

(* pool_machines is read with the pool, before anything is awaited.         *)
ListSeen(o) == IF o = "create" THEN listed ELSE {}

Submit(c, o, m, u, seen) ==
    /\ Op(c) = "none"
    /\ \E a \in wants[c] : a.op = o /\ a.machine = m /\ u \subseteq {a.user}
    /\ request' = [request EXCEPT
           ![c] = [op |-> o, pc |-> FirstAwait(o), machine |-> {m}, user |-> u,
                   users |-> seen, list |-> ListSeen(o), others |-> FALSE,
                   left |-> MachineAttempts]]
    /\ UNCHANGED <<rowVars, guacVars, leftVars>>

Proceed(c, pc) == request' = [request EXCEPT ![c].pc = pc]
Finish(c) == request' = [request EXCEPT ![c] = Resting]

(* The attempt raised, timed out or died, or its completion was lost: the  *)
(* next one starts anew.                                                   *)
Again(c) ==
    /\ request[c].left > 1
    /\ request' = [request EXCEPT
                     ![c] = [request[c] EXCEPT
                               !.pc = FirstAwait(Op(c)),
                               !.list = ListSeen(Op(c)),
                               !.users = IF Op(c) = "update"
                                         THEN request[c].users ELSE {},
                               !.others = FALSE,
                               !.left = request[c].left - 1]]

OutOfAttempts(c) == request[c].left = 1 /\ Finish(c)
Raise(c) == Again(c) \/ OutOfAttempts(c)
ReturnOrLost(c) == Finish(c) \/ Again(c)

(* Users whose entry the stored list has changed since it was read.        *)
Overwritten(c, m) ==
    (request[c].users \ assigned[m]) \cup (assigned[m] \ request[c].users)

-----------------------------------------------------------------------------
(* create_machine: the name is looked for, the connection is made by a     *)
(* workflow of its own, then the row is inserted.                          *)

AskCreate(c) == \E m \in Machine : Submit(c, "create", m, {}, {})

(* get_machine_name.                                                       *)
CreateNames(c) ==
    /\ At(c, "create", "names")
    /\ \/ /\ request[c].machine \subseteq connections
          /\ Finish(c)
       \/ /\ request[c].machine \cap connections = {}
          /\ Proceed(c, "connect")
    /\ UNCHANGED <<rowVars, guacVars, leftVars>>

(* Guacamole refuses a second connection of one name.                      *)
CreateConnect(c) ==
    /\ At(c, "create", "connect")
    /\ request[c].machine \cap connections = {}
    /\ connections' = connections \cup request[c].machine
    /\ Proceed(c, "insert")
    /\ UNCHANGED <<rowVars, accounts, grants, leftVars>>

(* An answer without an identifier: the connection may be there or not.    *)
CreateConnectFail(c) ==
    /\ At(c, "create", "connect")
    /\ \/ UNCHANGED <<connections, stranded>>
       \/ /\ request[c].machine \cap connections = {}
          /\ connections' = connections \cup request[c].machine
          /\ stranded' = stranded \cup request[c].machine
    /\ Raise(c)
    /\ UNCHANGED <<rowVars, accounts, grants, mislisted, disturbed>>

(* The list is written back with what was read before the awaits.          *)
CreateInsert(c) ==
    /\ At(c, "create", "insert")
    /\ machines' = machines \cup request[c].machine
    /\ assigned' = [m \in Machine |-> IF About(c, m) THEN {} ELSE assigned[m]]
    /\ listed' = request[c].list \cup request[c].machine
    /\ mislisted' = mislisted \cup (listed \ request[c].list)
                              \cup (request[c].list \ listed)
    /\ ReturnOrLost(c)
    /\ UNCHANGED <<guacVars, stranded, disturbed>>

CreateInsertFail(c) ==
    /\ At(c, "create", "insert")
    /\ Proceed(c, "undo")
    /\ UNCHANGED <<rowVars, guacVars, leftVars>>

(* Mutant: the except clause only raises.                                  *)
CreateUndoKeeps(c) ==
    /\ At(c, "create", "undo")
    /\ Raise(c)
    /\ UNCHANGED <<rowVars, guacVars, leftVars>>

(* The except clause deletes the connection again, if it can.              *)
CreateUndo(c) ==
    /\ At(c, "create", "undo")
    /\ connections' = connections \ request[c].machine
    /\ grants' = {g \in grants : g[2] \notin request[c].machine}
    /\ Raise(c)
    /\ UNCHANGED <<rowVars, accounts, leftVars>>

CreateDie(c) ==
    /\ At(c, "create", "insert") \/ At(c, "create", "undo")
    /\ stranded' = stranded \cup request[c].machine
    /\ Raise(c)
    /\ UNCHANGED <<rowVars, guacVars, mislisted, disturbed>>

-----------------------------------------------------------------------------
(* delete_machine: the row goes first, and its entry in the list.          *)

AskDelete(c) == \E m \in machines : Submit(c, "delete", m, {}, {})

DeleteFind(c) ==
    /\ At(c, "delete", "find")
    /\ IF request[c].machine \subseteq machines
       THEN /\ machines' = machines \ request[c].machine
            /\ assigned' = [m \in Machine |->
                              IF About(c, m) THEN {} ELSE assigned[m]]
            /\ listed' = listed \ request[c].machine
            /\ Proceed(c, "drop")
       ELSE Finish(c) /\ UNCHANGED rowVars
    /\ UNCHANGED <<guacVars, leftVars>>

(* The row is deleted in a commit of its own, before the list.             *)
DeleteHalf(c) ==
    /\ At(c, "delete", "find")
    /\ request[c].machine \subseteq machines
    /\ machines' = machines \ request[c].machine
    /\ assigned' = [m \in Machine |-> IF About(c, m) THEN {} ELSE assigned[m]]
    /\ stranded' = stranded \cup request[c].machine
    /\ mislisted' = mislisted \cup request[c].machine
    /\ Raise(c)
    /\ UNCHANGED <<listed, guacVars, disturbed>>

DeleteDrop(c) ==
    /\ At(c, "delete", "drop")
    /\ connections' = connections \ request[c].machine
    /\ grants' = {g \in grants : g[2] \notin request[c].machine}
    /\ ReturnOrLost(c)
    /\ UNCHANGED <<rowVars, accounts, leftVars>>

(* Guacamole refuses ("Failed to delete machine in Guacamole"), or the     *)
(* call raises and the next attempt finds no row: nobody tries again.      *)
DeleteDropFail(c) ==
    /\ At(c, "delete", "drop")
    /\ stranded' = stranded \cup request[c].machine
    /\ Finish(c) \/ Again(c)
    /\ UNCHANGED <<rowVars, guacVars, mislisted, disturbed>>

-----------------------------------------------------------------------------
(* update_machine stores whatever fields the request has, the list of      *)
(* users the client once read included.                                    *)

AskUpdate(c) == \E m \in machines : Submit(c, "update", m, {}, assigned[m])

UpdatePut(c) ==
    /\ At(c, "update", "put")
    /\ IF request[c].machine \subseteq connections \cap machines
       THEN /\ assigned' = [m \in Machine |->
                              IF About(c, m) THEN request[c].users
                                             ELSE assigned[m]]
            /\ disturbed' = disturbed \cup
                        UNION {Overwritten(c, m) : m \in request[c].machine}
            /\ ReturnOrLost(c)
       ELSE Finish(c) /\ UNCHANGED <<assigned, disturbed>>
    /\ UNCHANGED <<machines, listed, guacVars, stranded, mislisted>>

-----------------------------------------------------------------------------
(* add_user_to_machine                                                     *)

AskAdd(c) == \E m \in Machine, u \in User : Submit(c, "add", m, {u}, {})

AddDetails(c) ==
    /\ At(c, "add", "details")
    /\ Proceed(c, IF request[c].user \subseteq accounts THEN "grant"
                                                        ELSE "make")
    /\ UNCHANGED <<rowVars, guacVars, leftVars>>

(* Guacamole refuses an account that another request has made meanwhile:   *)
(* the activity then ends without a word.                                  *)
AddMake(c) ==
    /\ At(c, "add", "make")
    /\ IF request[c].user \subseteq accounts
       THEN Finish(c) /\ UNCHANGED accounts
       ELSE /\ accounts' = accounts \cup request[c].user
            /\ Proceed(c, "grant_new")
    /\ UNCHANGED <<rowVars, connections, grants, leftVars>>

AtGrant(c) == At(c, "add", "grant") \/ At(c, "add", "grant_new")
CanGrant(c) ==
    /\ request[c].user \subseteq accounts
    /\ request[c].machine \subseteq connections
Granted(c) == grants \cup (request[c].user \X request[c].machine)

(* The permission, then the row, without an await between them.            *)
AddGrant(c) ==
    /\ AtGrant(c)
    /\ CanGrant(c)
    /\ request[c].machine \subseteq machines
    /\ grants' = Granted(c)
    /\ assigned' = [m \in Machine |->
                      IF About(c, m) THEN assigned[m] \cup request[c].user
                                     ELSE assigned[m]]
    /\ ReturnOrLost(c)
    /\ UNCHANGED <<machines, listed, connections, accounts, leftVars>>

(* Refused: an activity that has made the account meets an unbound name.   *)
AddRefused(c) ==
    /\ AtGrant(c)
    /\ ~CanGrant(c)
    /\ IF At(c, "add", "grant") THEN Finish(c) ELSE Raise(c)
    /\ UNCHANGED <<rowVars, guacVars, leftVars>>

(* The permission is given but the row is not there, or not written.       *)
AddGrantFail(c) ==
    /\ AtGrant(c)
    /\ CanGrant(c)
    /\ grants' = Granted(c)
    /\ \/ Again(c) /\ UNCHANGED disturbed
       \/ OutOfAttempts(c) /\ disturbed' = disturbed \cup request[c].user
    /\ UNCHANGED <<rowVars, connections, accounts, stranded, mislisted>>

-----------------------------------------------------------------------------
(* delete_user_from_machine: whether the account itself can go is decided  *)
(* by the rows, before the awaits.                                         *)

AskRemove(c) == \E m \in Machine, u \in User : Submit(c, "remove", m, {u}, {})

(* Mutant: the account goes with every assignment.                         *)
NoOther(u, m) == FALSE

HasOther(u, m) == \E n \in machines \ {m} : u \in assigned[n]

RemoveCheck(c) ==
    /\ At(c, "remove", "check")
    /\ \E m \in request[c].machine \cap machines :
       \E u \in request[c].user \cap assigned[m] :
           request' = [request EXCEPT ![c].pc = "apply",
                                      ![c].users = assigned[m],
                                      ![c].others = HasOther(u, m)]
    /\ UNCHANGED <<rowVars, guacVars, leftVars>>

RemoveUnknown(c) ==
    /\ At(c, "remove", "check")
    /\ \A m \in request[c].machine \cap machines :
           request[c].user \cap assigned[m] = {}
    /\ Raise(c)
    /\ UNCHANGED <<rowVars, guacVars, leftVars>>

(* Both answer 204 only if the account exists.                             *)
Revoked(c) == grants \ (request[c].user \X request[c].machine)
WithoutUser(c) == {g \in grants : g[1] \notin request[c].user}

RemoveInGuacamole(c) ==
    IF request[c].others
    THEN grants' = Revoked(c) /\ UNCHANGED accounts
    ELSE grants' = WithoutUser(c) /\ accounts' = accounts \ request[c].user

(* The account goes although another machine got the user meanwhile.       *)
Hasty(c) ==
    {u \in request[c].user :
        /\ ~request[c].others
        /\ \E m \in request[c].machine : HasOther(u, m)}

(* The list is written back as it was read, without the user.              *)
RemoveApply(c) ==
    /\ At(c, "remove", "apply")
    /\ request[c].user \subseteq accounts
    /\ request[c].machine \subseteq machines
    /\ RemoveInGuacamole(c)
    /\ assigned' = [m \in Machine |->
                      IF About(c, m) THEN request[c].users \ request[c].user
                                     ELSE assigned[m]]
    /\ disturbed' = disturbed \cup Hasty(c) \cup
                ((UNION {Overwritten(c, m) : m \in request[c].machine})
                    \ request[c].user)
    /\ ReturnOrLost(c)
    /\ UNCHANGED <<machines, listed, connections, stranded, mislisted>>

(* Done in Guacamole; the row is not there any more or is not written.     *)
RemoveApplyFail(c) ==
    /\ At(c, "remove", "apply")
    /\ request[c].user \subseteq accounts
    /\ RemoveInGuacamole(c)
    /\ \/ Again(c) /\ disturbed' = disturbed \cup Hasty(c)
       \/ OutOfAttempts(c) /\ disturbed' = disturbed \cup request[c].user
    /\ UNCHANGED <<rowVars, connections, stranded, mislisted>>

(* Without an account the row keeps the user, and the answer is "404".     *)
RemoveRefused(c) ==
    /\ At(c, "remove", "apply")
    /\ request[c].user \cap accounts = {}
    /\ Finish(c)
    /\ disturbed' = disturbed \cup request[c].user
    /\ UNCHANGED <<rowVars, guacVars, stranded, mislisted>>

-----------------------------------------------------------------------------
(* A login that fails or a timeout before anything is changed.  Users are   *)
(* named for whom an earlier attempt may have got further.                  *)
LoginFail(c) ==
    /\ request[c].pc \in {"details", "make", "grant", "grant_new", "check",
                          "names", "put", "apply"}
    /\ \/ Again(c) /\ UNCHANGED disturbed
       \/ /\ \/ OutOfAttempts(c)
             \/ At(c, "remove", "apply") /\ ~request[c].others /\ Finish(c)
          /\ disturbed' = IF request[c].left < MachineAttempts
                      THEN disturbed \cup request[c].user ELSE disturbed
    /\ UNCHANGED <<rowVars, guacVars, stranded, mislisted>>

AccessStep(c) ==
    \/ AskCreate(c) \/ CreateNames(c) \/ CreateConnect(c)
    \/ CreateConnectFail(c) \/ CreateInsert(c) \/ CreateInsertFail(c)
    \/ CreateUndo(c) \/ CreateDie(c)
    \/ AskDelete(c) \/ DeleteFind(c) \/ DeleteHalf(c) \/ DeleteDrop(c)
    \/ DeleteDropFail(c)
    \/ AskUpdate(c) \/ UpdatePut(c)
    \/ AskAdd(c) \/ AddDetails(c) \/ AddMake(c) \/ AddGrant(c)
    \/ AddRefused(c) \/ AddGrantFail(c)
    \/ AskRemove(c) \/ RemoveCheck(c) \/ RemoveUnknown(c)
    \/ RemoveApply(c) \/ RemoveApplyFail(c) \/ RemoveRefused(c)
    \/ LoginFail(c)

AccessNext == UNCHANGED wants /\ \E c \in Admin : AccessStep(c)

AccessSpec == AccessInit /\ [][AccessNext]_accessVars

-----------------------------------------------------------------------------
Doing(c, o, m) == Op(c) = o /\ About(c, m)

(* Every machine's connection exists, and every connection belongs to a    *)
(* machine, one that is being made or one that is being deleted: else its  *)
(* name is taken for good (name_collision).  The pool lists its machines,  *)
(* which is what its deletion goes by.  What a request left half done or   *)
(* overwrote with an older list is excepted by name.                       *)
MachinesAgree ==
    /\ machines \subseteq connections
    /\ \A m \in connections \ (machines \cup stranded) :
           \E c \in Admin : Doing(c, "create", m) \/ Doing(c, "delete", m)
    /\ machines \ mislisted \subseteq listed
    /\ listed \ mislisted \subseteq machines

(* Who is assigned to a machine can open it, and nobody else can, but      *)
(* while a request about it is under way.  Users are excepted who          *)
(* overlapping requests or a lasting failure left between the two.         *)
AccessAgrees ==
    \A u \in User \ disturbed, m \in Machine :
        /\ m \in machines /\ u \in assigned[m] =>
               \/ u \in accounts /\ <<u, m>> \in grants
               \/ \E c \in Admin : Op(c) = "remove" /\ For(c, u)
        /\ <<u, m>> \in grants =>
               \/ m \in machines /\ u \in assigned[m]
               \/ m \in stranded
               \/ \E c \in Admin :
                      \/ Doing(c, "add", m) /\ For(c, u)
                      \/ Doing(c, "delete", m)
=============================================================================
