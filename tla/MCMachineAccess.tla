-------------------------- MODULE MCMachineAccess ---------------------------
(* Instances of MachineAccess for TLC: two clients and what they combine.    *)
EXTENDS MachineAccess

CONSTANTS a1, a2, m1, m2, w1, w2

Both(k1, k2) == [c \in Admin |-> IF c = a1 THEN k1 ELSE k2]
Asking(ops, ms, us) == [op : ops, machine : ms, user : us]

Making == Asking({"create", "delete"}, Machine, {w1})
OneUser == Asking({"add", "remove"}, Machine, {w1})
OneMachine == Asking({"add", "remove"}, {m1}, User)

(* The users that requests are about are those who may have an account.     *)
FewAccounts == accounts \subseteq {a.user : a \in UNION {wants[c] : c \in Admin}}

Combined ==
    { Both(Making, Asking({"create", "delete"}, {m1}, {w1})),
      Both(OneUser, OneUser),
      Both(OneMachine, Asking({"add", "remove"}, {m1}, {w1})),
      Both(OneMachine, Asking({"update"}, {m1}, {w1})),
      Both(Asking({"add", "remove", "update"}, {m1}, {w1}),
           Asking({"create", "delete"}, {m1}, {w1})) }
=============================================================================
