--------------------------- MODULE MCHarborDeploy ---------------------------
(* Instances of HarborDeploy for TLC.                                       *)
EXTENDS HarborDeploy, TLC

CONSTANTS r1, r2, shared

(* Two requests for one namespace.                                          *)
SameTarget == [r \in Request |-> shared]

(* One request meets what happens to its thread and its workflow, the other *)
(* what happens to its handlers.                                            *)
Split == r1 :> {"step_failed", "worker_died", "late", "removal_refused"}
      @@ r2 :> {"start_failed", "start_unconfirmed", "delete_failed"}

(* Bounds: users delete deployments or remove the cluster, not both, and an *)
(* importer that cannot be removed meets no removal of the cluster, and no   *)
(* timeout of a workflow whose thread could go on.                           *)
OneUser == cluster' \/ \A r \in Request : del'[r] = "none"

OneRefusal ==
    /\ leftBehind' # {} => cluster'
    /\ \A r \in Request :
        /\ wf[r] = "timed_out" => leftBehind' = leftBehind
        /\ leftBehind # {} /\ wf'[r] = "timed_out" => wf[r] = "timed_out" \/ Stuck(r)

HarborNext == Next /\ OneUser /\ OneRefusal

HarborSpec == Init /\ [][HarborNext]_vars /\ Fairness
=============================================================================
