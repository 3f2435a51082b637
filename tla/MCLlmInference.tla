--------------------------- MODULE MCLlmInference ---------------------------
(* Two pools: one with two nodes and a template from Harbor, which may be   *)
(* deleted, and one with one node and a template of the cluster.            *)
EXTENDS LlmInference

CONSTANTS j1, j2, d1

Sizes == [j \in Job |-> IF j = j1 THEN 2 ELSE 1]
Targets == [d \in Deletion |-> j1]

Split ==
    [j \in Job |->
        IF j = j1 THEN AllFaults \ {"start", "update_failed", "power_failed"}
                  ELSE {"start", "update_failed", "power_failed"}]

(* Nothing goes wrong; the second pool may be shut down.                    *)
NoFaults == [j \in Job |-> IF j = j2 THEN {"stop"} ELSE {}]
=============================================================================
