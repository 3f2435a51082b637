---------------------------- MODULE MCLxcRestore ----------------------------
(* Instances of LxcRestore for TLC.                                         *)
EXTENDS LxcRestore, TLC

CONSTANTS j1, j2, netA, netB

(* Two IP pools of one entry each: the second request may take its entry    *)
(* from either, the first has to wait for one.                              *)
OnePerPool == [i \in IPs |-> IF i = 1 THEN netA ELSE netB]
OneAndBoth == j1 :> <<netA>> @@ j2 :> <<netA, netB>>
(* Both meet every fault but one each: a restore that ends late, and a write *)
(* of the status that fails.                                                *)
Split == j1 :> AllFaults \ {"update_lost"} @@ j2 :> AllFaults \ {"restore_late"}

NoFaults == [j \in Job |-> {}]
=============================================================================
