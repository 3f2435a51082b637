------------------------- MODULE MCPoolProvisioning -------------------------
(* Instances of PoolProvisioning for TLC.                                   *)
EXTENDS PoolProvisioning, TLC

CONSTANTS p1, p2, netA, netB

(* All entries in one IP pool, and every request names that pool.           *)
OneIpPool == [i \in IPs |-> netA]
OneName == [p \in Pool |-> <<netA>>]

(* One entry in the first IP pool, so that a request for two needs both.    *)
TwoIpPools == [i \in IPs |-> IF i = 1 THEN netA ELSE netB]
TwoNames == [p \in Pool |-> <<netA, netB>>]

OneVm == [p \in Pool |-> 1]
TwoVms == [p \in Pool |-> 2]
OneAndTwoVms == p1 :> 1 @@ p2 :> 2
=============================================================================
