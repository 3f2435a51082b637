-------------------------------- MODULE MCPools --------------------------------
(* Instances of PoolProvisioning and HyperVPool for TLC.  They share no      *)
(* variable, so each is explored while the other rests in one of its initial *)
(* states.                                                                   *)
EXTENDS MCPoolProvisioning, MCHyperVPool

VARIABLE moving  \* which of the two

PoolsInit ==
    /\ Init
    /\ HyperVInit
    /\ \/ moving = "proxmox" /\ mix = Some({g1, b1, b2}, 0)
       \/ moving = "hyperV"

PoolsNext ==
    /\ \/ moving = "proxmox" /\ Next /\ UNCHANGED hyperVVars
       \/ moving = "hyperV" /\ HyperVNext /\ UNCHANGED <<mix, vars>>
    /\ UNCHANGED moving

PoolsSpec == PoolsInit /\ [][PoolsNext]_<<vars, hyperVVars, moving>>
=============================================================================
