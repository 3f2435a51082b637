------------------------------ MODULE MCPortal ------------------------------
(* Instances of OpenWebUi and MachineAccess for TLC.  The two share no       *)
(* variable and no service, so each is explored while the other rests in one *)
(* of its initial states.                                                    *)
EXTENDS MCOpenWebUi, MCMachineAccess

OpenWebUiRests ==
    /\ Init
    /\ row.status = "deployed" /\ env = NoEnv
    /\ asks = Pair(KeycloakKinds, KeycloakKinds)

AccessRests ==
    /\ AccessInit
    /\ machines = {} /\ accounts = {}
    /\ wants = Both(OneUser, OneUser)

PortalInit ==
    /\ Init
    /\ AccessInit
    /\ (OpenWebUiRests /\ FewAccounts) \/ AccessRests

PortalNext ==
    \/ AccessRests /\ Next /\ UNCHANGED accessVars
    \/ OpenWebUiRests /\ AccessNext /\ UNCHANGED vars

PortalSpec ==
    /\ PortalInit
    /\ [][PortalNext]_<<vars, accessVars>>
    /\ Fairness
=============================================================================
