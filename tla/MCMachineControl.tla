-------------------------- MODULE MCMachineControl --------------------------
(* Instances of MachineControl for TLC: a rebuild, and power requests, each  *)
(* with a restart of the backend.                                            *)
EXTENDS MachineControl
CONSTANTS v1, r1

Users(v, actions, n) ==
    [rebuild |-> [r \in Rebuild |-> v], power |-> actions, restarts |-> n]

ControlMixes ==
    {Users(v1, {}, 0), Users(v1, {}, 1), Users(NoMachine, Actions, 1)}
=============================================================================
