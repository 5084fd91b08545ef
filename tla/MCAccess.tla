------------------------------ MODULE MCAccess ------------------------------
(* Logins and uploads on small instances.  They share no state, so that    *)
(* one at a time is enough: `part` says which, the other keeps its state.  *)
EXTENDS Sessions, Devices, TLC

CONSTANT home
VARIABLE part

OneAddress == [l \in Logins |-> home]
Symmetry == Permutations(Records) \cup Permutations(Tokens)

FreshDevices == /\ valid = file /\ device = [d \in Clients |-> Unknown]
                /\ owner = [r \in Records |-> Absent]

MCInit ==
    /\ SessionsInit /\ DevicesInit
    /\ part \in {"sessions", "devices"} /\ (part = "sessions" => FreshDevices)

MCNext ==
    \/ part = "sessions" /\ SessionsNext /\ UNCHANGED <<part, deviceVars>>
    \/ part = "devices" /\ DevicesNext /\ UNCHANGED <<part, sessionVars>>

MCSpec == MCInit /\ [][MCNext]_<<part, sessionVars, deviceVars>>

=============================================================================
