------------------------------ MODULE MCControl ------------------------------
(* The controls on a small instance: the client starts unpaused and with   *)
(* every connection on, but perhaps for the one that needs a tunnel, which *)
(* may then not be switched on.                                            *)
EXTENDS ClientControl

MCInit == Init /\ ~paused /\ \A e \in Endpoints \ Ssh : enabled[e]
MCSpec == MCInit /\ [][Next]_vars /\ Fairness
=============================================================================
