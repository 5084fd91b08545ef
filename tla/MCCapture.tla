------------------------------ MODULE MCCapture ------------------------------
(* The capture loop on a small instance: the windows may be exchanged.     *)
EXTENDS CaptureService, TLC

Symmetry == Permutations(Windows)
=============================================================================
