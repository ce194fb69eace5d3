---------------------------- MODULE MCListeners ----------------------------
(* Instance of Listeners for TLC.  Ports are interchangeable.              *)
EXTENDS Listeners

PortSymmetry == Permutations(Ports)
=============================================================================
