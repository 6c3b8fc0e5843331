---------------------------- MODULE MCHeartbeat ----------------------------
(* Instances of Heartbeat for TLC.                                         *)
EXTENDS Heartbeat, TLC

\* Sessions are interchangeable.
Symmetry == Permutations(Sessions)
=============================================================================
