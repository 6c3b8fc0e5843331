------------------------------ MODULE MCSseChat ------------------------------
(* Instances of SseChat for TLC; no symmetry, as its run checks liveness.   *)
EXTENDS SseChat
==============================================================================
