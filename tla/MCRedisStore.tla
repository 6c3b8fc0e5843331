---------------------------- MODULE MCRedisStore ----------------------------
(* Instances of RedisStore for TLC; no symmetry, as its run checks liveness. *)
EXTENDS RedisStore

JoinedNames == [p \in Users \X Users |-> p]
=============================================================================
