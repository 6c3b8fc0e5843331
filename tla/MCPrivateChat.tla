---------------------------- MODULE MCPrivateChat ----------------------------
(* Instances of PrivateChat for TLC.                                       *)
EXTENDS PrivateChat, TLC

\* Sessions and messages are interchangeable.
Symmetry == Permutations(Sessions) \cup Permutations(Messages)
=============================================================================
