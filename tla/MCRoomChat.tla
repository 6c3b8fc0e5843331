----------------------------- MODULE MCRoomChat -----------------------------
(* Instances of RoomChat for TLC.                                          *)
EXTENDS RoomChat, TLC

\* Sessions and messages are interchangeable.
Symmetry == Permutations(Sessions) \cup Permutations(Messages)
=============================================================================
