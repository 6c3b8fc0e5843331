------------------------- MODULE MCSessionRegistry -------------------------
(* Instances of SessionRegistry for TLC.                                   *)
EXTENDS SessionRegistry, TLC

\* Sessions, users and rooms are interchangeable: no property names one.
Symmetry == Permutations(Sessions) \cup Permutations(Users)
              \cup Permutations(Rooms)
=============================================================================
