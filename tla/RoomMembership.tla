--------------------------- MODULE RoomMembership ---------------------------
(***************************************************************************)
(* What the room sets of the endpoint promise to those who broadcast to    *)
(* them: a session is in no room or in one, every step moves one session,  *)
(* and a session that changes rooms is in none of them on the way.         *)
(***************************************************************************)
CONSTANTS
  Sessions,  \* connections
  Rooms      \* room identifiers

VARIABLE
  where      \* the set of rooms a session is in

Init == where = [s \in Sessions |-> {}]

\* A session outside every room enters one.
Enter(s, r) ==
  /\ where[s] = {}
  /\ where' = [where EXCEPT ![s] = {r}]

\* A session leaves the room it is in.
Exit(s) ==
  /\ where[s] # {}
  /\ where' = [where EXCEPT ![s] = {}]

Next == \E s \in Sessions : Exit(s) \/ \E r \in Rooms : Enter(s, r)

Spec == Init /\ [][Next]_where
=============================================================================
