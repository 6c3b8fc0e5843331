------------------------------ MODULE BoundedLog ------------------------------
(***************************************************************************)
(* What the message lists in Redis promise their readers: the newest       *)
(* message comes first, nothing stands between two messages that was not   *)
(* pushed between them, the oldest may go once Newest others are kept, and *)
(* what happens to one list leaves the others alone.                       *)
(***************************************************************************)
EXTENDS Sequences, Naturals

CONSTANTS
  Keys,
  Messages,
  Newest      \* how many messages are kept at least

VARIABLE list \* of each key, newest first

Init == list = [k \in Keys |-> <<>>]

Push(k, m) == list' = [list EXCEPT ![k] = <<m>> \o @]

\* All but the first n messages go.
DropOldest(k, n) ==
  /\ n >= Newest
  /\ list' = [list EXCEPT ![k] = SubSeq(@, 1, n)]

\* The key expires, or is deleted for holding something else than a list.
Clear(k) == list' = [list EXCEPT ![k] = <<>>]

Next == \E k \in Keys :
  \/ \E m \in Messages : Push(k, m)
  \/ \E n \in 0..Len(list[k]) : DropOldest(k, n)
  \/ Clear(k)

Spec == Init /\ [][Next]_list
===============================================================================
