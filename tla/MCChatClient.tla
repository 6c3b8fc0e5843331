---------------------------- MODULE MCChatClient ----------------------------
(* Instances of ChatClient for TLC; no symmetry, as the large one checks    *)
(* liveness.                                                               *)
EXTENDS ChatClient

\* The user enters rooms only while the page is connected: what happens to the
\* room that is shown otherwise is the doing of the page alone.
PatientSpec ==
  Init /\ [][Next /\ (currentRoom' # currentRoom => sock' \in {"open", "gone"})]_vars
=============================================================================
