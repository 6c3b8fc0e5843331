----------------------------- MODULE MCDirectory -----------------------------
(* Instances of Directory for TLC.                                         *)
EXTENDS Directory, TLC

\* Requests of one kind, words and passwords are interchangeable.
Symmetry == UNION {Permutations(S) : S \in
              {Registrations, Logins, Creations, Deletions, Words, Spellings,
               Passwords}}
==============================================================================
