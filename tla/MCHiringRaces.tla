--------------------------- MODULE MCHiringRaces ---------------------------
EXTENDS HiringRaces, TLC

(* Requests of one kind are interchangeable, and so are the applications.  *)
Symmetry == Permutations(Acceptors) \cup Permutations(Cancellers) \cup Permutations(Apps)
=============================================================================
