----------------------------- MODULE MCArchive -----------------------------
(* One job seeker and two professionals, two runs at a time, a batch of 1. *)
EXTENDS Archive
=============================================================================
