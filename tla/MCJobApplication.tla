-------------------------- MODULE MCJobApplication --------------------------
(* Two applications of a job seeker: a company of each kind on one day, or *)
(* the IAE company over several days and PASS (Scopes).                    *)
EXTENDS JobApplication
=============================================================================
