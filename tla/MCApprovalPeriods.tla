------------------------- MODULE MCApprovalPeriods -------------------------
(* An instance of ApprovalPeriods for TLC.                                 *)
EXTENDS ApprovalPeriods, TLC

Interchangeable == Permutations(Workers)
=============================================================================
