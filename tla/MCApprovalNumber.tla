-------------------------- MODULE MCApprovalNumber --------------------------
EXTENDS ApprovalNumber

(* Three PASSes, of which the first row (the semaphore) is old enough to be *)
(* anonymized and the last is the one that is never cancelled.              *)
MCInitial == {[pk |-> i, number |-> i] : i \in 1..3}
MCOld == {[pk |-> 1, number |-> 1]}
MCAnchor == [pk |-> 3, number |-> 3]
=============================================================================
