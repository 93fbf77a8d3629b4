--------------------------- MODULE ApprovalNumber ---------------------------
(***************************************************************************)
(* How a PASS IAE gets its number (itou/approvals/models.py).              *)
(*                                                                         *)
(* A number is max(Approval.last_number(), CancelledApproval.last_number())*)
(* + 1.  Each last_number() locks the first row of its table (the "poor    *)
(* man's semaphore") and then reads the largest number in a statement of   *)
(* its own.  Cancelling a PASS moves its number from the Approval table to *)
(* the CancelledApproval table and takes no semaphore.                     *)
(*                                                                         *)
(* The database is PostgreSQL in READ COMMITTED with one transaction per   *)
(* request: a statement sees what was committed when it started, a locking *)
(* SELECT waits for the holder of the row and, when that row was deleted   *)
(* meanwhile, goes on to the next row of the snapshot it started with; an  *)
(* insertion that conflicts with an uncommitted one waits for its outcome. *)
(* Only rows whose number has the ITOU prefix are kept.                    *)
(***************************************************************************)
EXTENDS Integers

CONSTANTS Creators,    \* requests that issue a PASS (job application accepted)
          Cancellers,  \* requests that cancel a PASS
          Initial,     \* the rows of the Approval table at the start
          Old,         \* those that ended at least EXPIRATION_DAYS ago
          Anchor,      \* one that is never cancelled
          MaxNumber    \* 9999999 in the code

(* One row of either table: only its key, which orders it, and its number. *)
Row == [pk: Nat, number: Nat]
NoRow == [pk |-> 0, number |-> 0]

ASSUME MaxNumberAssumption == MaxNumber \in Nat
ASSUME RequestsAssumption == Creators \cap Cancellers = {}
(* The table has rows: the numbering is used on a database in production,  *)
(* and keys and numbers start at 1.                                        *)
ASSUME InitialAssumption ==
    /\ Initial \subseteq Row
    /\ \A r \in Initial : r.pk > 0 /\ r.number \in 1..MaxNumber
    /\ \A r, s \in Initial : (r.pk = s.pk \/ r.number = s.number) => r = s

(* The last PASS issued at the start is taken as one that is never         *)
(* cancelled (its employee record was sent, so can_be_cancelled refuses):  *)
(* some row of the Approval table survives.  PASSes old enough to be       *)
(* anonymized have smaller numbers.                                        *)
ASSUME AnchorAssumption ==
    /\ Anchor \in Initial
    /\ \A r \in Initial : r.pk <= Anchor.pk
    /\ \A r \in Initial : r.number <= Anchor.number
    /\ Old \subseteq Initial
    /\ \A r \in Old : r.number < Anchor.number

VARIABLES
    approvals,   \* committed rows of approvals_approval
    cancelled,   \* committed rows of approvals_cancelledapproval
    issued,      \* every number ever committed (history only)
    nextPk,      \* sequence of the Approval keys
    nextCpk,     \* sequence of the CancelledApproval keys
    pc,          \* where each request is
    snap,        \* snapshot of the locking SELECT under way
    lockA,       \* the Approval row the request has locked
    lastA,       \* what Approval.last_number() returned
    lockC,       \* the CancelledApproval row the request has locked
    lastC,       \* what CancelledApproval.last_number() returned
    pending      \* the row inserted and not committed yet

vars == <<approvals, cancelled, issued, nextPk, nextCpk, pc, snap, lockA, lastA, lockC, lastC, pending>>

Requests == Creators \cup Cancellers
Numbers(rows) == {r.number : r \in rows}
IsFirst(r, rows) == \A s \in rows : r.pk <= s.pk
(* What last_number() returns: 0 on an empty table.                        *)
IsLast(n, rows) ==
    \/ rows = {} /\ n = 0
    \/ n \in Numbers(rows) /\ \A r \in rows : r.number <= n
Larger(a, b) == IF a >= b THEN a ELSE b

Init ==
    /\ approvals = Initial
    /\ cancelled = {}
    /\ issued = Numbers(Initial)
    /\ nextPk = Anchor.pk + 1
    /\ nextCpk = 1
    /\ pc = [t \in Requests |-> "idle"]
    /\ snap = [t \in Requests |-> {}]
    /\ lockA = [t \in Requests |-> NoRow]
    /\ lastA = [t \in Requests |-> 0]
    /\ lockC = [t \in Requests |-> NoRow]
    /\ lastC = [t \in Requests |-> 0]
    /\ pending = [t \in Requests |-> NoRow]

(* Mutant: the semaphore outlives the transaction, as a session-level      *)
(* advisory lock would.                                                    *)
EndKeepingLock(t, outcome) ==
    /\ pc' = [pc EXCEPT ![t] = outcome]
    /\ snap' = [snap EXCEPT ![t] = {}]
    /\ lastA' = [lastA EXCEPT ![t] = 0]
    /\ lockC' = [lockC EXCEPT ![t] = NoRow]
    /\ lastC' = [lastC EXCEPT ![t] = 0]
    /\ pending' = [pending EXCEPT ![t] = NoRow]
    /\ UNCHANGED lockA

(* The transaction is over: its locks and uncommitted rows are gone.       *)
End(t, outcome) ==
    /\ pc' = [pc EXCEPT ![t] = outcome]
    /\ snap' = [snap EXCEPT ![t] = {}]
    /\ lockA' = [lockA EXCEPT ![t] = NoRow]
    /\ lastA' = [lastA EXCEPT ![t] = 0]
    /\ lockC' = [lockC EXCEPT ![t] = NoRow]
    /\ lastC' = [lastC EXCEPT ![t] = 0]
    /\ pending' = [pending EXCEPT ![t] = NoRow]

(***************************************************************************)
(* Approval.save() of a new row: get_next_number, then the INSERT.         *)
(***************************************************************************)

(* The locking SELECT on the first Approval row starts.                    *)
SelectFirstApproval(t) ==
    /\ pc[t] = "idle"
    /\ snap' = [snap EXCEPT ![t] = approvals]
    /\ pc' = [pc EXCEPT ![t] = "lockA"]
    /\ UNCHANGED <<approvals, cancelled, issued, nextPk, nextCpk, lockA, lastA, lockC, lastC, pending>>

(* The lock is granted, on the first row of the snapshot still there; with *)
(* none left the SELECT returns nothing and locks nothing.                 *)
LockApproval(t) ==
    LET left == snap[t] \cap approvals IN
    /\ pc[t] = "lockA"
    /\ \/ \E r \in left :
             /\ IsFirst(r, left)
             /\ \A u \in Requests \ {t} : lockA[u] # r
             /\ lockA' = [lockA EXCEPT ![t] = r]
       \/ left = {} /\ UNCHANGED lockA
    /\ pc' = [pc EXCEPT ![t] = "readA"]
    /\ UNCHANGED <<approvals, cancelled, issued, nextPk, nextCpk, snap, lastA, lockC, lastC, pending>>

(* Mutant: the number is taken from the rows the locking SELECT saw.       *)
ReadLastFromSnapshot(t) ==
    /\ pc[t] = "readA"
    /\ \E n \in Numbers(snap[t]) \cup {0} :
          IsLast(n, snap[t]) /\ lastA' = [lastA EXCEPT ![t] = n]
    /\ pc' = [pc EXCEPT ![t] = "selectC"]
    /\ UNCHANGED <<approvals, cancelled, issued, nextPk, nextCpk, snap, lockA, lockC, lastC, pending>>

(* The "whole new SELECT" of the largest Approval number.                  *)
ReadLastApproval(t) ==
    /\ pc[t] = "readA"
    /\ \E n \in Numbers(approvals) \cup {0} :
          IsLast(n, approvals) /\ lastA' = [lastA EXCEPT ![t] = n]
    /\ pc' = [pc EXCEPT ![t] = "selectC"]
    /\ UNCHANGED <<approvals, cancelled, issued, nextPk, nextCpk, snap, lockA, lockC, lastC, pending>>

SelectFirstCancelled(t) ==
    /\ pc[t] = "selectC"
    /\ snap' = [snap EXCEPT ![t] = cancelled]
    /\ pc' = [pc EXCEPT ![t] = "lockC"]
    /\ UNCHANGED <<approvals, cancelled, issued, nextPk, nextCpk, lockA, lastA, lockC, lastC, pending>>

LockCancelled(t) ==
    LET left == snap[t] \cap cancelled IN
    /\ pc[t] = "lockC"
    /\ \/ \E r \in left :
             /\ IsFirst(r, left)
             /\ \A u \in Requests \ {t} : lockC[u] # r
             /\ lockC' = [lockC EXCEPT ![t] = r]
       \/ left = {} /\ UNCHANGED lockC
    /\ pc' = [pc EXCEPT ![t] = "readC"]
    /\ UNCHANGED <<approvals, cancelled, issued, nextPk, nextCpk, snap, lockA, lastA, lastC, pending>>

(* Mutant: last_number() starts below zero on an empty table.              *)
ReadLastCancelledNegative(t) ==
    /\ pc[t] = "readC"
    /\ lastC' = [lastC EXCEPT ![t] = -1]
    /\ pc' = [pc EXCEPT ![t] = "insert"]
    /\ UNCHANGED <<approvals, cancelled, issued, nextPk, nextCpk, snap, lockA, lastA, lockC, pending>>

ReadLastCancelled(t) ==
    /\ pc[t] = "readC"
    /\ \E n \in Numbers(cancelled) \cup {0} :
          IsLast(n, cancelled) /\ lastC' = [lastC EXCEPT ![t] = n]
    /\ pc' = [pc EXCEPT ![t] = "insert"]
    /\ UNCHANGED <<approvals, cancelled, issued, nextPk, nextCpk, snap, lockA, lastA, lockC, pending>>

(* Mutants: the cancelled numbers are forgotten; the key is the number.    *)
NextApprovalNumber(t) == lastA[t] + 1
NumberFromSequence(t) == nextPk
NextNumber(t) == Larger(lastA[t], lastC[t]) + 1

(* The new row is inserted, unless the limit is reached (RuntimeError) or  *)
(* the number is taken (IntegrityError).  An uncommitted row with the same *)
(* number makes the INSERT wait.                                           *)
InsertApproval(t) ==
    /\ pc[t] = "insert"
    /\ \A u \in Creators \ {t} : pending[u].number # NextNumber(t)
    /\ \/ /\ NextNumber(t) <= MaxNumber
          /\ NextNumber(t) \notin Numbers(approvals)
          /\ pending' = [pending EXCEPT ![t] = [pk |-> nextPk, number |-> NextNumber(t)]]
          /\ nextPk' = nextPk + 1
          /\ pc' = [pc EXCEPT ![t] = "inserted"]
          /\ UNCHANGED <<snap, lockA, lastA, lockC, lastC>>
       \/ /\ NextNumber(t) > MaxNumber \/ NextNumber(t) \in Numbers(approvals)
          /\ End(t, "failed")
          /\ UNCHANGED nextPk
    /\ UNCHANGED <<approvals, cancelled, issued, nextCpk>>

CommitApproval(t) ==
    /\ pc[t] = "inserted"
    /\ approvals' = approvals \cup {pending[t]}
    /\ issued' = issued \cup {pending[t].number}
    /\ End(t, "done")
    /\ UNCHANGED <<cancelled, nextPk, nextCpk>>

(***************************************************************************)
(* Approval.delete().                                                      *)
(***************************************************************************)

(* The request reads the PASS it cancels, without a lock.                  *)
ReadApprovalToCancel(t) ==
    /\ pc[t] = "idle"
    /\ \E r \in approvals \ {Anchor} :
          snap' = [snap EXCEPT ![t] = {r}]
    /\ pc' = [pc EXCEPT ![t] = "cancel"]
    /\ UNCHANGED <<approvals, cancelled, issued, nextPk, nextCpk, lockA, lastA, lockC, lastC, pending>>

(* CancelledApproval(...).save(): the number is unique there too.          *)
InsertCancelled(t) ==
    /\ pc[t] = "cancel"
    /\ \E r \in snap[t] :
          /\ \A u \in Cancellers \ {t} : pending[u].number # r.number
          /\ \/ /\ r.number \notin Numbers(cancelled)
                /\ pending' = [pending EXCEPT ![t] = [pk |-> nextCpk, number |-> r.number]]
                /\ nextCpk' = nextCpk + 1
                /\ pc' = [pc EXCEPT ![t] = "delete"]
                /\ UNCHANGED <<snap, lockA, lastA, lockC, lastC>>
             \/ /\ r.number \in Numbers(cancelled)
                /\ End(t, "failed")
                /\ UNCHANGED nextCpk
    /\ UNCHANGED <<approvals, cancelled, issued, nextPk>>

(* super().delete() takes the lock of the row, or waits for its holder.    *)
DeleteApproval(t) ==
    /\ pc[t] = "delete"
    /\ \E r \in snap[t] :
          /\ \A u \in Requests \ {t} : lockA[u] # r
          /\ lockA' = [lockA EXCEPT ![t] = r]
    /\ pc' = [pc EXCEPT ![t] = "deleted"]
    /\ UNCHANGED <<approvals, cancelled, issued, nextPk, nextCpk, snap, lastA, lockC, lastC, pending>>

CommitCancel(t) ==
    /\ pc[t] = "deleted"
    /\ approvals' = approvals \ snap[t]
    /\ cancelled' = cancelled \cup {pending[t]}
    /\ End(t, "done")
    /\ UNCHANGED <<issued, nextPk, nextCpk>>

(* Any request may fail before its commit: the transaction is rolled back. *)
Rollback(t) ==
    /\ pc[t] \notin {"idle", "done", "failed"}
    /\ End(t, "failed")
    /\ UNCHANGED <<approvals, cancelled, issued, nextPk, nextCpk>>

(***************************************************************************)
(* The anonymization commands delete rows that ended long ago and that no  *)
(* other transaction has locked.                                           *)
(***************************************************************************)
AnonymizeApproval ==
    /\ \E r \in Old \cap approvals :
          /\ \A t \in Requests : lockA[t] # r
          /\ approvals' = approvals \ {r}
    /\ UNCHANGED <<cancelled, issued, nextPk, nextCpk, pc, snap, lockA, lastA, lockC, lastC, pending>>

AnonymizeCancelled ==
    /\ \E c \in cancelled :
          /\ c.number \in Numbers(Old)
          /\ \A t \in Requests : lockC[t] # c
          /\ cancelled' = cancelled \ {c}
    /\ UNCHANGED <<approvals, issued, nextPk, nextCpk, pc, snap, lockA, lastA, lockC, lastC, pending>>

Create(t) ==
    \/ SelectFirstApproval(t)
    \/ LockApproval(t)
    \/ ReadLastApproval(t)
    \/ SelectFirstCancelled(t)
    \/ LockCancelled(t)
    \/ ReadLastCancelled(t)
    \/ InsertApproval(t)
    \/ CommitApproval(t)

Cancel(t) ==
    \/ ReadApprovalToCancel(t)
    \/ InsertCancelled(t)
    \/ DeleteApproval(t)
    \/ CommitCancel(t)

(* Every request is over; nothing more happens.                            *)
Idle(t) == pc[t] \in {"idle", "done", "failed"}
Terminated == (\A t \in Creators : pc[t] \in {"done", "failed"})
              /\ (\A t \in Cancellers : Idle(t)) /\ UNCHANGED vars

Next ==
    \/ \E t \in Creators : Create(t)
    \/ \E t \in Cancellers : Cancel(t)
    \/ \E t \in Requests : Rollback(t)
    \/ AnonymizeApproval
    \/ AnonymizeCancelled
    \/ Terminated

(* The database goes on with every transaction that is not waiting for a   *)
(* lock; nobody is obliged to start one.                                   *)
Fairness ==
    /\ \A t \in Creators : WF_vars(Create(t) /\ pc[t] # "idle")
    /\ \A t \in Cancellers : WF_vars(Cancel(t) /\ pc[t] # "idle")

Spec == Init /\ [][Next]_vars
FairSpec == Spec /\ Fairness

-----------------------------------------------------------------------------

(* Rows, histories and the steps of the requests stay what they are.       *)
TypeOK ==
    /\ approvals \in SUBSET Row
    /\ cancelled \in SUBSET Row
    /\ issued \in SUBSET Nat
    /\ nextPk \in Nat /\ nextCpk \in Nat
    /\ pc \in [Requests -> {"idle", "lockA", "readA", "selectC", "lockC", "readC",
                            "insert", "inserted", "cancel", "delete", "deleted",
                            "done", "failed"}]
    /\ snap \in [Requests -> SUBSET Row]
    /\ lockA \in [Requests -> Row] /\ lockC \in [Requests -> Row]
    /\ lastA \in [Requests -> Nat] /\ lastC \in [Requests -> Nat]
    /\ pending \in [Requests -> Row]

(* "duplicates in the combined sequence of Approval + CancelledApproval"   *)
(* (get_next_number): a number stands on one row of the two tables.        *)
NoDuplicate ==
    /\ Numbers(approvals) \cap Numbers(cancelled) = {}
    /\ \A r, s \in approvals : r.number = s.number => r = s
    /\ \A r, s \in cancelled : r.number = s.number => r = s

(* "holes ... in the combined sequence": above the last PASS of the start, *)
(* every number below an issued one was issued, whatever requests failed.  *)
NoHole == \A n \in issued : \A m \in Anchor.number..n : m \in issued

(* A PASS is never committed with a number that was given to another, even *)
(* one cancelled and anonymized since.                                     *)
NeverReissued ==
    [][\A n \in Numbers(approvals') : n \in Numbers(approvals) \/ n \notin issued]_vars

(* "deadlocks (cancelling an approval never finishes ...)": the requests   *)
(* that start, each of them once, all end.                                 *)
RequestsEnd == <>[](\A t \in Requests : Idle(t))

-----------------------------------------------------------------------------

(***************************************************************************)
(* The parts of the inductive invariant.                                   *)
(***************************************************************************)
Holding == {"readA", "selectC", "lockC", "readC", "insert", "inserted"}

(* Some row below every new one survives, and a waiting creator has every  *)
(* such row in its snapshot.                                               *)
Anchored ==
    /\ Anchor \in approvals
    /\ nextPk > Anchor.pk
    /\ \A r \in approvals : r \in Initial \/ r.pk > Anchor.pk
    /\ \A t \in Creators :
          /\ pc[t] = "inserted" => pending[t].pk > Anchor.pk
          /\ pc[t] = "lockA" => \A r \in approvals : r.pk <= Anchor.pk => r \in snap[t]

LockExclusive ==
    \A t, u \in Requests : t # u /\ lockA[t] = lockA[u] => lockA[t] = NoRow

(* Whoever is past the first lock holds the first row of the table.        *)
Semaphore ==
    \A t \in Creators : pc[t] \in Holding =>
        lockA[t] \in approvals /\ IsFirst(lockA[t], approvals)

(* The two steps of a request are those of its kind; a canceller knows one *)
(* row, which no number issued later can be confused with.                 *)
Cancelling ==
    /\ \A t \in Creators : pc[t] \notin {"cancel", "delete", "deleted"}
    /\ \A t \in Cancellers :
          /\ pc[t] \in {"idle", "cancel", "delete", "deleted", "done", "failed"}
          /\ pc[t] \in {"cancel", "delete", "deleted"} =>
                \E r \in snap[t] :
                   /\ snap[t] = {r}
                   /\ r # Anchor
                   /\ r.number \in issued
                   /\ r \in approvals \/ r.number \notin Numbers(approvals)
                   /\ pc[t] \in {"delete", "deleted"} =>
                        pending[t].number = r.number /\ r.number \notin Numbers(cancelled)
                   /\ pc[t] = "deleted" => lockA[t] = r
    /\ \A t, u \in Cancellers :
          t # u /\ pc[t] \in {"delete", "deleted"} /\ pc[u] \in {"delete", "deleted"}
             => pending[t].number # pending[u].number

(* What a creator has read bounds every number issued: the numbers it saw  *)
(* as Approvals, and those it will still see as CancelledApprovals.        *)
Reading ==
    /\ Numbers(approvals) \cup Numbers(cancelled) \subseteq issued
    /\ \A n \in issued :
          n \in Numbers(approvals) \cup Numbers(cancelled) \/ n <= Anchor.number
    /\ \A t \in Creators :
          /\ pc[t] \in {"selectC", "lockC", "readC", "insert"} =>
                /\ lastA[t] \in issued
                /\ \A r \in approvals : r.number <= lastA[t]
          /\ pc[t] \in {"selectC", "lockC", "readC"} =>
                \A n \in issued : n <= lastA[t] \/ n \in Numbers(cancelled)
          /\ pc[t] = "insert" =>
                /\ \A n \in issued : n <= Larger(lastA[t], lastC[t])
                /\ Larger(lastA[t], lastC[t]) \in issued
          /\ pc[t] = "inserted" =>
                /\ \A n \in issued : n < pending[t].number
                /\ pending[t].number - 1 \in issued

IInv ==
    /\ TypeOK
    /\ Anchored
    /\ LockExclusive
    /\ Semaphore
    /\ Cancelling
    /\ Reading
    /\ NoDuplicate
    /\ NoHole
=============================================================================
