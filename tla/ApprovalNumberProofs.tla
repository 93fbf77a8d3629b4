------------------------ MODULE ApprovalNumberProofs ------------------------
(***************************************************************************)
(* The numbers of PASS IAE are never given twice, for any number of        *)
(* requests and any content of the tables.                                 *)
(***************************************************************************)
EXTENDS ApprovalNumber, TLAPS

(* The ending of a transaction keeps the types of what it resets.          *)
LEMMA EndType ==
    ASSUME TypeOK, NEW t \in Requests, NEW outcome \in {"done", "failed"}, End(t, outcome)
    PROVE  /\ pc' \in [Requests -> {"idle", "lockA", "readA", "selectC", "lockC", "readC",
                            "insert", "inserted", "cancel", "delete", "deleted",
                            "done", "failed"}]
           /\ snap' \in [Requests -> SUBSET Row]
           /\ lockA' \in [Requests -> Row] /\ lockC' \in [Requests -> Row]
           /\ lastA' \in [Requests -> Nat] /\ lastC' \in [Requests -> Nat]
           /\ pending' \in [Requests -> Row]
  BY DEF TypeOK, End, Row, NoRow

(* Every variable keeps its type, whatever step a request takes.           *)
LEMMA TypingStep == TypeOK /\ [Next]_vars => TypeOK'
<1> SUFFICES ASSUME TypeOK, [Next]_vars PROVE TypeOK' OBVIOUS
<1>1. ASSUME NEW t \in Creators, SelectFirstApproval(t) PROVE TypeOK'
  BY <1>1 DEF TypeOK, SelectFirstApproval, Requests
<1>2. ASSUME NEW t \in Creators, LockApproval(t) PROVE TypeOK'
  BY <1>2 DEF TypeOK, LockApproval, Requests
<1>3. ASSUME NEW t \in Creators, ReadLastApproval(t) PROVE TypeOK'
  BY <1>3 DEF TypeOK, ReadLastApproval, Requests, Numbers, Row
<1>4. ASSUME NEW t \in Creators, SelectFirstCancelled(t) PROVE TypeOK'
  BY <1>4 DEF TypeOK, SelectFirstCancelled, Requests
<1>5. ASSUME NEW t \in Creators, LockCancelled(t) PROVE TypeOK'
  BY <1>5 DEF TypeOK, LockCancelled, Requests
<1>6. ASSUME NEW t \in Creators, ReadLastCancelled(t) PROVE TypeOK'
  BY <1>6 DEF TypeOK, ReadLastCancelled, Requests, Numbers, Row
<1>7. ASSUME NEW t \in Creators, InsertApproval(t) PROVE TypeOK'
  <2>1. NextNumber(t) \in Nat
    BY DEF NextNumber, Larger, TypeOK, Requests
  <2>2. CASE End(t, "failed") /\ UNCHANGED nextPk
    BY <1>7, <2>2, EndType DEF TypeOK, InsertApproval, Requests
  <2>3. CASE /\ pending' = [pending EXCEPT ![t] = [pk |-> nextPk, number |-> NextNumber(t)]]
             /\ nextPk' = nextPk + 1
             /\ pc' = [pc EXCEPT ![t] = "inserted"]
             /\ UNCHANGED <<snap, lockA, lastA, lockC, lastC>>
    BY <1>7, <2>1, <2>3 DEF TypeOK, InsertApproval, Requests, Row
  <2> QED BY <1>7, <2>2, <2>3 DEF InsertApproval
<1>8. ASSUME NEW t \in Creators, CommitApproval(t) PROVE TypeOK'
  <2>1. pending[t] \in Row /\ pending[t].number \in Nat /\ t \in Requests
    BY DEF TypeOK, Row, Requests
  <2> QED BY <1>8, <2>1, EndType DEF TypeOK, CommitApproval
<1>9. ASSUME NEW t \in Cancellers, ReadApprovalToCancel(t) PROVE TypeOK'
  BY <1>9 DEF TypeOK, ReadApprovalToCancel, Requests
<1>10. ASSUME NEW t \in Cancellers, InsertCancelled(t) PROVE TypeOK'
  <2>1. PICK r \in snap[t] :
           \/ /\ pending' = [pending EXCEPT ![t] = [pk |-> nextCpk, number |-> r.number]]
              /\ nextCpk' = nextCpk + 1
              /\ pc' = [pc EXCEPT ![t] = "delete"]
              /\ UNCHANGED <<snap, lockA, lastA, lockC, lastC>>
           \/ End(t, "failed") /\ UNCHANGED nextCpk
    BY <1>10 DEF InsertCancelled
  <2>2. r \in Row /\ r.number \in Nat
    BY DEF TypeOK, Requests, Row
  <2>3. CASE End(t, "failed") /\ UNCHANGED nextCpk
    BY <1>10, <2>3, EndType DEF TypeOK, InsertCancelled, Requests
  <2>4. CASE /\ pending' = [pending EXCEPT ![t] = [pk |-> nextCpk, number |-> r.number]]
             /\ nextCpk' = nextCpk + 1
             /\ pc' = [pc EXCEPT ![t] = "delete"]
             /\ UNCHANGED <<snap, lockA, lastA, lockC, lastC>>
    BY <1>10, <2>2, <2>4 DEF TypeOK, InsertCancelled, Requests, Row
  <2> QED BY <2>1, <2>3, <2>4
<1>11. ASSUME NEW t \in Cancellers, DeleteApproval(t) PROVE TypeOK'
  BY <1>11 DEF TypeOK, DeleteApproval, Requests
<1>12. ASSUME NEW t \in Cancellers, CommitCancel(t) PROVE TypeOK'
  BY <1>12, EndType DEF TypeOK, CommitCancel, Requests
<1>13. ASSUME NEW t \in Requests, Rollback(t) PROVE TypeOK'
  BY <1>13, EndType DEF TypeOK, Rollback
<1>14. CASE AnonymizeApproval
  BY <1>14 DEF TypeOK, AnonymizeApproval
<1>15. CASE AnonymizeCancelled
  BY <1>15 DEF TypeOK, AnonymizeCancelled
<1>16. CASE UNCHANGED vars
  BY <1>16 DEF TypeOK, vars
<1> QED
  BY <1>1, <1>2, <1>3, <1>4, <1>5, <1>6, <1>7, <1>8, <1>9, <1>10, <1>11, <1>12,
     <1>13, <1>14, <1>15, <1>16 DEF Next, Create, Cancel, Terminated

(* What a request leaves when its transaction ends.                        *)
LEMMA EndFacts ==
    ASSUME TypeOK, NEW t \in Requests, NEW outcome \in {"done", "failed"}, End(t, outcome)
    PROVE  /\ pc'[t] = outcome /\ snap'[t] = {} /\ lockA'[t] = NoRow
           /\ \A u \in Requests \ {t} :
                 /\ pc'[u] = pc[u] /\ snap'[u] = snap[u] /\ lockA'[u] = lockA[u]
                 /\ lastA'[u] = lastA[u] /\ lastC'[u] = lastC[u] /\ pending'[u] = pending[u]
  BY DEF TypeOK, End

(* The semaphore works: one creator at a time is past the first lock.      *)
LEMMA Mutex ==
    ASSUME IInv, NEW t \in Creators, NEW u \in Creators,
           pc[t] \in Holding, pc[u] \in Holding
    PROVE  t = u
<1> SUFFICES ASSUME t # u PROVE FALSE OBVIOUS
<1>1. /\ lockA[t] \in approvals /\ lockA[u] \in approvals
      /\ IsFirst(lockA[t], approvals) /\ IsFirst(lockA[u], approvals)
  BY DEF IInv, Semaphore
<1>2. /\ lockA[t] \in Row /\ lockA[u] \in Row /\ Anchor \in Row
      /\ lockA[t].pk \in Nat /\ lockA[u].pk \in Nat /\ Anchor.pk \in Nat
  BY <1>1, InitialAssumption, AnchorAssumption DEF IInv, TypeOK, Row
<1>3. lockA[t].pk <= Anchor.pk /\ lockA[u].pk <= Anchor.pk /\ lockA[t].pk = lockA[u].pk
  BY <1>1, <1>2 DEF IInv, Anchored, IsFirst
<1>4. lockA[t] \in Initial /\ lockA[u] \in Initial
  BY <1>1, <1>2, <1>3 DEF IInv, Anchored
<1>5. lockA[t] = lockA[u] /\ lockA[t].pk > 0
  BY <1>3, <1>4, InitialAssumption
<1>6. lockA[t] = NoRow
  BY <1>5 DEF IInv, LockExclusive, Requests
<1> QED BY <1>5, <1>6 DEF NoRow

(* Adding to a table adds a number; rows of the tables have natural keys.  *)
LEMMA RowFacts ==
    ASSUME IInv
    PROVE  /\ \A r \in approvals \cup cancelled : r \in Row /\ r.pk \in Nat /\ r.number \in Nat
           /\ Anchor \in Row /\ Anchor.pk \in Nat /\ Anchor.number \in Nat
           /\ \A t \in Requests : pending[t] \in Row /\ pending[t].number \in Nat /\ pending[t].pk \in Nat
           /\ Creators \subseteq Requests /\ Cancellers \subseteq Requests
           /\ Creators \cap Cancellers = {}
  BY InitialAssumption, AnchorAssumption, RequestsAssumption DEF IInv, TypeOK, Row, Requests

(* A creator that starts its locking SELECT has every early row in its snapshot. *)
LEMMA InvSelectFirstApproval ==
    ASSUME IInv, NEW t \in Creators, SelectFirstApproval(t), TypeOK'
    PROVE  IInv'
<1>1. Anchored'
  BY RowFacts DEF IInv, TypeOK, SelectFirstApproval, Anchored
<1>2. LockExclusive'
  BY RowFacts DEF IInv, TypeOK, SelectFirstApproval, LockExclusive
<1>3. Semaphore'
  BY RowFacts, Mutex DEF IInv, TypeOK, SelectFirstApproval, Semaphore, IsFirst, Holding
<1>4. Cancelling'
  BY RowFacts DEF IInv, TypeOK, SelectFirstApproval, Cancelling, Numbers
<1>5. Reading'
  BY RowFacts, Mutex DEF IInv, TypeOK, SelectFirstApproval, Reading, Numbers, IsLast, Larger
<1>6. NoDuplicate'
  BY RowFacts DEF IInv, TypeOK, SelectFirstApproval, NoDuplicate, Numbers
<1>7. NoHole'
  BY RowFacts DEF IInv, TypeOK, SelectFirstApproval, NoHole
<1> QED BY <1>1, <1>2, <1>3, <1>4, <1>5, <1>6, <1>7 DEF IInv

(* The row a creator locks is the first of the table.                      *)
LEMMA InvLockApproval ==
    ASSUME IInv, NEW t \in Creators, LockApproval(t), TypeOK'
    PROVE  IInv'
<1>1. Anchored'
  BY RowFacts DEF IInv, TypeOK, LockApproval, Anchored
<1>2. LockExclusive'
  BY RowFacts DEF IInv, TypeOK, LockApproval, LockExclusive
<1>3. Semaphore'
  <2>1. Anchor \in snap[t] \cap approvals
    BY RowFacts DEF IInv, Anchored, LockApproval
  <2>2. PICK r \in snap[t] \cap approvals :
           IsFirst(r, snap[t] \cap approvals) /\ lockA' = [lockA EXCEPT ![t] = r]
    BY <2>1 DEF LockApproval
  <2>3. \A s \in approvals : r.pk <= s.pk
    BY <2>1, <2>2, RowFacts DEF IInv, Anchored, LockApproval, IsFirst
  <2> QED BY <2>2, <2>3, RowFacts DEF IInv, TypeOK, LockApproval, Semaphore, IsFirst, Holding
<1>4. Cancelling'
  BY RowFacts DEF IInv, TypeOK, LockApproval, Cancelling, Numbers
<1>5. Reading'
  BY RowFacts, Mutex DEF IInv, TypeOK, LockApproval, Reading, Numbers, IsLast, Larger
<1>6. NoDuplicate'
  BY RowFacts DEF IInv, TypeOK, LockApproval, NoDuplicate, Numbers
<1>7. NoHole'
  BY RowFacts DEF IInv, TypeOK, LockApproval, NoHole
<1> QED BY <1>1, <1>2, <1>3, <1>4, <1>5, <1>6, <1>7 DEF IInv

(* The largest Approval number bounds all but the cancelled numbers.       *)
LEMMA InvReadLastApproval ==
    ASSUME IInv, NEW t \in Creators, ReadLastApproval(t), TypeOK'
    PROVE  IInv'
<1>1. Anchored'
  BY RowFacts DEF IInv, TypeOK, ReadLastApproval, Anchored
<1>2. LockExclusive'
  BY RowFacts DEF IInv, TypeOK, ReadLastApproval, LockExclusive
<1>3. Semaphore'
  BY RowFacts, Mutex DEF IInv, TypeOK, ReadLastApproval, Semaphore, IsFirst, Holding
<1>4. Cancelling'
  BY RowFacts DEF IInv, TypeOK, ReadLastApproval, Cancelling, Numbers
<1>5. Reading'
  <2>1. PICK n : IsLast(n, approvals) /\ lastA' = [lastA EXCEPT ![t] = n]
    BY DEF ReadLastApproval
  <2>2. n \in Numbers(approvals) /\ \A r \in approvals : r.number <= n
    BY <2>1 DEF IsLast, IInv, Anchored
  <2>3. n \in issued /\ n \in Nat /\ issued \subseteq Nat /\ Anchor.number <= n
    BY <2>2, RowFacts DEF IInv, Reading, TypeOK, Anchored
  <2>4. \A m \in issued : m <= n \/ m \in Numbers(cancelled)
    <3>1. \A m \in Numbers(approvals) : m <= n
      BY <2>2 DEF Numbers
    <3>2. \A m \in issued : m <= Anchor.number => m <= n
      BY <2>3, RowFacts
    <3> QED BY <3>1, <3>2 DEF IInv, Reading
  <2>5. /\ pc'[t] = "selectC" /\ lastA'[t] = n
        /\ \A u \in Creators \ {t} : pc'[u] = pc[u] /\ lastA'[u] = lastA[u]
        /\ UNCHANGED <<approvals, cancelled, issued, lastC, pending>>
    BY <2>1, RowFacts DEF IInv, TypeOK, ReadLastApproval
  <2> QED BY <2>2, <2>3, <2>4, <2>5 DEF IInv, Reading
<1>6. NoDuplicate'
  BY RowFacts DEF IInv, TypeOK, ReadLastApproval, NoDuplicate, Numbers
<1>7. NoHole'
  BY RowFacts DEF IInv, TypeOK, ReadLastApproval, NoHole
<1> QED BY <1>1, <1>2, <1>3, <1>4, <1>5, <1>6, <1>7 DEF IInv

(* The second locking SELECT disturbs nothing.                             *)
LEMMA InvSelectFirstCancelled ==
    ASSUME IInv, NEW t \in Creators, SelectFirstCancelled(t), TypeOK'
    PROVE  IInv'
<1>1. Anchored'
  BY RowFacts DEF IInv, TypeOK, SelectFirstCancelled, Anchored
<1>2. LockExclusive'
  BY RowFacts DEF IInv, TypeOK, SelectFirstCancelled, LockExclusive
<1>3. Semaphore'
  BY RowFacts, Mutex DEF IInv, TypeOK, SelectFirstCancelled, Semaphore, IsFirst, Holding
<1>4. Cancelling'
  BY RowFacts DEF IInv, TypeOK, SelectFirstCancelled, Cancelling, Numbers
<1>5. Reading'
  BY RowFacts, Mutex DEF IInv, TypeOK, SelectFirstCancelled, Reading, Numbers, IsLast, Larger
<1>6. NoDuplicate'
  BY RowFacts DEF IInv, TypeOK, SelectFirstCancelled, NoDuplicate, Numbers
<1>7. NoHole'
  BY RowFacts DEF IInv, TypeOK, SelectFirstCancelled, NoHole
<1> QED BY <1>1, <1>2, <1>3, <1>4, <1>5, <1>6, <1>7 DEF IInv

(* Nor does its lock.                                                      *)
LEMMA InvLockCancelled ==
    ASSUME IInv, NEW t \in Creators, LockCancelled(t), TypeOK'
    PROVE  IInv'
<1>1. Anchored'
  BY RowFacts DEF IInv, TypeOK, LockCancelled, Anchored
<1>2. LockExclusive'
  BY RowFacts DEF IInv, TypeOK, LockCancelled, LockExclusive
<1>3. Semaphore'
  BY RowFacts, Mutex DEF IInv, TypeOK, LockCancelled, Semaphore, IsFirst, Holding
<1>4. Cancelling'
  BY RowFacts DEF IInv, TypeOK, LockCancelled, Cancelling, Numbers
<1>5. Reading'
  BY RowFacts, Mutex DEF IInv, TypeOK, LockCancelled, Reading, Numbers, IsLast, Larger
<1>6. NoDuplicate'
  BY RowFacts DEF IInv, TypeOK, LockCancelled, NoDuplicate, Numbers
<1>7. NoHole'
  BY RowFacts DEF IInv, TypeOK, LockCancelled, NoHole
<1> QED BY <1>1, <1>2, <1>3, <1>4, <1>5, <1>6, <1>7 DEF IInv

(* The larger of the two readings is the largest number issued.            *)
LEMMA InvReadLastCancelled ==
    ASSUME IInv, NEW t \in Creators, ReadLastCancelled(t), TypeOK'
    PROVE  IInv'
<1>1. Anchored'
  BY RowFacts DEF IInv, TypeOK, ReadLastCancelled, Anchored
<1>2. LockExclusive'
  BY RowFacts DEF IInv, TypeOK, ReadLastCancelled, LockExclusive
<1>3. Semaphore'
  BY RowFacts, Mutex DEF IInv, TypeOK, ReadLastCancelled, Semaphore, IsFirst, Holding
<1>4. Cancelling'
  BY RowFacts DEF IInv, TypeOK, ReadLastCancelled, Cancelling, Numbers
<1>5. Reading'
  <2>1. PICK n \in Numbers(cancelled) \cup {0} :
           IsLast(n, cancelled) /\ lastC' = [lastC EXCEPT ![t] = n]
    BY DEF ReadLastCancelled
  <2>2. /\ issued \subseteq Nat /\ lastA[t] \in issued /\ lastA[t] \in Nat
        /\ n \in Nat /\ (n \in issued \/ n = 0)
        /\ \A m \in Numbers(cancelled) : m <= n
        /\ \A m \in issued : m <= lastA[t] \/ m \in Numbers(cancelled)
    BY <2>1, RowFacts DEF IInv, Reading, TypeOK, IsLast, ReadLastCancelled, Numbers
  <2>3. /\ Larger(lastA[t], n) \in issued
        /\ \A m \in issued : m <= Larger(lastA[t], n)
    BY <2>2 DEF Larger
  <2>4. /\ pc'[t] = "insert" /\ lastC'[t] = n /\ pc[t] = "readC"
        /\ \A u \in Creators \ {t} : pc'[u] = pc[u] /\ lastC'[u] = lastC[u]
        /\ UNCHANGED <<approvals, cancelled, issued, lastA, pending>>
    BY <2>1, RowFacts DEF IInv, TypeOK, ReadLastCancelled
  <2> QED BY <2>3, <2>4 DEF IInv, Reading
<1>6. NoDuplicate'
  BY RowFacts DEF IInv, TypeOK, ReadLastCancelled, NoDuplicate, Numbers
<1>7. NoHole'
  BY RowFacts DEF IInv, TypeOK, ReadLastCancelled, NoHole
<1> QED BY <1>1, <1>2, <1>3, <1>4, <1>5, <1>6, <1>7 DEF IInv

(* The number inserted is the successor of the largest issued.             *)
LEMMA InvInsertApproval ==
    ASSUME IInv, NEW t \in Creators, InsertApproval(t), TypeOK'
    PROVE  IInv'
<1>1. Anchored'
  BY RowFacts, EndFacts DEF IInv, TypeOK, InsertApproval, Anchored
<1>2. LockExclusive'
  BY RowFacts, EndFacts DEF IInv, TypeOK, InsertApproval, LockExclusive
<1>3. Semaphore'
  BY RowFacts, EndFacts, Mutex DEF IInv, TypeOK, InsertApproval, Semaphore, IsFirst, Holding
<1>4. Cancelling'
  <2>1. /\ \A u \in Cancellers : /\ pc'[u] = pc[u] /\ snap'[u] = snap[u]
                                /\ lockA'[u] = lockA[u] /\ pending'[u] = pending[u]
        /\ UNCHANGED <<approvals, cancelled, issued>>
        /\ \A u \in Creators : pc'[u] = pc[u] \/ pc'[u] \in {"inserted", "failed"}
    BY RowFacts, EndFacts DEF IInv, TypeOK, InsertApproval
  <2> QED BY <2>1 DEF IInv, Cancelling
<1>5. Reading'
  <2>1. /\ UNCHANGED <<approvals, cancelled, issued>>
        /\ \A u \in Creators \ {t} : /\ pc'[u] = pc[u] /\ lastA'[u] = lastA[u]
                                     /\ lastC'[u] = lastC[u] /\ pending'[u] = pending[u]
    BY RowFacts, EndFacts DEF IInv, TypeOK, InsertApproval
  <2>2. \/ pc'[t] = "failed"
        \/ pc'[t] = "inserted" /\ pending'[t].number = Larger(lastA[t], lastC[t]) + 1
    BY RowFacts, EndFacts DEF IInv, TypeOK, InsertApproval, NextNumber
  <2>3. /\ \A n \in issued : n <= Larger(lastA[t], lastC[t])
        /\ Larger(lastA[t], lastC[t]) \in issued /\ issued \subseteq Nat
    BY RowFacts DEF IInv, TypeOK, Reading, InsertApproval
  <2>4. pc'[t] = "inserted" =>
          /\ \A n \in issued' : n < pending'[t].number
          /\ pending'[t].number - 1 \in issued'
    <3> SUFFICES ASSUME pc'[t] = "inserted"
                 PROVE  /\ \A n \in issued : n < pending'[t].number
                        /\ pending'[t].number - 1 \in issued
      BY <2>1
    <3> DEFINE L == Larger(lastA[t], lastC[t])
    <3>1. pending'[t].number = L + 1 /\ L \in Nat /\ L \in issued
      BY <2>2, <2>3
    <3>2. (L + 1) - 1 = L /\ \A n \in Nat : n <= L => n < L + 1
      BY <3>1
    <3> QED BY <2>3, <3>1, <3>2
  <2>5. pc'[t] \notin {"selectC", "lockC", "readC", "insert"}
    BY <2>2
  <2> QED BY <2>1, <2>4, <2>5 DEF IInv, Reading
<1>6. NoDuplicate'
  BY RowFacts, EndFacts DEF IInv, TypeOK, InsertApproval, NoDuplicate, Numbers
<1>7. NoHole'
  BY RowFacts, EndFacts DEF IInv, TypeOK, InsertApproval, NoHole
<1> QED BY <1>1, <1>2, <1>3, <1>4, <1>5, <1>6, <1>7 DEF IInv

(* Committing it keeps numbers unique and without a hole.                  *)
LEMMA InvCommitApproval ==
    ASSUME IInv, NEW t \in Creators, CommitApproval(t), TypeOK'
    PROVE  IInv'
<1>1. Anchored'
  <2>1. /\ approvals' = approvals \cup {pending[t]} /\ pc[t] = "inserted" /\ UNCHANGED nextPk
        /\ pc'[t] = "done"
        /\ \A u \in Requests \ {t} :
              pc'[u] = pc[u] /\ snap'[u] = snap[u] /\ pending'[u] = pending[u]
    BY RowFacts, EndFacts DEF IInv, CommitApproval
  <2>2. pending[t].pk > Anchor.pk
    BY <2>1 DEF IInv, Anchored
  <2>3. \A r \in approvals' : r.pk <= Anchor.pk => r \in approvals
    BY <2>1, <2>2, RowFacts
  <2> QED BY <2>1, <2>2, <2>3, RowFacts DEF IInv, Anchored
<1>2. LockExclusive'
  BY RowFacts, EndFacts DEF IInv, TypeOK, CommitApproval, LockExclusive
<1>3. Semaphore'
  BY RowFacts, EndFacts, Mutex DEF IInv, TypeOK, CommitApproval, Semaphore, IsFirst, Holding
<1>4. Cancelling'
  <2>1. /\ pending[t] \in Row /\ pending[t].number \in Nat /\ issued \subseteq Nat
        /\ approvals' = approvals \cup {pending[t]}
        /\ issued' = issued \cup {pending[t].number} /\ cancelled' = cancelled
        /\ \A n \in issued : n < pending[t].number
        /\ pending[t].number - 1 \in issued
    BY RowFacts DEF IInv, TypeOK, CommitApproval, Reading
  <2>2. /\ Numbers(approvals') = Numbers(approvals) \cup {pending[t].number}
        /\ Numbers(approvals) \subseteq issued /\ Numbers(cancelled) \subseteq issued
        /\ pending[t].number \notin issued
    BY <2>1 DEF IInv, Reading, Numbers
  <2>3. /\ \A u \in Cancellers : /\ pc'[u] = pc[u] /\ snap'[u] = snap[u]
                                /\ lockA'[u] = lockA[u] /\ pending'[u] = pending[u]
        /\ \A u \in Creators : pc'[u] = pc[u] \/ pc'[u] = "done"
    BY RowFacts, EndFacts DEF IInv, TypeOK, CommitApproval
  <2>6. ASSUME NEW u \in Cancellers, pc'[u] \in {"cancel", "delete", "deleted"}
        PROVE \E s \in snap'[u] :
                   /\ snap'[u] = {s}
                   /\ s # Anchor
                   /\ s.number \in issued'
                   /\ s \in approvals' \/ s.number \notin Numbers(approvals')
                   /\ pc'[u] \in {"delete", "deleted"} =>
                        pending'[u].number = s.number /\ s.number \notin Numbers(cancelled')
                   /\ pc'[u] = "deleted" => lockA'[u] = s
    <3>1. PICK s \in snap[u] :
                   /\ snap[u] = {s}
                   /\ s # Anchor
                   /\ s.number \in issued
                   /\ s \in approvals \/ s.number \notin Numbers(approvals)
                   /\ pc[u] \in {"delete", "deleted"} =>
                        pending[u].number = s.number /\ s.number \notin Numbers(cancelled)
                   /\ pc[u] = "deleted" => lockA[u] = s
      BY <2>3, <2>6, RowFacts DEF IInv, Cancelling
    <3>2. s \in approvals' \/ s.number \notin Numbers(approvals')
      BY <2>1, <2>2, <3>1
    <3> QED BY <2>1, <2>3, <3>1, <3>2
  <2> QED BY <2>3, <2>6 DEF IInv, Cancelling
<1>5. Reading'
  <2>1. /\ pending[t] \in Row /\ pending[t].number \in Nat /\ issued \subseteq Nat
        /\ approvals' = approvals \cup {pending[t]}
        /\ issued' = issued \cup {pending[t].number} /\ cancelled' = cancelled
        /\ \A n \in issued : n < pending[t].number
        /\ pending[t].number - 1 \in issued
    BY RowFacts DEF IInv, TypeOK, CommitApproval, Reading
  <2>2. /\ Numbers(approvals') = Numbers(approvals) \cup {pending[t].number}
        /\ Numbers(approvals) \subseteq issued /\ Numbers(cancelled) \subseteq issued
        /\ pending[t].number \notin issued
    BY <2>1 DEF IInv, Reading, Numbers
  <2>3. /\ pc'[t] = "done"
        /\ \A u \in Creators \ {t} :
              /\ pc'[u] = pc[u] /\ lastA'[u] = lastA[u]
              /\ lastC'[u] = lastC[u] /\ pending'[u] = pending[u]
              /\ pc[u] \notin Holding
    BY RowFacts, EndFacts, Mutex DEF IInv, TypeOK, CommitApproval, Holding
  <2>4. \A u \in Creators :
           pc'[u] \notin {"selectC", "lockC", "readC", "insert", "inserted"}
    BY <2>3 DEF Holding
  <2>5. /\ Numbers(approvals') \cup Numbers(cancelled') \subseteq issued'
        /\ \A n \in issued' :
              n \in Numbers(approvals') \cup Numbers(cancelled') \/ n <= Anchor.number
    BY <2>1, <2>2 DEF IInv, Reading
  <2> QED BY <2>4, <2>5 DEF Reading
<1>6. NoDuplicate'
  <2>1. /\ pending[t] \in Row /\ pending[t].number \in Nat /\ issued \subseteq Nat
        /\ approvals' = approvals \cup {pending[t]}
        /\ issued' = issued \cup {pending[t].number} /\ cancelled' = cancelled
        /\ \A n \in issued : n < pending[t].number
        /\ pending[t].number - 1 \in issued
    BY RowFacts DEF IInv, TypeOK, CommitApproval, Reading
  <2>2. /\ Numbers(approvals') = Numbers(approvals) \cup {pending[t].number}
        /\ Numbers(approvals) \subseteq issued /\ Numbers(cancelled) \subseteq issued
        /\ pending[t].number \notin issued
    BY <2>1 DEF IInv, Reading, Numbers
  <2>3. \A r \in approvals : r.number # pending[t].number
    BY <2>2 DEF Numbers
  <2> QED BY <2>1, <2>2, <2>3 DEF IInv, NoDuplicate
<1>7. NoHole'
  <2>1. /\ pending[t] \in Row /\ pending[t].number \in Nat /\ issued \subseteq Nat
        /\ approvals' = approvals \cup {pending[t]}
        /\ issued' = issued \cup {pending[t].number} /\ cancelled' = cancelled
        /\ \A n \in issued : n < pending[t].number
        /\ pending[t].number - 1 \in issued
    BY RowFacts DEF IInv, TypeOK, CommitApproval, Reading
  <2>2. /\ Numbers(approvals') = Numbers(approvals) \cup {pending[t].number}
        /\ Numbers(approvals) \subseteq issued /\ Numbers(cancelled) \subseteq issued
        /\ pending[t].number \notin issued
    BY <2>1 DEF IInv, Reading, Numbers
  <2>3. \A m \in Anchor.number..pending[t].number : m \in issued'
    <3> SUFFICES ASSUME NEW m \in Anchor.number..pending[t].number PROVE m \in issued'
      OBVIOUS
    <3>1. CASE m = pending[t].number
      BY <2>1, <3>1
    <3>2. CASE m # pending[t].number
      <4>1. m \in Anchor.number..(pending[t].number - 1)
        BY <2>1, <3>2, RowFacts
      <4> QED BY <2>1, <4>1 DEF IInv, NoHole
    <3> QED BY <3>1, <3>2
  <2> QED BY <2>1, <2>3 DEF IInv, NoHole
<1> QED BY <1>1, <1>2, <1>3, <1>4, <1>5, <1>6, <1>7 DEF IInv

(* The row to cancel has an issued number.                                 *)
LEMMA InvReadApprovalToCancel ==
    ASSUME IInv, NEW t \in Cancellers, ReadApprovalToCancel(t), TypeOK'
    PROVE  IInv'
<1>1. Anchored'
  BY RowFacts DEF IInv, TypeOK, ReadApprovalToCancel, Anchored
<1>2. LockExclusive'
  BY RowFacts DEF IInv, TypeOK, ReadApprovalToCancel, LockExclusive
<1>3. Semaphore'
  BY RowFacts, Mutex DEF IInv, TypeOK, ReadApprovalToCancel, Semaphore, IsFirst, Holding
<1>4. Cancelling'
  <2>1. PICK r \in approvals \ {Anchor} : snap' = [snap EXCEPT ![t] = {r}]
    BY DEF ReadApprovalToCancel
  <2>2. /\ pc'[t] = "cancel" /\ snap'[t] = {r} /\ r.number \in issued
        /\ \A u \in Requests \ {t} : pc'[u] = pc[u] /\ snap'[u] = snap[u]
        /\ UNCHANGED <<approvals, cancelled, issued, lockA, pending>>
    <3>1. r.number \in Numbers(approvals)
      BY DEF Numbers
    <3> QED BY <2>1, <3>1, RowFacts DEF IInv, TypeOK, ReadApprovalToCancel, Reading
  <2> QED BY <2>1, <2>2, RowFacts DEF IInv, Cancelling
<1>5. Reading'
  BY RowFacts, Mutex DEF IInv, TypeOK, ReadApprovalToCancel, Reading, Numbers, IsLast, Larger
<1>6. NoDuplicate'
  BY RowFacts DEF IInv, TypeOK, ReadApprovalToCancel, NoDuplicate, Numbers
<1>7. NoHole'
  BY RowFacts DEF IInv, TypeOK, ReadApprovalToCancel, NoHole
<1> QED BY <1>1, <1>2, <1>3, <1>4, <1>5, <1>6, <1>7 DEF IInv

(* Two cancellations never hold the same number.                           *)
LEMMA InvInsertCancelled ==
    ASSUME IInv, NEW t \in Cancellers, InsertCancelled(t), TypeOK'
    PROVE  IInv'
<1>0. /\ UNCHANGED <<approvals, cancelled, issued, nextPk>>
      /\ pc'[t] \in {"delete", "failed"} /\ lockA'[t] \in {lockA[t], NoRow}
      /\ \A u \in Requests \ {t} :
            /\ pc'[u] = pc[u] /\ snap'[u] = snap[u] /\ lockA'[u] = lockA[u]
            /\ lastA'[u] = lastA[u] /\ lastC'[u] = lastC[u] /\ pending'[u] = pending[u]
  <2>1. CASE End(t, "failed")
    BY <2>1, RowFacts, EndFacts DEF IInv, InsertCancelled
  <2>2. CASE UNCHANGED <<snap, lockA, lastA, lockC, lastC>> /\ ~End(t, "failed")
    BY <2>2, RowFacts DEF IInv, TypeOK, InsertCancelled
  <2> QED BY <2>1, <2>2 DEF InsertCancelled
<1>1. Anchored'
  BY <1>0, RowFacts DEF IInv, Anchored
<1>2. LockExclusive'
  BY <1>0, RowFacts DEF IInv, LockExclusive
<1>3. Semaphore'
  BY <1>0, RowFacts DEF IInv, Semaphore, IsFirst, Holding
<1>4. Cancelling'
  <2>1. PICK r \in snap[t] :
          /\ \A u \in Cancellers \ {t} : pending[u].number # r.number
          /\ \/ /\ r.number \notin Numbers(cancelled)
                /\ pending' = [pending EXCEPT ![t] = [pk |-> nextCpk, number |-> r.number]]
                /\ pc' = [pc EXCEPT ![t] = "delete"]
                /\ UNCHANGED <<snap, lockA>>
             \/ End(t, "failed")
    BY DEF InsertCancelled
  <2>2. UNCHANGED <<approvals, cancelled, issued>> /\ pc[t] = "cancel" /\ snap[t] = {r}
    BY <2>1 DEF InsertCancelled, IInv, Cancelling
  <2>3. CASE End(t, "failed")
    <3>1. /\ pc'[t] = "failed"
          /\ \A u \in Requests \ {t} : /\ pc'[u] = pc[u] /\ snap'[u] = snap[u]
                                       /\ lockA'[u] = lockA[u] /\ pending'[u] = pending[u]
      BY <2>3, RowFacts, EndFacts DEF IInv
    <3> QED BY <2>2, <3>1, RowFacts DEF IInv, Cancelling
  <2>4. CASE /\ r.number \notin Numbers(cancelled)
             /\ pending' = [pending EXCEPT ![t] = [pk |-> nextCpk, number |-> r.number]]
             /\ pc' = [pc EXCEPT ![t] = "delete"]
             /\ UNCHANGED <<snap, lockA>>
    <3>1. /\ pc'[t] = "delete" /\ pending'[t].number = r.number
          /\ \A u \in Requests \ {t} : pc'[u] = pc[u] /\ pending'[u] = pending[u]
      BY <2>4, RowFacts DEF IInv, TypeOK
    <3> QED BY <2>1, <2>2, <2>4, <3>1, RowFacts DEF IInv, Cancelling
  <2> QED BY <2>1, <2>3, <2>4
<1>5. Reading'
  BY <1>0, RowFacts DEF IInv, Reading, Numbers, Larger
<1>6. NoDuplicate'
  BY <1>0 DEF IInv, NoDuplicate, Numbers
<1>7. NoHole'
  BY <1>0 DEF IInv, NoHole
<1> QED BY <1>1, <1>2, <1>3, <1>4, <1>5, <1>6, <1>7 DEF IInv

(* Locking the row to delete keeps locks exclusive.                        *)
LEMMA InvDeleteApproval ==
    ASSUME IInv, NEW t \in Cancellers, DeleteApproval(t), TypeOK'
    PROVE  IInv'
<1>1. Anchored'
  BY RowFacts DEF IInv, TypeOK, DeleteApproval, Anchored
<1>2. LockExclusive'
  BY RowFacts DEF IInv, TypeOK, DeleteApproval, LockExclusive
<1>3. Semaphore'
  BY RowFacts, Mutex DEF IInv, TypeOK, DeleteApproval, Semaphore, IsFirst, Holding
<1>4. Cancelling'
  BY RowFacts DEF IInv, TypeOK, DeleteApproval, Cancelling, Numbers
<1>5. Reading'
  BY RowFacts, Mutex DEF IInv, TypeOK, DeleteApproval, Reading, Numbers, IsLast, Larger
<1>6. NoDuplicate'
  BY RowFacts DEF IInv, TypeOK, DeleteApproval, NoDuplicate, Numbers
<1>7. NoHole'
  BY RowFacts DEF IInv, TypeOK, DeleteApproval, NoHole
<1> QED BY <1>1, <1>2, <1>3, <1>4, <1>5, <1>6, <1>7 DEF IInv

(* A cancellation moves its number, and never takes the row of the semaphore. *)
LEMMA InvCommitCancel ==
    ASSUME IInv, NEW t \in Cancellers, CommitCancel(t), TypeOK'
    PROVE  IInv'
<1>1. Anchored'
  <2>1. PICK r \in Row :
          /\ snap[t] = {r} /\ r # Anchor /\ lockA[t] = r
          /\ r \in approvals \/ r.number \notin Numbers(approvals)
          /\ pending[t].number = r.number /\ r.number \notin Numbers(cancelled)
          /\ r.number \in issued
    BY RowFacts DEF IInv, Cancelling, TypeOK, CommitCancel
  <2>2. /\ approvals' = approvals \ {r} /\ cancelled' = cancelled \cup {pending[t]}
        /\ UNCHANGED <<issued, nextPk>>
        /\ pc'[t] = "done"
        /\ \A u \in Requests \ {t} :
              /\ pc'[u] = pc[u] /\ snap'[u] = snap[u] /\ lockA'[u] = lockA[u]
              /\ lastA'[u] = lastA[u] /\ lastC'[u] = lastC[u] /\ pending'[u] = pending[u]
    BY <2>1, RowFacts, EndFacts DEF IInv, CommitCancel
  <2> QED BY <2>1, <2>2, RowFacts DEF IInv, Anchored
<1>2. LockExclusive'
  BY RowFacts, EndFacts DEF IInv, TypeOK, CommitCancel, LockExclusive
<1>3. Semaphore'
  <2>1. PICK r \in Row :
          /\ snap[t] = {r} /\ r # Anchor /\ lockA[t] = r
          /\ r \in approvals \/ r.number \notin Numbers(approvals)
          /\ pending[t].number = r.number /\ r.number \notin Numbers(cancelled)
          /\ r.number \in issued
    BY RowFacts DEF IInv, Cancelling, TypeOK, CommitCancel
  <2>2. /\ approvals' = approvals \ {r} /\ cancelled' = cancelled \cup {pending[t]}
        /\ UNCHANGED <<issued, nextPk>>
        /\ pc'[t] = "done"
        /\ \A u \in Requests \ {t} :
              /\ pc'[u] = pc[u] /\ snap'[u] = snap[u] /\ lockA'[u] = lockA[u]
              /\ lastA'[u] = lastA[u] /\ lastC'[u] = lastC[u] /\ pending'[u] = pending[u]
    BY <2>1, RowFacts, EndFacts DEF IInv, CommitCancel
  <2>3. \A u \in Creators : pc[u] \in Holding => lockA[u] # r
    <3> SUFFICES ASSUME NEW u \in Creators, pc[u] \in Holding, lockA[u] = r PROVE FALSE
      OBVIOUS
    <3>1. r \in approvals /\ IsFirst(r, approvals)
      BY DEF IInv, Semaphore
    <3>2. r.pk <= Anchor.pk
      BY <3>1 DEF IInv, Anchored, IsFirst
    <3>3. r \in Initial
      BY <3>1, <3>2, RowFacts DEF IInv, Anchored
    <3>4. r = NoRow
      BY <2>1, RowFacts DEF IInv, LockExclusive
    <3> QED BY <3>3, <3>4, InitialAssumption DEF NoRow
  <2> QED BY <2>1, <2>2, <2>3, RowFacts DEF IInv, Semaphore, IsFirst
<1>4. Cancelling'
  <2>1. PICK r \in Row :
          /\ snap[t] = {r} /\ r # Anchor /\ lockA[t] = r
          /\ r \in approvals \/ r.number \notin Numbers(approvals)
          /\ pending[t].number = r.number /\ r.number \notin Numbers(cancelled)
          /\ r.number \in issued
    BY RowFacts DEF IInv, Cancelling, TypeOK, CommitCancel
  <2>2. /\ approvals' = approvals \ {r} /\ cancelled' = cancelled \cup {pending[t]}
        /\ UNCHANGED <<issued, nextPk>>
        /\ pc'[t] = "done"
        /\ \A u \in Requests \ {t} :
              /\ pc'[u] = pc[u] /\ snap'[u] = snap[u] /\ lockA'[u] = lockA[u]
              /\ lastA'[u] = lastA[u] /\ lastC'[u] = lastC[u] /\ pending'[u] = pending[u]
    BY <2>1, RowFacts, EndFacts DEF IInv, CommitCancel
  <2>3. /\ Numbers(approvals') \subseteq Numbers(approvals)
        /\ \A n \in Numbers(approvals) : n \in Numbers(approvals') \/ n = r.number
        /\ Numbers(cancelled') = Numbers(cancelled) \cup {r.number}
        /\ r.number \notin Numbers(approvals')
    BY <2>1, <2>2 DEF Numbers, IInv, NoDuplicate
  <2>4. /\ \A u \in Cancellers \ {t} :
            /\ pc[u] \in {"delete", "deleted"} => pending[u].number # r.number
    BY <2>1, RowFacts DEF IInv, Cancelling, CommitCancel
  <2>5. \A u \in Creators : pc'[u] \notin {"cancel", "delete", "deleted"}
    BY <2>2, RowFacts DEF IInv, Cancelling
  <2>6. ASSUME NEW u \in Cancellers \ {t}, pc'[u] \in {"cancel", "delete", "deleted"}
        PROVE \E s \in snap'[u] :
                   /\ snap'[u] = {s}
                   /\ s # Anchor
                   /\ s.number \in issued'
                   /\ s \in approvals' \/ s.number \notin Numbers(approvals')
                   /\ pc'[u] \in {"delete", "deleted"} =>
                        pending'[u].number = s.number /\ s.number \notin Numbers(cancelled')
                   /\ pc'[u] = "deleted" => lockA'[u] = s
    <3>1. PICK s \in snap[u] :
                   /\ snap[u] = {s}
                   /\ s # Anchor
                   /\ s.number \in issued
                   /\ s \in approvals \/ s.number \notin Numbers(approvals)
                   /\ pc[u] \in {"delete", "deleted"} =>
                        pending[u].number = s.number /\ s.number \notin Numbers(cancelled)
                   /\ pc[u] = "deleted" => lockA[u] = s
      BY <2>2, <2>6, RowFacts DEF IInv, Cancelling
    <3>2. s \in approvals' \/ s.number \notin Numbers(approvals')
      BY <2>2, <2>3, <3>1
    <3>3. pc'[u] \in {"delete", "deleted"} =>
             pending'[u].number = s.number /\ s.number \notin Numbers(cancelled')
      BY <2>2, <2>3, <2>4, <3>1, RowFacts
    <3> QED BY <2>2, <3>1, <3>2, <3>3, RowFacts
  <2>7. \A u \in Cancellers : pc'[u] \in {"idle", "cancel", "delete", "deleted", "done", "failed"}
    BY <2>2, RowFacts DEF IInv, Cancelling
  <2>8. \A u, v \in Cancellers :
          u # v /\ pc'[u] \in {"delete", "deleted"} /\ pc'[v] \in {"delete", "deleted"}
             => pending'[u].number # pending'[v].number
    BY <2>2, RowFacts DEF IInv, Cancelling
  <2>9. pc'[t] \notin {"cancel", "delete", "deleted"}
    BY <2>2
  <2> QED BY <2>5, <2>6, <2>7, <2>8, <2>9 DEF Cancelling
<1>5. Reading'
  <2>1. PICK r \in Row :
          /\ snap[t] = {r} /\ r # Anchor /\ lockA[t] = r
          /\ r \in approvals \/ r.number \notin Numbers(approvals)
          /\ pending[t].number = r.number /\ r.number \notin Numbers(cancelled)
          /\ r.number \in issued
    BY RowFacts DEF IInv, Cancelling, TypeOK, CommitCancel
  <2>2. /\ approvals' = approvals \ {r} /\ cancelled' = cancelled \cup {pending[t]}
        /\ UNCHANGED <<issued, nextPk>>
        /\ pc'[t] = "done"
        /\ \A u \in Requests \ {t} :
              /\ pc'[u] = pc[u] /\ snap'[u] = snap[u] /\ lockA'[u] = lockA[u]
              /\ lastA'[u] = lastA[u] /\ lastC'[u] = lastC[u] /\ pending'[u] = pending[u]
    BY <2>1, RowFacts, EndFacts DEF IInv, CommitCancel
  <2>3. /\ Numbers(approvals') \subseteq Numbers(approvals)
        /\ \A n \in Numbers(approvals) : n \in Numbers(approvals') \/ n = r.number
        /\ Numbers(cancelled') = Numbers(cancelled) \cup {r.number}
        /\ r.number \notin Numbers(approvals')
    BY <2>1, <2>2 DEF Numbers, IInv, NoDuplicate
  <2>4. /\ \A u \in Creators : /\ pc'[u] = pc[u] /\ lastA'[u] = lastA[u]
                               /\ lastC'[u] = lastC[u] /\ pending'[u] = pending[u]
        /\ \A s \in approvals' : s \in approvals
    BY <2>2, RowFacts
  <2>5. /\ Numbers(approvals') \cup Numbers(cancelled') \subseteq issued'
        /\ \A n \in issued' :
              n \in Numbers(approvals') \cup Numbers(cancelled') \/ n <= Anchor.number
    BY <2>1, <2>2, <2>3 DEF IInv, Reading
  <2> QED BY <2>2, <2>3, <2>4, <2>5 DEF IInv, Reading
<1>6. NoDuplicate'
  <2>1. PICK r \in Row :
          /\ snap[t] = {r} /\ r # Anchor /\ lockA[t] = r
          /\ r \in approvals \/ r.number \notin Numbers(approvals)
          /\ pending[t].number = r.number /\ r.number \notin Numbers(cancelled)
          /\ r.number \in issued
    BY RowFacts DEF IInv, Cancelling, TypeOK, CommitCancel
  <2>2. /\ approvals' = approvals \ {r} /\ cancelled' = cancelled \cup {pending[t]}
        /\ UNCHANGED <<issued, nextPk>>
        /\ pc'[t] = "done"
        /\ \A u \in Requests \ {t} :
              /\ pc'[u] = pc[u] /\ snap'[u] = snap[u] /\ lockA'[u] = lockA[u]
              /\ lastA'[u] = lastA[u] /\ lastC'[u] = lastC[u] /\ pending'[u] = pending[u]
    BY <2>1, RowFacts, EndFacts DEF IInv, CommitCancel
  <2>3. /\ Numbers(approvals') \subseteq Numbers(approvals)
        /\ \A n \in Numbers(approvals) : n \in Numbers(approvals') \/ n = r.number
        /\ Numbers(cancelled') = Numbers(cancelled) \cup {r.number}
        /\ r.number \notin Numbers(approvals')
    BY <2>1, <2>2 DEF Numbers, IInv, NoDuplicate
  <2>4. \A s \in cancelled : s.number # r.number
    BY <2>1 DEF Numbers
  <2>5. Numbers(approvals') \cap Numbers(cancelled') = {}
    BY <2>3 DEF IInv, NoDuplicate
  <2>6. \A a, b \in cancelled' : a.number = b.number => a = b
    BY <2>1, <2>2, <2>4 DEF IInv, NoDuplicate
  <2> QED BY <2>2, <2>5, <2>6 DEF IInv, NoDuplicate
<1>7. NoHole'
  BY RowFacts, EndFacts DEF IInv, TypeOK, CommitCancel, NoHole
<1> QED BY <1>1, <1>2, <1>3, <1>4, <1>5, <1>6, <1>7 DEF IInv

(* A request that fails leaves nothing behind.                             *)
LEMMA InvRollback ==
    ASSUME IInv, NEW t \in Requests, Rollback(t), TypeOK'
    PROVE  IInv'
<1>0. /\ UNCHANGED <<approvals, cancelled, issued, nextPk, nextCpk>>
      /\ pc'[t] = "failed" /\ lockA'[t] = NoRow
      /\ \A u \in Requests \ {t} :
            /\ pc'[u] = pc[u] /\ snap'[u] = snap[u] /\ lockA'[u] = lockA[u]
            /\ lastA'[u] = lastA[u] /\ lastC'[u] = lastC[u] /\ pending'[u] = pending[u]
  BY EndFacts DEF IInv, Rollback
<1>1. Anchored'
  BY <1>0, RowFacts DEF IInv, Anchored
<1>2. LockExclusive'
  BY <1>0 DEF IInv, LockExclusive
<1>3. Semaphore'
  BY <1>0, RowFacts DEF IInv, Semaphore, Holding, IsFirst
<1>4. Cancelling'
  BY <1>0, RowFacts DEF IInv, Cancelling, Numbers
<1>5. Reading'
  BY <1>0, RowFacts DEF IInv, Reading, Numbers, Larger
<1>6. NoDuplicate'
  BY <1>0 DEF IInv, NoDuplicate, Numbers
<1>7. NoHole'
  BY <1>0 DEF IInv, NoHole
<1> QED BY <1>1, <1>2, <1>3, <1>4, <1>5, <1>6, <1>7 DEF IInv

(* Anonymizing an old PASS removes no number above the anchor.             *)
LEMMA InvAnonymizeApproval ==
    ASSUME IInv, AnonymizeApproval, TypeOK'
    PROVE  IInv'
<1>1. Anchored'
  BY RowFacts, AnchorAssumption DEF IInv, TypeOK, AnonymizeApproval, Anchored
<1>2. LockExclusive'
  BY RowFacts, AnchorAssumption DEF IInv, TypeOK, AnonymizeApproval, LockExclusive
<1>3. Semaphore'
  BY RowFacts, AnchorAssumption DEF IInv, TypeOK, AnonymizeApproval, Semaphore, IsFirst, Holding
<1>4. Cancelling'
  <2>1. PICK r \in Old \cap approvals : approvals' = approvals \ {r}
    BY DEF AnonymizeApproval
  <2>2. UNCHANGED <<cancelled, issued, pc, snap, lockA, pending>>
    BY DEF AnonymizeApproval
  <2>3. Numbers(approvals') \subseteq Numbers(approvals) /\ r.number \notin Numbers(approvals')
    BY <2>1 DEF Numbers, IInv, NoDuplicate
  <2>6. ASSUME NEW u \in Cancellers, pc'[u] \in {"cancel", "delete", "deleted"}
        PROVE \E s \in snap'[u] :
                   /\ snap'[u] = {s}
                   /\ s # Anchor
                   /\ s.number \in issued'
                   /\ s \in approvals' \/ s.number \notin Numbers(approvals')
                   /\ pc'[u] \in {"delete", "deleted"} =>
                        pending'[u].number = s.number /\ s.number \notin Numbers(cancelled')
                   /\ pc'[u] = "deleted" => lockA'[u] = s
    <3>1. PICK s \in snap[u] :
                   /\ snap[u] = {s}
                   /\ s # Anchor
                   /\ s.number \in issued
                   /\ s \in approvals \/ s.number \notin Numbers(approvals)
                   /\ pc[u] \in {"delete", "deleted"} =>
                        pending[u].number = s.number /\ s.number \notin Numbers(cancelled)
                   /\ pc[u] = "deleted" => lockA[u] = s
      BY <2>2, <2>6, RowFacts DEF IInv, Cancelling
    <3>2. s \in approvals' \/ s.number \notin Numbers(approvals')
      BY <2>1, <2>3, <3>1
    <3> QED BY <2>2, <3>1, <3>2
  <2> QED BY <2>2, <2>6 DEF IInv, Cancelling
<1>5. Reading'
  <2>1. PICK r \in Old \cap approvals : approvals' = approvals \ {r}
    BY DEF AnonymizeApproval
  <2>2. /\ \A s \in approvals' : s \in approvals
        /\ Numbers(approvals') \subseteq Numbers(approvals)
        /\ \A n \in Numbers(approvals) : n \in Numbers(approvals') \/ n = r.number
        /\ r.number < Anchor.number /\ r.number \in Nat /\ Anchor.number \in Nat
    BY <2>1, RowFacts, AnchorAssumption DEF Numbers
  <2>3. UNCHANGED <<cancelled, issued, pc, lastA, lastC, pending>>
    BY DEF AnonymizeApproval
  <2>4. /\ Numbers(approvals') \cup Numbers(cancelled') \subseteq issued'
        /\ \A n \in issued' :
              n \in Numbers(approvals') \cup Numbers(cancelled') \/ n <= Anchor.number
    BY <2>2, <2>3 DEF IInv, Reading
  <2> QED BY <2>2, <2>3, <2>4 DEF IInv, Reading
<1>6. NoDuplicate'
  <2>1. approvals' \subseteq approvals /\ cancelled' = cancelled
    BY DEF AnonymizeApproval
  <2>2. Numbers(approvals') \subseteq Numbers(approvals)
    BY <2>1 DEF Numbers
  <2> QED BY <2>1, <2>2 DEF IInv, NoDuplicate
<1>7. NoHole'
  BY RowFacts, AnchorAssumption DEF IInv, TypeOK, AnonymizeApproval, NoHole
<1> QED BY <1>1, <1>2, <1>3, <1>4, <1>5, <1>6, <1>7 DEF IInv

(* Nor does anonymizing a cancelled one.                                   *)
LEMMA InvAnonymizeCancelled ==
    ASSUME IInv, AnonymizeCancelled, TypeOK'
    PROVE  IInv'
<1>1. Anchored'
  BY RowFacts, AnchorAssumption DEF IInv, TypeOK, AnonymizeCancelled, Anchored
<1>2. LockExclusive'
  BY RowFacts, AnchorAssumption DEF IInv, TypeOK, AnonymizeCancelled, LockExclusive
<1>3. Semaphore'
  BY RowFacts, AnchorAssumption DEF IInv, TypeOK, AnonymizeCancelled, Semaphore, IsFirst, Holding
<1>4. Cancelling'
  BY RowFacts, AnchorAssumption DEF IInv, TypeOK, AnonymizeCancelled, Cancelling, Numbers
<1>5. Reading'
  <2>1. PICK c \in cancelled : c.number \in Numbers(Old) /\ cancelled' = cancelled \ {c}
    BY DEF AnonymizeCancelled
  <2>2. /\ Numbers(cancelled') \subseteq Numbers(cancelled)
        /\ \A n \in Numbers(cancelled) : n \in Numbers(cancelled') \/ n = c.number
        /\ c.number < Anchor.number /\ c.number \in Nat /\ Anchor.number \in Nat
    BY <2>1, RowFacts, AnchorAssumption DEF Numbers
  <2>3. UNCHANGED <<approvals, issued, pc, lastA, lastC, pending>>
    BY DEF AnonymizeCancelled
  <2>4. /\ Numbers(approvals') \cup Numbers(cancelled') \subseteq issued'
        /\ \A n \in issued' :
              n \in Numbers(approvals') \cup Numbers(cancelled') \/ n <= Anchor.number
    BY <2>2, <2>3 DEF IInv, Reading
  <2>5. \A u \in Creators : pc[u] \in {"selectC", "lockC", "readC"} => c.number <= lastA[u]
    BY <2>2, RowFacts DEF IInv, Reading, Anchored, TypeOK
  <2> QED BY <2>2, <2>3, <2>4, <2>5 DEF IInv, Reading
<1>6. NoDuplicate'
  <2>1. cancelled' \subseteq cancelled /\ approvals' = approvals
    BY DEF AnonymizeCancelled
  <2>2. Numbers(cancelled') \subseteq Numbers(cancelled)
    BY <2>1 DEF Numbers
  <2> QED BY <2>1, <2>2 DEF IInv, NoDuplicate
<1>7. NoHole'
  BY RowFacts, AnchorAssumption DEF IInv, TypeOK, AnonymizeCancelled, NoHole
<1> QED BY <1>1, <1>2, <1>3, <1>4, <1>5, <1>6, <1>7 DEF IInv

(* The type invariant of the numbering: Spec => []TypeOK.                  *)
THEOREM Typing == Spec => []TypeOK
<1>1. Init => TypeOK
  BY InitialAssumption, AnchorAssumption DEF Init, TypeOK, Row, NoRow, Numbers
<1> QED BY <1>1, TypingStep, PTL DEF Spec

(* A number read by a creator is the successor of the largest one issued,  *)
(* so that the whole invariant is inductive.                               *)
THEOREM Inductive == Spec => []IInv
<1>1. Init => IInv
  <2> SUFFICES ASSUME Init PROVE IInv OBVIOUS
  <2>1. TypeOK
    BY InitialAssumption, AnchorAssumption DEF Init, TypeOK, Row, NoRow, Numbers
  <2>2. Anchored /\ LockExclusive /\ Semaphore
    BY InitialAssumption, AnchorAssumption, RequestsAssumption
    DEF Init, Anchored, LockExclusive, Semaphore, Holding, Requests, Row
  <2>3. Cancelling /\ Reading
    BY RequestsAssumption DEF Init, Cancelling, Reading, Requests, Numbers
  <2>4. NoDuplicate
    BY InitialAssumption DEF Init, NoDuplicate, Numbers
  <2>5. NoHole
    BY InitialAssumption, AnchorAssumption DEF Init, NoHole, Numbers, Row
  <2> QED BY <2>1, <2>2, <2>3, <2>4, <2>5 DEF IInv
<1>2. IInv /\ [Next]_vars => IInv'
  <2> SUFFICES ASSUME IInv, [Next]_vars PROVE IInv' OBVIOUS
  <2>1. TypeOK'
    BY TypingStep DEF IInv
  <2>2. ASSUME NEW t \in Creators, Create(t) PROVE IInv'
    BY <2>1, <2>2, InvSelectFirstApproval, InvLockApproval, InvReadLastApproval,
       InvSelectFirstCancelled, InvLockCancelled, InvReadLastCancelled,
       InvInsertApproval, InvCommitApproval DEF Create
  <2>3. ASSUME NEW t \in Cancellers, Cancel(t) PROVE IInv'
    BY <2>1, <2>3, InvReadApprovalToCancel, InvInsertCancelled, InvDeleteApproval,
       InvCommitCancel DEF Cancel
  <2>4. ASSUME NEW t \in Requests, Rollback(t) PROVE IInv'
    BY <2>1, <2>4, InvRollback
  <2>5. CASE AnonymizeApproval
    BY <2>1, <2>5, InvAnonymizeApproval
  <2>6. CASE AnonymizeCancelled
    BY <2>1, <2>6, InvAnonymizeCancelled
  <2>7. CASE UNCHANGED vars
    BY <2>7 DEF vars, IInv, TypeOK, Anchored, LockExclusive, Semaphore, Cancelling,
       Reading, NoDuplicate, NoHole, IsFirst
  <2> QED BY <2>2, <2>3, <2>4, <2>5, <2>6, <2>7 DEF Next, Terminated
<1> QED BY <1>1, <1>2, PTL DEF Spec

(* "duplicates in the combined sequence of Approval + CancelledApproval":  *)
(* there are none, for any number of concurrent accepts and cancellations. *)
THEOREM NumbersUnique == Spec => []NoDuplicate
<1>1. IInv => NoDuplicate
  BY DEF IInv
<1> QED BY <1>1, Inductive, PTL

(* "holes ... in the combined sequence": none above the first anchor.      *)
THEOREM NumbersDense == Spec => []NoHole
<1>1. IInv => NoHole
  BY DEF IInv
<1> QED BY <1>1, Inductive, PTL

(* No PASS is ever committed with a number given before.                   *)
THEOREM NumbersFresh == Spec => NeverReissued
<1> DEFINE Fresh == \A n \in Numbers(approvals') : n \in Numbers(approvals) \/ n \notin issued
<1>1. IInv /\ [Next]_vars => [Fresh]_vars
  <2> SUFFICES ASSUME IInv, Next PROVE Fresh
    OBVIOUS
  <2>1. ASSUME NEW t \in Creators, CommitApproval(t) PROVE Fresh
    <3>1. \A n \in issued : n < pending[t].number
      BY <2>1 DEF IInv, Reading, CommitApproval
    <3>2. issued \subseteq Nat /\ pending[t].number \in Nat
      BY <2>1, RowFacts DEF IInv, TypeOK
    <3>3. pending[t].number \notin issued
      BY <3>1, <3>2
    <3>4. Numbers(approvals') = Numbers(approvals) \cup {pending[t].number}
      BY <2>1 DEF CommitApproval, Numbers
    <3> QED BY <3>3, <3>4
  <2>2. ASSUME approvals' \subseteq approvals PROVE Fresh
    BY <2>2 DEF Numbers
  <2>3. ASSUME NEW t \in Creators, Create(t), ~CommitApproval(t) PROVE approvals' = approvals
    BY <2>3 DEF Create, SelectFirstApproval, LockApproval, ReadLastApproval,
       SelectFirstCancelled, LockCancelled, ReadLastCancelled, InsertApproval
  <2>4. ASSUME NEW t \in Cancellers, Cancel(t) PROVE approvals' \subseteq approvals
    BY <2>4 DEF Cancel, ReadApprovalToCancel, InsertCancelled, DeleteApproval, CommitCancel
  <2>5. ASSUME NEW t \in Requests, Rollback(t) PROVE approvals' = approvals
    BY <2>5 DEF Rollback
  <2>6. AnonymizeApproval \/ AnonymizeCancelled => approvals' \subseteq approvals
    BY DEF AnonymizeApproval, AnonymizeCancelled
  <2>7. Terminated => approvals' = approvals
    BY DEF Terminated, vars
  <2> QED BY <2>1, <2>2, <2>3, <2>4, <2>5, <2>6, <2>7 DEF Next
<1> QED BY <1>1, Inductive, PTL DEF Spec, NeverReissued
=============================================================================
