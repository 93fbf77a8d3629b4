------------------------- MODULE HiringRacesProofs -------------------------
(***************************************************************************)
(* What concurrent requests on the applications of a job seeker cannot     *)
(* break, for any number of applications, requests and PASS IAE.           *)
(***************************************************************************)
EXTENDS HiringRaces, TLAPS

-----------------------------------------------------------------------------
(* Types.                                                                  *)

(* A row with another state or another PASS is a row.                      *)
LEMMA RowExcept ==
    ASSUME NEW r \in Row, NEW s \in States, NEW p \in PassIds \cup {0}
    PROVE  /\ [r EXCEPT !.st = s] \in Row /\ [r EXCEPT !.st = s].pass = r.pass
           /\ [r EXCEPT !.st = s].st = s
           /\ [r EXCEPT !.pass = p] \in Row /\ [r EXCEPT !.pass = p].pass = p
<1>1. r = [st |-> r.st, pass |-> r.pass] /\ r.st \in States /\ r.pass \in PassIds \cup {0}
  BY DEF Row
<1>2. /\ [r EXCEPT !.st = s] = [st |-> s, pass |-> r.pass]
      /\ [r EXCEPT !.pass = p] = [st |-> r.st, pass |-> p]
  BY <1>1
<1> QED BY <1>1, <1>2 DEF Row

(* The ending of a transaction keeps the types of what it resets.          *)
LEMMA EndType ==
    ASSUME TypeOK, NEW t \in Tx, End(t), row' \in [Apps -> Row], live' \subseteq PassIds
    PROVE  TypeOK'
  BY DEF TypeOK, End, Row, States, Nothing

(* An UPDATE keeps the types: the row t writes is one of the table.        *)
LEMMA PutType ==
    ASSUME TypeOK, NEW t \in Tx, NEW a \in Apps, NEW r \in Row, Put(t, a, r)
    PROVE  /\ wrote' = [u \in Tx |-> wrote'[u]]
           /\ \A u \in Tx : DOMAIN wrote'[u] \subseteq Apps /\ wrote'[u] \in [DOMAIN wrote'[u] -> Row]
  BY DEF TypeOK, Put

(* What a statement sees is a row of the table.                            *)
LEMMA SeesType == ASSUME TypeOK, NEW t \in Tx, NEW a \in Apps PROVE Sees(t, a) \in Row
  BY DEF TypeOK, Sees

(* Every variable keeps its type, whatever step a request takes.           *)
LEMMA TypingStep == TypeOK /\ [Next]_vars => TypeOK'
<1> SUFFICES ASSUME TypeOK, [Next]_vars PROVE TypeOK' OBVIOUS
<1> USE NumPassAssumption DEF PassIds
<1>1. ASSUME NEW t \in Tx, AcceptRead(t) PROVE TypeOK'
  BY <1>1 DEF TypeOK, AcceptRead
<1>2. ASSUME NEW t \in Tx, AcceptClean(t) PROVE TypeOK'
  BY <1>2 DEF TypeOK, AcceptClean
<1>3. ASSUME NEW t \in Tx, AcceptNumber(t) PROVE TypeOK'
  BY <1>3 DEF TypeOK, AcceptNumber
<1>4. ASSUME NEW t \in Tx, AcceptSelectOthers(t) PROVE TypeOK'
  BY <1>4 DEF TypeOK, AcceptSelectOthers
<1>5. ASSUME NEW t \in Tx, AcceptObsolete(t) PROVE TypeOK'
  <2>1. PICK b \in others[t] : /\ Put(t, b, [st |-> "obsolete", pass |-> 0])
                               /\ others' = [others EXCEPT ![t] = @ \ {b}]
    BY <1>5 DEF AcceptObsolete
  <2>2. b \in Apps /\ [st |-> "obsolete", pass |-> 0] \in Row
    BY DEF TypeOK, Row, States
  <2> QED BY <1>5, <2>1, <2>2, PutType DEF TypeOK, AcceptObsolete
<1>6. ASSUME NEW t \in Tx, AcceptSave(t) PROVE TypeOK'
  <2>1. target[t] \in Apps /\ [st |-> "accepted", pass |-> use[t]] \in Row
    BY DEF TypeOK, Row, States
  <2> QED BY <1>6, <2>1, PutType DEF TypeOK, AcceptSave
<1>7. ASSUME NEW t \in Tx, CancelRead(t) PROVE TypeOK'
  BY <1>7 DEF TypeOK, CancelRead
<1>8. ASSUME NEW t \in Tx, CancelCheck(t) PROVE TypeOK'
  BY <1>8 DEF TypeOK, CancelCheck
<1>9. ASSUME NEW t \in Tx, CancelDetach(t) PROVE TypeOK'
  <2> DEFINE users == {a \in Apps : row[a].pass = own[t].pass}
             detached == [a \in users |-> [row[a] EXCEPT !.pass = 0]]
  <2>1. detached \in [users -> Row]
    BY RowExcept DEF TypeOK, States
  <2>2. wrote' = [wrote EXCEPT ![t] = detached]
    BY <1>9 DEF CancelDetach
  <2> QED BY <1>9, <2>1, <2>2 DEF TypeOK, CancelDetach
<1>10. ASSUME NEW t \in Tx, CancelDelete(t) PROVE TypeOK'
  BY <1>10 DEF TypeOK, CancelDelete
<1>11. ASSUME NEW t \in Tx, CancelSave(t) PROVE TypeOK'
  <2>1. target[t] \in Apps /\ [st |-> "cancelled", pass |-> 0] \in Row
    BY DEF TypeOK, Row, States
  <2> QED BY <1>11, <2>1, PutType DEF TypeOK, CancelSave
<1>12. ASSUME NEW t \in Tx, ProcessRead(t) PROVE TypeOK'
  BY <1>12 DEF TypeOK, ProcessRead
<1>13. ASSUME NEW t \in Tx, ProcessSave(t) PROVE TypeOK'
  <2>1. target[t] \in Apps /\ [own[t] EXCEPT !.st = "processing"] \in Row
    BY RowExcept DEF TypeOK, States
  <2> QED BY <1>13, <2>1, PutType DEF TypeOK, ProcessSave
<1>14. ASSUME NEW t \in Tx, RefuseRead(t) PROVE TypeOK'
  BY <1>14 DEF TypeOK, RefuseRead
<1>15. ASSUME NEW t \in Tx, RefuseSave(t) PROVE TypeOK'
  <2>1. target[t] \in Apps /\ [own[t] EXCEPT !.st = "refused"] \in Row
    BY RowExcept DEF TypeOK, States
  <2> QED BY <1>15, <2>1, PutType DEF TypeOK, RefuseSave
<1>16. ASSUME NEW t \in Tx, Commit(t) PROVE TypeOK'
  <2>1. row' \in [Apps -> Row] /\ live' \subseteq PassIds
    BY <1>16, SeesType DEF Commit, TypeOK
  <2> QED BY <1>16, <2>1, EndType DEF Commit
<1>17. ASSUME NEW t \in Tx, Rollback(t) PROVE TypeOK'
  BY <1>17, EndType DEF Rollback, TypeOK
<1>18. CASE UNCHANGED vars
  BY <1>18 DEF TypeOK, vars
<1> QED
  BY <1>1, <1>2, <1>3, <1>4, <1>5, <1>6, <1>7, <1>8, <1>9, <1>10, <1>11, <1>12, <1>13,
     <1>14, <1>15, <1>16, <1>17, <1>18 DEF Next

(* The tables and the requests keep their types.                           *)
THEOREM Typing == Spec => []TypeOK
<1>1. Init => TypeOK
  BY NumPassAssumption DEF Init, TypeOK, Row, States, PassIds, Nothing
<1> QED BY <1>1, TypingStep, PTL DEF Spec

-----------------------------------------------------------------------------
(* The inductive invariant.                                                *)

(* The rows that t has updated or locked.                                  *)
Has(t) == locked[t] \cup DOMAIN wrote[t]

(* Which requests take which steps.                                        *)
Roles == \A t \in Tx :
    /\ pc[t] \in {"clean", "number", "select", "obsolete"} \/ issued[t] # 0 => t \in Acceptors
    /\ pc[t] \in {"check", "detach", "delete", "save"} \/ deleted[t] # 0 => t \in Cancellers
    /\ pc[t] = "process" => t \in Processors
    /\ pc[t] = "refuse" => t \in Refusers

(* What is written and not committed obeys accepted_only_fields too, since *)
(* what was read without a PASS is saved without one.                      *)
WrittenFields ==
    /\ \A t \in Tx : \A a \in DOMAIN wrote[t] : wrote[t][a].pass # 0 => wrote[t][a].st = "accepted"
    /\ \A t \in Tx : pc[t] \in {"process", "refuse"} => own[t].pass = 0

(* A row is updated or locked by one transaction at a time, and a refusal  *)
(* keeps the lock it read under.                                           *)
RowLocks ==
    /\ \A t, u \in Tx : t # u => Has(t) \cap Has(u) = {}
    /\ \A t \in Refusers : pc[t] \in {"refuse", "commit"} => target[t] \in locked[t]

IInv ==
    /\ TypeOK /\ Roles
    /\ WrittenFields /\ AcceptedOnlyFields
    /\ RowLocks /\ LockedReadIsFresh
    /\ NoDanglingPass

(* Each request follows its own path.                                      *)
LEMMA RolesStep == TypeOK /\ Roles /\ [Next]_vars => Roles'
<1> SUFFICES ASSUME TypeOK, Roles, [Next]_vars PROVE Roles' OBVIOUS
<1>1. ASSUME NEW t \in Tx,
             \/ AcceptRead(t) \/ AcceptClean(t) \/ AcceptNumber(t) \/ AcceptSelectOthers(t)
             \/ AcceptObsolete(t) \/ AcceptSave(t)
      PROVE  Roles'
  BY <1>1, TxAssumption DEF TypeOK, Roles, AcceptRead, AcceptClean, AcceptNumber, AcceptSelectOthers,
       AcceptObsolete, AcceptSave, Tx
<1>2. ASSUME NEW t \in Tx,
             CancelRead(t) \/ CancelCheck(t) \/ CancelDetach(t) \/ CancelDelete(t) \/ CancelSave(t)
      PROVE  Roles'
  BY <1>2, TxAssumption DEF TypeOK, Roles, CancelRead, CancelCheck, CancelDetach, CancelDelete, CancelSave, Tx
<1>3. ASSUME NEW t \in Tx, ProcessRead(t) \/ ProcessSave(t) \/ RefuseRead(t) \/ RefuseSave(t)
      PROVE  Roles'
  BY <1>3, TxAssumption DEF TypeOK, Roles, ProcessRead, ProcessSave, RefuseRead, RefuseSave, Tx
<1>4. ASSUME NEW t \in Tx, Commit(t) \/ Rollback(t) PROVE Roles'
  BY <1>4 DEF TypeOK, Roles, Commit, Rollback, End
<1>5. CASE UNCHANGED vars
  BY <1>5 DEF Roles, vars
<1> QED BY <1>1, <1>2, <1>3, <1>4, <1>5 DEF Next

(* An UPDATE by t of the row a: the other rows and the other transactions  *)
(* keep what they have.                                                    *)
LEMMA PutEffect ==
    ASSUME TypeOK, NEW t \in Tx, NEW a \in Apps, NEW r, Put(t, a, r)
    PROVE  /\ DOMAIN wrote'[t] = DOMAIN wrote[t] \cup {a}
           /\ wrote'[t][a] = r
           /\ \A b \in DOMAIN wrote[t] : b # a => wrote'[t][b] = wrote[t][b]
           /\ \A u \in Tx : u # t => wrote'[u] = wrote[u]
  BY DEF TypeOK, Put

(* A request that writes a row without a PASS, or an accepted one, keeps   *)
(* accepted_only_fields.                                                   *)
LEMMA PutFields ==
    ASSUME TypeOK, WrittenFields, NEW t \in Tx, NEW a \in Apps, NEW r, Put(t, a, r),
           r.pass # 0 => r.st = "accepted", UNCHANGED own,
           \A u \in Tx : pc'[u] \in {"process", "refuse"} => pc'[u] = pc[u]
    PROVE  WrittenFields'
  BY PutEffect DEF WrittenFields

(* Columns of two states are never mixed, neither in the table nor in what *)
(* a transaction has written.                                              *)
LEMMA FieldsStep ==
    TypeOK /\ WrittenFields /\ AcceptedOnlyFields /\ [Next]_vars => WrittenFields' /\ AcceptedOnlyFields'
<1> SUFFICES ASSUME TypeOK, WrittenFields, AcceptedOnlyFields, [Next]_vars
             PROVE  WrittenFields' /\ AcceptedOnlyFields'
  OBVIOUS
<1>1. ASSUME NEW t \in Tx,
             \/ AcceptRead(t) \/ AcceptClean(t) \/ AcceptNumber(t) \/ AcceptSelectOthers(t)
             \/ CancelRead(t) \/ CancelCheck(t) \/ CancelDelete(t) \/ ProcessRead(t) \/ RefuseRead(t)
      PROVE  WrittenFields' /\ AcceptedOnlyFields'
  <2>1. UNCHANGED <<row, wrote>>
    BY <1>1 DEF AcceptRead, AcceptClean, AcceptNumber, AcceptSelectOthers, CancelRead, CancelCheck,
         CancelDelete, ProcessRead, RefuseRead
  <2>2. \A u \in Tx : pc'[u] \in {"process", "refuse"} => own'[u].pass = 0
    BY <1>1 DEF TypeOK, WrittenFields, AcceptedOnlyFields, PENDING_STATES, AcceptRead, AcceptClean,
         AcceptNumber, AcceptSelectOthers, CancelRead, CancelCheck, CancelDelete, ProcessRead, RefuseRead
  <2> QED BY <2>1, <2>2 DEF WrittenFields, AcceptedOnlyFields
<1>2. ASSUME NEW t \in Tx, AcceptObsolete(t) PROVE WrittenFields' /\ AcceptedOnlyFields'
  <2>1. PICK b \in others[t] : Put(t, b, [st |-> "obsolete", pass |-> 0])
    BY <1>2 DEF AcceptObsolete
  <2>2. b \in Apps /\ UNCHANGED <<row, own, pc>>
    BY <1>2 DEF TypeOK, AcceptObsolete
  <2> QED BY <2>1, <2>2, PutFields DEF AcceptedOnlyFields
<1>3. ASSUME NEW t \in Tx, AcceptSave(t) \/ CancelSave(t) \/ ProcessSave(t) \/ RefuseSave(t)
      PROVE  WrittenFields' /\ AcceptedOnlyFields'
  <2>1. PICK r : Put(t, target[t], r) /\ (r.pass # 0 => r.st = "accepted")
    <3>1. own[t] \in Row
      BY DEF TypeOK
    <3>2. CASE AcceptSave(t)
      BY <3>2 DEF AcceptSave
    <3>3. CASE CancelSave(t)
      BY <3>3 DEF CancelSave
    <3>4. CASE ProcessSave(t)
      <4>1. [own[t] EXCEPT !.st = "processing"].pass = own[t].pass /\ own[t].pass = 0
        BY <3>1, <3>4, RowExcept DEF ProcessSave, WrittenFields, States
      <4> QED BY <3>4, <4>1 DEF ProcessSave
    <3>5. CASE RefuseSave(t)
      <4>1. [own[t] EXCEPT !.st = "refused"].pass = own[t].pass /\ own[t].pass = 0
        BY <3>1, <3>5, RowExcept DEF RefuseSave, WrittenFields, States
      <4> QED BY <3>5, <4>1 DEF RefuseSave
    <3> QED BY <1>3, <3>2, <3>3, <3>4, <3>5
  <2>2. /\ target[t] \in Apps /\ UNCHANGED <<row, own>>
        /\ \A u \in Tx : pc'[u] \in {"process", "refuse"} => pc'[u] = pc[u]
    BY <1>3 DEF TypeOK, AcceptSave, CancelSave, ProcessSave, RefuseSave
  <2> QED BY <2>1, <2>2, PutFields DEF AcceptedOnlyFields
<1>4. ASSUME NEW t \in Tx, CancelDetach(t) PROVE WrittenFields' /\ AcceptedOnlyFields'
  <2>1. \A a \in Apps : [row[a] EXCEPT !.pass = 0].pass = 0
    BY RowExcept DEF TypeOK, States
  <2> QED BY <1>4, <2>1 DEF TypeOK, CancelDetach, WrittenFields, AcceptedOnlyFields
<1>5. ASSUME NEW t \in Tx, Commit(t) PROVE WrittenFields' /\ AcceptedOnlyFields'
  <2>1. AcceptedOnlyFields'
    BY <1>5 DEF TypeOK, Commit, Sees, WrittenFields, AcceptedOnlyFields
  <2> QED BY <1>5, <2>1 DEF TypeOK, Commit, End, WrittenFields, Nothing
<1>6. ASSUME NEW t \in Tx, Rollback(t) PROVE WrittenFields' /\ AcceptedOnlyFields'
  BY <1>6 DEF TypeOK, Rollback, End, WrittenFields, AcceptedOnlyFields, Nothing
<1>7. CASE UNCHANGED vars
  BY <1>7 DEF vars, WrittenFields, AcceptedOnlyFields
<1> QED BY <1>1, <1>2, <1>3, <1>4, <1>5, <1>6, <1>7 DEF Next

(* A request that updates a free row has it alone.                         *)
LEMMA PutAlone ==
    ASSUME TypeOK, RowLocks, NEW t \in Tx, NEW a \in Apps, NEW r, Put(t, a, r), Free(t, a),
           UNCHANGED locked
    PROVE  \A u, v \in Tx : u # v => Has(u)' \cap Has(v)' = {}
  BY PutEffect DEF RowLocks, Has, Free

(* A row belongs to one transaction at a time, so that what a refusal has  *)
(* read under its lock stays true.                                         *)
LEMMA LocksStep ==
    TypeOK /\ Roles /\ RowLocks /\ LockedReadIsFresh /\ [Next]_vars => RowLocks' /\ LockedReadIsFresh'
<1> SUFFICES ASSUME TypeOK, Roles, RowLocks, LockedReadIsFresh, [Next]_vars
             PROVE  RowLocks' /\ LockedReadIsFresh'
  OBVIOUS
<1>0. Refusers \subseteq Tx
  BY DEF Tx
<1>1. ASSUME NEW t \in Tx,
             \/ AcceptRead(t) \/ AcceptClean(t) \/ AcceptNumber(t) \/ AcceptSelectOthers(t)
             \/ CancelRead(t) \/ CancelCheck(t) \/ CancelDelete(t) \/ ProcessRead(t)
      PROVE  RowLocks' /\ LockedReadIsFresh'
  <2>1. UNCHANGED <<row, wrote, locked, target>>
    BY <1>1 DEF AcceptRead, AcceptClean, AcceptNumber, AcceptSelectOthers, CancelRead, CancelCheck,
         CancelDelete, ProcessRead
  <2>2. t \notin Refusers
    BY <1>1, TxAssumption DEF Roles, AcceptRead, AcceptClean, AcceptNumber, AcceptSelectOthers,
         CancelRead, CancelCheck, CancelDelete, ProcessRead
  <2>3. \A u \in Tx \ {t} : pc'[u] = pc[u] /\ own'[u] = own[u]
    BY <1>1 DEF TypeOK, AcceptRead, AcceptClean, AcceptNumber, AcceptSelectOthers, CancelRead, CancelCheck,
         CancelDelete, ProcessRead
  <2> QED BY <1>0, <2>1, <2>2, <2>3 DEF RowLocks, LockedReadIsFresh, Has
<1>2. ASSUME NEW t \in Tx, AcceptObsolete(t) PROVE RowLocks' /\ LockedReadIsFresh'
  <2>1. PICK b \in others[t] : Put(t, b, [st |-> "obsolete", pass |-> 0]) /\ Free(t, b)
    BY <1>2 DEF AcceptObsolete
  <2>2. b \in Apps /\ UNCHANGED <<row, own, pc, locked, target>>
    BY <1>2 DEF TypeOK, AcceptObsolete
  <2>3. \A u, v \in Tx : u # v => Has(u)' \cap Has(v)' = {}
    BY <2>1, <2>2, PutAlone
  <2> QED BY <2>2, <2>3 DEF RowLocks, LockedReadIsFresh
<1>3. ASSUME NEW t \in Tx, AcceptSave(t) \/ CancelSave(t) \/ ProcessSave(t) \/ RefuseSave(t)
      PROVE  RowLocks' /\ LockedReadIsFresh'
  <2>1. PICK r : Put(t, target[t], r) /\ Free(t, target[t])
    BY <1>3 DEF AcceptSave, CancelSave, ProcessSave, RefuseSave
  <2>2. /\ target[t] \in Apps /\ UNCHANGED <<row, own, locked, target>>
    BY <1>3 DEF TypeOK, AcceptSave, CancelSave, ProcessSave, RefuseSave
  <2>3. \A u, v \in Tx : u # v => Has(u)' \cap Has(v)' = {}
    BY <2>1, <2>2, PutAlone
  <2>4. \A u \in Refusers : pc'[u] \in {"refuse", "commit"} => pc[u] \in {"refuse", "commit"}
    BY <1>0, <1>3, TxAssumption DEF TypeOK, Roles, AcceptSave, CancelSave, ProcessSave, RefuseSave
  <2> QED BY <2>2, <2>3, <2>4 DEF RowLocks, LockedReadIsFresh
<1>4. ASSUME NEW t \in Tx, CancelDetach(t) PROVE RowLocks' /\ LockedReadIsFresh'
  <2>1. \A u, v \in Tx : u # v => Has(u)' \cap Has(v)' = {}
    BY <1>4 DEF TypeOK, RowLocks, CancelDetach, Has, Free
  <2>2. UNCHANGED <<row, own, locked, target>>
    BY <1>4 DEF CancelDetach
  <2>3. \A u \in Refusers : pc'[u] \in {"refuse", "commit"} => pc[u] \in {"refuse", "commit"}
    BY <1>0, <1>4 DEF TypeOK, CancelDetach
  <2> QED BY <2>1, <2>2, <2>3 DEF RowLocks, LockedReadIsFresh
<1>5. ASSUME NEW t \in Tx, RefuseRead(t) PROVE RowLocks' /\ LockedReadIsFresh'
  <2>1. \A u, v \in Tx : u # v => Has(u)' \cap Has(v)' = {}
    BY <1>5 DEF TypeOK, RowLocks, RefuseRead, Has, Free
  <2> QED BY <1>0, <1>5, <2>1 DEF TypeOK, RowLocks, LockedReadIsFresh, RefuseRead
<1>6. ASSUME NEW t \in Tx, Commit(t) PROVE RowLocks' /\ LockedReadIsFresh'
  <2>1. \A u \in Tx \ {t} : Has(u)' = Has(u) /\ pc'[u] = pc[u] /\ own'[u] = own[u] /\ locked'[u] = locked[u]
    BY <1>6 DEF TypeOK, Commit, End, Has
  <2>2. Has(t)' = {} /\ pc'[t] = "done" /\ UNCHANGED target
    BY <1>6 DEF TypeOK, Commit, End, Has, Nothing
  <2>3. RowLocks'
    BY <1>0, <2>1, <2>2 DEF RowLocks
  <2>4. ASSUME NEW u \in Refusers, pc'[u] \in {"refuse", "commit"} PROVE own'[u] = row'[target[u]]
    <3>1. u # t /\ pc[u] \in {"refuse", "commit"} /\ target[u] \in Has(u)
      BY <1>0, <2>1, <2>2, <2>4 DEF RowLocks, Has
    <3>2. target[u] \in Apps /\ target[u] \notin DOMAIN wrote[t]
      BY <1>0, <3>1 DEF RowLocks, Has, TypeOK
    <3>3. row'[target[u]] = row[target[u]]
      BY <1>6, <3>2 DEF Commit, Sees
    <3> QED BY <1>0, <2>1, <3>1, <3>3 DEF LockedReadIsFresh
  <2> QED BY <2>2, <2>3, <2>4 DEF LockedReadIsFresh
<1>7. ASSUME NEW t \in Tx, Rollback(t) PROVE RowLocks' /\ LockedReadIsFresh'
  <2>1. \A u \in Tx \ {t} : Has(u)' = Has(u) /\ pc'[u] = pc[u] /\ own'[u] = own[u] /\ locked'[u] = locked[u]
    BY <1>7 DEF TypeOK, Rollback, End, Has
  <2>2. Has(t)' = {} /\ pc'[t] = "done" /\ UNCHANGED <<row, target>>
    BY <1>7 DEF TypeOK, Rollback, End, Has, Nothing
  <2> QED BY <1>0, <2>1, <2>2 DEF RowLocks, LockedReadIsFresh
<1>8. CASE UNCHANGED vars
  BY <1>8 DEF vars, RowLocks, LockedReadIsFresh, Has
<1> QED BY <1>1, <1>2, <1>3, <1>4, <1>5, <1>6, <1>7, <1>8 DEF Next

(* A commit never leaves a row that refers to a deleted PASS: the foreign  *)
(* keys see what the transaction writes, and no transaction both issues    *)
(* and deletes.                                                            *)
LEMMA DanglingStep == TypeOK /\ Roles /\ NoDanglingPass /\ [Next]_vars => NoDanglingPass'
<1> SUFFICES ASSUME TypeOK, Roles, NoDanglingPass, [Next]_vars PROVE NoDanglingPass' OBVIOUS
<1>1. ASSUME NEW t \in Tx, Commit(t) PROVE NoDanglingPass'
  <2>1. issued[t] = 0 \/ deleted[t] = 0
    BY TxAssumption DEF Roles
  <2>2. ASSUME NEW a \in Apps PROVE row'[a].pass \in live' \cup {0}
    <3>1. row'[a] = Sees(t, a) /\ live' = (live \cup ({issued[t]} \ {0})) \ {deleted[t]}
      BY <1>1 DEF Commit
    <3>2. CASE a \in DOMAIN wrote[t]
      BY <1>1, <2>1, <3>1, <3>2 DEF Commit, ForeignKeys, Sees
    <3>3. CASE a \notin DOMAIN wrote[t]
      <4>1. row'[a].pass = row[a].pass /\ row[a].pass \in live \cup {0}
        BY <3>1, <3>3 DEF Sees, NoDanglingPass
      <4>2. deleted[t] # 0 => row[a].pass # deleted[t]
        BY <1>1, <3>3 DEF Commit, ForeignKeys, Sees
      <4> QED BY <3>1, <4>1, <4>2
    <3> QED BY <3>2, <3>3
  <2> QED BY <2>2 DEF NoDanglingPass
<1>2. CASE UNCHANGED <<row, live>>
  BY <1>2 DEF NoDanglingPass
<1> QED
  BY <1>1, <1>2 DEF Next, vars, AcceptRead, AcceptClean, AcceptNumber, AcceptSelectOthers, AcceptObsolete,
     AcceptSave, CancelRead, CancelCheck, CancelDetach, CancelDelete, CancelSave, ProcessRead,
     ProcessSave, RefuseRead, RefuseSave, Rollback

(* The invariant holds of every behaviour of the requests.                 *)
THEOREM Inductive == Spec => []IInv
<1>1. Init => IInv
  <2> SUFFICES ASSUME Init PROVE IInv OBVIOUS
  <2>1. TypeOK
    BY NumPassAssumption DEF Init, TypeOK, Row, States, PassIds, Nothing
  <2>2. Roles /\ WrittenFields /\ RowLocks /\ LockedReadIsFresh
    BY DEF Init, Roles, WrittenFields, RowLocks, LockedReadIsFresh, Has, Nothing, Tx
  <2>3. AcceptedOnlyFields /\ NoDanglingPass
    BY DEF Init, AcceptedOnlyFields, NoDanglingPass
  <2> QED BY <2>1, <2>2, <2>3 DEF IInv
<1>2. IInv /\ [Next]_vars => IInv'
  BY TypingStep, RolesStep, FieldsStep, LocksStep, DanglingStep DEF IInv
<1> QED BY <1>1, <1>2, PTL DEF Spec

(* An application that is not accepted never has a PASS (constraint        *)
(* accepted_only_fields), although accept, cancel and process save whole   *)
(* instances read without a lock.                                          *)
THEOREM FieldsNeverMixed == Spec => []AcceptedOnlyFields
<1>1. IInv => AcceptedOnlyFields
  BY DEF IInv
<1> QED BY <1>1, Inductive, PTL

(* No committed application refers to a PASS that a cancellation deleted.  *)
THEOREM PassExists == Spec => []NoDanglingPass
<1>1. IInv => NoDanglingPass
  BY DEF IInv
<1> QED BY <1>1, Inductive, PTL

(* What a batch view or the refusal wizard read under FOR NO KEY UPDATE is *)
(* still in the table when it saves.                                       *)
THEOREM LockedReads == Spec => []LockedReadIsFresh
<1>1. IInv => LockedReadIsFresh
  BY DEF IInv
<1> QED BY <1>1, Inductive, PTL
=============================================================================
