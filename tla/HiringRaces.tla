---------------------------- MODULE HiringRaces ----------------------------
(***************************************************************************)
(* Requests on the applications of one job seeker that run at the same     *)
(* time: JobApplication cut at the statements of its transactions.         *)
(*                                                                         *)
(* A request is one transaction (ATOMIC_REQUESTS) under READ COMMITTED.    *)
(* It keeps the instance it read and saves every column of it.  Only the   *)
(* batch views and the refusal wizard lock the row they read; accept,      *)
(* cancel and process do not.  An UPDATE waits for the rows another        *)
(* transaction has updated or locked.  Foreign keys are checked at commit. *)
(* The semaphore row of get_next_number is one lock here: module           *)
(* ApprovalNumber shows that it is exclusive and what it protects.         *)
(***************************************************************************)
EXTENDS Integers

CONSTANTS Apps,        \* applications of the job seeker
          Acceptors,   \* confirm_acceptance
          Cancellers,  \* cancel
          Processors,  \* process
          Refusers,    \* the refusal wizard, done()
          NumPass      \* bound: PASS IAE that may be issued

Tx == Acceptors \cup Cancellers \cup Processors \cup Refusers
PassIds == 1..NumPass

ASSUME TxAssumption ==
    /\ Acceptors \cap Cancellers = {} /\ Acceptors \cap Processors = {}
    /\ Acceptors \cap Refusers = {} /\ Cancellers \cap Processors = {}
    /\ Cancellers \cap Refusers = {} /\ Processors \cap Refusers = {}
ASSUME NumPassAssumption == NumPass \in Nat \ {0}

States == {"new", "processing", "accepted", "refused", "cancelled", "obsolete"}
PENDING_STATES == {"new", "processing"}
Row == [st: States, pass: PassIds \cup {0}]

VARIABLES
    row,      \* the committed rows of the applications
    live,     \* the committed PASS
    pc,       \* where each request is
    target,   \* the application each request is about
    own,      \* the instance each request has read and will save
    use,      \* the valid PASS each acceptor has read (0: none)
    others,   \* the pending applications each acceptor has still to obsolete
    wrote,    \* rows each request has updated and not committed
    locked,   \* applications whose row a request has locked
    issued,   \* PASS inserted and not committed (0: none)
    deleted,  \* PASS deleted and not committed (0: none)
    sem,      \* requests holding the semaphore
    seq       \* the last primary key given to a PASS

vars == <<row, live, pc, target, own, use, others, wrote, locked, issued, deleted, sem, seq>>

Nothing == [a \in {} |-> [st |-> "new", pass |-> 0]]

Init ==
    /\ \E S \in SUBSET Apps :
          /\ row = [a \in Apps |-> IF a \in S THEN [st |-> "accepted", pass |-> 1]
                                   ELSE [st |-> "new", pass |-> 0]]
          /\ live = IF S = {} THEN {} ELSE {1}
    /\ target \in [Tx -> Apps]
    /\ pc = [t \in Tx |-> "start"]
    /\ own = [t \in Tx |-> [st |-> "new", pass |-> 0]]
    /\ use = [t \in Tx |-> 0]
    /\ others = [t \in Tx |-> {}]
    /\ wrote = [t \in Tx |-> Nothing]
    /\ locked = [t \in Tx |-> {}]
    /\ issued = [t \in Tx |-> 0]
    /\ deleted = [t \in Tx |-> 0]
    /\ sem = {}
    /\ seq = 1

(***************************************************************************)
(* The database.                                                           *)
(***************************************************************************)

(* No other transaction has the row: an UPDATE or a FOR UPDATE may go on.  *)
Free(t, a) == \A u \in Tx \ {t} : a \notin locked[u] \cup DOMAIN wrote[u]

Put(t, a, r) ==
    wrote' = [wrote EXCEPT ![t] = [b \in DOMAIN wrote[t] \cup {a} |-> IF b = a THEN r ELSE wrote[t][b]]]

(* What a statement of t sees.                                             *)
Sees(t, a) == IF a \in DOMAIN wrote[t] THEN wrote[t][a] ELSE row[a]

End(t) ==
    /\ pc' = [pc EXCEPT ![t] = "done"]
    /\ own' = [own EXCEPT ![t] = [st |-> "new", pass |-> 0]]
    /\ use' = [use EXCEPT ![t] = 0]
    /\ others' = [others EXCEPT ![t] = {}]
    /\ wrote' = [wrote EXCEPT ![t] = Nothing]
    /\ locked' = [locked EXCEPT ![t] = {}]
    /\ issued' = [issued EXCEPT ![t] = 0]
    /\ deleted' = [deleted EXCEPT ![t] = 0]
    /\ sem' = sem \ {t}
    /\ UNCHANGED <<target, seq>>

(* Mutant: the approval column has db_constraint=False.                    *)
NoForeignKeys(t) == TRUE
(* The foreign keys of the rows t leaves behind, checked at commit: each   *)
(* refers to a PASS that exists and that no other transaction is deleting. *)
ForeignKeys(t) ==
    LET exists == ((live \ {deleted[t]}) \ {deleted[u] : u \in Tx \ {t}}) \cup {issued[t], 0} IN
    /\ \A a \in DOMAIN wrote[t] : wrote[t][a].pass \in exists
    /\ deleted[t] # 0 => \A a \in Apps : Sees(t, a).pass # deleted[t]

Commit(t) ==
    /\ pc[t] = "commit"
    /\ ForeignKeys(t)
    /\ row' = [a \in Apps |-> Sees(t, a)]
    /\ live' = (live \cup ({issued[t]} \ {0})) \ {deleted[t]}
    /\ End(t)

(* An exception, a deadlock that PostgreSQL breaks, a lock timeout or a    *)
(* foreign key that fails: nothing of the request stays.                   *)
Rollback(t) ==
    /\ pc[t] \notin {"start", "done"}
    /\ End(t)
    /\ UNCHANGED <<row, live>>

(***************************************************************************)
(* accept.                                                                 *)
(***************************************************************************)

(* The application, then User.latest_approval, which is cached.            *)
AcceptRead(t) ==
    /\ t \in Acceptors /\ pc[t] = "start"
    /\ row[target[t]].st # "accepted"
    /\ own' = [own EXCEPT ![t] = row[target[t]]]
    /\ \E p \in live \cup {0} :
          /\ p = 0 <=> live = {}
          /\ \A q \in live : q <= p
          /\ use' = [use EXCEPT ![t] = p]
          /\ pc' = [pc EXCEPT ![t] = IF p = 0 THEN "clean" ELSE "select"]
    /\ UNCHANGED <<row, live, target, others, wrote, locked, issued, deleted, sem, seq>>

(* Approval.save: clean looks for a valid PASS ...                         *)
AcceptClean(t) ==
    /\ pc[t] = "clean"
    /\ live = {}
    /\ pc' = [pc EXCEPT ![t] = "number"]
    /\ UNCHANGED <<row, live, target, own, use, others, wrote, locked, issued, deleted, sem, seq>>

(* ... and then get_next_number waits for its turn.                        *)
AcceptNumber(t) ==
    /\ pc[t] = "number"
    /\ sem = {}
    /\ sem' = {t}
    /\ seq < NumPass
    /\ seq' = seq + 1
    /\ issued' = [issued EXCEPT ![t] = seq + 1]
    /\ use' = [use EXCEPT ![t] = seq + 1]
    /\ pc' = [pc EXCEPT ![t] = "select"]
    /\ UNCHANGED <<row, live, target, own, others, wrote, locked, deleted>>

AcceptSelectOthers(t) ==
    /\ pc[t] = "select"
    /\ others' = [others EXCEPT ![t] = {b \in Apps \ {target[t]} : row[b].st \in PENDING_STATES}]
    /\ pc' = [pc EXCEPT ![t] = "obsolete"]
    /\ UNCHANGED <<row, live, target, own, use, wrote, locked, issued, deleted, sem, seq>>

AcceptObsolete(t) ==
    /\ pc[t] = "obsolete"
    /\ \E b \in others[t] :
          /\ Free(t, b)
          /\ Put(t, b, [st |-> "obsolete", pass |-> 0])
          /\ others' = [others EXCEPT ![t] = @ \ {b}]
    /\ UNCHANGED <<row, live, pc, target, own, use, locked, issued, deleted, sem, seq>>

AcceptSave(t) ==
    /\ pc[t] = "obsolete" /\ others[t] = {}
    /\ Free(t, target[t])
    /\ Put(t, target[t], [st |-> "accepted", pass |-> use[t]])
    /\ pc' = [pc EXCEPT ![t] = "commit"]
    /\ UNCHANGED <<row, live, target, own, use, others, locked, issued, deleted, sem, seq>>

(***************************************************************************)
(* cancel.                                                                 *)
(***************************************************************************)
CancelRead(t) ==
    /\ t \in Cancellers /\ pc[t] = "start"
    /\ row[target[t]].st = "accepted"
    /\ own' = [own EXCEPT ![t] = row[target[t]]]
    /\ pc' = [pc EXCEPT ![t] = "check"]
    /\ UNCHANGED <<row, live, target, use, others, wrote, locked, issued, deleted, sem, seq>>

(* can_be_deleted.                                                         *)
CancelCheck(t) ==
    LET p == own[t].pass
        users == {a \in Apps : row[a].st = "accepted" /\ row[a].pass = p} IN
    /\ pc[t] = "check"
    /\ p \in live \cup {0}
    /\ pc' = [pc EXCEPT ![t] =
                IF p # 0 /\ \E a \in Apps : users = {a} THEN "detach" ELSE "save"]
    /\ UNCHANGED <<row, live, target, own, use, others, wrote, locked, issued, deleted, sem, seq>>

(* Approval.delete: jobapplication_set.update(approval=None) ...           *)
CancelDetach(t) ==
    LET users == {a \in Apps : row[a].pass = own[t].pass} IN
    /\ pc[t] = "detach"
    /\ \A a \in users : Free(t, a)
    /\ wrote' = [wrote EXCEPT ![t] = [a \in users |-> [row[a] EXCEPT !.pass = 0]]]
    /\ pc' = [pc EXCEPT ![t] = "delete"]
    /\ UNCHANGED <<row, live, target, own, use, others, locked, issued, deleted, sem, seq>>

(* ... and super().delete(), which refuses (RESTRICT) a PASS still used.   *)
CancelDelete(t) ==
    /\ pc[t] = "delete"
    /\ own[t].pass \in live
    /\ \A u \in Tx : deleted[u] # own[t].pass
    /\ \A a \in Apps : Sees(t, a).pass # own[t].pass
    /\ deleted' = [deleted EXCEPT ![t] = own[t].pass]
    /\ pc' = [pc EXCEPT ![t] = "save"]
    /\ UNCHANGED <<row, live, target, own, use, others, wrote, locked, issued, sem, seq>>

(* Mutant: _reset_accepted_state is not called.                            *)
SaveWithoutReset(t) ==
    /\ pc[t] = "save"
    /\ Free(t, target[t])
    /\ Put(t, target[t], [own[t] EXCEPT !.st = "cancelled"])
    /\ pc' = [pc EXCEPT ![t] = "commit"]
    /\ UNCHANGED <<row, live, target, own, use, others, locked, issued, deleted, sem, seq>>

CancelSave(t) ==
    /\ pc[t] = "save"
    /\ Free(t, target[t])
    /\ Put(t, target[t], [st |-> "cancelled", pass |-> 0])
    /\ pc' = [pc EXCEPT ![t] = "commit"]
    /\ UNCHANGED <<row, live, target, own, use, others, locked, issued, deleted, sem, seq>>

(***************************************************************************)
(* process, which does not lock, and the refusal wizard, which does.       *)
(***************************************************************************)
ProcessRead(t) ==
    /\ t \in Processors /\ pc[t] = "start"
    /\ row[target[t]].st = "new"
    /\ own' = [own EXCEPT ![t] = row[target[t]]]
    /\ pc' = [pc EXCEPT ![t] = "process"]
    /\ UNCHANGED <<row, live, target, use, others, wrote, locked, issued, deleted, sem, seq>>

ProcessSave(t) ==
    /\ pc[t] = "process"
    /\ Free(t, target[t])
    /\ Put(t, target[t], [own[t] EXCEPT !.st = "processing"])
    /\ pc' = [pc EXCEPT ![t] = "commit"]
    /\ UNCHANGED <<row, live, target, own, use, others, locked, issued, deleted, sem, seq>>

(* Mutant: _get_and_lock_received_applications(lock=False).                *)
RefuseReadNoLock(t) ==
    /\ t \in Refusers /\ pc[t] = "start"
    /\ row[target[t]].st \in PENDING_STATES
    /\ own' = [own EXCEPT ![t] = row[target[t]]]
    /\ pc' = [pc EXCEPT ![t] = "refuse"]
    /\ UNCHANGED <<row, live, target, use, others, wrote, locked, issued, deleted, sem, seq>>

(* SELECT ... FOR NO KEY UPDATE returns the row as it is once locked.      *)
RefuseRead(t) ==
    /\ t \in Refusers /\ pc[t] = "start"
    /\ Free(t, target[t])
    /\ row[target[t]].st \in PENDING_STATES
    /\ own' = [own EXCEPT ![t] = row[target[t]]]
    /\ locked' = [locked EXCEPT ![t] = {target[t]}]
    /\ pc' = [pc EXCEPT ![t] = "refuse"]
    /\ UNCHANGED <<row, live, target, use, others, wrote, issued, deleted, sem, seq>>

RefuseSave(t) ==
    /\ pc[t] = "refuse"
    /\ Free(t, target[t])
    /\ Put(t, target[t], [own[t] EXCEPT !.st = "refused"])
    /\ pc' = [pc EXCEPT ![t] = "commit"]
    /\ UNCHANGED <<row, live, target, own, use, others, locked, issued, deleted, sem, seq>>

Next == \E t \in Tx :
    \/ AcceptRead(t) \/ AcceptClean(t) \/ AcceptNumber(t) \/ AcceptSelectOthers(t)
    \/ AcceptObsolete(t) \/ AcceptSave(t)
    \/ CancelRead(t) \/ CancelCheck(t) \/ CancelDetach(t) \/ CancelDelete(t) \/ CancelSave(t)
    \/ ProcessRead(t) \/ ProcessSave(t) \/ RefuseRead(t) \/ RefuseSave(t)
    \/ Commit(t) \/ Rollback(t)

Spec == Init /\ [][Next]_vars

-----------------------------------------------------------------------------

(* The tables and the requests keep their types.                           *)
TypeOK ==
    /\ row \in [Apps -> Row] /\ live \subseteq PassIds
    /\ pc \in [Tx -> {"start", "clean", "number", "select", "obsolete", "check", "detach",
                      "delete", "save", "process", "refuse", "commit", "done"}]
    /\ target \in [Tx -> Apps] /\ own \in [Tx -> Row]
    /\ use \in [Tx -> PassIds \cup {0}] /\ others \in [Tx -> SUBSET Apps]
    /\ wrote = [t \in Tx |-> wrote[t]]
    /\ \A t \in Tx : DOMAIN wrote[t] \subseteq Apps /\ wrote[t] \in [DOMAIN wrote[t] -> Row]
    /\ locked \in [Tx -> SUBSET Apps]
    /\ issued \in [Tx -> PassIds \cup {0}] /\ deleted \in [Tx -> PassIds \cup {0}]
    /\ sem \subseteq Tx /\ seq \in 1..NumPass

(* However accept, cancel, process and refuse interleave, an application   *)
(* that is not accepted has no PASS (constraint accepted_only_fields: a    *)
(* save of a stale instance never mixes the columns of two states).        *)
AcceptedOnlyFields == \A a \in Apps : row[a].pass # 0 => row[a].st = "accepted"

(* No committed application refers to a deleted PASS: a reuse of the PASS  *)
(* that Approval.delete removes is either detached or rolled back.         *)
NoDanglingPass == \A a \in Apps : row[a].pass \in live \cup {0}

(* A request that read its application under FOR NO KEY UPDATE saves what  *)
(* it read: nothing was committed on that row in between.                  *)
LockedReadIsFresh == \A t \in Refusers : pc[t] \in {"refuse", "commit"} => own[t] = row[target[t]]

(* "Un agrement dans le futur ou en cours de validite existe deja"         *)
(* (Approval.clean): a second PASS is never issued.                        *)
OneValidPass == \A p, q \in live : p = q
=============================================================================
