------------------------ MODULE JobApplicationProofs ------------------------
(***************************************************************************)
(* The applications of a job seeker and his PASS IAE stay coherent: proofs *)
(* of the invariants of JobApplication, and of ObsoleteOnAccept, for any   *)
(* number of applications, companies, PASS and days.                       *)
(***************************************************************************)
EXTENDS JobApplication, TLAPS

(* An application only refers to a PASS that lives.                        *)
PassInUse == \A a \in Apps : app[a].pass # 0 => app[a].pass \in Live

(* The dates of a PASS from b to e whose suspensions are S, on day d: no   *)
(* suspension begins before it nor in the future, at most one is not over, *)
(* and without that one the PASS would still end after its start.          *)
Fine(b, e, S, d) ==
    /\ b <= e
    /\ \A s \in S : /\ b <= s.start /\ s.start <= s.end /\ s.start <= d
                    /\ d <= s.end => b <= e - Length(s)
    /\ \A s, t \in S : d <= s.end /\ d <= t.end => s = t

PassFine(p) ==
    /\ \A r \in reqs[p] : r.start < r.end
    /\ IF pass[p].st = "live" THEN Fine(pass[p].start, pass[p].end, susp[p], today)
       ELSE susp[p] = {} /\ reqs[p] = {}

IdsInOrder == \A p, q \in PassIds : p < q /\ pass[q].st # "none" => pass[p].st # "none"

(* A PASS followed by another one is over, or came back (late).            *)
OverOrLate == \A p, q \in Live : p < q /\ p \in Valid => p \in late

(* What is kept of the applications, and of the dates of the PASS.         *)
Hired == CheckConstraints /\ AcceptedHasPass /\ NoOrphanPass /\ PassInUse
Dated == IdsInOrder /\ OverOrLate /\ \A p \in PassIds : PassFine(p)
IInv == TypeOK /\ Hired /\ Dated

(***************************************************************************)
(* Rows.                                                                   *)
(***************************************************************************)
(* The fields that only an accepted application has.                       *)
Reset(r) ==
    /\ r.diag = FALSE /\ r.geiqDiag = FALSE /\ r.pass = 0 /\ r.mode = ""
    /\ r.sent = FALSE /\ r.delivered = FALSE /\ r.refused = FALSE

(* RowConstraints with the fields named one by one.                        *)
FieldConstraints(r) ==
    /\ r.processed <=> r.st \in JOB_APPLICATION_PROCESSED_STATES
    /\ r.st \in {"accepted", "prior_to_hire"} => r.archived = FALSE
    /\ r.archived = FALSE => r.archivedBy = FALSE
    /\ r.diag = FALSE \/ r.geiqDiag = FALSE
    /\ r.st = "accepted" \/ Reset(r)
    /\ r.st = "prior_to_hire" => r.prior > 0
    /\ r.comments \subseteq {r.co}

RowOK(r) == r \in Row /\ FieldConstraints(r)

(* A row that keeps its hiring, if it has one.                             *)
SameHiring(r, s) ==
    /\ s.st = "accepted" <=> r.st = "accepted"
    /\ s.pass = r.pass
    /\ r.st = "accepted" => s.co = r.co /\ s.mode = r.mode

LEMMA ResetFields ==
    ASSUME NEW r \in Row
    PROVE  r = _reset_accepted_state(r) <=> Reset(r)
<1>1. ASSUME r = _reset_accepted_state(r) PROVE Reset(r)
  BY <1>1 DEF _reset_accepted_state, Reset, Row
<1>2. ASSUME Reset(r) PROVE r = _reset_accepted_state(r)
  BY <1>2 DEF _reset_accepted_state, Reset, Row
<1> QED BY <1>1, <1>2

LEMMA Constraints ==
    ASSUME NEW r \in Row
    PROVE  RowConstraints(r) <=> FieldConstraints(r)
<1>1. /\ r.processed \in BOOLEAN /\ r.archived \in BOOLEAN /\ r.archivedBy \in BOOLEAN
      /\ r.diag \in BOOLEAN /\ r.geiqDiag \in BOOLEAN
  BY DEF Row
<1> QED BY <1>1, ResetFields DEF RowConstraints, FieldConstraints

LEMMA Firing ==
    ASSUME NEW r \in Row, NEW tr \in DOMAIN To
    PROVE  /\ Fire(r, tr) \in Row
           /\ Fire(r, tr).st = To[tr]
           /\ Fire(r, tr).processed = ((r.processed \/ tr \in set_processed_at) /\ tr \notin unset_processed_at)
           /\ Fire(r, tr).archived = (r.archived /\ tr \notin unarchive)
           /\ Fire(r, tr).archivedBy = (r.archivedBy /\ tr \notin unarchive)
           /\ Fire(r, tr).co = r.co /\ Fire(r, tr).hire = r.hire
           /\ Fire(r, tr).diag = r.diag /\ Fire(r, tr).geiqDiag = r.geiqDiag
           /\ Fire(r, tr).pass = r.pass /\ Fire(r, tr).mode = r.mode /\ Fire(r, tr).sent = r.sent
           /\ Fire(r, tr).delivered = r.delivered /\ Fire(r, tr).refused = r.refused
           /\ Fire(r, tr).comments = r.comments /\ Fire(r, tr).prior = r.prior
           /\ Fire(r, tr).fiche = r.fiche
<1>1. To[tr] \in States
  BY DEF To, States
<1>2. \A y \in Row, x \in States : [y EXCEPT !.st = x] \in Row
  BY DEF Row
<1>3. /\ \A y \in Row, x \in BOOLEAN : [y EXCEPT !.processed = x] \in Row
      /\ \A y \in Row, x \in BOOLEAN : [y EXCEPT !.archived = x] \in Row
      /\ \A y \in Row, x \in BOOLEAN : [y EXCEPT !.archivedBy = x] \in Row
  <2>1. \A y \in Row, x \in BOOLEAN : [y EXCEPT !.processed = x] \in Row
    BY DEF Row
  <2>2. \A y \in Row, x \in BOOLEAN : [y EXCEPT !.archived = x] \in Row
    BY DEF Row
  <2>3. \A y \in Row, x \in BOOLEAN : [y EXCEPT !.archivedBy = x] \in Row
    BY DEF Row
  <2> QED BY <2>1, <2>2, <2>3
<1> DEFINE P == (r.processed \/ tr \in set_processed_at) /\ tr \notin unset_processed_at
           A == r.archived /\ tr \notin unarchive
           B == r.archivedBy /\ tr \notin unarchive
<1>4. P \in BOOLEAN /\ A \in BOOLEAN /\ B \in BOOLEAN
  OBVIOUS
<1>5. Fire(r, tr) = [[[[r EXCEPT !.st = To[tr]] EXCEPT !.processed = P] EXCEPT !.archived = A]
                        EXCEPT !.archivedBy = B]
  BY DEF Fire, Row
<1> HIDE DEF P, A, B
<1>6. Fire(r, tr) \in Row
  BY <1>1, <1>2, <1>3, <1>4, <1>5
<1> USE DEF P, A, B
<1>7. /\ Fire(r, tr).st = To[tr] /\ Fire(r, tr).processed = P
      /\ Fire(r, tr).archived = A /\ Fire(r, tr).archivedBy = B
  BY DEF Fire, Row
<1>8. /\ Fire(r, tr).co = r.co /\ Fire(r, tr).hire = r.hire
      /\ Fire(r, tr).diag = r.diag /\ Fire(r, tr).geiqDiag = r.geiqDiag
      /\ Fire(r, tr).pass = r.pass /\ Fire(r, tr).mode = r.mode /\ Fire(r, tr).sent = r.sent
      /\ Fire(r, tr).delivered = r.delivered /\ Fire(r, tr).refused = r.refused
      /\ Fire(r, tr).comments = r.comments /\ Fire(r, tr).prior = r.prior
      /\ Fire(r, tr).fiche = r.fiche
  BY DEF Fire, Row
<1> QED BY <1>6, <1>7, <1>8

(* The transitions that are neither a hiring nor the end of one.           *)
LEMMA PlainFiring ==
    ASSUME NEW r, RowOK(r), NEW tr \in DOMAIN To, r.st \in From[tr],
           tr \notin {"accept", "cancel", "move_to_prior_to_hire"}
    PROVE  RowOK(Fire(r, tr)) /\ SameHiring(r, Fire(r, tr))
<1>0. r \in Row
  BY DEF RowOK
<1>1. r.st # "accepted" /\ To[tr] \notin {"accepted", "prior_to_hire"}
  BY DEF From, To, CAN_BE_ACCEPTED_STATES, PENDING_STATES, CAN_ADD_PRIOR_ACTION_STATES
<1>2. Fire(r, tr).processed <=> To[tr] \in JOB_APPLICATION_PROCESSED_STATES
  <2>1. Fire(r, tr).processed = ((r.processed \/ tr \in set_processed_at) /\ tr \notin unset_processed_at)
    BY <1>0, Firing
  <2>2. CASE tr = "external_transfer"
    <3>1. r.processed
      BY <2>2 DEF RowOK, FieldConstraints, From, JOB_APPLICATION_PROCESSED_STATES
    <3>2. tr \notin set_processed_at /\ tr \notin unset_processed_at
      BY <2>2 DEF set_processed_at, unset_processed_at
    <3>3. To[tr] \in JOB_APPLICATION_PROCESSED_STATES
      BY <2>2 DEF To, JOB_APPLICATION_PROCESSED_STATES
    <3>4. Fire(r, tr).processed
      BY <2>1, <3>1, <3>2
    <3> QED BY <3>3, <3>4
  <2>3. CASE tr # "external_transfer"
    <3>1. CASE tr \in {"refuse", "render_obsolete"}
      <4>1. /\ tr \in set_processed_at /\ tr \notin unset_processed_at
            /\ To[tr] \in JOB_APPLICATION_PROCESSED_STATES
        BY <3>1 DEF set_processed_at, unset_processed_at, To, JOB_APPLICATION_PROCESSED_STATES
      <4> QED BY <2>1, <4>1
    <3>2. CASE tr \notin {"refuse", "render_obsolete"}
      <4>1. /\ tr \in unset_processed_at
            /\ To[tr] \notin JOB_APPLICATION_PROCESSED_STATES
        BY <2>3, <3>2 DEF unset_processed_at, To, JOB_APPLICATION_PROCESSED_STATES
      <4> QED BY <2>1, <4>1
    <3> QED BY <3>1, <3>2
  <2> QED BY <2>2, <2>3
<1>3. Fire(r, tr).archived = FALSE => Fire(r, tr).archivedBy = FALSE
  <2>1. r.archived \in BOOLEAN /\ r.archivedBy \in BOOLEAN
    BY <1>0 DEF Row
  <2>2. r.archived = FALSE => r.archivedBy = FALSE
    BY DEF RowOK, FieldConstraints
  <2> QED BY <1>0, <2>1, <2>2, Firing
<1>4. Fire(r, tr) \in Row /\ Fire(r, tr).st = To[tr]
  BY <1>0, Firing
<1>5. Reset(Fire(r, tr)) /\ Fire(r, tr).comments \subseteq {Fire(r, tr).co}
  <2>1. Reset(r) /\ r.comments \subseteq {r.co}
    BY <1>1 DEF RowOK, FieldConstraints
  <2> QED BY <1>0, <2>1, Firing DEF Reset
<1>6. RowOK(Fire(r, tr))
  BY <1>1, <1>2, <1>3, <1>4, <1>5 DEF RowOK, FieldConstraints, Reset
<1>7. SameHiring(r, Fire(r, tr))
  BY <1>0, <1>1, <1>4, Firing DEF SameHiring
<1> QED BY <1>6, <1>7

(***************************************************************************)
(* The rows that the other operations save.                                *)
(***************************************************************************)
LEMMA SentRow ==
    ASSUME NEW c \in Companies, NEW s \in {"none", "new"}
    PROVE  /\ RowOK(NewRow(c, s)) /\ NewRow(c, s).st = s
           /\ NewRow(c, s).pass = 0 /\ NewRow(c, s).hire = -1
<1>1. NewRow(c, s) \in Row
  BY DaysAssumption DEF NewRow, Row, States
<1> QED BY <1>1 DEF NewRow, RowOK, FieldConstraints, Reset, JOB_APPLICATION_PROCESSED_STATES

(* A prior action is added, or deleted.                                    *)
WithPrior(r, n) == [r EXCEPT !.prior = n]

LEMMA PriorRow ==
    ASSUME NEW r \in Row, NEW n \in 0..MaxPrior
    PROVE  /\ WithPrior(r, n) \in Row /\ WithPrior(r, n).prior = n
           /\ WithPrior(r, n).st = r.st /\ WithPrior(r, n).co = r.co /\ WithPrior(r, n).hire = r.hire
           /\ WithPrior(r, n).processed = r.processed /\ WithPrior(r, n).archived = r.archived
           /\ WithPrior(r, n).archivedBy = r.archivedBy
           /\ WithPrior(r, n).diag = r.diag /\ WithPrior(r, n).geiqDiag = r.geiqDiag
           /\ WithPrior(r, n).pass = r.pass /\ WithPrior(r, n).mode = r.mode
           /\ WithPrior(r, n).sent = r.sent /\ WithPrior(r, n).delivered = r.delivered
           /\ WithPrior(r, n).refused = r.refused /\ WithPrior(r, n).comments = r.comments
<1>1. WithPrior(r, n) \in Row
  BY DEF WithPrior, Row
<1> QED BY <1>1 DEF WithPrior, Row

LEMMA PriorAdded ==
    ASSUME NEW r, RowOK(r), r.prior < MaxPrior,
           r.st \in CAN_ADD_PRIOR_ACTION_STATES \cup {"prior_to_hire"}
    PROVE  LET s == WithPrior(IF r.st = "prior_to_hire" THEN r ELSE Fire(r, "move_to_prior_to_hire"),
                              r.prior + 1)
           IN  RowOK(s) /\ SameHiring(r, s)
<1> DEFINE tr == "move_to_prior_to_hire"
           m == IF r.st = "prior_to_hire" THEN r ELSE Fire(r, tr)
           s == WithPrior(m, r.prior + 1)
<1>0. r \in Row /\ tr \in DOMAIN To /\ r.prior + 1 \in 0..MaxPrior /\ r.prior \in Nat
  <2>1. r \in Row
    BY DEF RowOK
  <2>2. tr \in DOMAIN To
    BY DEF To
  <2>3. r.prior \in 0..MaxPrior
    BY <2>1 DEF Row
  <2> QED BY <2>1, <2>2, <2>3, DaysAssumption
<1>1. /\ r.archived \in BOOLEAN /\ r.archivedBy \in BOOLEAN
      /\ r.st # "accepted" /\ Reset(r) /\ r.comments \subseteq {r.co}
  <2>1. r.archived \in BOOLEAN /\ r.archivedBy \in BOOLEAN
    BY <1>0 DEF Row
  <2>2. r.st # "accepted"
    BY DEF CAN_ADD_PRIOR_ACTION_STATES, CAN_BE_ACCEPTED_STATES
  <2>3. Reset(r) /\ r.comments \subseteq {r.co}
    BY <2>2 DEF RowOK, FieldConstraints
  <2> QED BY <2>1, <2>2, <2>3
<1>2. /\ To[tr] = "prior_to_hire" /\ tr \in unset_processed_at /\ tr \in unarchive
  BY DEF To, unset_processed_at, unarchive
<1>3. /\ m \in Row /\ m.st = "prior_to_hire" /\ ~m.processed /\ m.archived = FALSE /\ m.archivedBy = FALSE
      /\ m.co = r.co /\ m.hire = r.hire /\ m.comments = r.comments /\ m.pass = r.pass /\ Reset(m)
  <2>1. CASE r.st = "prior_to_hire"
    BY <1>0, <1>1, <2>1 DEF RowOK, FieldConstraints, JOB_APPLICATION_PROCESSED_STATES
  <2>2. CASE r.st # "prior_to_hire"
    <3>1. m = Fire(r, tr)
      BY <2>2
    <3>2. /\ Fire(r, tr) \in Row /\ Fire(r, tr).st = "prior_to_hire"
          /\ Fire(r, tr).processed = FALSE /\ Fire(r, tr).archived = FALSE
          /\ Fire(r, tr).archivedBy = FALSE
      BY <1>0, <1>2, Firing
    <3>3. /\ Fire(r, tr).co = r.co /\ Fire(r, tr).hire = r.hire
          /\ Fire(r, tr).comments = r.comments /\ Fire(r, tr).pass = r.pass
      BY <1>0, Firing
    <3>4. Reset(Fire(r, tr))
      BY <1>0, <1>1, Firing DEF Reset
    <3> HIDE DEF m
    <3> QED BY <3>1, <3>2, <3>3, <3>4
  <2> QED BY <2>1, <2>2
<1> HIDE DEF m
<1>4. /\ s \in Row /\ s.st = "prior_to_hire" /\ s.processed = m.processed /\ s.archived = FALSE
      /\ s.archivedBy = FALSE /\ s.co = r.co /\ s.hire = r.hire /\ s.comments = r.comments
      /\ s.pass = r.pass /\ s.prior = r.prior + 1
  BY <1>0, <1>3, PriorRow
<1>5. Reset(s)
  BY <1>0, <1>3, PriorRow DEF Reset
<1> HIDE DEF s
<1>6. RowOK(s)
  <2>1. s.processed <=> s.st \in JOB_APPLICATION_PROCESSED_STATES
    BY <1>3, <1>4 DEF JOB_APPLICATION_PROCESSED_STATES
  <2>2. s.comments \subseteq {s.co} /\ s.prior > 0
    BY <1>0, <1>1, <1>4
  <2> QED BY <1>4, <1>5, <2>1, <2>2 DEF RowOK, FieldConstraints, Reset
<1>7. SameHiring(r, s)
  BY <1>1, <1>4 DEF SameHiring
<1> QED BY <1>6, <1>7 DEF s, m

LEMMA PriorDeleted ==
    ASSUME NEW r, RowOK(r), r.prior > 0,
           r.st \in CAN_ADD_PRIOR_ACTION_STATES \cup {"prior_to_hire"}
    PROVE  LET s == WithPrior(IF r.st = "prior_to_hire" /\ r.prior = 1
                              THEN Fire(r, "cancel_prior_to_hire") ELSE r, r.prior - 1)
           IN  RowOK(s) /\ SameHiring(r, s)
<1> DEFINE tr == "cancel_prior_to_hire"
           m == IF r.st = "prior_to_hire" /\ r.prior = 1 THEN Fire(r, tr) ELSE r
           s == WithPrior(m, r.prior - 1)
<1>0. r \in Row /\ tr \in DOMAIN To /\ r.prior - 1 \in 0..MaxPrior /\ r.prior \in Nat
  <2>1. r \in Row
    BY DEF RowOK
  <2>2. tr \in DOMAIN To
    BY DEF To
  <2>3. r.prior \in 0..MaxPrior
    BY <2>1 DEF Row
  <2> QED BY <2>1, <2>2, <2>3, DaysAssumption
<1>1. RowOK(m) /\ SameHiring(r, m) /\ m.st # "accepted" /\ m.prior = r.prior
  <2>1. r.st # "accepted"
    BY DEF CAN_ADD_PRIOR_ACTION_STATES, CAN_BE_ACCEPTED_STATES
  <2>2. CASE r.st = "prior_to_hire" /\ r.prior = 1
    <3>1. r.st \in From[tr] /\ tr \notin {"accept", "cancel", "move_to_prior_to_hire"}
      BY <2>2 DEF From
    <3>2. RowOK(Fire(r, tr)) /\ SameHiring(r, Fire(r, tr)) /\ Fire(r, tr).prior = r.prior
      BY <1>0, <3>1, PlainFiring, Firing
    <3> QED BY <2>1, <2>2, <3>2 DEF SameHiring
  <2>3. CASE ~(r.st = "prior_to_hire" /\ r.prior = 1)
    BY <1>0, <2>1, <2>3 DEF SameHiring
  <2> QED BY <2>2, <2>3
<1>2. m.st = "prior_to_hire" => r.prior # 1
  <2>1. Fire(r, tr).st = "processing"
    BY <1>0, Firing DEF To
  <2> QED BY <2>1
<1> HIDE DEF m
<1>3. m \in Row
  BY <1>1 DEF RowOK
<1>4. /\ s \in Row /\ s.st = m.st /\ s.processed = m.processed /\ s.archived = m.archived
      /\ s.archivedBy = m.archivedBy /\ s.co = m.co /\ s.hire = m.hire /\ s.comments = m.comments
      /\ s.pass = m.pass /\ s.mode = m.mode /\ s.prior = r.prior - 1
  BY <1>0, <1>3, PriorRow
<1>5. Reset(s)
  <2>1. Reset(m)
    BY <1>1 DEF RowOK, FieldConstraints
  <2> QED BY <1>0, <1>3, <2>1, PriorRow DEF Reset
<1> HIDE DEF s
<1>6. RowOK(s)
  <2>1. s.processed <=> s.st \in JOB_APPLICATION_PROCESSED_STATES
    BY <1>1, <1>4 DEF RowOK, FieldConstraints
  <2>2. /\ s.st \in {"accepted", "prior_to_hire"} => s.archived = FALSE
        /\ s.archived = FALSE => s.archivedBy = FALSE
        /\ s.comments \subseteq {s.co}
    BY <1>1, <1>4 DEF RowOK, FieldConstraints
  <2>3. s.st = "prior_to_hire" => s.prior > 0
    BY <1>0, <1>2, <1>4
  <2> QED BY <1>4, <1>5, <2>1, <2>2, <2>3 DEF RowOK, FieldConstraints, Reset
<1>7. SameHiring(r, s)
  BY <1>1, <1>4 DEF SameHiring
<1> QED BY <1>6, <1>7 DEF s, m

(* The comments of a row, and its employee record.                         *)
LEMMA CommentedRow ==
    ASSUME NEW r, RowOK(r), NEW C \in SUBSET {r.co}
    PROVE  RowOK([r EXCEPT !.comments = C]) /\ SameHiring(r, [r EXCEPT !.comments = C])
<1>1. r.co \in Companies
  BY DEF RowOK, Row
<1>2. [r EXCEPT !.comments = C] \in Row
  BY <1>1 DEF RowOK, Row
<1>3. FieldConstraints([r EXCEPT !.comments = C])
  BY DEF RowOK, Row, FieldConstraints, Reset
<1> QED BY <1>2, <1>3 DEF RowOK, SameHiring, Row

LEMMA FicheRow ==
    ASSUME NEW r, RowOK(r), NEW x \in {"none", "new", "sent"}
    PROVE  RowOK([r EXCEPT !.fiche = x]) /\ SameHiring(r, [r EXCEPT !.fiche = x])
<1>1. [r EXCEPT !.fiche = x] \in Row
  BY DEF RowOK, Row
<1>2. FieldConstraints([r EXCEPT !.fiche = x])
  BY DEF RowOK, Row, FieldConstraints, Reset
<1> QED BY <1>1, <1>2 DEF RowOK, SameHiring, Row

(* The day of the hiring moves.                                            *)
LEMMA MovedRow ==
    ASSUME NEW r, RowOK(r), NEW h \in Days
    PROVE  RowOK([r EXCEPT !.hire = h]) /\ SameHiring(r, [r EXCEPT !.hire = h])
<1>1. [r EXCEPT !.hire = h] \in Row
  BY DEF RowOK, Row
<1>2. FieldConstraints([r EXCEPT !.hire = h])
  BY DEF RowOK, Row, FieldConstraints, Reset
<1> QED BY <1>1, <1>2 DEF RowOK, SameHiring, Row

LEMMA RefusedRow ==
    ASSUME NEW r, RowOK(r), r.st = "accepted"
    PROVE  RowOK([r EXCEPT !.refused = TRUE]) /\ SameHiring(r, [r EXCEPT !.refused = TRUE])
<1>1. [r EXCEPT !.refused = TRUE] \in Row
  BY DEF RowOK, Row
<1>2. FieldConstraints([r EXCEPT !.refused = TRUE])
  BY DEF RowOK, Row, FieldConstraints, Reset
<1> QED BY <1>1, <1>2 DEF RowOK, SameHiring, Row

(* A row archived, by a person or not, or unarchived.                      *)
ArchivedAs(r, x, y) == [r EXCEPT !.archived = x, !.archivedBy = y]

LEMMA ArchivedRow ==
    ASSUME NEW r, RowOK(r), NEW x \in BOOLEAN, NEW y \in BOOLEAN, x = FALSE => y = FALSE,
           r.st \notin {"accepted", "prior_to_hire"} \/ x = FALSE
    PROVE  RowOK(ArchivedAs(r, x, y)) /\ SameHiring(r, ArchivedAs(r, x, y))
<1>0. r \in Row
  BY DEF RowOK
<1>1. \A m \in Row : [m EXCEPT !.archived = x] \in Row
  BY DEF Row
<1>2. \A m \in Row : [m EXCEPT !.archivedBy = y] \in Row
  BY DEF Row
<1>3. ArchivedAs(r, x, y) = [[r EXCEPT !.archived = x] EXCEPT !.archivedBy = y]
  BY <1>0 DEF ArchivedAs, Row
<1>4. ArchivedAs(r, x, y) \in Row
  BY <1>0, <1>1, <1>2, <1>3
<1> DEFINE s == ArchivedAs(r, x, y)
<1>5. /\ s.st = r.st /\ s.processed = r.processed /\ s.archived = x /\ s.archivedBy = y
      /\ s.co = r.co /\ s.hire = r.hire /\ s.comments = r.comments /\ s.prior = r.prior
      /\ s.diag = r.diag /\ s.geiqDiag = r.geiqDiag /\ s.pass = r.pass /\ s.mode = r.mode
      /\ s.sent = r.sent /\ s.delivered = r.delivered /\ s.refused = r.refused
  BY <1>0 DEF ArchivedAs, Row
<1> HIDE DEF s
<1>6. FieldConstraints(s)
  <2>1. FieldConstraints(r)
    BY DEF RowOK
  <2>2. s.processed <=> s.st \in JOB_APPLICATION_PROCESSED_STATES
    BY <1>5, <2>1 DEF FieldConstraints
  <2>3. s.st = "accepted" \/ Reset(s)
    BY <1>5, <2>1 DEF FieldConstraints, Reset
  <2>4. /\ s.st \in {"accepted", "prior_to_hire"} => s.archived = FALSE
        /\ s.archived = FALSE => s.archivedBy = FALSE
        /\ s.diag = FALSE \/ s.geiqDiag = FALSE
        /\ s.st = "prior_to_hire" => s.prior > 0
        /\ s.comments \subseteq {s.co}
    BY <1>5, <2>1 DEF FieldConstraints
  <2> QED BY <2>2, <2>3, <2>4 DEF FieldConstraints
<1>7. SameHiring(r, s)
  BY <1>5 DEF SameHiring
<1> QED BY <1>4, <1>6, <1>7 DEF RowOK, s

(* _reset_accepted_state.                                                  *)
LEMMA ResetRow ==
    ASSUME NEW r \in Row
    PROVE  LET s == _reset_accepted_state(r)
           IN  /\ s \in Row /\ Reset(s)
               /\ s.st = r.st /\ s.processed = r.processed /\ s.archived = r.archived
               /\ s.archivedBy = r.archivedBy /\ s.co = r.co /\ s.hire = r.hire
               /\ s.comments = r.comments /\ s.prior = r.prior /\ s.fiche = r.fiche
<1> DEFINE s == _reset_accepted_state(r)
<1>1. /\ \A y \in Row : [y EXCEPT !.diag = FALSE] \in Row
      /\ \A y \in Row : [y EXCEPT !.geiqDiag = FALSE] \in Row
      /\ \A y \in Row : [y EXCEPT !.pass = 0] \in Row
      /\ \A y \in Row : [y EXCEPT !.mode = ""] \in Row
      /\ \A y \in Row : [y EXCEPT !.sent = FALSE] \in Row
      /\ \A y \in Row : [y EXCEPT !.delivered = FALSE] \in Row
      /\ \A y \in Row : [y EXCEPT !.refused = FALSE] \in Row
  <2>1. \A y \in Row : [y EXCEPT !.diag = FALSE] \in Row
    BY DEF Row
  <2>2. \A y \in Row : [y EXCEPT !.geiqDiag = FALSE] \in Row
    BY DEF Row
  <2>3. \A y \in Row : [y EXCEPT !.pass = 0] \in Row
    BY DEF Row
  <2>4. \A y \in Row : [y EXCEPT !.mode = ""] \in Row
    BY DEF Row
  <2>5. \A y \in Row : [y EXCEPT !.sent = FALSE] \in Row
    BY DEF Row
  <2>6. \A y \in Row : [y EXCEPT !.delivered = FALSE] \in Row
    BY DEF Row
  <2>7. \A y \in Row : [y EXCEPT !.refused = FALSE] \in Row
    BY DEF Row
  <2> QED BY <2>1, <2>2, <2>3, <2>4, <2>5, <2>6, <2>7
<1>2. s = [[[[[[[r EXCEPT !.diag = FALSE] EXCEPT !.geiqDiag = FALSE] EXCEPT !.pass = 0]
               EXCEPT !.mode = ""] EXCEPT !.sent = FALSE] EXCEPT !.delivered = FALSE]
             EXCEPT !.refused = FALSE]
  BY DEF _reset_accepted_state, Row
<1>3. s \in Row
  <2> HIDE DEF s
  <2> QED BY <1>1, <1>2
<1>4. /\ Reset(s)
      /\ s.st = r.st /\ s.processed = r.processed /\ s.archived = r.archived
      /\ s.archivedBy = r.archivedBy /\ s.co = r.co /\ s.hire = r.hire
      /\ s.comments = r.comments /\ s.prior = r.prior /\ s.fiche = r.fiche
  BY DEF _reset_accepted_state, Row, Reset
<1> QED BY <1>3, <1>4

(* A transferred row.                                                      *)
MovedTo(r, c) == [r EXCEPT !.co = c, !.comments = {}]

LEMMA TransferredRow ==
    ASSUME NEW r, RowOK(r), r.st \in From["transfer"], NEW c \in Companies
    PROVE  LET s == MovedTo(_reset_accepted_state(Fire(r, "transfer")), c)
           IN  RowOK(s) /\ SameHiring(r, s)
<1> DEFINE f == Fire(r, "transfer")
           m == _reset_accepted_state(f)
           s == MovedTo(m, c)
<1>0. "transfer" \in DOMAIN To /\ To["transfer"] = "new"
  BY DEF To
<1>1. RowOK(f) /\ SameHiring(r, f) /\ f.st = "new" /\ f \in Row
  BY <1>0, PlainFiring, Firing DEF RowOK
<1>2. /\ m \in Row /\ Reset(m)
      /\ m.st = f.st /\ m.processed = f.processed /\ m.archived = f.archived
      /\ m.archivedBy = f.archivedBy /\ m.hire = f.hire /\ m.prior = f.prior
  <2> HIDE DEF f
  <2> QED BY <1>1, ResetRow
<1> HIDE DEF f, m
<1>3. /\ \A y \in Row : [y EXCEPT !.co = c] \in Row
      /\ \A y \in Row : [y EXCEPT !.comments = {}] \in Row
  <2>1. \A y \in Row : [y EXCEPT !.co = c] \in Row
    BY DEF Row
  <2>2. \A y \in Row : [y EXCEPT !.comments = {}] \in Row
    BY DEF Row
  <2> QED BY <2>1, <2>2
<1>4. s = [[m EXCEPT !.co = c] EXCEPT !.comments = {}]
  BY <1>2 DEF MovedTo, Row
<1>5. s \in Row
  <2> HIDE DEF s
  <2> QED BY <1>2, <1>3, <1>4
<1>6. /\ s.st = m.st /\ s.processed = m.processed /\ s.archived = m.archived
      /\ s.archivedBy = m.archivedBy /\ s.comments = {} /\ s.hire = m.hire /\ s.pass = m.pass
      /\ s.prior = m.prior
      /\ Reset(s)
  BY <1>2 DEF MovedTo, Row, Reset
<1> HIDE DEF s
<1>7. RowOK(s)
  <2>1. FieldConstraints(f)
    BY <1>1 DEF RowOK
  <2>2. s.processed <=> s.st \in JOB_APPLICATION_PROCESSED_STATES
    BY <1>2, <1>6, <2>1 DEF FieldConstraints
  <2>3. s.archived = FALSE => s.archivedBy = FALSE
    BY <1>2, <1>6, <2>1 DEF FieldConstraints
  <2> QED BY <1>1, <1>2, <1>5, <1>6, <2>2, <2>3 DEF RowOK, FieldConstraints, Reset
<1>8. SameHiring(r, s)
  <2>1. r.st # "accepted"
    BY DEF From, CAN_BE_ACCEPTED_STATES
  <2>2. r.pass = 0
    BY <2>1 DEF RowOK, FieldConstraints, Reset
  <2> QED BY <1>1, <1>2, <1>6, <2>1, <2>2 DEF SameHiring, Reset
<1> QED BY <1>7, <1>8 DEF s, m, f

(***************************************************************************)
(* The rows of a hiring.                                                   *)
(***************************************************************************)
(* What the transition accept leaves to its caller.                        *)
Accepted(r, f) ==
    /\ f \in Row /\ f.st = "accepted" /\ f.processed /\ f.archived = FALSE /\ f.archivedBy = FALSE
    /\ f.comments \subseteq {f.co} /\ f.co = r.co

LEMMA Accepting ==
    ASSUME NEW r, RowOK(r), r.st \in From["accept"]
    PROVE  Accepted(r, Fire(r, "accept")) /\ Reset(Fire(r, "accept")) /\ Reset(r)
<1>1. "accept" \in DOMAIN To /\ To["accept"] = "accepted" /\ r \in Row
  BY DEF To, RowOK
<1>2. "accept" \in set_processed_at /\ "accept" \notin unset_processed_at /\ "accept" \in unarchive
  BY DEF set_processed_at, unset_processed_at, unarchive
<1>3. r.st # "accepted"
  BY DEF From, CAN_BE_ACCEPTED_STATES
<1>4. Reset(r) /\ r.comments \subseteq {r.co}
  BY <1>3 DEF RowOK, FieldConstraints
<1>5. /\ Fire(r, "accept") \in Row /\ Fire(r, "accept").st = "accepted"
      /\ Fire(r, "accept").co = r.co /\ Fire(r, "accept").comments = r.comments
  BY <1>1, Firing
<1>6. Fire(r, "accept").processed
  BY <1>1, <1>2, Firing
<1>7. Fire(r, "accept").archived = FALSE /\ Fire(r, "accept").archivedBy = FALSE
  BY <1>1, <1>2, Firing
<1>8. Reset(Fire(r, "accept"))
  BY <1>1, <1>4, Firing DEF Reset
<1> QED BY <1>4, <1>5, <1>6, <1>7, <1>8 DEF Accepted

(* The hirings, with their diagnosis, their PASS or none.                  *)
HiredOutside(r, h, g) == [Fire(r, "accept") EXCEPT !.hire = h, !.geiqDiag = g]
HiredAwaiting(r, h, d) == [Fire(r, "accept") EXCEPT !.hire = h, !.diag = d, !.mode = "manual"]
HiredWith(r, h, d, p) ==
    [Fire(r, "accept") EXCEPT !.hire = h, !.diag = d, !.pass = p, !.mode = "automatic", !.sent = TRUE]
DeliveredTo(r, p) == [r EXCEPT !.pass = p, !.sent = TRUE, !.delivered = TRUE]
Cancelled(r) == [_reset_accepted_state(Fire(r, "cancel")) EXCEPT !.fiche = "none"]

LEMMA RowUpdates ==
    /\ \A y \in Row, h \in Days : [y EXCEPT !.hire = h] \in Row
    /\ \A y \in Row, d \in BOOLEAN : [y EXCEPT !.diag = d] \in Row
    /\ \A y \in Row, d \in BOOLEAN : [y EXCEPT !.geiqDiag = d] \in Row
    /\ \A y \in Row, p \in PassIds : [y EXCEPT !.pass = p] \in Row
    /\ \A y \in Row : [y EXCEPT !.mode = "manual"] \in Row
    /\ \A y \in Row : [y EXCEPT !.mode = "automatic"] \in Row
    /\ \A y \in Row : [y EXCEPT !.sent = TRUE] \in Row
    /\ \A y \in Row : [y EXCEPT !.delivered = TRUE] \in Row
    /\ \A y \in Row : [y EXCEPT !.fiche = "none"] \in Row
<1>1. \A y \in Row, h \in Days : [y EXCEPT !.hire = h] \in Row
  BY DEF Row
<1>2. \A y \in Row, d \in BOOLEAN : [y EXCEPT !.diag = d] \in Row
  BY DEF Row
<1>3. \A y \in Row, d \in BOOLEAN : [y EXCEPT !.geiqDiag = d] \in Row
  BY DEF Row
<1>4. \A y \in Row, p \in PassIds : [y EXCEPT !.pass = p] \in Row
  BY DEF Row
<1>5. \A y \in Row : [y EXCEPT !.mode = "manual"] \in Row
  BY DEF Row
<1>6. \A y \in Row : [y EXCEPT !.mode = "automatic"] \in Row
  BY DEF Row
<1>7. \A y \in Row : [y EXCEPT !.sent = TRUE] \in Row
  BY DEF Row
<1>8. \A y \in Row : [y EXCEPT !.delivered = TRUE] \in Row
  BY DEF Row
<1>9. \A y \in Row : [y EXCEPT !.fiche = "none"] \in Row
  BY DEF Row
<1> QED BY <1>1, <1>2, <1>3, <1>4, <1>5, <1>6, <1>7, <1>8, <1>9

LEMMA AcceptedIsOK ==
    ASSUME NEW r, NEW s, Accepted(r, s), s.diag = FALSE \/ s.geiqDiag = FALSE
    PROVE  RowOK(s)
BY DEF Accepted, RowOK, FieldConstraints, JOB_APPLICATION_PROCESSED_STATES

LEMMA HiredOutsideRow ==
    ASSUME NEW r, RowOK(r), r.st \in From["accept"], NEW h \in Days, NEW g \in BOOLEAN
    PROVE  LET s == HiredOutside(r, h, g)
           IN  RowOK(s) /\ s.st = "accepted" /\ s.co = r.co /\ s.hire = h /\ s.pass = 0
<1> DEFINE f == Fire(r, "accept")
           s == HiredOutside(r, h, g)
<1>1. Accepted(r, f) /\ Reset(f)
  BY Accepting
<1>2. s = [[f EXCEPT !.hire = h] EXCEPT !.geiqDiag = g]
  BY <1>1 DEF Accepted, HiredOutside, Row
<1>3. s \in Row
  <2> HIDE DEF s, f
  <2> QED BY <1>1, <1>2, RowUpdates DEF Accepted
<1>4. /\ s.st = f.st /\ s.processed = f.processed /\ s.archived = f.archived
      /\ s.archivedBy = f.archivedBy /\ s.comments = f.comments /\ s.co = f.co
      /\ s.hire = h /\ s.pass = f.pass /\ s.diag = f.diag
  <2> HIDE DEF f
  <2> QED BY <1>1, <1>2 DEF Accepted, Row
<1> HIDE DEF s, f
<1>5. Accepted(r, s) /\ s.diag = FALSE /\ s.pass = 0
  BY <1>1, <1>3, <1>4 DEF Accepted, Reset
<1> QED BY <1>4, <1>5, AcceptedIsOK DEF Accepted, s

LEMMA HiredAwaitingRow ==
    ASSUME NEW r, RowOK(r), r.st \in From["accept"], NEW h \in Days, NEW d \in BOOLEAN
    PROVE  LET s == HiredAwaiting(r, h, d)
           IN  RowOK(s) /\ s.st = "accepted" /\ s.co = r.co /\ s.hire = h /\ s.pass = 0 /\ s.mode = "manual"
<1> DEFINE f == Fire(r, "accept")
           s == HiredAwaiting(r, h, d)
<1>1. Accepted(r, f) /\ Reset(f)
  BY Accepting
<1>2. s = [[[f EXCEPT !.hire = h] EXCEPT !.diag = d] EXCEPT !.mode = "manual"]
  BY <1>1 DEF Accepted, HiredAwaiting, Row
<1>3. s \in Row
  <2> HIDE DEF s, f
  <2> QED BY <1>1, <1>2, RowUpdates DEF Accepted
<1>4. /\ s.st = f.st /\ s.processed = f.processed /\ s.archived = f.archived
      /\ s.archivedBy = f.archivedBy /\ s.comments = f.comments /\ s.co = f.co
      /\ s.hire = h /\ s.pass = f.pass /\ s.geiqDiag = f.geiqDiag /\ s.mode = "manual"
  <2> HIDE DEF f
  <2> QED BY <1>1, <1>2 DEF Accepted, Row
<1> HIDE DEF s, f
<1>5. Accepted(r, s) /\ s.geiqDiag = FALSE /\ s.pass = 0
  BY <1>1, <1>3, <1>4 DEF Accepted, Reset
<1> QED BY <1>4, <1>5, AcceptedIsOK DEF Accepted, s

LEMMA HiredWithRow ==
    ASSUME NEW r, RowOK(r), r.st \in From["accept"], NEW h \in Days, NEW d \in BOOLEAN, NEW p \in PassIds
    PROVE  LET s == HiredWith(r, h, d, p)
           IN  RowOK(s) /\ s.st = "accepted" /\ s.co = r.co /\ s.hire = h /\ s.pass = p
<1> DEFINE f == Fire(r, "accept")
           s == HiredWith(r, h, d, p)
<1>1. Accepted(r, f) /\ Reset(f)
  BY Accepting
<1> DEFINE m == [[f EXCEPT !.hire = h] EXCEPT !.diag = d]
<1>2. s = [[[m EXCEPT !.pass = p] EXCEPT !.mode = "automatic"] EXCEPT !.sent = TRUE]
  BY <1>1 DEF Accepted, HiredWith, Row
<1>2a. /\ m \in Row
       /\ m.st = f.st /\ m.processed = f.processed /\ m.archived = f.archived
       /\ m.archivedBy = f.archivedBy /\ m.comments = f.comments /\ m.co = f.co
       /\ m.hire = h /\ m.geiqDiag = f.geiqDiag
  <2> HIDE DEF f
  <2> QED BY <1>1 DEF Accepted, Row
<1>3. s \in Row
  <2> HIDE DEF s, m, f
  <2> QED BY <1>2, <1>2a, RowUpdates
<1>4. /\ s.st = f.st /\ s.processed = f.processed /\ s.archived = f.archived
      /\ s.archivedBy = f.archivedBy /\ s.comments = f.comments /\ s.co = f.co
      /\ s.hire = h /\ s.pass = p /\ s.geiqDiag = f.geiqDiag
  <2> HIDE DEF m, f
  <2> QED BY <1>2, <1>2a DEF Row
<1> HIDE DEF s, f
<1>5. Accepted(r, s) /\ s.geiqDiag = FALSE
  BY <1>1, <1>3, <1>4 DEF Accepted, Reset
<1> QED BY <1>4, <1>5, AcceptedIsOK DEF Accepted, s

LEMMA DeliveredRow ==
    ASSUME NEW r, RowOK(r), r.st = "accepted", NEW p \in PassIds
    PROVE  LET s == DeliveredTo(r, p)
           IN  RowOK(s) /\ s.st = "accepted" /\ s.co = r.co /\ s.hire = r.hire /\ s.pass = p
<1> DEFINE s == DeliveredTo(r, p)
<1>1. r \in Row
  BY DEF RowOK
<1>2. s = [[[r EXCEPT !.pass = p] EXCEPT !.sent = TRUE] EXCEPT !.delivered = TRUE]
  BY <1>1 DEF DeliveredTo, Row
<1>3. s \in Row
  <2> HIDE DEF s
  <2> QED BY <1>1, <1>2, RowUpdates
<1>4. /\ s.st = r.st /\ s.processed = r.processed /\ s.archived = r.archived
      /\ s.archivedBy = r.archivedBy /\ s.comments = r.comments /\ s.co = r.co
      /\ s.hire = r.hire /\ s.pass = p /\ s.diag = r.diag /\ s.geiqDiag = r.geiqDiag
  BY <1>1 DEF DeliveredTo, Row
<1> HIDE DEF s
<1>5. FieldConstraints(s)
  BY <1>4 DEF RowOK, FieldConstraints
<1> QED BY <1>3, <1>4, <1>5 DEF RowOK, s

LEMMA CancelledRow ==
    ASSUME NEW r, RowOK(r), r.st = "accepted"
    PROVE  LET s == Cancelled(r)
           IN  RowOK(s) /\ s.st = "cancelled" /\ s.co = r.co /\ s.hire = r.hire /\ s.pass = 0
<1> DEFINE f == Fire(r, "cancel")
           m == _reset_accepted_state(f)
           s == Cancelled(r)
<1>0. /\ "cancel" \in DOMAIN To /\ To["cancel"] = "cancelled" /\ r \in Row
      /\ "cancel" \in set_processed_at /\ "cancel" \notin unset_processed_at /\ "cancel" \in unarchive
  BY DEF To, RowOK, set_processed_at, unset_processed_at, unarchive
<1>1. /\ f \in Row /\ f.st = "cancelled" /\ f.co = r.co /\ f.hire = r.hire
      /\ f.comments = r.comments
  BY <1>0, Firing
<1>2. f.processed
  BY <1>0, Firing
<1>3. f.archived = FALSE /\ f.archivedBy = FALSE
  BY <1>0, Firing
<1>4. /\ m \in Row /\ Reset(m)
      /\ m.st = f.st /\ m.processed = f.processed /\ m.archived = f.archived
      /\ m.archivedBy = f.archivedBy /\ m.co = f.co /\ m.hire = f.hire /\ m.comments = f.comments
  <2> HIDE DEF f
  <2> QED BY <1>1, ResetRow
<1> HIDE DEF f, m
<1>5. s = [m EXCEPT !.fiche = "none"]
  BY DEF Cancelled, m, f
<1> HIDE DEF s
<1>6. s \in Row
  BY <1>4, <1>5, RowUpdates
<1>7. /\ s.st = m.st /\ s.processed = m.processed /\ s.archived = m.archived
      /\ s.archivedBy = m.archivedBy /\ s.co = m.co /\ s.hire = m.hire /\ s.comments = m.comments
      /\ s.pass = m.pass /\ Reset(s)
  BY <1>4, <1>5 DEF Row, Reset
<1>8. r.comments \subseteq {r.co}
  BY DEF RowOK, FieldConstraints
<1>9. FieldConstraints(s)
  BY <1>1, <1>2, <1>3, <1>4, <1>7, <1>8 DEF FieldConstraints, JOB_APPLICATION_PROCESSED_STATES, Reset
<1>10. s.st = "cancelled" /\ s.co = r.co /\ s.hire = r.hire /\ s.pass = 0
  BY <1>1, <1>4, <1>7 DEF Reset
<1> QED BY <1>6, <1>9, <1>10 DEF RowOK, s

(***************************************************************************)
(* What the operations do to the invariant.                                *)
(***************************************************************************)
PassRow == [st: {"none", "live", "cancelled"}, start: Days, end: Int]

(* A hiring makes the pending applications obsolete (ObsoleteOnAccept).    *)
HiringObsoletes ==
    \A a \in Apps : app[a].st # "accepted" /\ app'[a].st = "accepted" =>
        \A b \in Apps \ {a} : app'[b].st \notin PENDING_STATES

(* The parts of TypeOK: the rows apart, the PASS, and the job seeker.      *)
DatesTyped ==
    /\ pass \in [PassIds -> PassRow]
    /\ susp \in [PassIds -> SUBSET Dates] /\ prol \in [PassIds -> SUBSET Dates]
    /\ reqs \in [PassIds -> SUBSET Request] /\ late \subseteq PassIds
    /\ today \in 0..MaxDay
FileTyped ==
    /\ diagnosis \in {"none", "valid", "expired"}
    /\ geiqValid \in BOOLEAN /\ identified \in BOOLEAN

LEMMA TypeParts == TypeOK <=> app \in [Apps -> Row] /\ DatesTyped /\ FileTyped
BY DEF TypeOK, DatesTyped, FileTyped, PassRow

LEMMA Rows ==
    ASSUME IInv
    PROVE  /\ \A a \in Apps : RowOK(app[a])
           /\ app \in [Apps -> Row] /\ DatesTyped /\ FileTyped
           /\ today \in Nat /\ today <= MaxDay
           /\ \A a \in Apps : app[a].hire \in Int /\ app[a].pass \in PassIds \cup {0}
           /\ \A a \in Apps : app[a].pass # 0 => app[a].st = "accepted" /\ app[a].pass \in Live
<1>1. app \in [Apps -> Row] /\ DatesTyped /\ FileTyped
  BY TypeParts DEF IInv
<1>2. today \in Nat /\ today <= MaxDay
  BY <1>1, DaysAssumption DEF DatesTyped
<1>3. \A a \in Apps : RowOK(app[a])
  BY <1>1, Constraints DEF IInv, Hired, CheckConstraints, RowOK
<1>4. \A a \in Apps : app[a].hire \in Int /\ app[a].pass \in PassIds \cup {0}
  <2>1. Days \subseteq Int
    BY DEF Days
  <2>2. \A a \in Apps : app[a].hire \in Days \cup {-1} /\ app[a].pass \in PassIds \cup {0}
    BY <1>1 DEF Row
  <2>3. -1 \in Int
    OBVIOUS
  <2> QED BY <2>1, <2>2, <2>3
<1>5. \A a \in Apps : app[a].pass # 0 => app[a].st = "accepted" /\ app[a].pass \in Live
  BY <1>3 DEF IInv, Hired, PassInUse, RowOK, FieldConstraints, Reset
<1> QED BY <1>1, <1>2, <1>3, <1>4, <1>5

LEMMA Numbers ==
    /\ NumPass \in Nat /\ PassDays \in Nat /\ HireWindow \in Nat /\ PostponeDays \in Nat
    /\ MaxDay \in Nat /\ PostponeDays <= HireWindow /\ PassDays > 1
    /\ \A h \in Int : h \in Days <=> h >= 0 /\ h <= MaxDay + HireWindow + PassDays
    /\ \A p \in PassIds : p \in Int /\ p # 0
    /\ \A s \in Dates : s.start \in Int /\ s.end \in Int /\ Length(s) \in Int
BY DaysAssumption DEF Days, PassIds, Dates, Length

(* The dates of one PASS.                                                  *)
LEMMA Calendar ==
    ASSUME IInv, NEW p \in PassIds
    PROVE  /\ pass[p] \in PassRow /\ pass[p].start \in Int /\ pass[p].end \in Int
           /\ pass[p].start \in Days
           /\ susp[p] \subseteq Dates /\ prol[p] \subseteq Dates /\ reqs[p] \subseteq Request
           /\ p \in Live => Fine(pass[p].start, pass[p].end, susp[p], today)
           /\ p \notin Live => susp[p] = {} /\ reqs[p] = {}
           /\ p \in Live /\ today <= pass[p].end => p \in Valid
<1>1. DatesTyped /\ PassFine(p)
  BY Rows DEF IInv, Dated
<1>2. /\ pass[p] \in PassRow
      /\ susp[p] \subseteq Dates /\ prol[p] \subseteq Dates /\ reqs[p] \subseteq Request
  BY <1>1 DEF DatesTyped
<1>3. pass[p].start \in Days /\ pass[p].start \in Int /\ pass[p].end \in Int
  BY <1>2 DEF PassRow, Days
<1> QED BY <1>1, <1>2, <1>3 DEF PassFine, Live, Valid, is_valid

(***************************************************************************)
(* The dates of a PASS and its suspensions, when one of them changes.      *)
(***************************************************************************)
LEMMA FineInsert ==
    ASSUME NEW b \in Int, NEW e \in Int, NEW d \in Int, NEW S \in SUBSET Dates, Fine(b, e, S, d),
           NEW s \in Dates, b <= s.start, s.start <= s.end, s.start <= d,
           \A o \in S : o.end < d
    PROVE  Fine(b, e + Length(s), S \cup {s}, d)
<1>1. /\ \A o \in S \cup {s} : o.start \in Int /\ o.end \in Int
      /\ Length(s) = s.end - s.start /\ Length(s) \in Int
  BY Numbers DEF Length
<1>2. b <= e + Length(s) /\ b <= e + Length(s) - Length(s)
  BY <1>1 DEF Fine
<1>3. \A o \in S : b <= o.start /\ o.start <= o.end /\ o.start <= d /\ ~(d <= o.end)
  BY <1>1 DEF Fine
<1> QED BY <1>1, <1>2, <1>3 DEF Fine

LEMMA FineReplace ==
    ASSUME NEW b \in Int, NEW e \in Int, NEW d \in Int, NEW S \in SUBSET Dates, Fine(b, e, S, d),
           NEW s \in S, d <= s.end,
           NEW t \in Dates, b <= t.start, t.start <= t.end, t.start <= d
    PROVE  Fine(b, e + (Length(t) - Length(s)), (S \ {s}) \cup {t}, d)
<1>1. /\ \A o \in S \cup {t} : o.start \in Int /\ o.end \in Int /\ Length(o) \in Int
      /\ Length(t) = t.end - t.start
  BY Numbers DEF Length
<1>2. b <= e - Length(s)
  BY DEF Fine
<1>3. b <= e + (Length(t) - Length(s)) /\ b <= e + (Length(t) - Length(s)) - Length(t)
  BY <1>1, <1>2
<1>4. \A o \in S \ {s} : b <= o.start /\ o.start <= o.end /\ o.start <= d /\ ~(d <= o.end)
  BY <1>1 DEF Fine
<1> QED BY <1>1, <1>3, <1>4 DEF Fine

LEMMA FineDelete ==
    ASSUME NEW b \in Int, NEW e \in Int, NEW d \in Int, NEW S \in SUBSET Dates, Fine(b, e, S, d),
           NEW s \in S, d <= s.end
    PROVE  Fine(b, e + (-Length(s)), S \ {s}, d)
<1>1. \A o \in S : o.start \in Int /\ o.end \in Int /\ Length(o) \in Int
  BY Numbers
<1>2. b <= e + (-Length(s))
  BY <1>1 DEF Fine
<1>3. \A o \in S \ {s} : b <= o.start /\ o.start <= o.end /\ o.start <= d /\ ~(d <= o.end)
  BY <1>1 DEF Fine
<1> QED BY <1>1, <1>2, <1>3 DEF Fine

LEMMA FineLonger ==
    ASSUME NEW b \in Int, NEW e \in Int, NEW d \in Int, NEW S \in SUBSET Dates, Fine(b, e, S, d),
           NEW f \in Int, e <= f
    PROVE  Fine(b, f, S, d)
<1>1. \A o \in S : o.start \in Int /\ o.end \in Int /\ Length(o) \in Int
  BY Numbers
<1>2. b <= f /\ \A s \in S : d <= s.end => b <= f - Length(s)
  BY <1>1 DEF Fine
<1> QED BY <1>2 DEF Fine

LEMMA FineMoved ==
    ASSUME NEW b \in Int, NEW e \in Int, NEW d \in Int, NEW S \in SUBSET Dates, Fine(b, e, S, d),
           NEW c \in Int, \A s \in S : c <= s.start
    PROVE  Fine(c, e + c - b, S, d)
<1>1. \A o \in S : o.start \in Int /\ o.end \in Int /\ Length(o) \in Int
  BY Numbers
<1>2. c <= e + c - b /\ \A s \in S : d <= s.end => c <= e + c - b - Length(s)
  BY <1>1 DEF Fine
<1>3. /\ \A s \in S : s.start <= s.end /\ s.start <= d
      /\ \A s, t \in S : d <= s.end /\ d <= t.end => s = t
  BY DEF Fine
<1> DEFINE f == e + c - b
<1> HIDE DEF f
<1>4. Fine(c, f, S, d)
  BY <1>1, <1>2, <1>3 DEF Fine, f
<1> QED BY <1>4 DEF f

LEMMA FineNextDay ==
    ASSUME NEW b \in Int, NEW e \in Int, NEW d \in Int, NEW S \in SUBSET Dates, Fine(b, e, S, d)
    PROVE  Fine(b, e, S, d + 1)
<1>1. \A o \in S : o.start \in Int /\ o.end \in Int /\ Length(o) \in Int
  BY Numbers
<1> QED BY <1>1 DEF Fine

(* The suspension in progress, cut to today, is as long as the PASS after  *)
(* its start at most.                                                      *)
LEMMA FineClipped ==
    ASSUME NEW b \in Int, NEW e \in Int, today \in Int, NEW S \in SUBSET Dates, Fine(b, e, S, today),
           b < today
    PROVE  /\ Fine(b, today, _clip_approval_dependency(S), today)
           /\ _clip_approval_dependency(S) \subseteq Dates
<1>1. \A o \in S : o.start \in Int /\ o.end \in Int /\ Length(o) = o.end - o.start
  BY DEF Dates, Length
<1>2. ASSUME NEW s \in _clip_approval_dependency(S)
      PROVE  \/ s \in S /\ s.end < today
             \/ \E x \in S : /\ x.start < today /\ today <= x.end
                             /\ s \in Dates /\ s.start = x.start /\ s.end = today
  <2>1. CASE s \in S /\ s.end < today
    BY <2>1
  <2>2. CASE ~(s \in S /\ s.end < today)
    <3>1. PICK x \in S : x.start < today /\ today <= x.end /\ s = [x EXCEPT !.end = today]
      BY <1>2, <2>2 DEF _clip_approval_dependency
    <3>2. s \in Dates /\ s.start = x.start /\ s.end = today
      BY <3>1 DEF Dates
    <3> QED BY <3>1, <3>2
  <2> QED BY <2>1, <2>2
<1>3. _clip_approval_dependency(S) \subseteq Dates
  BY <1>2
<1>4. ASSUME NEW s \in _clip_approval_dependency(S)
      PROVE  /\ b <= s.start /\ s.start <= s.end /\ s.start <= today
             /\ today <= s.end => b <= today - Length(s)
  <2>1. s.start \in Int /\ s.end \in Int /\ Length(s) = s.end - s.start
    BY <1>3 DEF Dates, Length
  <2>2. CASE s \in S /\ s.end < today
    BY <1>1, <2>1, <2>2 DEF Fine
  <2>3. CASE \E x \in S : /\ x.start < today /\ today <= x.end
                          /\ s.start = x.start /\ s.end = today
    BY <1>1, <2>1, <2>3 DEF Fine
  <2> QED BY <1>2, <2>2, <2>3
<1>5. ASSUME NEW s \in _clip_approval_dependency(S), NEW t \in _clip_approval_dependency(S),
             today <= s.end, today <= t.end
      PROVE  s = t
  <2>1. PICK x \in S : /\ x.start < today /\ today <= x.end
                       /\ s \in Dates /\ s.start = x.start /\ s.end = today
    BY <1>1, <1>2, <1>5
  <2>2. PICK y \in S : /\ y.start < today /\ today <= y.end
                       /\ t \in Dates /\ t.start = y.start /\ t.end = today
    BY <1>1, <1>2, <1>5
  <2>3. x = y
    BY <2>1, <2>2 DEF Fine
  <2> QED BY <2>1, <2>2, <2>3 DEF Dates
<1> QED BY <1>3, <1>4, <1>5 DEF Fine

(***************************************************************************)
(* What a step keeps, when it leaves alone the hirings, the PASS, or all   *)
(* the PASS but one.                                                       *)
(***************************************************************************)
LEMMA Together ==
    ASSUME app' \in [Apps -> Row], DatesTyped', FileTyped', Hired', Dated'
    PROVE  IInv'
<1>1. TypeOK'
  BY DEF TypeOK, DatesTyped, FileTyped, PassRow
<1> QED BY <1>1 DEF IInv

LEMMA HiringsKept ==
    ASSUME IInv, app' \in [Apps -> Row],
           \A a \in Apps : RowOK(app'[a]) /\ SameHiring(app[a], app'[a]), Live' = Live
    PROVE  Hired' /\ HiringObsoletes
<1>1. CheckConstraints'
  BY Constraints DEF CheckConstraints, RowOK
<1>2. AcceptedHasPass'
  BY DEF IInv, Hired, AcceptedHasPass, SameHiring
<1>3. NoOrphanPass'
  BY DEF IInv, Hired, NoOrphanPass, SameHiring
<1>4. PassInUse'
  BY DEF IInv, Hired, PassInUse, SameHiring
<1>5. HiringObsoletes
  BY DEF HiringObsoletes, SameHiring
<1> QED BY <1>1, <1>2, <1>3, <1>4, <1>5 DEF Hired

LEMMA DatesKept ==
    ASSUME IInv, UNCHANGED <<pass, periods, today>>
    PROVE  DatesTyped' /\ Dated' /\ Live' = Live
<1>1. UNCHANGED <<pass, susp, prol, reqs, late, today>>
  BY DEF periods
<1>2. DatesTyped' /\ Live' = Live /\ Valid' = Valid
  BY <1>1, Rows DEF DatesTyped, Live, Valid, is_valid
<1>3. \A p \in PassIds : PassFine(p)'
  BY <1>1 DEF IInv, Dated, PassFine
<1>4. IdsInOrder' /\ OverOrLate'
  BY <1>1, <1>2 DEF IInv, Dated, IdsInOrder, OverOrLate
<1> QED BY <1>2, <1>3, <1>4 DEF Dated

(* The PASS p, its periods and its requests are the only ones to change.   *)
OnlyOn(p) ==
    /\ DatesTyped' /\ UNCHANGED today /\ late \subseteq late'
    /\ \A q \in PassIds : q # p => /\ pass'[q] = pass[q] /\ susp'[q] = susp[q]
                                   /\ reqs'[q] = reqs[q]

LEMMA OneChanged ==
    ASSUME IInv, NEW p \in PassIds, OnlyOn(p), PassFine(p)', IdsInOrder',
           \/ p \in Live /\ (p \in Valid' => p \in Valid \cup late')
           \/ Valid = {} /\ \A q \in Live : q < p
    PROVE  Dated'
<1>1. \A q \in PassIds : q # p => (q \in Live' <=> q \in Live) /\ (q \in Valid' <=> q \in Valid)
  BY DEF OnlyOn, Live, Valid, is_valid
<1>2. \A q \in PassIds : PassFine(q)'
  <2> SUFFICES ASSUME NEW q \in PassIds, q # p PROVE PassFine(q)'
    OBVIOUS
  <2>1. PassFine(q)
    BY DEF IInv, Dated
  <2> QED BY <2>1 DEF PassFine, OnlyOn
<1>3. OverOrLate'
  <2> SUFFICES ASSUME NEW x \in PassIds, NEW y \in PassIds, x \in Live', y \in Live', x < y, x \in Valid'
               PROVE  x \in late'
    BY DEF OverOrLate, Live
  <2>0. x \in Int /\ y \in Int /\ p \in Int /\ late \subseteq late' /\ Valid \subseteq Live
    BY Numbers DEF OnlyOn, Valid
  <2>1. x \in Live /\ y \in Live /\ x \in Valid => x \in late
    BY DEF IInv, Dated, OverOrLate
  <2>2. CASE x = p
    <3>1. y \in Live
      BY <1>1, <2>0, <2>2
    <3> QED BY <2>0, <2>1, <2>2, <3>1
  <2>3. CASE x # p
    <3>1. x \in Live /\ x \in Valid
      BY <1>1, <2>0, <2>3
    <3>2. y \in Live
      BY <1>1, <3>1
    <3> QED BY <2>0, <2>1, <3>1, <3>2
  <2> QED BY <2>2, <2>3
<1> QED BY <1>2, <1>3 DEF IInv, Dated

(* The PASS p lives and keeps living.                                      *)
LEMMA Redated ==
    ASSUME IInv, NEW p \in Live, OnlyOn(p), pass'[p].st = "live",
           \A r \in reqs'[p] : r.start < r.end,
           Fine(pass'[p].start, pass'[p].end, susp'[p], today),
           today <= pass'[p].end => p \in Valid \cup late'
    PROVE  DatesTyped' /\ Dated' /\ Live' = Live
<1>1. p \in PassIds /\ pass[p].st = "live"
  BY DEF Live
<1>2. PassFine(p)'
  BY DEF PassFine, OnlyOn
<1>3. \A q \in PassIds : pass'[q].st = pass[q].st
  BY <1>1 DEF OnlyOn
<1>4. Live' = Live /\ IdsInOrder'
  BY <1>3 DEF Live, IInv, Dated, IdsInOrder
<1>5. p \in Valid' => p \in Valid \cup late'
  BY DEF Valid, is_valid, OnlyOn
<1> QED BY <1>1, <1>2, <1>4, <1>5, OneChanged DEF OnlyOn

(* The end of the PASS p is updated.                                       *)
LEMMA EndUpdated ==
    ASSUME IInv, NEW p \in PassIds, NEW e \in Int, pass' = [pass EXCEPT ![p].end = e]
    PROVE  /\ pass' \in [PassIds -> PassRow]
           /\ pass'[p].st = pass[p].st /\ pass'[p].start = pass[p].start /\ pass'[p].end = e
           /\ \A q \in PassIds : q # p => pass'[q] = pass[q]
<1>0. pass \in [PassIds -> PassRow] /\ pass[p] \in PassRow
  BY Rows, Calendar DEF DatesTyped
<1>1. PICK x \in PassRow : x = [pass[p] EXCEPT !.end = e]
  BY <1>0 DEF PassRow
<1>2. x.st = pass[p].st /\ x.start = pass[p].start /\ x.end = e
  BY <1>0, <1>1 DEF PassRow
<1>3. pass' = [pass EXCEPT ![p] = x]
  BY <1>0, <1>1
<1> QED BY <1>0, <1>2, <1>3

(* Its start and its end are.                                              *)
LEMMA DatesUpdated ==
    ASSUME IInv, NEW p \in PassIds, NEW b \in Days, NEW e \in Int, NEW x,
           x = [pass[p] EXCEPT !.start = b, !.end = e], pass' = [pass EXCEPT ![p] = x]
    PROVE  /\ pass' \in [PassIds -> PassRow]
           /\ pass'[p].st = pass[p].st /\ pass'[p].start = b /\ pass'[p].end = e
           /\ \A q \in PassIds : q # p => pass'[q] = pass[q]
<1>0. pass \in [PassIds -> PassRow]
  BY Rows DEF DatesTyped
<1>1. PICK r \in PassRow : r = pass[p]
  BY <1>0
<1>2. x = [r EXCEPT !.start = b, !.end = e]
  BY <1>1
<1>3. x \in PassRow /\ x.st = r.st /\ x.start = b /\ x.end = e
  BY <1>2 DEF PassRow
<1> QED BY <1>0, <1>1, <1>3

(* One row is saved, and keeps its hiring.                                 *)
LEMMA Quiet ==
    ASSUME IInv, app' \in [Apps -> Row],
           \A a \in Apps : RowOK(app'[a]) /\ SameHiring(app[a], app'[a]),
           UNCHANGED <<pass, periods, today>>, FileTyped'
    PROVE  IInv' /\ HiringObsoletes
BY HiringsKept, DatesKept, Together

LEMMA QuietRow ==
    ASSUME IInv, NEW a \in Apps, NEW s, RowOK(s), SameHiring(app[a], s),
           app' = [app EXCEPT ![a] = s],
           UNCHANGED <<pass, periods, diagnosis, geiqValid, identified, today>>
    PROVE  IInv' /\ HiringObsoletes
<1>0. app \in [Apps -> Row] /\ \A b \in Apps : RowOK(app[b])
  BY Rows
<1>1. s \in Row
  BY DEF RowOK
<1>2. app' \in [Apps -> Row] /\ \A b \in Apps : app'[b] = IF b = a THEN s ELSE app[b]
  BY <1>0, <1>1
<1>3. \A b \in Apps : RowOK(app'[b]) /\ SameHiring(app[b], app'[b])
  BY <1>0, <1>2 DEF SameHiring
<1>4. FileTyped'
  BY Rows DEF FileTyped
<1> QED BY <1>2, <1>3, <1>4, Quiet

(***************************************************************************)
(* The PASS of a hiring: reused, moved, or issued.                         *)
(***************************************************************************)
(* A PASS that has not begun follows the hiring: it has no suspension yet. *)
LEMMA StartMoved ==
    ASSUME IInv, NEW p \in Live, NEW h \in Int, today <= h, h <= today + HireWindow,
           pass' = update_start_date(p, h), UNCHANGED <<periods, today>>
    PROVE  DatesTyped' /\ Dated' /\ Live' = Live
<1>0. /\ p \in PassIds /\ pass[p].st = "live" /\ pass[p].start \in Int /\ pass[p].end \in Int
      /\ pass[p] \in PassRow /\ today \in Nat /\ today <= MaxDay /\ DatesTyped
      /\ Fine(pass[p].start, pass[p].end, susp[p], today) /\ susp[p] \subseteq Dates
      /\ PassFine(p)
  BY Rows, Calendar DEF Live, IInv, Dated
<1>1. CASE pass[p].start > today
  <2>1. h \in Days /\ get_default_end_date(h) \in Int /\ h <= get_default_end_date(h)
    BY <1>0, Numbers DEF get_default_end_date
  <2>2. pass' = [pass EXCEPT ![p] = [pass[p] EXCEPT !.start = h, !.end = get_default_end_date(h)]]
    BY <1>0, <1>1 DEF update_start_date, DatesTyped, PassRow
  <2>3. /\ pass' \in [PassIds -> PassRow]
        /\ pass'[p].st = "live" /\ pass'[p].start = h /\ pass'[p].end = get_default_end_date(h)
        /\ \A q \in PassIds : q # p => pass'[q] = pass[q]
    <3>1. PICK e \in Int : e = get_default_end_date(h)
      BY <2>1
    <3>2. PICK x : x = [pass[p] EXCEPT !.start = h, !.end = e]
      OBVIOUS
    <3>3. pass' = [pass EXCEPT ![p] = x]
      BY <2>2, <3>1, <3>2
    <3>4. p \in PassIds /\ h \in Days /\ e \in Int
      BY <1>0, <2>1, <3>1
    <3>5. /\ pass' \in [PassIds -> PassRow]
          /\ pass'[p].st = pass[p].st /\ pass'[p].start = h /\ pass'[p].end = e
          /\ \A q \in PassIds : q # p => pass'[q] = pass[q]
      BY <3>2, <3>3, <3>4, DatesUpdated, Zenon
    <3> QED BY <1>0, <3>1, <3>5
  <2>4. susp[p] = {}
    BY <1>0, <1>1, Numbers DEF Fine
  <2>5. p \in Valid
    BY <1>0, <1>1 DEF Fine, Valid, is_valid
  <2>6. OnlyOn(p)
    BY <1>0, <2>3 DEF OnlyOn, DatesTyped, periods
  <2>7. Fine(pass'[p].start, pass'[p].end, susp'[p], today)
    BY <2>1, <2>3, <2>4 DEF Fine, periods
  <2>8. \A r \in reqs'[p] : r.start < r.end
    BY <1>0 DEF PassFine, periods
  <2> QED BY <2>3, <2>5, <2>6, <2>7, <2>8, Redated
<1>2. CASE ~(pass[p].start > today)
  BY <1>2, DatesKept DEF update_start_date
<1> QED BY <1>1, <1>2

(* A suspension in progress is replaced, or deleted, and the trigger moves *)
(* the end of its PASS.                                                    *)
LEMMA SuspensionUpdated ==
    ASSUME IInv, NEW p \in PassIds, NEW s \in InProgress(p), NEW t \in Dates,
           pass[p].start <= t.start, t.start <= t.end, t.start <= today,
           UpdateSuspension(p, s, t), UNCHANGED <<prol, reqs, today>>,
           late \subseteq late', late' \subseteq PassIds,
           p \in Valid \/ p \in late' \/ (t.end <= s.end /\ t.start = s.start)
    PROVE  DatesTyped' /\ Dated' /\ Live' = Live
<1>0. /\ s \in susp[p] /\ today <= s.end /\ susp[p] # {}
      /\ pass[p].start \in Int /\ pass[p].end \in Int /\ today \in Int /\ DatesTyped
      /\ susp[p] \subseteq Dates /\ PassFine(p)
  BY Rows, Calendar DEF InProgress, IInv, Dated
<1>1. p \in Live /\ pass[p].st = "live" /\ Fine(pass[p].start, pass[p].end, susp[p], today)
  BY <1>0, Calendar DEF Live
<1>2. /\ s.start \in Int /\ s.end \in Int /\ t.start \in Int /\ t.end \in Int
      /\ Length(s) = s.end - s.start /\ Length(t) = t.end - t.start
  BY <1>0, Numbers DEF Length
<1> DEFINE e == pass[p].end + (Length(t) - Length(s))
<1>3. e \in Int
  BY <1>0, <1>2
<1>4. /\ pass' = [pass EXCEPT ![p].end = e]
      /\ susp' = [susp EXCEPT ![p] = (susp[p] \ {s}) \cup {t}]
  BY <1>0 DEF UpdateSuspension, update_approval_end_at, DatesTyped
<1>5. Fine(pass[p].start, e, (susp[p] \ {s}) \cup {t}, today)
  BY <1>0, <1>1, FineReplace
<1>6. today <= e => p \in Valid \cup late'
  <2>1. t.end <= s.end /\ t.start = s.start /\ today <= e => today <= pass[p].end
    BY <1>0, <1>2
  <2> QED BY <1>1, <2>1, Calendar
<1> HIDE DEF e
<1>7. /\ pass' \in [PassIds -> PassRow]
      /\ pass'[p].st = "live" /\ pass'[p].start = pass[p].start /\ pass'[p].end = e
      /\ \A q \in PassIds : q # p => pass'[q] = pass[q]
  BY <1>1, <1>3, <1>4, EndUpdated
<1>8. /\ susp' \in [PassIds -> SUBSET Dates] /\ susp'[p] = (susp[p] \ {s}) \cup {t}
      /\ \A q \in PassIds : q # p => susp'[q] = susp[q]
  BY <1>0, <1>4 DEF DatesTyped
<1>9. OnlyOn(p)
  BY <1>0, <1>7, <1>8 DEF OnlyOn, DatesTyped
<1>10. \A r \in reqs'[p] : r.start < r.end
  BY <1>0 DEF PassFine
<1> QED BY <1>1, <1>5, <1>6, <1>7, <1>8, <1>9, <1>10, Redated

LEMMA SuspensionDeleted ==
    ASSUME IInv, NEW p \in PassIds, NEW s \in InProgress(p),
           DeleteSuspension(p, s), UNCHANGED <<prol, reqs, late, today>>
    PROVE  DatesTyped' /\ Dated' /\ Live' = Live
<1>0. /\ s \in susp[p] /\ today <= s.end /\ susp[p] # {}
      /\ pass[p].start \in Int /\ pass[p].end \in Int /\ today \in Int /\ DatesTyped
      /\ susp[p] \subseteq Dates /\ PassFine(p)
  BY Rows, Calendar DEF InProgress, IInv, Dated
<1>1. p \in Live /\ pass[p].st = "live" /\ Fine(pass[p].start, pass[p].end, susp[p], today)
  BY <1>0, Calendar DEF Live
<1>2. Length(s) \in Int /\ Length(s) >= 0
  BY <1>0, <1>1, Numbers DEF Length, Fine
<1> DEFINE e == pass[p].end + (-Length(s))
<1>3. e \in Int
  BY <1>0, <1>2
<1>4. pass' = [pass EXCEPT ![p].end = e] /\ susp' = [susp EXCEPT ![p] = susp[p] \ {s}]
  BY <1>0 DEF DeleteSuspension, update_approval_end_at, DatesTyped
<1>5. Fine(pass[p].start, e, susp[p] \ {s}, today)
  BY <1>0, <1>1, FineDelete
<1>6. today <= e => p \in Valid
  BY <1>0, <1>1, <1>2, Calendar
<1> HIDE DEF e
<1>7. /\ pass' \in [PassIds -> PassRow]
      /\ pass'[p].st = "live" /\ pass'[p].start = pass[p].start /\ pass'[p].end = e
      /\ \A q \in PassIds : q # p => pass'[q] = pass[q]
  BY <1>1, <1>3, <1>4, EndUpdated
<1>8. /\ susp' \in [PassIds -> SUBSET Dates] /\ susp'[p] = susp[p] \ {s}
      /\ \A q \in PassIds : q # p => susp'[q] = susp[q]
  BY <1>0, <1>4 DEF DatesTyped
<1>9. OnlyOn(p)
  BY <1>0, <1>7, <1>8 DEF OnlyOn, DatesTyped
<1>10. \A r \in reqs'[p] : r.start < r.end
  BY <1>0 DEF PassFine
<1> QED BY <1>1, <1>5, <1>6, <1>7, <1>8, <1>9, <1>10, Redated

(* The hiring starts today at the earliest: what is left of the suspension *)
(* that it lifts does not end before it begins.                            *)
LEMMA Unsuspended ==
    ASSUME IInv, NEW p \in Valid, NEW h \in Int, today <= h,
           unsuspend(p, h), UNCHANGED <<prol, reqs, late, today>>
    PROVE  DatesTyped' /\ Dated' /\ Live' = Live
<1>1. CASE UNCHANGED <<pass, susp>>
  BY <1>1, DatesKept DEF periods
<1>2. ASSUME NEW s \in InProgress(p),
             IF s.start = h THEN DeleteSuspension(p, s)
             ELSE UpdateSuspension(p, s, [s EXCEPT !.end = h - 1])
      PROVE  DatesTyped' /\ Dated' /\ Live' = Live
  <2>0. /\ p \in PassIds /\ p \in Live /\ s \in susp[p] /\ s \in Dates /\ s.start <= today /\ today <= s.end
        /\ Fine(pass[p].start, pass[p].end, susp[p], today) /\ today \in Int
        /\ late \subseteq PassIds
    BY <1>2, Calendar, Rows DEF InProgress, Valid, Live, DatesTyped
  <2>1. CASE s.start = h
    BY <1>2, <2>0, <2>1, SuspensionDeleted
  <2>2. CASE s.start # h
    <3>1. PICK t : t = [s EXCEPT !.end = h - 1]
      OBVIOUS
    <3>2. t \in Dates /\ t.start = s.start /\ t.end = h - 1
      BY <2>0, <3>1 DEF Dates
    <3>3. /\ t.start <= t.end /\ t.start <= today /\ pass[p].start <= t.start
          /\ s.start \in Int /\ s.end \in Int
      BY <2>0, <2>2, <3>2, Numbers DEF Fine
    <3>4. UpdateSuspension(p, s, t)
      BY <1>2, <2>0, <2>2, <3>1, <3>2, <3>3
    <3> QED BY <1>2, <2>0, <3>2, <3>3, <3>4, SuspensionUpdated
  <2> QED BY <2>1, <2>2
<1> QED BY <1>1, <1>2 DEF unsuspend

LEMMA Reused ==
    ASSUME IInv, NEW p \in PassIds, NEW h \in Int, today <= h, h <= today + HireWindow,
           ReusePass(p, h), UNCHANGED <<prol, reqs, late, today>>
    PROVE  p \in Live /\ DatesTyped' /\ Dated' /\ Live' = Live
<1>1. p \in Live /\ p \in Valid
  BY DEF ReusePass, IsLatestValid, Valid
<1>2. CASE pass[p].start > h
  BY <1>1, <1>2, StartMoved DEF ReusePass, periods
<1>3. CASE ~(pass[p].start > h)
  BY <1>1, <1>3, Unsuspended DEF ReusePass
<1> QED BY <1>1, <1>2, <1>3

LEMMA Issued ==
    ASSUME IInv, NEW p \in PassIds, NEW start \in Days, NEW end \in Int,
           IssuePass(p, start, end), UNCHANGED <<prol, reqs, late, today>>
    PROVE  DatesTyped' /\ Dated' /\ Live' = Live \cup {p}
<1>0. /\ DatesTyped /\ start \in Int /\ Valid = {} /\ start < end
      /\ pass[p].st = "none" /\ p \notin Live
      /\ \A q \in PassIds : q < p => pass[q].st # "none"
      /\ pass' = [pass EXCEPT ![p] = [st |-> "live", start |-> start, end |-> end]]
      /\ susp' = susp
  BY Rows DEF IssuePass, has_valid_approval, NextPass, SavePass, Live, Days
<1>1. [st |-> "live", start |-> start, end |-> end] \in PassRow
  BY DEF PassRow
<1>2. /\ pass' \in [PassIds -> PassRow]
      /\ pass'[p].st = "live" /\ pass'[p].start = start /\ pass'[p].end = end
      /\ \A q \in PassIds : q # p => pass'[q] = pass[q]
  BY <1>0, <1>1 DEF DatesTyped
<1>3. OnlyOn(p)
  BY <1>0, <1>2 DEF OnlyOn, DatesTyped
<1>4. PassFine(p)'
  <2>1. susp[p] = {} /\ reqs[p] = {}
    BY <1>0, Calendar
  <2>2. Fine(start, end, {}, today)
    BY <1>0 DEF Fine
  <2> QED BY <1>0, <1>2, <2>1, <2>2 DEF PassFine
<1>5. IdsInOrder'
  <2> SUFFICES ASSUME NEW x \in PassIds, NEW y \in PassIds, x < y, pass'[y].st # "none"
               PROVE  pass'[x].st # "none"
    BY DEF IdsInOrder
  <2>1. CASE x = p
    BY <1>2, <2>1
  <2>2. CASE x # p /\ y = p
    BY <1>0, <1>2, <2>2
  <2>3. CASE x # p /\ y # p
    BY <1>2, <2>3 DEF IInv, Dated, IdsInOrder
  <2> QED BY <2>1, <2>2, <2>3
<1>6. \A q \in Live : q < p
  <2> SUFFICES ASSUME NEW q \in Live, ~(q < p) PROVE FALSE
    OBVIOUS
  <2>1. q \in PassIds /\ pass[q].st = "live" /\ q \in Int /\ p \in Int
    BY Numbers DEF Live
  <2>2. p < q
    BY <1>0, <2>1
  <2> QED BY <1>0, <2>1, <2>2 DEF IInv, Dated, IdsInOrder
<1>7. Live' = Live \cup {p}
  BY <1>2 DEF Live
<1> QED BY <1>0, <1>3, <1>4, <1>5, <1>6, <1>7, OneChanged DEF OnlyOn

(* A hiring obtains its PASS, when it is accepted or by hand.              *)
LEMMA Assigned ==
    ASSUME IInv, NEW a \in Apps, NEW p \in PassIds, Live' = Live \cup {p}, app[a].pass = 0,
           app' \in [Apps -> Row], RowOK(app'[a]),
           app'[a].st = "accepted", app'[a].pass = p,
           \A b \in Apps \ {a} : RowOK(app'[b]) /\ SameHiring(app[b], app'[b])
    PROVE  Hired'
<1>0. \A b \in Apps : app[b].pass # 0 => app[b].st = "accepted" /\ app[b].pass \in Live
  BY Rows
<1>p. p # 0 /\ Live \subseteq PassIds
  BY Numbers DEF Live
<1>b. \A b \in Apps : b # a => /\ RowOK(app'[b]) /\ app'[b].pass = app[b].pass
                               /\ app'[b].st = "accepted" <=> app[b].st = "accepted"
                               /\ app[b].st = "accepted" => /\ app'[b].co = app[b].co
                                                            /\ app'[b].mode = app[b].mode
  BY DEF SameHiring
<1>1. CheckConstraints'
  BY <1>b, Constraints DEF CheckConstraints, RowOK
<1>2. AcceptedHasPass'
  BY <1>p, <1>b DEF IInv, Hired, AcceptedHasPass
<1>3. NoOrphanPass'
  <2> SUFFICES ASSUME NEW q \in Live'
               PROVE  \E b \in Apps : app'[b].st = "accepted" /\ app'[b].pass = q
    BY DEF NoOrphanPass
  <2>1. CASE q = p
    BY <2>1
  <2>2. CASE q # p
    <3>1. q \in Live /\ q # 0
      BY <2>2, Numbers DEF Live
    <3>2. PICK b \in Apps : app[b].st = "accepted" /\ app[b].pass = q
      BY <3>1 DEF IInv, Hired, NoOrphanPass
    <3> QED BY <1>b, <3>1, <3>2
  <2> QED BY <2>1, <2>2
<1>4. PassInUse'
  BY <1>0, <1>p, <1>b DEF PassInUse
<1> QED BY <1>1, <1>2, <1>3, <1>4 DEF Hired

(* The other pending applications become obsolete.                         *)
LEMMA OthersObsolete ==
    ASSUME IInv, NEW a \in Apps, app[a].st \in From["accept"], NEW s, RowOK(s), s.st = "accepted",
           app' = RenderOthersObsolete(a, s)
    PROVE  /\ app' \in [Apps -> Row] /\ app'[a] = s
           /\ \A b \in Apps \ {a} : RowOK(app'[b]) /\ SameHiring(app[b], app'[b])
           /\ app[a].st # "accepted" /\ app[a].pass = 0
           /\ HiringObsoletes
<1>0. app \in [Apps -> Row] /\ \A b \in Apps : RowOK(app[b])
  BY Rows
<1>1. "render_obsolete" \in DOMAIN To /\ To["render_obsolete"] = "obsolete"
      /\ From["render_obsolete"] = PENDING_STATES
  BY DEF To, From
<1>2. app[a].st # "accepted" /\ app[a].pass = 0
  <2>1. app[a].st # "accepted"
    BY DEF From, CAN_BE_ACCEPTED_STATES
  <2> QED BY <1>0, <2>1 DEF RowOK, FieldConstraints, Reset
<1>3. app'[a] = s
  BY DEF RenderOthersObsolete
<1>4. \A b \in Apps \ {a} : /\ RowOK(app'[b]) /\ SameHiring(app[b], app'[b])
                            /\ app'[b].st \notin PENDING_STATES
  <2> SUFFICES ASSUME NEW b \in Apps, b # a
               PROVE  /\ RowOK(app'[b]) /\ SameHiring(app[b], app'[b])
                      /\ app'[b].st \notin PENDING_STATES
    OBVIOUS
  <2>1. CASE app[b].st \in PENDING_STATES
    <3>1. app'[b] = Fire(app[b], "render_obsolete")
      BY <2>1 DEF RenderOthersObsolete
    <3>2. /\ RowOK(Fire(app[b], "render_obsolete"))
          /\ SameHiring(app[b], Fire(app[b], "render_obsolete"))
      BY <1>0, <1>1, <2>1, PlainFiring
    <3>3. Fire(app[b], "render_obsolete").st = "obsolete"
      BY <1>0, <1>1, Firing
    <3> QED BY <3>1, <3>2, <3>3 DEF PENDING_STATES
  <2>2. CASE app[b].st \notin PENDING_STATES
    <3>1. app'[b] = app[b]
      BY <2>2 DEF RenderOthersObsolete
    <3> QED BY <1>0, <2>2, <3>1 DEF SameHiring
  <2> QED BY <2>1, <2>2
<1>5. app' \in [Apps -> Row]
  <2>1. app' = [b \in Apps |-> app'[b]]
    BY DEF RenderOthersObsolete
  <2>2. \A b \in Apps : app'[b] \in Row
    BY <1>3, <1>4 DEF RowOK
  <2> QED BY <2>1, <2>2
<1>6. HiringObsoletes
  <2> SUFFICES ASSUME NEW c \in Apps, app[c].st # "accepted", app'[c].st = "accepted",
                      NEW b \in Apps \ {c}
               PROVE  app'[b].st \notin PENDING_STATES
    BY DEF HiringObsoletes
  <2>1. c = a
    BY <1>4 DEF SameHiring
  <2> QED BY <1>4, <2>1
<1> QED BY <1>2, <1>3, <1>4, <1>5, <1>6

(* A hiring without a PASS: outside the IAE, or waiting for one.           *)
LEMMA HiredWithout ==
    ASSUME IInv, NEW a \in Apps, app[a].st \in From["accept"], NEW s, RowOK(s),
           s.st = "accepted", s.co = app[a].co, s.pass = 0, s.co \notin Iae \/ s.mode = "manual",
           app' = RenderOthersObsolete(a, s),
           UNCHANGED <<pass, periods, diagnosis, geiqValid, identified, today>>
    PROVE  IInv' /\ HiringObsoletes
<1>a. /\ app' \in [Apps -> Row] /\ app'[a] = s
      /\ \A b \in Apps \ {a} : RowOK(app'[b]) /\ SameHiring(app[b], app'[b])
      /\ app[a].st # "accepted" /\ app[a].pass = 0
      /\ HiringObsoletes
  BY OthersObsolete
<1>l. DatesTyped' /\ Dated' /\ Live' = Live
  BY DatesKept
<1>b. \A b \in Apps : b # a => /\ RowOK(app'[b]) /\ app'[b].pass = app[b].pass
                               /\ app'[b].st = "accepted" <=> app[b].st = "accepted"
                               /\ app[b].st = "accepted" => /\ app'[b].co = app[b].co
                                                            /\ app'[b].mode = app[b].mode
  BY <1>a DEF SameHiring
<1>1. CheckConstraints'
  BY <1>a, <1>b, Constraints DEF CheckConstraints, RowOK
<1>2. AcceptedHasPass'
  BY <1>a, <1>l, <1>b DEF IInv, Hired, AcceptedHasPass
<1>3. NoOrphanPass'
  BY <1>a, <1>l, <1>b DEF IInv, Hired, NoOrphanPass
<1>4. PassInUse'
  BY <1>a, <1>l, <1>b DEF IInv, Hired, PassInUse
<1>5. FileTyped'
  BY Rows DEF FileTyped
<1> QED BY <1>a, <1>l, <1>1, <1>2, <1>3, <1>4, <1>5, Together DEF Hired

(***************************************************************************)
(* The hirings and what follows them, action by action.                    *)
(***************************************************************************)
LEMMA AcceptOutsideStep ==
    ASSUME IInv, NEW a \in Apps, AcceptOutsideIae(a) PROVE IInv' /\ HiringObsoletes
<1>0. RowOK(app[a]) /\ app[a].st \in From["accept"] /\ app[a].co \notin Iae
  BY Rows DEF AcceptOutsideIae
<1>1. PICK h \in Days :
         app' = RenderOthersObsolete(a, HiredOutside(app[a], h, app[a].co \in Geiq /\ geiqValid))
  BY DEF AcceptOutsideIae, HiredOutside
<1>2. PICK g \in BOOLEAN : g = (app[a].co \in Geiq /\ geiqValid)
  OBVIOUS
<1>3. PICK s : s = HiredOutside(app[a], h, g)
  OBVIOUS
<1>4. RowOK(s) /\ s.st = "accepted" /\ s.co = app[a].co /\ s.pass = 0
  BY <1>0, <1>3, HiredOutsideRow
<1>5. /\ app' = RenderOthersObsolete(a, s)
      /\ UNCHANGED <<pass, periods, diagnosis, geiqValid, identified, today>>
  BY <1>1, <1>2, <1>3 DEF AcceptOutsideIae
<1> QED BY <1>0, <1>4, <1>5, HiredWithout

LEMMA AcceptAwaitingStep ==
    ASSUME IInv, NEW a \in Apps, AcceptAwaitingPass(a) PROVE IInv' /\ HiringObsoletes
<1>0. RowOK(app[a]) /\ app[a].st \in From["accept"]
  BY Rows DEF AcceptAwaitingPass
<1>1. PICK h \in Days :
         app' = RenderOthersObsolete(a, HiredAwaiting(app[a], h, LastConsideredValid))
  BY DEF AcceptAwaitingPass, HiredAwaiting
<1>2. PICK d \in BOOLEAN : d = LastConsideredValid
  BY DEF LastConsideredValid
<1>3. PICK s : s = HiredAwaiting(app[a], h, d)
  OBVIOUS
<1>4. RowOK(s) /\ s.st = "accepted" /\ s.co = app[a].co /\ s.pass = 0 /\ s.mode = "manual"
  BY <1>0, <1>3, HiredAwaitingRow
<1>5. /\ app' = RenderOthersObsolete(a, s)
      /\ UNCHANGED <<pass, periods, diagnosis, geiqValid, identified, today>>
  BY <1>1, <1>2, <1>3 DEF AcceptAwaitingPass
<1> QED BY <1>0, <1>4, <1>5, HiredWithout

LEMMA AcceptWithPassStep ==
    ASSUME IInv, NEW a \in Apps, AcceptWithPass(a) PROVE IInv' /\ HiringObsoletes
<1>0. /\ RowOK(app[a]) /\ app[a].st \in From["accept"] /\ app[a].co \in Iae /\ today \in Nat
      /\ UNCHANGED <<prol, reqs, late, diagnosis, geiqValid, identified, today>>
      /\ FileTyped
  BY Rows DEF AcceptWithPass
<1>1. PICK h \in Days, p \in PassIds :
         /\ HiringDay(a, h)
         /\ ReusePass(p, h) \/ IssuePass(p, h, get_default_end_date(h))
         /\ app' = RenderOthersObsolete(a, HiredWith(app[a], h, LastConsideredValid, p))
  BY DEF AcceptWithPass, HiredWith
<1>2. PICK d \in BOOLEAN : d = LastConsideredValid
  BY DEF LastConsideredValid
<1>3. PICK s : s = HiredWith(app[a], h, d, p)
  OBVIOUS
<1>4. RowOK(s) /\ s.st = "accepted" /\ s.pass = p
  BY <1>0, <1>3, HiredWithRow
<1>5. h \in Int /\ today <= h /\ h <= today + HireWindow /\ get_default_end_date(h) \in Int
  BY <1>0, <1>1, Numbers, CompaniesAssumption DEF HiringDay, Days, get_default_end_date
<1>6. app' = RenderOthersObsolete(a, s)
  BY <1>1, <1>2, <1>3
<1>7. /\ app' \in [Apps -> Row] /\ app'[a] = s
      /\ \A b \in Apps \ {a} : RowOK(app'[b]) /\ SameHiring(app[b], app'[b])
      /\ app[a].pass = 0
      /\ HiringObsoletes
  BY <1>0, <1>4, <1>6, OthersObsolete
<1>8. DatesTyped' /\ Dated' /\ Live' = Live \cup {p}
  <2>1. CASE IssuePass(p, h, get_default_end_date(h))
    BY <1>0, <1>5, <2>1, Issued
  <2>2. CASE ReusePass(p, h)
    BY <1>0, <1>5, <2>2, Reused
  <2> QED BY <1>1, <2>1, <2>2
<1>9. Hired'
  BY <1>4, <1>7, <1>8, Assigned
<1>10. FileTyped'
  BY <1>0 DEF FileTyped
<1> QED BY <1>7, <1>8, <1>9, <1>10, Together

LEMMA DeliverStep ==
    ASSUME IInv, NEW a \in Apps, ManuallyDeliverApproval(a) PROVE IInv' /\ HiringObsoletes
<1>0. /\ RowOK(app[a]) /\ app[a].st = "accepted" /\ app[a].pass = 0
      /\ app \in [Apps -> Row] /\ \A b \in Apps : RowOK(app[b])
      /\ UNCHANGED <<prol, reqs, late, diagnosis, geiqValid, identified, today>>
      /\ FileTyped
  BY Rows DEF ManuallyDeliverApproval
<1>1. PICK p \in PassIds, start \in Days, end \in Days :
         /\ IssuePass(p, start, end)
         /\ app' = [app EXCEPT ![a] = DeliveredTo(app[a], p)]
  BY DEF ManuallyDeliverApproval, DeliveredTo
<1>2. PICK s : s = DeliveredTo(app[a], p)
  OBVIOUS
<1>3. RowOK(s) /\ s.st = "accepted" /\ s.pass = p
  BY <1>0, <1>2, DeliveredRow
<1>4. DatesTyped' /\ Dated' /\ Live' = Live \cup {p}
  <2>1. end \in Int
    BY DEF Days
  <2> QED BY <1>0, <1>1, <2>1, Issued
<1>5. /\ app' \in [Apps -> Row] /\ app'[a] = s
      /\ \A b \in Apps \ {a} : app'[b] = app[b]
  BY <1>0, <1>1, <1>2, <1>3 DEF RowOK
<1>6. \A b \in Apps \ {a} : RowOK(app'[b]) /\ SameHiring(app[b], app'[b])
  BY <1>0, <1>5 DEF SameHiring
<1>7. Hired'
  BY <1>0, <1>3, <1>4, <1>5, <1>6, Assigned
<1>8. FileTyped' /\ HiringObsoletes
  BY <1>0, <1>5 DEF HiringObsoletes, FileTyped
<1> QED BY <1>4, <1>5, <1>7, <1>8, Together

(* The last hiring of a PASS takes it away, and only the last one.         *)
LEMMA CancelStep ==
    ASSUME IInv, NEW a \in Apps, Cancel(a) PROVE IInv' /\ HiringObsoletes
<1>0. /\ \A b \in Apps : RowOK(app[b])
      /\ app \in [Apps -> Row] /\ DatesTyped /\ FileTyped
      /\ \A b \in Apps : app[b].pass \in PassIds \cup {0}
      /\ \A b \in Apps : app[b].pass # 0 => app[b].st = "accepted" /\ app[b].pass \in Live
  BY Rows
<1>1. /\ app[a].st = "accepted" /\ UNCHANGED <<late, diagnosis, geiqValid, identified, today>>
  BY DEF Cancel, From
<1>2. PICK s : s = Cancelled(app[a])
  OBVIOUS
<1>3. RowOK(s) /\ s.st = "cancelled" /\ s.pass = 0
  BY <1>0, <1>1, <1>2, CancelledRow
<1>4. PICK p \in PassIds \cup {0} : p = app[a].pass
  BY <1>0
<1>5. PICK U : U = {b \in Apps : app[b].pass = p /\ app[b].st = "accepted"}
  OBVIOUS
<1>6. PICK gone \in BOOLEAN : gone = (p # 0 /\ can_be_deleted(p))
  OBVIOUS
<1>7. /\ IF gone
         THEN /\ pass' = [pass EXCEPT ![p].st = "cancelled"]
              /\ susp' = [susp EXCEPT ![p] = {}] /\ prol' = [prol EXCEPT ![p] = {}]
              /\ reqs' = [reqs EXCEPT ![p] = {}]
         ELSE UNCHANGED <<pass, susp, prol, reqs>>
      /\ app' = [b \in Apps |-> IF b = a THEN s
                                ELSE IF gone /\ app[b].pass = p THEN [app[b] EXCEPT !.pass = 0]
                                ELSE app[b]]
  BY <1>2, <1>4, <1>6 DEF Cancel, Cancelled
<1>8. a \in U
  BY <1>1, <1>4, <1>5
<1>9. gone => p # 0 /\ U = {a}
  BY <1>5, <1>6, <1>8 DEF can_be_deleted
<1>10. ~gone /\ p # 0 => \E b \in U : b # a
  BY <1>5, <1>6, <1>8 DEF can_be_deleted
<1>11. gone => \A b \in Apps \ {a} : app[b].pass # p
  BY <1>0, <1>5, <1>9
<1>12. app' = [app EXCEPT ![a] = s]
  BY <1>0, <1>7, <1>11
<1>13. /\ app' \in [Apps -> Row] /\ app'[a] = s
       /\ \A b \in Apps \ {a} : app'[b] = app[b]
  BY <1>0, <1>3, <1>12 DEF RowOK
<1>14. DatesTyped' /\ Dated' /\ Live' = IF gone THEN Live \ {p} ELSE Live
  <2>1. CASE gone
    <3>1. p \in PassIds /\ pass[p] \in PassRow /\ p \in Live
      BY <1>0, <1>4, <1>9, <2>1, Calendar
    <3>2. PICK x \in PassRow : x = [pass[p] EXCEPT !.st = "cancelled"]
      BY <3>1 DEF PassRow
    <3>3. x.st = "cancelled"
      BY <3>1, <3>2 DEF PassRow
    <3>4. pass' = [pass EXCEPT ![p] = x]
      BY <1>0, <1>7, <2>1, <3>1, <3>2 DEF DatesTyped
    <3>5. /\ pass' \in [PassIds -> PassRow] /\ pass'[p].st = "cancelled"
          /\ \A q \in PassIds : q # p => pass'[q] = pass[q]
      BY <1>0, <3>1, <3>3, <3>4 DEF DatesTyped
    <3>6. /\ susp' \in [PassIds -> SUBSET Dates] /\ prol' \in [PassIds -> SUBSET Dates]
          /\ reqs' \in [PassIds -> SUBSET Request] /\ susp'[p] = {} /\ reqs'[p] = {}
          /\ \A q \in PassIds : q # p => susp'[q] = susp[q] /\ reqs'[q] = reqs[q]
      BY <1>0, <1>7, <2>1, <3>1 DEF DatesTyped
    <3>7. OnlyOn(p)
      BY <1>0, <1>1, <3>5, <3>6 DEF OnlyOn, DatesTyped
    <3>8. PassFine(p)'
      BY <3>5, <3>6 DEF PassFine
    <3>9. Live' = Live \ {p} /\ p \notin Valid'
      BY <3>5 DEF Live, Valid
    <3>10. \A q \in PassIds : pass'[q].st = "none" => pass[q].st = "none"
      BY <3>5
    <3>11. IdsInOrder'
      BY <3>1, <3>5, <3>10 DEF IInv, Dated, IdsInOrder, Live
    <3>12. Dated'
      BY <3>1, <3>7, <3>8, <3>9, <3>11, OneChanged
    <3> QED BY <2>1, <3>7, <3>9, <3>12 DEF OnlyOn
  <2>2. CASE ~gone
    BY <1>1, <1>7, <2>2, DatesKept DEF periods
  <2> QED BY <2>1, <2>2
<1>15. CheckConstraints'
  <2>1. \A b \in Apps : RowOK(app'[b])
    BY <1>0, <1>3, <1>13
  <2> QED BY <2>1, Constraints DEF CheckConstraints, RowOK
<1>16. AcceptedHasPass'
  BY <1>3, <1>11, <1>13, <1>14 DEF IInv, Hired, AcceptedHasPass
<1>17. NoOrphanPass'
  <2> SUFFICES ASSUME NEW q \in Live'
               PROVE  \E b \in Apps : app'[b].st = "accepted" /\ app'[b].pass = q
    BY DEF NoOrphanPass
  <2>1. q \in Live /\ q # 0
    BY <1>14, Numbers DEF Live
  <2>2. PICK b \in Apps : app[b].st = "accepted" /\ app[b].pass = q
    BY <2>1 DEF IInv, Hired, NoOrphanPass
  <2>3. CASE b # a
    BY <1>13, <2>2, <2>3
  <2>4. CASE b = a
    <3>1. q = p /\ ~gone
      BY <1>4, <1>14, <2>2, <2>4
    <3>2. PICK c \in U : c # a
      BY <1>10, <2>1, <3>1
    <3> QED BY <1>5, <1>13, <3>1, <3>2
  <2> QED BY <2>3, <2>4
<1>18. PassInUse'
  BY <1>0, <1>3, <1>11, <1>13, <1>14 DEF PassInUse
<1>19. FileTyped' /\ HiringObsoletes
  BY <1>0, <1>1, <1>3, <1>13 DEF HiringObsoletes, FileTyped
<1> QED BY <1>13, <1>14, <1>15, <1>16, <1>17, <1>18, <1>19, Together DEF Hired

(* The start date of a hiring moves, and that of its PASS if it has not    *)
(* begun.                                                                  *)
LEMMA EditStep ==
    ASSUME IInv, NEW a \in Apps, EditHiringDate(a) PROVE IInv' /\ HiringObsoletes
<1>0. /\ \A b \in Apps : RowOK(app[b])
      /\ app \in [Apps -> Row] /\ today \in Nat /\ today <= MaxDay /\ FileTyped
      /\ \A b \in Apps : app[b].pass \in PassIds \cup {0}
      /\ \A b \in Apps : app[b].pass # 0 => app[b].st = "accepted" /\ app[b].pass \in Live
      /\ UNCHANGED <<periods, diagnosis, geiqValid, identified, today>>
  BY Rows DEF EditHiringDate
<1>1. PICK h \in today..(today + PostponeDays) :
         /\ app' = [app EXCEPT ![a].hire = h]
         /\ pass' = IF app[a].pass # 0 THEN update_start_date(app[a].pass, h) ELSE pass
  BY DEF EditHiringDate
<1>2. h \in Int /\ today <= h /\ h <= today + HireWindow /\ h \in Days
  BY <1>0, Numbers
<1>3. app[a] \in Row
  BY <1>0
<1>4. PICK s \in Row : s = [app[a] EXCEPT !.hire = h]
  BY <1>2, <1>3, RowUpdates
<1>5. RowOK(s) /\ SameHiring(app[a], s)
  <2>1. RowOK(app[a])
    BY <1>0
  <2> QED BY <1>2, <1>4, <2>1, MovedRow
<1>6. /\ app' \in [Apps -> Row] /\ app'[a] = s
      /\ \A b \in Apps \ {a} : app'[b] = app[b]
  BY <1>0, <1>1, <1>4
<1>7. \A b \in Apps : RowOK(app'[b]) /\ SameHiring(app[b], app'[b])
  BY <1>0, <1>5, <1>6 DEF SameHiring
<1>8. DatesTyped' /\ Dated' /\ Live' = Live
  <2>1. CASE app[a].pass # 0
    BY <1>0, <1>1, <1>2, <2>1, StartMoved
  <2>2. CASE app[a].pass = 0
    BY <1>0, <1>1, <2>2, DatesKept
  <2> QED BY <2>1, <2>2
<1>9. FileTyped'
  BY <1>0 DEF FileTyped
<1> QED BY <1>6, <1>7, <1>8, <1>9, HiringsKept, Together

(***************************************************************************)
(* The periods of a PASS.                                                  *)
(***************************************************************************)
LEMMA SuspendStep ==
    ASSUME IInv, NEW p \in PassIds, suspend(p) PROVE DatesTyped' /\ Dated' /\ Live' = Live
<1>0. /\ p \in Live /\ pass[p].st = "live" /\ p \in Valid /\ ~is_suspended(p)
      /\ pass[p].start \in Int /\ pass[p].end \in Int /\ today \in Nat /\ DatesTyped
      /\ susp[p] \subseteq Dates /\ PassFine(p)
      /\ Fine(pass[p].start, pass[p].end, susp[p], today)
      /\ UNCHANGED <<prol, reqs, late, today>>
  BY Rows, Calendar DEF suspend, Valid, Live, UnchangedFile, IInv, Dated
<1>1. PICK b \in Apps, s \in Suspensions :
         SuspensionForm(p, susp[p], app[b].hire, s) /\ InsertSuspension(p, s)
  BY DEF suspend
<1>2. /\ s \in Dates /\ s.start \in Int /\ s.end \in Int /\ Length(s) \in Int
      /\ s.start <= s.end /\ s.start <= today /\ pass[p].start <= s.start
  <2>1. \A d \in 0..today, n \in 0..(SuspensionMax - 1) : [start |-> d, end |-> d + n] \in Dates
    BY <1>0, DaysAssumption DEF Dates
  <2>2. s \in Dates
    BY <2>1 DEF Suspensions
  <2> QED BY <1>1, <2>2, Numbers DEF SuspensionForm
<1>3. \A o \in susp[p] : o.end < today
  <2> SUFFICES ASSUME NEW o \in susp[p] PROVE o.end < today
    OBVIOUS
  <2>1. o.start \in Int /\ o.end \in Int /\ o.start <= today
    BY <1>0, Numbers DEF Fine
  <2> QED BY <1>0, <2>1 DEF is_suspended, InProgress
<1> DEFINE e == pass[p].end + Length(s)
<1>4. e \in Int
  BY <1>0, <1>2
<1>5. pass' = [pass EXCEPT ![p].end = e] /\ susp' = [susp EXCEPT ![p] = susp[p] \cup {s}]
  BY <1>0, <1>1 DEF InsertSuspension, update_approval_end_at, DatesTyped
<1>6. Fine(pass[p].start, e, susp[p] \cup {s}, today)
  BY <1>0, <1>2, <1>3, FineInsert
<1> HIDE DEF e
<1>7. /\ pass' \in [PassIds -> PassRow]
      /\ pass'[p].st = "live" /\ pass'[p].start = pass[p].start /\ pass'[p].end = e
      /\ \A q \in PassIds : q # p => pass'[q] = pass[q]
  BY <1>0, <1>4, <1>5, EndUpdated
<1>8. /\ susp' \in [PassIds -> SUBSET Dates] /\ susp'[p] = susp[p] \cup {s}
      /\ \A q \in PassIds : q # p => susp'[q] = susp[q]
  BY <1>0, <1>2, <1>5 DEF DatesTyped
<1>9. OnlyOn(p)
  BY <1>0, <1>7, <1>8 DEF OnlyOn, DatesTyped
<1>10. \A r \in reqs'[p] : r.start < r.end
  BY <1>0 DEF PassFine
<1> QED BY <1>0, <1>6, <1>7, <1>8, <1>9, <1>10, Redated

LEMMA SuspensionSteps ==
    ASSUME IInv, NEW p \in PassIds,
           suspension_update(p) \/ suspension_update_enddate(p) \/ suspension_delete(p)
    PROVE  DatesTyped' /\ Dated' /\ Live' = Live
<1>0. /\ DatesTyped /\ late \subseteq PassIds /\ today \in Nat
      /\ pass[p].start \in Int /\ susp[p] \subseteq Dates
  BY Rows, Calendar DEF DatesTyped
<1>1. CASE suspension_update(p)
  <2>1. PICK b \in Apps, s \in InProgress(p), t \in Suspensions :
           SuspensionForm(p, susp[p] \ {s}, app[b].hire, t) /\ UpdateSuspension(p, s, t)
    BY <1>1 DEF suspension_update
  <2>2. t \in Dates
    <3>1. \A d \in 0..today, n \in 0..(SuspensionMax - 1) : [start |-> d, end |-> d + n] \in Dates
      BY <1>0, DaysAssumption DEF Dates
    <3> QED BY <3>1 DEF Suspensions
  <2>3. t.start <= t.end /\ t.start <= today /\ pass[p].start <= t.start
    BY <2>1 DEF SuspensionForm
  <2>4. UNCHANGED <<prol, reqs, today>> /\ late' = late \cup ({p} \ Valid)
    BY <1>1 DEF suspension_update, UnchangedFile, PutOff
  <2>5. late \subseteq late' /\ late' \subseteq PassIds /\ (p \in Valid \/ p \in late')
    BY <1>0, <2>4
  <2> QED BY <2>1, <2>2, <2>3, <2>4, <2>5, SuspensionUpdated
<1>2. CASE suspension_update_enddate(p)
  <2>1. PICK s \in InProgress(p), back \in Int :
           /\ s.start + 1 <= back /\ back <= s.end - 1
           /\ UpdateSuspension(p, s, [s EXCEPT !.end = back - 1])
    <3>1. \A s \in InProgress(p) : s.start \in Int /\ s.end \in Int
      BY <1>0, Numbers DEF InProgress
    <3> QED BY <1>2, <3>1 DEF suspension_update_enddate
  <2>2. s \in Dates /\ s.start \in Int /\ s.end \in Int /\ s.start <= today /\ s \in susp[p]
    BY <1>0, Numbers DEF InProgress
  <2>3. PICK t : t = [s EXCEPT !.end = back - 1]
    OBVIOUS
  <2>4. t \in Dates /\ t.start = s.start /\ t.end = back - 1
    BY <2>2, <2>3 DEF Dates
  <2>5. t.start <= t.end /\ t.start <= today /\ t.end <= s.end
    BY <2>1, <2>2, <2>4
  <2>6. pass[p].start <= t.start
    <3>1. p \in Live
      BY <2>2, Calendar
    <3> QED BY <2>2, <2>4, <3>1, Calendar DEF Fine
  <2>7. UNCHANGED <<prol, reqs, late, today>>
    BY <1>2 DEF suspension_update_enddate, UnchangedFile
  <2> QED BY <1>0, <2>1, <2>3, <2>4, <2>5, <2>6, <2>7, SuspensionUpdated
<1>3. CASE suspension_delete(p)
  <2>1. PICK s \in InProgress(p) : DeleteSuspension(p, s)
    BY <1>3 DEF suspension_delete
  <2> QED BY <1>3, <2>1, SuspensionDeleted DEF suspension_delete, UnchangedFile
<1> QED BY <1>1, <1>2, <1>3

(* A prolongation only makes a PASS longer.                                *)
LEMMA Prolonged ==
    ASSUME IInv, NEW p \in Live, NEW start \in Int, NEW end \in Int, start < end,
           InsertProlongation(p, start, end), PutOff(p), UNCHANGED <<susp, today>>,
           reqs' \in [PassIds -> SUBSET Request],
           \A q \in PassIds : q # p => reqs'[q] = reqs[q],
           \A r \in reqs'[p] : r.start < r.end
    PROVE  DatesTyped' /\ Dated' /\ Live' = Live
<1>0. /\ p \in PassIds /\ pass[p].st = "live" /\ DatesTyped /\ today \in Int
      /\ pass[p].start \in Int /\ pass[p].end \in Int /\ susp[p] \subseteq Dates
      /\ Fine(pass[p].start, pass[p].end, susp[p], today)
  BY Rows, Calendar DEF Live
<1> DEFINE e == pass[p].end + (end - start)
<1>1. e \in Int /\ pass[p].end <= e
  BY <1>0
<1>2. pass' = [pass EXCEPT ![p].end = e] /\ prol' \in [PassIds -> SUBSET Dates]
  BY <1>0 DEF InsertProlongation, update_approval_end_at, DatesTyped, Dates
<1> HIDE DEF e
<1>3. Fine(pass[p].start, e, susp[p], today)
  BY <1>0, <1>1, FineLonger
<1>4. /\ pass' \in [PassIds -> PassRow]
      /\ pass'[p].st = "live" /\ pass'[p].start = pass[p].start /\ pass'[p].end = e
      /\ \A q \in PassIds : q # p => pass'[q] = pass[q]
  BY <1>0, <1>1, <1>2, EndUpdated
<1>5. late \subseteq late' /\ late' \subseteq PassIds /\ p \in Valid \cup late'
  BY <1>0 DEF PutOff, DatesTyped
<1>6. OnlyOn(p)
  BY <1>0, <1>2, <1>4, <1>5 DEF OnlyOn, DatesTyped
<1> QED BY <1>0, <1>3, <1>4, <1>5, <1>6, Redated

LEMMA RequestsKept ==
    ASSUME IInv, NEW p \in Live, UNCHANGED <<pass, susp, prol, late, today>>,
           reqs' \in [PassIds -> SUBSET Request],
           \A q \in PassIds : q # p => reqs'[q] = reqs[q],
           \A r \in reqs'[p] : r.start < r.end
    PROVE  DatesTyped' /\ Dated' /\ Live' = Live
<1>0. /\ p \in PassIds /\ pass[p].st = "live" /\ DatesTyped
      /\ Fine(pass[p].start, pass[p].end, susp[p], today)
      /\ today <= pass[p].end => p \in Valid
  BY Rows, Calendar DEF Live
<1>1. OnlyOn(p)
  BY <1>0 DEF OnlyOn, DatesTyped
<1> QED BY <1>0, <1>1, Redated

LEMMA ProlongationSteps ==
    ASSUME IInv, NEW p \in PassIds, declare_prolongation(p) \/ grant(p) \/ deny(p)
    PROVE  DatesTyped' /\ Dated' /\ Live' = Live
<1>0. /\ DatesTyped /\ today \in Nat /\ pass[p].end \in Int
      /\ reqs \in [PassIds -> SUBSET Request] /\ \A r \in reqs[p] : r.start < r.end
  BY Rows, Calendar DEF DatesTyped, IInv, Dated, PassFine
<1>1. CASE declare_prolongation(p)
  <2>0. p \in Live /\ UNCHANGED <<susp, today>>
    BY <1>1 DEF declare_prolongation, can_be_prolonged, IsLatest, IsLatestValid, Valid, UnchangedFile
  <2>1. PICK end \in Int :
           /\ pass[p].end < end
           /\ \/ InsertProlongation(p, pass[p].end, end) /\ PutOff(p) /\ UNCHANGED reqs
              \/ /\ \E id \in ReqIds :
                       reqs' = [reqs EXCEPT ![p] = @ \cup
                         {[id |-> id, start |-> pass[p].end, end |-> end, st |-> "pending", info |-> FALSE]}]
                 /\ UNCHANGED <<pass, prol, late>>
    BY <1>0, <1>1, DaysAssumption DEF declare_prolongation
  <2>2. CASE InsertProlongation(p, pass[p].end, end) /\ PutOff(p) /\ UNCHANGED reqs
    BY <1>0, <2>0, <2>1, <2>2, Prolonged
  <2>3. ASSUME NEW id \in ReqIds,
               reqs' = [reqs EXCEPT ![p] = @ \cup
                 {[id |-> id, start |-> pass[p].end, end |-> end, st |-> "pending", info |-> FALSE]}],
               UNCHANGED <<pass, prol, late>>
        PROVE  DatesTyped' /\ Dated' /\ Live' = Live
    <3>1. PICK r : r = [id |-> id, start |-> pass[p].end, end |-> end, st |-> "pending", info |-> FALSE]
      OBVIOUS
    <3>2. r \in Request /\ r.start < r.end
      BY <1>0, <2>1, <3>1 DEF Request
    <3>3. /\ reqs' \in [PassIds -> SUBSET Request] /\ reqs'[p] = reqs[p] \cup {r}
          /\ \A q \in PassIds : q # p => reqs'[q] = reqs[q]
      BY <1>0, <2>3, <3>1, <3>2
    <3> QED BY <1>0, <2>0, <2>3, <3>2, <3>3, RequestsKept
  <2> QED BY <2>1, <2>2, <2>3
<1>2. ASSUME NEW r \in reqs[p], NEW t, t \in Request, t.start = r.start, t.end = r.end,
             reqs' = [reqs EXCEPT ![p] = (@ \ {r}) \cup {t}]
      PROVE  /\ reqs' \in [PassIds -> SUBSET Request] /\ p \in Live
             /\ \A q \in PassIds : q # p => reqs'[q] = reqs[q]
             /\ \A x \in reqs'[p] : x.start < x.end
  <2>1. p \in Live
    BY Calendar
  <2> QED BY <1>0, <1>2, <2>1
<1>3. CASE grant(p)
  <2>1. PICK r \in reqs[p] :
           /\ InsertProlongation(p, r.start, r.end)
           /\ reqs' = [reqs EXCEPT ![p] = (@ \ {r}) \cup {[r EXCEPT !.st = "granted"]}]
    BY <1>3 DEF grant
  <2>2. PICK t : t = [r EXCEPT !.st = "granted"]
    OBVIOUS
  <2>3. r \in Request /\ r.start \in Int /\ r.end \in Int /\ r.start < r.end
    BY <1>0 DEF Request
  <2>4. t \in Request /\ t.start = r.start /\ t.end = r.end
    BY <2>2, <2>3 DEF Request
  <2>5. PutOff(p) /\ UNCHANGED <<susp, today>>
    BY <1>3 DEF grant, UnchangedFile
  <2> QED BY <1>2, <2>1, <2>2, <2>3, <2>4, <2>5, Prolonged
<1>4. CASE deny(p)
  <2>1. PICK r \in reqs[p] :
           reqs' = [reqs EXCEPT ![p] = (@ \ {r}) \cup {[r EXCEPT !.st = "denied", !.info = TRUE]}]
    BY <1>4 DEF deny
  <2>2. PICK t : t = [r EXCEPT !.st = "denied", !.info = TRUE]
    OBVIOUS
  <2>3. r \in Request
    BY <1>0
  <2>4. t \in Request /\ t.start = r.start /\ t.end = r.end
    BY <2>2, <2>3 DEF Request
  <2>5. UNCHANGED <<pass, susp, prol, late, today>>
    BY <1>4 DEF deny, UnchangedFile
  <2> QED BY <1>2, <2>1, <2>2, <2>4, <2>5, RequestsKept
<1> QED BY <1>1, <1>3, <1>4

LEMMA TerminateStep ==
    ASSUME IInv, NEW p \in PassIds, terminate_approval(p) PROVE DatesTyped' /\ Dated' /\ Live' = Live
<1>0. /\ p \in Valid /\ p \in Live /\ pass[p].st = "live" /\ pass[p].start < today
      /\ DatesTyped /\ today \in Int /\ pass[p].start \in Int /\ pass[p].end \in Int
      /\ susp[p] \subseteq Dates /\ prol[p] \subseteq Dates /\ PassFine(p)
      /\ Fine(pass[p].start, pass[p].end, susp[p], today)
      /\ UNCHANGED <<reqs, late, today>>
  BY Rows, Calendar DEF terminate_approval, Valid, Live, UnchangedFile, IInv, Dated
<1>1. /\ Fine(pass[p].start, today, _clip_approval_dependency(susp[p]), today)
      /\ _clip_approval_dependency(susp[p]) \subseteq Dates
  BY <1>0, FineClipped
<1>2. _clip_approval_dependency(prol[p]) \subseteq Dates
  <2>1. \A x \in prol[p] : [x EXCEPT !.end = today] \in Dates
    BY <1>0 DEF Dates
  <2> QED BY <1>0, <2>1 DEF _clip_approval_dependency
<1>3. /\ susp' = [susp EXCEPT ![p] = _clip_approval_dependency(susp[p])]
      /\ prol' = [prol EXCEPT ![p] = _clip_approval_dependency(prol[p])]
      /\ pass' = [pass EXCEPT ![p].end = today]
  BY <1>0 DEF terminate_approval, DatesTyped
<1>4. /\ pass' \in [PassIds -> PassRow]
      /\ pass'[p].st = "live" /\ pass'[p].start = pass[p].start /\ pass'[p].end = today
      /\ \A q \in PassIds : q # p => pass'[q] = pass[q]
  BY <1>0, <1>3, EndUpdated
<1>5. /\ susp' \in [PassIds -> SUBSET Dates] /\ susp'[p] = _clip_approval_dependency(susp[p])
      /\ prol' \in [PassIds -> SUBSET Dates]
      /\ \A q \in PassIds : q # p => susp'[q] = susp[q]
  BY <1>0, <1>1, <1>2, <1>3 DEF DatesTyped
<1>6. OnlyOn(p)
  BY <1>0, <1>4, <1>5 DEF OnlyOn, DatesTyped
<1>7. \A r \in reqs'[p] : r.start < r.end
  BY <1>0 DEF PassFine
<1> QED BY <1>0, <1>1, <1>4, <1>5, <1>6, <1>7, Redated

LEMMA AdminStep ==
    ASSUME IInv, NEW p \in PassIds, AdminSaveModel(p) PROVE DatesTyped' /\ Dated' /\ Live' = Live
<1>0. /\ p \in Live /\ pass[p].st = "live" /\ pass[p] \in PassRow /\ DatesTyped /\ today \in Int
      /\ pass[p].start \in Int /\ pass[p].end \in Int /\ susp[p] \subseteq Dates /\ PassFine(p)
      /\ Fine(pass[p].start, pass[p].end, susp[p], today)
      /\ UNCHANGED <<susp, prol, reqs, today>> /\ PutOff(p)
  BY Rows, Calendar DEF AdminSaveModel, Live, UnchangedFile, IInv, Dated
<1>1. PICK d \in Days :
         /\ \A o \in susp[p] \cup prol[p] : d <= o.start
         /\ pass' = [pass EXCEPT ![p] = [pass[p] EXCEPT !.start = d,
                                                        !.end = pass[p].end + d - pass[p].start]]
  BY <1>0 DEF AdminSaveModel, DatesTyped
<1> DEFINE e == pass[p].end + d - pass[p].start
<1>2. d \in Int /\ e \in Int
  BY <1>0 DEF Days
<1>3. Fine(d, e, susp[p], today)
  BY <1>0, <1>1, <1>2, FineMoved
<1>3a. PICK x : x = [pass[p] EXCEPT !.start = d, !.end = e]
  OBVIOUS
<1>3b. pass' = [pass EXCEPT ![p] = x]
  BY <1>1, <1>3a
<1> HIDE DEF e
<1>3c. /\ pass' \in [PassIds -> PassRow]
       /\ pass'[p].st = pass[p].st /\ pass'[p].start = d /\ pass'[p].end = e
       /\ \A q \in PassIds : q # p => pass'[q] = pass[q]
  BY <1>2, <1>3a, <1>3b, DatesUpdated, Zenon
<1>4. /\ pass' \in [PassIds -> PassRow]
      /\ pass'[p].st = "live" /\ pass'[p].start = d /\ pass'[p].end = e
      /\ \A q \in PassIds : q # p => pass'[q] = pass[q]
  BY <1>0, <1>3c
<1>5. late \subseteq late' /\ late' \subseteq PassIds /\ p \in Valid \cup late'
  BY <1>0 DEF PutOff, DatesTyped
<1>6. OnlyOn(p)
  BY <1>0, <1>4, <1>5 DEF OnlyOn, DatesTyped
<1>7. \A r \in reqs'[p] : r.start < r.end
  BY <1>0 DEF PassFine
<1> QED BY <1>0, <1>3, <1>4, <1>5, <1>6, <1>7, Redated

LEMMA PeriodStep ==
    ASSUME IInv, NEW p \in PassIds, Period(p) PROVE IInv' /\ HiringObsoletes
<1>1. DatesTyped' /\ Dated' /\ Live' = Live
  BY SuspendStep, SuspensionSteps, ProlongationSteps, TerminateStep, AdminStep DEF Period
<1>2. UNCHANGED <<app, diagnosis, geiqValid, identified>>
  BY DEF Period, UnchangedFile, suspend, suspension_update, suspension_update_enddate,
         suspension_delete, declare_prolongation, grant, deny, terminate_approval, AdminSaveModel
<1>3. app' \in [Apps -> Row] /\ FileTyped' /\ \A a \in Apps : RowOK(app'[a]) /\ SameHiring(app[a], app'[a])
  BY <1>2, Rows DEF FileTyped, SameHiring
<1> QED BY <1>1, <1>3, HiringsKept, Together

(***************************************************************************)
(* The operations that save one row and leave the hirings alone.           *)
(***************************************************************************)
LEMMA Transitions ==
    /\ {"process", "postpone", "add_to_pool", "refuse", "reset", "external_transfer"} \subseteq DOMAIN To
    /\ InScope \subseteq Companies
  BY DEF To, InScope, Companies

LEMMA RowStep ==
    ASSUME IInv, NEW a \in Apps,
           \/ Submit(a) \/ Answer(a) \/ AddPriorAction(a) \/ DeletePriorAction(a)
           \/ AddComment(a) \/ DeleteComment(a) \/ Transfer(a) \/ Archive(a) \/ Unarchive(a)
           \/ ManuallyRefuseApproval(a) \/ CreateFiche(a) \/ SendFiche(a)
    PROVE  IInv' /\ HiringObsoletes
<1>0. app \in [Apps -> Row] /\ RowOK(app[a]) /\ app[a] \in Row
  BY Rows
<1>1. SUFFICES \E s : /\ RowOK(s) /\ SameHiring(app[a], s) /\ app' = [app EXCEPT ![a] = s]
                      /\ UNCHANGED <<pass, periods, diagnosis, geiqValid, identified, today>>
  BY QuietRow
<1>2. CASE Submit(a)
  <2>1. PICK c \in InScope : app' = [app EXCEPT ![a] = NewRow(c, "new")]
    BY <1>2 DEF Submit
  <2>2. /\ RowOK(NewRow(c, "new")) /\ NewRow(c, "new").st = "new"
        /\ NewRow(c, "new").pass = 0 /\ NewRow(c, "new").hire = -1
    BY Transitions, SentRow
  <2>3. app[a].st = "none" /\ app[a].pass = 0
    BY <1>0, <1>2 DEF Submit, RowOK, FieldConstraints, Reset
  <2>4. SameHiring(app[a], NewRow(c, "new"))
    BY <2>2, <2>3 DEF SameHiring
  <2> QED BY <1>2, <2>1, <2>2, <2>4 DEF Submit
<1>3. CASE Answer(a)
  <2>1. PICK tr \in {"process", "postpone", "add_to_pool", "refuse", "reset"} :
           app[a].st \in From[tr] /\ app' = [app EXCEPT ![a] = Fire(app[a], tr)]
    BY <1>3 DEF Answer
  <2>2. tr \in DOMAIN To /\ tr \notin {"accept", "cancel", "move_to_prior_to_hire"}
    BY Transitions
  <2>3. RowOK(Fire(app[a], tr)) /\ SameHiring(app[a], Fire(app[a], tr))
    BY <1>0, <2>1, <2>2, PlainFiring
  <2> QED BY <1>3, <2>1, <2>3 DEF Answer
<1>4. CASE AddPriorAction(a)
  <2> DEFINE m == IF app[a].st = "prior_to_hire" THEN app[a] ELSE Fire(app[a], "move_to_prior_to_hire")
             s == WithPrior(m, app[a].prior + 1)
  <2>1. m.prior = app[a].prior
    <3>1. "move_to_prior_to_hire" \in DOMAIN To
      BY DEF To
    <3> QED BY <1>0, <3>1, Firing
  <2>2. app' = [app EXCEPT ![a] = [m EXCEPT !.prior = m.prior + 1]]
    BY <1>4 DEF AddPriorAction
  <2>3. app' = [app EXCEPT ![a] = s]
    BY <2>1, <2>2 DEF WithPrior
  <2>4. RowOK(s) /\ SameHiring(app[a], s)
    BY <1>0, <1>4, PriorAdded DEF AddPriorAction
  <2> QED BY <1>4, <2>3, <2>4 DEF AddPriorAction
<1>5. CASE DeletePriorAction(a)
  <2> DEFINE m == IF app[a].st = "prior_to_hire" /\ app[a].prior = 1
                  THEN Fire(app[a], "cancel_prior_to_hire") ELSE app[a]
             s == WithPrior(m, app[a].prior - 1)
  <2>1. m.prior = app[a].prior
    <3>1. "cancel_prior_to_hire" \in DOMAIN To
      BY DEF To
    <3> QED BY <1>0, <3>1, Firing
  <2>2. app' = [app EXCEPT ![a] = [m EXCEPT !.prior = m.prior - 1]]
    BY <1>5 DEF DeletePriorAction
  <2>3. app' = [app EXCEPT ![a] = s]
    BY <2>1, <2>2 DEF WithPrior
  <2>4. RowOK(s) /\ SameHiring(app[a], s)
    BY <1>0, <1>5, PriorDeleted DEF DeletePriorAction
  <2> QED BY <1>5, <2>3, <2>4 DEF DeletePriorAction
<1>6. CASE AddComment(a) \/ DeleteComment(a)
  <2>1. app[a].comments \subseteq {app[a].co}
    BY <1>0 DEF RowOK, FieldConstraints
  <2>2. PICK C \in SUBSET {app[a].co} : app' = [app EXCEPT ![a] = [app[a] EXCEPT !.comments = C]]
    <3>1. app[a].comments \cup {app[a].co} \in SUBSET {app[a].co}
          /\ app[a].comments \ {app[a].co} \in SUBSET {app[a].co}
      BY <2>1
    <3>2. CASE AddComment(a)
      BY <1>0, <3>1, <3>2 DEF AddComment
    <3>3. CASE DeleteComment(a)
      BY <1>0, <3>1, <3>3 DEF DeleteComment
    <3> QED BY <1>6, <3>2, <3>3
  <2>3. /\ RowOK([app[a] EXCEPT !.comments = C])
        /\ SameHiring(app[a], [app[a] EXCEPT !.comments = C])
    BY <1>0, CommentedRow
  <2> QED BY <1>6, <2>2, <2>3 DEF AddComment, DeleteComment
<1>7. CASE Transfer(a)
  <2>1. PICK c \in InScope :
           app' = [app EXCEPT ![a] = MovedTo(_reset_accepted_state(Fire(app[a], "transfer")), c)]
    BY <1>7 DEF Transfer, MovedTo
  <2>2. /\ RowOK(MovedTo(_reset_accepted_state(Fire(app[a], "transfer")), c))
        /\ SameHiring(app[a], MovedTo(_reset_accepted_state(Fire(app[a], "transfer")), c))
    BY <1>0, <1>7, Transitions, TransferredRow DEF Transfer
  <2> QED BY <1>7, <2>1, <2>2 DEF Transfer
<1>8. CASE Archive(a)
  <2>1. app' = [app EXCEPT ![a] = ArchivedAs(app[a], TRUE, TRUE)]
    BY <1>8 DEF Archive, ArchivedAs
  <2>2. app[a].st \notin {"accepted", "prior_to_hire"}
    BY <1>8 DEF Archive, ARCHIVABLE_JOB_APPLICATION_STATES_MANUAL
  <2>3. RowOK(ArchivedAs(app[a], TRUE, TRUE)) /\ SameHiring(app[a], ArchivedAs(app[a], TRUE, TRUE))
    BY <1>0, <2>2, ArchivedRow
  <2> QED BY <1>8, <2>1, <2>3 DEF Archive
<1>9. CASE Unarchive(a)
  <2>1. app' = [app EXCEPT ![a] = ArchivedAs(app[a], FALSE, FALSE)]
    BY <1>9 DEF Unarchive, ArchivedAs
  <2>2. RowOK(ArchivedAs(app[a], FALSE, FALSE)) /\ SameHiring(app[a], ArchivedAs(app[a], FALSE, FALSE))
    BY <1>0, ArchivedRow
  <2> QED BY <1>9, <2>1, <2>2 DEF Unarchive
<1>10. CASE ManuallyRefuseApproval(a)
  <2>1. app' = [app EXCEPT ![a] = [app[a] EXCEPT !.refused = TRUE]]
    BY <1>0, <1>10 DEF ManuallyRefuseApproval
  <2>2. /\ RowOK([app[a] EXCEPT !.refused = TRUE])
        /\ SameHiring(app[a], [app[a] EXCEPT !.refused = TRUE])
    BY <1>0, <1>10, RefusedRow DEF ManuallyRefuseApproval
  <2> QED BY <1>10, <2>1, <2>2 DEF ManuallyRefuseApproval
<1>11. CASE CreateFiche(a) \/ SendFiche(a)
  <2>1. PICK x \in {"none", "new", "sent"} : app' = [app EXCEPT ![a] = [app[a] EXCEPT !.fiche = x]]
    BY <1>0, <1>11 DEF CreateFiche, SendFiche
  <2>2. RowOK([app[a] EXCEPT !.fiche = x]) /\ SameHiring(app[a], [app[a] EXCEPT !.fiche = x])
    BY <1>0, FicheRow
  <2> QED BY <1>11, <2>1, <2>2 DEF CreateFiche, SendFiche
<1> QED BY <1>2, <1>3, <1>4, <1>5, <1>6, <1>7, <1>8, <1>9, <1>10, <1>11

(* The operations that save several rows.                                  *)
LEMMA BatchStep ==
    ASSUME IInv, AutoReject \/ AutoArchive \/ \E a, b \in Apps : a # b /\ ExternalTransfer(a, b)
    PROVE  IInv' /\ HiringObsoletes
<1>0. app \in [Apps -> Row] /\ \A a \in Apps : RowOK(app[a]) /\ SameHiring(app[a], app[a])
  BY Rows DEF SameHiring
<1>1. UNCHANGED <<pass, periods, diagnosis, geiqValid, identified, today>>
  BY DEF AutoReject, AutoArchive, ExternalTransfer
<1>2. FileTyped'
  BY <1>1, Rows DEF FileTyped
<1>3. SUFFICES /\ \A a \in Apps : RowOK(app'[a]) /\ SameHiring(app[a], app'[a])
               /\ app' = [a \in Apps |-> app'[a]]
  <2>1. app' \in [Apps -> Row]
    BY <1>3 DEF RowOK
  <2> QED BY <1>1, <1>2, <1>3, <2>1, Quiet
<1>4. CASE AutoReject
  <2>1. PICK S \in SUBSET Apps :
           /\ \A a \in S : app[a].st \in AUTO_REJECT_JOB_APPLICATION_STATES
           /\ app' = [a \in Apps |-> IF a \in S THEN Fire(app[a], "refuse") ELSE app[a]]
    BY <1>4 DEF AutoReject
  <2>2. ASSUME NEW a \in Apps PROVE RowOK(app'[a]) /\ SameHiring(app[a], app'[a])
    <3>1. CASE a \in S
      <4>1. app[a].st \in From["refuse"] /\ app'[a] = Fire(app[a], "refuse")
        BY <2>1, <3>1 DEF From, AUTO_REJECT_JOB_APPLICATION_STATES
      <4>2. RowOK(Fire(app[a], "refuse")) /\ SameHiring(app[a], Fire(app[a], "refuse"))
        BY <1>0, <4>1, Transitions, PlainFiring
      <4> QED BY <4>1, <4>2
    <3>2. CASE a \notin S
      BY <1>0, <2>1, <3>2
    <3> QED BY <3>1, <3>2
  <2>3. app' = [a \in Apps |-> app'[a]]
    BY <2>1
  <2> QED BY <2>2, <2>3
<1>5. CASE AutoArchive
  <2>1. PICK S \in SUBSET Archivable :
           /\ \A a \in S : app[a].st \in ARCHIVABLE_JOB_APPLICATION_STATES
           /\ app' = [a \in Apps |-> [app[a] EXCEPT !.archived = @ \/ a \in S]]
    BY <1>5 DEF AutoArchive
  <2>2. ASSUME NEW a \in Apps PROVE RowOK(app'[a]) /\ SameHiring(app[a], app'[a])
    <3>1. app'[a] = [app[a] EXCEPT !.archived = app[a].archived \/ a \in S]
      BY <2>1
    <3>2. app[a] \in Row /\ app[a].archived \in BOOLEAN /\ app[a].archivedBy \in BOOLEAN
      BY <1>0 DEF Row
    <3>3. PICK x \in BOOLEAN : x = (app[a].archived \/ a \in S)
      OBVIOUS
    <3>4. PICK y \in BOOLEAN : y = app[a].archivedBy
      BY <3>2
    <3>5. app'[a] = ArchivedAs(app[a], x, y)
      BY <3>1, <3>2, <3>3, <3>4 DEF ArchivedAs, Row
    <3>6. /\ x = FALSE => y = FALSE
          /\ app[a].st \notin {"accepted", "prior_to_hire"} \/ x = FALSE
      <4>1. /\ app[a].archived = FALSE => app[a].archivedBy = FALSE
            /\ app[a].st \in {"accepted", "prior_to_hire"} => app[a].archived = FALSE
        BY <1>0 DEF RowOK, FieldConstraints
      <4>2. x = FALSE => app[a].archived = FALSE
        BY <3>2, <3>3
      <4>3. app[a].st \in {"accepted", "prior_to_hire"} => a \notin S
        BY <2>1 DEF ARCHIVABLE_JOB_APPLICATION_STATES, PENDING_STATES
      <4> QED BY <3>3, <3>4, <4>1, <4>2, <4>3
    <3> QED BY <1>0, <3>5, <3>6, ArchivedRow
  <2>3. app' = [a \in Apps |-> app'[a]]
    BY <2>1
  <2> QED BY <2>2, <2>3
<1>6. CASE \E a, b \in Apps : a # b /\ ExternalTransfer(a, b)
  <2>1. PICK a \in Apps, b \in Apps : a # b /\ ExternalTransfer(a, b)
    BY <1>6
  <2>2. PICK c \in InScope :
           app' = [app EXCEPT ![b] = NewRow(c, "new"), ![a] = Fire(app[a], "external_transfer")]
    BY <2>1 DEF ExternalTransfer
  <2>3. /\ app'[a] = Fire(app[a], "external_transfer") /\ app'[b] = NewRow(c, "new")
        /\ \A d \in Apps : d # a /\ d # b => app'[d] = app[d]
        /\ app' = [d \in Apps |-> app'[d]]
    BY <1>0, <2>1, <2>2
  <2>4. RowOK(app'[a]) /\ SameHiring(app[a], app'[a])
    BY <1>0, <2>1, <2>3, Transitions, PlainFiring DEF ExternalTransfer
  <2>5. RowOK(app'[b]) /\ SameHiring(app[b], app'[b])
    <3>1. /\ RowOK(NewRow(c, "new")) /\ NewRow(c, "new").st = "new"
          /\ NewRow(c, "new").pass = 0 /\ NewRow(c, "new").hire = -1
      BY Transitions, SentRow
    <3>2. app[b].st = "none" /\ app[b].pass = 0
      BY <1>0, <2>1 DEF ExternalTransfer, RowOK, FieldConstraints, Reset
    <3> QED BY <2>3, <3>1, <3>2 DEF SameHiring
  <2> QED BY <1>0, <2>3, <2>4, <2>5
<1> QED BY <1>4, <1>5, <1>6

(* The file of the job seeker, and time.                                   *)
LEMMA FileStep ==
    ASSUME IInv, Diagnose \/ Identify
    PROVE  IInv' /\ HiringObsoletes
<1>0. app \in [Apps -> Row] /\ \A a \in Apps : RowOK(app[a]) /\ SameHiring(app[a], app[a])
  BY Rows DEF SameHiring
<1>1. UNCHANGED <<app, pass, periods, today>> /\ FileTyped'
  BY Rows DEF Diagnose, Identify, FileTyped
<1> QED BY <1>0, <1>1, Quiet

LEMMA NextDayStep ==
    ASSUME IInv, NextDay PROVE IInv' /\ HiringObsoletes
<1>0. /\ \A a \in Apps : RowOK(app[a])
      /\ app \in [Apps -> Row] /\ DatesTyped /\ FileTyped /\ today \in Nat
  BY Rows
<1>1. /\ today' = today + 1 /\ today' \in 0..MaxDay
      /\ UNCHANGED <<app, pass, susp, prol, reqs, late>> /\ FileTyped'
  BY <1>0, Numbers DEF NextDay, FileTyped, periods
<1>2. DatesTyped'
  BY <1>0, <1>1 DEF DatesTyped
<1>3. Live' = Live
  BY <1>1 DEF Live
<1>4. app' \in [Apps -> Row] /\ \A a \in Apps : RowOK(app'[a]) /\ SameHiring(app[a], app'[a])
  BY <1>0, <1>1 DEF SameHiring
<1>5. Valid' \subseteq Valid
  <2>1. \A p \in Live : pass[p].end \in Int
    BY Calendar DEF Live
  <2> QED BY <1>0, <1>1, <1>3, <2>1 DEF Valid, is_valid
<1>6. \A p \in PassIds : PassFine(p)'
  <2> SUFFICES ASSUME NEW p \in PassIds PROVE PassFine(p)'
    OBVIOUS
  <2>1. PassFine(p) /\ pass[p].start \in Int /\ pass[p].end \in Int /\ susp[p] \subseteq Dates
    BY Calendar DEF IInv, Dated
  <2>2. CASE pass[p].st = "live"
    <3>1. Fine(pass[p].start, pass[p].end, susp[p], today)
      BY <2>1, <2>2 DEF PassFine
    <3>2. Fine(pass[p].start, pass[p].end, susp[p], today + 1)
      BY <1>0, <2>1, <3>1, FineNextDay
    <3> QED BY <1>1, <2>1, <2>2, <3>2 DEF PassFine
  <2>3. CASE pass[p].st # "live"
    BY <1>1, <2>1, <2>3 DEF PassFine
  <2> QED BY <2>2, <2>3
<1>7. IdsInOrder' /\ OverOrLate'
  BY <1>1, <1>3, <1>5 DEF IInv, Dated, IdsInOrder, OverOrLate
<1> QED BY <1>1, <1>2, <1>3, <1>4, <1>6, <1>7, HiringsKept, Together DEF Dated

LEMMA InitStep ==
    ASSUME Init PROVE IInv
<1>1. PICK c \in Companies : app = [a \in Apps |-> NewRow(c, "none")]
  BY CompaniesAssumption DEF Init
<1>2. /\ RowOK(NewRow(c, "none")) /\ NewRow(c, "none").st = "none"
      /\ NewRow(c, "none").pass = 0
  BY SentRow
<1>3. \A a \in Apps : /\ RowOK(app[a]) /\ app[a].st = "none" /\ app[a].pass = 0
                      /\ app[a] \in Row
  BY <1>1, <1>2 DEF RowOK
<1>4. pass \in [PassIds -> PassRow] /\ \A p \in PassIds : pass[p].st = "none"
  <2>1. NoPass \in PassRow
    BY Numbers DEF NoPass, PassRow
  <2>2. NoPass.st = "none"
    BY DEF NoPass
  <2> QED BY <2>1, <2>2 DEF Init
<1>5. Live = {} /\ Valid = {}
  BY <1>4 DEF Live, Valid
<1>6. TypeOK
  <2>1. today = 0 /\ today \in 0..MaxDay
    BY Numbers DEF Init
  <2>2. diagnosis \in {"none", "valid", "expired"} /\ geiqValid = FALSE /\ identified \in BOOLEAN
    BY DEF Init
  <2>3. /\ susp \in [PassIds -> SUBSET Dates] /\ prol \in [PassIds -> SUBSET Dates]
        /\ reqs \in [PassIds -> SUBSET Request] /\ late \subseteq PassIds
    BY DEF Init
  <2>4. app \in [Apps -> Row]
    BY <1>1, <1>3
  <2> QED BY <1>4, <2>1, <2>2, <2>3, <2>4 DEF TypeOK, PassRow
<1>7. Hired
  <2>1. CheckConstraints
    BY <1>3, Constraints DEF CheckConstraints, RowOK
  <2> QED BY <1>3, <1>5, <2>1 DEF Hired, AcceptedHasPass, NoOrphanPass, PassInUse
<1>8. Dated
  <2>1. \A p \in PassIds : susp[p] = {} /\ reqs[p] = {}
    BY DEF Init
  <2> QED BY <1>4, <1>5, <2>1 DEF Dated, IdsInOrder, OverOrLate, PassFine
<1> QED BY <1>6, <1>7, <1>8 DEF IInv

LEMMA Step ==
    ASSUME IInv, [Next]_vars PROVE IInv' /\ HiringObsoletes
<1>1. ASSUME NEW a \in Apps, Hiring(a) \/ Following(a) PROVE IInv' /\ HiringObsoletes
  BY <1>1, RowStep, AcceptOutsideStep, AcceptWithPassStep, AcceptAwaitingStep, DeliverStep,
     CancelStep, EditStep DEF Hiring, Following
<1>2. CASE AutoReject \/ AutoArchive \/ \E a, b \in Apps : a # b /\ ExternalTransfer(a, b)
  BY <1>2, BatchStep
<1>3. CASE \E p \in WithPeriods : Period(p)
  BY <1>3, CompaniesAssumption, PeriodStep
<1>4. CASE Diagnose \/ Identify
  BY <1>4, FileStep
<1>5. CASE NextDay
  BY <1>5, NextDayStep
<1>6. CASE UNCHANGED vars
  <2>1. app \in [Apps -> Row] /\ \A a \in Apps : RowOK(app[a]) /\ SameHiring(app[a], app[a])
    BY Rows DEF SameHiring
  <2>2. UNCHANGED <<app, pass, periods, today>> /\ FileTyped'
    BY <1>6, Rows DEF vars, periods, FileTyped
  <2> QED BY <2>1, <2>2, Quiet
<1> QED BY <1>1, <1>2, <1>3, <1>4, <1>5, <1>6 DEF Next

(* IInv holds of every history of the applications of a job seeker, of his *)
(* PASS and of their periods.                                              *)
THEOREM Inductive == Spec => []IInv
<1>1. Init => IInv
  BY InitStep
<1>2. IInv /\ [Next]_vars => IInv'
  BY Step
<1> QED BY <1>1, <1>2, PTL DEF Spec

(* No sequence of requests and commands breaks a constraint of the table   *)
(* of applications, nor what no constraint forbids.                        *)
THEOREM RowsCoherent == Spec => []CheckConstraints
<1>1. IInv => CheckConstraints
  BY DEF IInv, Hired
<1> QED BY <1>1, Inductive, PTL

(* Two valid PASS, when requests come one at a time, are a PASS that was   *)
(* over and whose end was put off, and the one issued meanwhile.           *)
THEOREM SecondPassComesBack == Spec => []OneValidPassInTime
<1>1. IInv => OneValidPassInTime
  BY DEF IInv, Dated, OverOrLate, OneValidPassInTime, Valid
<1> QED BY <1>1, Inductive, PTL

(* Whatever is suspended, prolonged, lifted, moved or closed, and in any   *)
(* order, the triggers do not take the end of a PASS before its start.     *)
THEOREM PassKeepsItsOrder == Spec => []NeverEndsBeforeItStarts
<1>1. ASSUME IInv PROVE NeverEndsBeforeItStarts
  <2>1. \A p \in Live : Fine(pass[p].start, pass[p].end, susp[p], today)
    BY <1>1, Calendar DEF Live
  <2> QED BY <2>1 DEF Fine, NeverEndsBeforeItStarts
<1> QED BY <1>1, Inductive, PTL

(* A hiring in the IAE has a PASS that lives, or waits for a manual        *)
(* delivery.                                                               *)
THEOREM HiringsHavePass == Spec => []AcceptedHasPass
<1>1. IInv => AcceptedHasPass
  BY DEF IInv, Hired
<1> QED BY <1>1, Inductive, PTL

(* Cancelling the last hiring of a PASS deletes it.                        *)
THEOREM PassHasHiring == Spec => []NoOrphanPass
<1>1. IInv => NoOrphanPass
  BY DEF IInv, Hired
<1> QED BY <1>1, Inductive, PTL

(* The step that accepts an application leaves no other one pending.       *)
THEOREM HiringEndsSearch == Spec => ObsoleteOnAccept
<1>1. IInv /\ [Next]_vars =>
        [\A a \in Apps : app[a].st # "accepted" /\ app'[a].st = "accepted" =>
            \A b \in Apps \ {a} : app'[b].st \notin PENDING_STATES]_vars
  BY Step DEF HiringObsoletes
<1> QED BY <1>1, Inductive, PTL DEF Spec, ObsoleteOnAccept
=============================================================================
