-------------------------- MODULE GeiqAssessments --------------------------
(***************************************************************************)
(* The assessment ("bilan d'execution") of a GEIQ: itou/geiq_assessments   *)
(* and itou/www/geiq_assessments_views.                                    *)
(*                                                                         *)
(* A request of a user is two steps: it reads the assessment, which no     *)
(* view locks, then writes it according to what it read.  A transition and *)
(* a ModelForm save the whole row, the other views only their fields.  The *)
(* check constraints of the table guard every write.  The PDF of Label is  *)
(* fetched by a task, under a lock of Redis that expires.                  *)
(*                                                                         *)
(* The dates of the row are kept as "set or not".  Writing again one that  *)
(* is set, after a later one, breaks their order and is refused: the same  *)
(* as no change.  The state is a function of the dates (constraints        *)
(* geiq_assessment_state_...).                                             *)
(***************************************************************************)
EXTENDS Integers, FiniteSets

CONSTANTS Contracts,
          Antennas,  \* the GEIQ and its antennas, as assessments cover them
          Tabs,      \* tabs of the browsers of the GEIQ, where requests run
          Workers,   \* threads of the consumer of tasks
          Versions,  \* of a comment or of a file: 0 stands for none
          Overlap    \* bound: requests that run at the same time in a race

ASSUME GeiqAssumption ==
    /\ 1 \in Versions /\ 0 \notin Versions /\ Overlap \in Nat
    /\ Tabs \cap {"ddets", "dreets"} = {} /\ IsFiniteSet(Tabs) /\ "free" \notin Workers

Institutions == {"ddets", "dreets"}
Users == Tabs \union Institutions

VARIABLES
    mode,    \* chosen once: "create", or the life of one assessment: "serial"
             \* requests, or "races", where requests run at the same time
             \* and the fetching of a PDF may outlive its lock
    form,    \* the creation form of a tab: antennas covered when shown, choice
    made,    \* how many assessments cover each antenna
    a,       \* the row of Assessment
    days,    \* days of a contract in the year: below, at or above 90
    c,       \* the rows of EmployeeContract
    seen,    \* what the request of a user read, or None
    queued,  \* tasks sync_assessment_file in the queue
    task,    \* what a worker does
    lock     \* the worker that holds the lock, or Free

creation == <<form, made>>
fetching == <<queued, task, lock>>
geiqVars == <<mode, form, made, a, days, c, seen, queued, task, lock>>

None == [at |-> "none"]
Free == "free"
Life == mode # "create"
(* The contents are told apart only where a property compares them.        *)
Texts == IF mode = "serial" THEN Versions ELSE {1}

NewAssessment ==
    [synced |-> FALSE, selected |-> FALSE, submitted |-> FALSE, grants |-> FALSE,
     decision |-> FALSE, reviewed |-> FALSE, final |-> FALSE,
     action |-> 0, comment |-> 0, pdf |-> 0]
NewContract == [requested |-> FALSE, justified |-> FALSE, granted |-> FALSE, refused |-> FALSE]

(* The creation of the assessment queues the task that fetches its PDF.    *)
GeiqInit ==
    /\ mode \in {"create", "serial", "races"}
    /\ form = [t \in Tabs |-> None] /\ made = [x \in Antennas |-> 0]
    /\ a = NewAssessment
    /\ days \in [Contracts -> {"below", "at", "above"}]
    /\ c = [k \in Contracts |-> NewContract]
    /\ seen = [u \in Users |-> None]
    /\ queued = 1 /\ task = [w \in Workers |-> "idle"] /\ lock = Free
    /\ mode = "create" => \A k \in Contracts : days[k] = "at"

(***************************************************************************)
(* Creation: an antenna is covered by one assessment of the campaign.      *)
(***************************************************************************)
(* A tab shows the form, in which the covered antennas are disabled.       *)
ShowForm(t) ==
    /\ mode = "create" /\ form[t] = None
    /\ \E choice \in (SUBSET {x \in Antennas : made[x] = 0}) \ {{}} :
          form' = [form EXCEPT ![t] = [at |-> "shown", choice |-> choice]]
    /\ UNCHANGED <<mode, made, a, days, c, seen, fetching>>

(* Mutant: the form is trusted as it was shown.                            *)
NoConflict(t) == TRUE
(* CreateForm.conflicting_antennas, computed under the campaign's lock.    *)
conflicting_antennas(t) == \A x \in form[t].choice : made[x] = 0

create_assessment(t) ==
    /\ mode = "create" /\ form[t] # None
    /\ made' = IF conflicting_antennas(t)
               THEN [x \in Antennas |-> IF x \in form[t].choice THEN made[x] + 1 ELSE made[x]]
               ELSE made
    /\ form' = [form EXCEPT ![t] = None]
    /\ UNCHANGED <<mode, a, days, c, seen, fetching>>

(***************************************************************************)
(* The writes.                                                             *)
(***************************************************************************)
(* The check constraints: a date is set only after those before it.        *)
Constraints(r) ==
    /\ r.selected => r.synced
    /\ r.submitted => r.selected /\ ~(r.comment = 0 /\ r.action = 0 /\ r.pdf = 0)
    /\ r.grants => r.submitted
    /\ r.decision => r.grants
    /\ r.reviewed => r.decision
    /\ r.final => r.reviewed
(* geiq_allowance_requested_or_not_granted.                                *)
ContractConstraint(k) == k.granted => k.requested

state_of(r) ==
    CASE ~r.submitted -> "NEW"
      [] r.submitted /\ ~r.reviewed -> "SUBMITTED"
      [] r.reviewed /\ ~r.final -> "REVIEWED"
      [] r.final -> "FINAL_REVIEWED"

(* The request of a user reads, and later ends with a write or without.    *)
Read(u) ==
    /\ Life /\ seen[u] = None
    /\ Cardinality({v \in Users : seen[v] # None}) < IF mode = "serial" THEN 1 ELSE Overlap
    /\ u \in Institutions => a.submitted
    /\ seen' = [seen EXCEPT ![u] = [at |-> "read", row |-> a, c |-> c]]
    /\ UNCHANGED <<mode, a, days, c, creation, fetching>>
Refused(u) ==
    /\ seen[u] # None /\ seen' = [seen EXCEPT ![u] = None]
    /\ UNCHANGED <<mode, a, days, c, creation, fetching>>

Row(u) == seen[u].row
Write(u, r, k) ==
    /\ Constraints(r) /\ \A x \in Contracts : ContractConstraint(k[x])
    /\ a' = r /\ c' = k
    /\ seen' = [seen EXCEPT ![u] = None]
    /\ UNCHANGED <<mode, days, creation>>
SaveRow(u, r) == Write(u, r, c) /\ UNCHANGED fetching
SaveContract(u, x, k) ==
    Write(u, a, [c EXCEPT ![x] = k]) /\ UNCHANGED fetching

(***************************************************************************)
(* The GEIQ.                                                               *)
(***************************************************************************)
(* The filter submitted_at__isnull of the views that edit.                 *)
editable(u) == ~Row(u).submitted

assessment_comment(u) ==
    /\ seen[u] # None /\ u \in Tabs
    /\ editable(u)
    /\ \E v \in Texts : Write(u, [Row(u) EXCEPT !.comment = v], c)
    /\ UNCHANGED fetching
upload_action_financial_assessment(u) ==
    /\ seen[u] # None /\ u \in Tabs
    /\ editable(u)
    /\ \E v \in Texts : Write(u, [a EXCEPT !.action = v], c)
    /\ UNCHANGED fetching

(* sync_employee_and_contracts locks the row and reads it again.           *)
assessment_contracts_sync(u) ==
    /\ seen[u] # None /\ u \in Tabs /\ ~Row(u).synced
    /\ ~a.synced
    /\ \E paid \in SUBSET Contracts :
          Write(u, [a EXCEPT !.synced = TRUE],
                [k \in Contracts |->
                    [NewContract EXCEPT !.requested = k \in paid /\ days[k] = "above"]])
    /\ UNCHANGED fetching

requires_justification(x, k) == k.requested /\ days[x] = "below"

toggle_requested(u) ==
    /\ seen[u] # None /\ u \in Tabs /\ Row(u).synced /\ ~Row(u).selected
    /\ \E x \in Contracts : SaveContract(u, x, [c[x] EXCEPT !.requested = ~@])

(* assessment_contracts_details, with AllowanceRequestJustificationForm.   *)
justify_request(u) ==
    /\ seen[u] # None /\ u \in Tabs /\ Row(u).synced /\ ~Row(u).selected
    /\ \E x \in Contracts :
          /\ requires_justification(x, seen[u].c[x])
          /\ SaveContract(u, x, [c[x] EXCEPT !.justified = TRUE])

contracts_awaiting_justification_geiq(u) ==
    \E x \in Contracts : requires_justification(x, seen[u].c[x]) /\ ~seen[u].c[x].justified

(* assessment_contracts_list: VALIDATE or INVALIDATE.                      *)
select_contracts(u) ==
    /\ seen[u] # None /\ u \in Tabs /\ ~Row(u).submitted
    /\ \/ /\ ~Row(u).selected /\ ~contracts_awaiting_justification_geiq(u)
          /\ SaveRow(u, [a EXCEPT !.selected = TRUE])
       \/ /\ Row(u).selected
          /\ SaveRow(u, [a EXCEPT !.selected = FALSE])

(* Mutant: the PDF is not asked for.                                       *)
SubmitWithoutPdf(r) == r.action # 0 /\ r.selected /\ r.comment # 0
missing_actions_to_submit(r) == r.pdf # 0 /\ r.action # 0 /\ r.selected /\ r.comment # 0

(* Submission preselects the contracts that were not refused before.       *)
submit(u) ==
    /\ seen[u] # None /\ u \in Tabs
    /\ state_of(Row(u)) = "NEW" /\ missing_actions_to_submit(Row(u))
    /\ Write(u, [Row(u) EXCEPT !.submitted = TRUE],
             [x \in Contracts |->
                 IF c[x].refused THEN c[x] ELSE [c[x] EXCEPT !.granted = c[x].requested]])
    /\ UNCHANGED fetching

(* assessment_sync_file schedules the task again.                          *)
assessment_sync_file(u) ==
    /\ seen[u] # None /\ u \in Tabs
    /\ Row(u).pdf = 0
    /\ queued = 0 /\ queued' = 1
    /\ seen' = [seen EXCEPT ![u] = None]
    /\ UNCHANGED <<mode, a, days, c, task, lock, creation>>

(***************************************************************************)
(* The institutions.                                                       *)
(***************************************************************************)
(* Mutant: the selection is frozen by the review only.                     *)
UnfrozenByValidation(r) == ~r.reviewed
grants_open(r) == ~r.grants

(* assessment_contracts_toggle and the buttons of the details.             *)
toggle_granted(u) ==
    /\ seen[u] # None /\ u \in Institutions /\ grants_open(Row(u))
    /\ \E x \in Contracts :
          /\ seen[u].c[x].requested
          /\ \/ SaveContract(u, x, [c[x] EXCEPT !.granted = FALSE])
             \/ SaveContract(u, x, [c[x] EXCEPT !.granted = TRUE, !.refused = FALSE])

justify_refusal(u) ==
    /\ seen[u] # None /\ u \in Institutions /\ grants_open(Row(u))
    /\ \E x \in Contracts :
          /\ seen[u].c[x].requested /\ ~seen[u].c[x].granted
          /\ SaveContract(u, x, [c[x] EXCEPT !.refused = TRUE])

contracts_awaiting_justification_institution(u) ==
    \E x \in Contracts :
       LET k == seen[u].c[x] IN k.requested /\ ~k.granted /\ ~k.refused

(* assessment_contracts_list: VALIDATE or INVALIDATE.                      *)
select_grants(u) ==
    /\ seen[u] # None /\ u \in Institutions /\ ~Row(u).reviewed
    /\ \/ /\ ~Row(u).grants /\ ~contracts_awaiting_justification_institution(u)
          /\ SaveRow(u, [a EXCEPT !.grants = TRUE])
       \/ /\ Row(u).grants
          /\ SaveRow(u, [a EXCEPT !.grants = FALSE, !.decision = FALSE])

(* ReviewForm.save.                                                        *)
assessment_review(u) ==
    /\ seen[u] # None /\ u \in Institutions
    /\ Row(u).grants /\ ~Row(u).reviewed
    /\ SaveRow(u, [Row(u) EXCEPT !.decision = TRUE])

review(u) ==
    /\ seen[u] # None /\ u = "ddets" /\ state_of(Row(u)) = "SUBMITTED"
    /\ SaveRow(u, [Row(u) EXCEPT !.reviewed = TRUE])
final_review(u) ==
    /\ seen[u] # None /\ u = "dreets" /\ state_of(Row(u)) \in {"SUBMITTED", "REVIEWED"}
    /\ SaveRow(u, [Row(u) EXCEPT !.reviewed = TRUE, !.final = TRUE])

ask_for_institution_fix(u) ==
    /\ seen[u] # None /\ u = "dreets" /\ state_of(Row(u)) = "REVIEWED"
    /\ Write(u, [Row(u) EXCEPT !.reviewed = FALSE], c)
    /\ UNCHANGED fetching
ask_for_geiq_fix(u) ==
    /\ seen[u] # None /\ u \in Institutions /\ state_of(Row(u)) \in {"SUBMITTED", "REVIEWED"}
    /\ Write(u, [Row(u) EXCEPT !.submitted = FALSE, !.reviewed = FALSE, !.decision = FALSE,
                               !.grants = FALSE, !.final = FALSE],
             [x \in Contracts |-> [c[x] EXCEPT !.granted = FALSE]])
    /\ UNCHANGED fetching

(***************************************************************************)
(* sync_assessment_file.                                                   *)
(***************************************************************************)
acquire(w) == lock = Free

(* The task takes the lock or ends, and ends too when the PDF is there.    *)
StartTask(w) ==
    /\ Life /\ queued > 0 /\ task[w] = "idle"
    /\ queued' = queued - 1
    /\ LET run == acquire(w) /\ a.pdf = 0 IN
          /\ task' = IF run THEN [task EXCEPT ![w] = "fetching"] ELSE task
          /\ lock' = IF run THEN w ELSE lock
    /\ UNCHANGED <<mode, a, days, c, seen, creation>>
(* release() of a lock that expired, or is another task's, only raises.    *)
Release(w) ==
    /\ task' = [task EXCEPT ![w] = "idle"]
    /\ lock' = IF lock = w THEN Free ELSE lock
PdfFetched(w) ==
    /\ task[w] = "fetching"
    /\ \E v \in Texts : a' = [a EXCEPT !.pdf = v]
    /\ Release(w)
    /\ UNCHANGED <<mode, days, c, seen, queued, creation>>
(* The error is remembered for three minutes, which only delays a retry.   *)
PdfFails(w) ==
    /\ task[w] = "fetching" /\ Release(w)
    /\ UNCHANGED <<mode, a, days, c, seen, queued, creation>>
LockExpires ==
    /\ mode = "races" /\ lock # Free /\ lock' = Free
    /\ UNCHANGED <<mode, a, days, c, seen, queued, task, creation>>

GeiqStep(u) ==
    \/ assessment_comment(u) \/ upload_action_financial_assessment(u)
    \/ assessment_contracts_sync(u) \/ toggle_requested(u) \/ justify_request(u)
    \/ select_contracts(u) \/ submit(u) \/ assessment_sync_file(u)
InstitutionStep(u) ==
    \/ toggle_granted(u) \/ justify_refusal(u) \/ select_grants(u)
    \/ assessment_review(u) \/ review(u) \/ final_review(u)
    \/ ask_for_institution_fix(u) \/ ask_for_geiq_fix(u)

GeiqNext ==
    \/ \E t \in Tabs : ShowForm(t) \/ create_assessment(t)
    \/ \E u \in Users : Read(u) \/ Refused(u) \/ GeiqStep(u) \/ InstitutionStep(u)
    \/ \E w \in Workers : StartTask(w) \/ PdfFetched(w) \/ PdfFails(w)
    \/ LockExpires

GeiqSpec == GeiqInit /\ [][GeiqNext]_geiqVars

(***************************************************************************)
(* Properties.                                                             *)
(***************************************************************************)
(* Two assessments of a campaign never cover the same antenna, even when   *)
(* two users of the GEIQ fill in the form at the same time.                *)
OneAssessmentPerAntenna == \A x \in Antennas : made[x] <= 1

(* "Impossible d'avoir un envoi partiel": a submitted assessment has its   *)
(* comment, its two kinds of documents and its selection of contracts,     *)
(* whatever whole row is saved over it.  The constraint of the table only  *)
(* refuses a row in which everything is missing.                           *)
SubmittedIsComplete ==
    a.submitted => a.selected /\ a.comment # 0 /\ a.action # 0 /\ a.pdf # 0

Requested == [x \in Contracts |-> <<c[x].requested, c[x].justified>>]
Granted == [x \in Contracts |-> c[x].granted]

(* What the institution reviews is what the GEIQ submitted, and what it    *)
(* decides on is what it granted: when requests come one at a time, the    *)
(* documents and the contracts presented stay as they are while the        *)
(* assessment is submitted, as long as a task is done with a PDF within    *)
(* the minute of its lock; and a decision is withdrawn before the grants   *)
(* its amounts come from can change.                                       *)
SubmittedIsFrozen ==
    [][mode = "serial" =>
          /\ a.submitted /\ a'.submitted =>
                /\ <<a.comment, a.action, a.pdf>>' = <<a.comment, a.action, a.pdf>>
                /\ Requested' = Requested
          /\ a.decision /\ a'.decision => Granted' = Granted]_geiqVars
=============================================================================
