--------------------------- MODULE JobApplication ---------------------------
(***************************************************************************)
(* The applications of one job seeker and the PASS IAE they obtain         *)
(* (itou/job_applications, with the views of itou/www/apply and the PASS   *)
(* rules of itou/approvals and itou/users), with what changes the dates of *)
(* these PASS: suspensions, prolongations and the support.                 *)
(*                                                                         *)
(* Each action is one request or one command of the scheduler, taken as a  *)
(* whole: what requests do to each other inside a transaction is the       *)
(* subject of HiringRaces and ApprovalNumber.  Dates are days; a PASS      *)
(* lasts PassDays (730 in the code), its waiting period WaitDays (2 years).*)
(***************************************************************************)
EXTENDS Integers

CONSTANTS Apps,          \* applications of the job seeker
          Authorized,    \* those sent by an authorized prescriber
          Iae,           \* companies subject to the IAE rules
          Geiq,          \* GEIQ companies
          Others,        \* companies of any other kind
          NumPass,       \* bound: PASS IAE that may be issued
          PassDays,      \* DEFAULT_APPROVAL_DAYS
          WaitDays,      \* WAITING_PERIOD_YEARS
          HireWindow,    \* a hiring starts at most that far ahead (6 months)
          PostponeDays,  \* MAX_CONTRACT_POSTPONE_IN_DAYS
          OpenBefore,    \* IS_OPEN_TO_PROLONGATION_BOUNDARIES_MONTHS_BEFORE_END
          OpenAfter,     \* IS_OPEN_TO_PROLONGATION_BOUNDARIES_MONTHS_AFTER_END
          SuspensionMax, \* Suspension.MAX_DURATION_MONTHS
          ProlongationMax, \* the longest prolongation
          NumRequests,   \* bound: prolongation requests of a PASS
          MaxDay,        \* bound: the last day of the calendar
          PeriodsDay,    \* bound: its last day with periods about
          MaxPrior,      \* bound: prior actions of an application
          Archivable,    \* bound: the applications that may get archived
          Commented,     \* bound: the applications that may get comments
          Cancellable,   \* bound: the hirings that may get cancelled with periods about
          WithPeriods,   \* bound: the PASS whose periods and dates may change
          Scopes         \* bound: {"all"}, or the slices TLC explores (scope)

PassIds == 1..NumPass
ReqIds == 1..NumRequests
Companies == Iae \cup Geiq \cup Others
Days == 0..(MaxDay + HireWindow + PassDays)

ASSUME CompaniesAssumption ==
    /\ Authorized \subseteq Apps /\ Archivable \subseteq Apps /\ Commented \subseteq Apps
    /\ Cancellable \subseteq Apps /\ WithPeriods \subseteq PassIds
    /\ Companies # {} /\ Scopes \subseteq {"all", "wide", "long", "periods"}
    /\ Iae \cap Geiq = {} /\ Iae \cap Others = {} /\ Geiq \cap Others = {}
(* A hiring is postponed by 30 days at most, and accepted 6 months ahead.  *)
ASSUME DaysAssumption ==
    /\ {NumPass, PassDays, WaitDays, HireWindow, PostponeDays, OpenBefore, OpenAfter,
        SuspensionMax, ProlongationMax, NumRequests, MaxDay, PeriodsDay, MaxPrior} \subseteq Nat
    /\ PassDays > 1 /\ PostponeDays <= HireWindow

(***************************************************************************)
(* JobApplicationWorkflow.  "none" is an application not sent yet.         *)
(***************************************************************************)
States == {"none", "new", "processing", "postponed", "prior_to_hire", "accepted",
           "refused", "cancelled", "obsolete", "pool"}
PENDING_STATES == {"new", "processing", "postponed"}
JOB_APPLICATION_PROCESSED_STATES == {"accepted", "refused", "cancelled", "obsolete"}
CAN_BE_ACCEPTED_STATES == {"new", "pool", "processing", "postponed", "prior_to_hire",
                           "obsolete", "refused", "cancelled"}
CAN_ADD_PRIOR_ACTION_STATES == CAN_BE_ACCEPTED_STATES \ {"prior_to_hire"}
ARCHIVABLE_JOB_APPLICATION_STATES == PENDING_STATES \cup {"refused", "cancelled", "obsolete"}
ARCHIVABLE_JOB_APPLICATION_STATES_MANUAL == {"refused", "cancelled", "obsolete"}
AUTO_REJECT_JOB_APPLICATION_STATES == {"new", "processing"}

From ==
    [process               |-> {"new", "pool"},
     postpone              |-> {"new", "pool", "processing", "prior_to_hire"},
     accept                |-> CAN_BE_ACCEPTED_STATES,
     add_to_pool           |-> {"new", "processing", "postponed", "cancelled", "obsolete"},
     move_to_prior_to_hire |-> CAN_ADD_PRIOR_ACTION_STATES,
     cancel_prior_to_hire  |-> {"prior_to_hire"},
     refuse                |-> {"new", "pool", "processing", "prior_to_hire", "postponed"},
     cancel                |-> {"accepted"},
     render_obsolete       |-> PENDING_STATES,
     transfer              |-> CAN_BE_ACCEPTED_STATES,
     reset                 |-> {"obsolete"},
     external_transfer     |-> {"refused"}]

To ==
    [process               |-> "processing",
     postpone              |-> "postponed",
     accept                |-> "accepted",
     add_to_pool           |-> "pool",
     move_to_prior_to_hire |-> "prior_to_hire",
     cancel_prior_to_hire  |-> "processing",
     refuse                |-> "refused",
     cancel                |-> "cancelled",
     render_obsolete       |-> "obsolete",
     transfer              |-> "new",
     reset                 |-> "new",
     external_transfer     |-> "refused"]

(* The before_transition hooks: on which transitions each one runs.        *)
set_processed_at == {"accept", "refuse", "cancel", "render_obsolete"}
unset_processed_at == {"add_to_pool", "process", "postpone", "move_to_prior_to_hire",
                       "cancel_prior_to_hire", "transfer", "reset"}
(* Mutant: accepting does not unarchive.                                   *)
UnarchiveNotOnAccept ==
    {"process", "postpone", "add_to_pool", "move_to_prior_to_hire",
     "cancel_prior_to_hire", "refuse", "cancel", "render_obsolete", "transfer", "reset"}
unarchive == {"process", "postpone", "accept", "add_to_pool", "move_to_prior_to_hire",
              "cancel_prior_to_hire", "refuse", "cancel", "render_obsolete", "transfer", "reset"}

(***************************************************************************)
(* A row of the JobApplication table: its ACCEPTED_ONLY_FIELDS from diag   *)
(* on (pass 0 is no approval), then its comments (the companies that wrote *)
(* them), its prior actions and its employee record.                       *)
(***************************************************************************)
Row == [st: States, co: Companies, hire: Days \cup {-1},
        processed: BOOLEAN, archived: BOOLEAN, archivedBy: BOOLEAN,
        diag: BOOLEAN, geiqDiag: BOOLEAN, pass: PassIds \cup {0},
        mode: {"", "automatic", "manual"}, sent: BOOLEAN,
        delivered: BOOLEAN, refused: BOOLEAN,
        comments: SUBSET Companies, prior: 0..MaxPrior, fiche: {"none", "new", "sent"}]

NewRow(c, state) ==
    [st |-> state, co |-> c, hire |-> -1,
     processed |-> FALSE, archived |-> FALSE, archivedBy |-> FALSE,
     diag |-> FALSE, geiqDiag |-> FALSE, pass |-> 0,
     mode |-> "", sent |-> FALSE, delivered |-> FALSE, refused |-> FALSE,
     comments |-> {}, prior |-> 0, fiche |-> "none"]

(* One transition of the workflow, with its hooks and the save that ends it*)
Fire(r, tr) ==
    [r EXCEPT !.st = To[tr],
              !.processed = (@ \/ tr \in set_processed_at) /\ tr \notin unset_processed_at,
              !.archived = @ /\ tr \notin unarchive,
              !.archivedBy = @ /\ tr \notin unarchive]

_reset_accepted_state(r) ==
    [r EXCEPT !.diag = FALSE, !.geiqDiag = FALSE, !.pass = 0, !.mode = "",
              !.sent = FALSE, !.delivered = FALSE, !.refused = FALSE]

VARIABLES
    scope,       \* bound, chosen once: "all", no bound; "wide", all the companies
                 \* on one day; "long", several days with the IAE companies and
                 \* few answers;
                 \* "periods", the same with what changes the dates of the PASS
    app,         \* the rows of the job seeker's applications
    pass,        \* his PASS IAE
    susp,        \* their suspensions
    prol,        \* their prolongations
    reqs,        \* their prolongation requests; info: it has a deny_information
    late,        \* history: the PASS that were over when their end was put off
    diagnosis,   \* his IAE eligibility diagnosis: "none", "valid" or "expired"
    geiqValid,   \* has he a valid GEIQ diagnosis
    identified,  \* has his profile a NIR, an FT identifier or a reason not to
    today

periods == <<susp, prol, reqs, late>>
vars == <<scope, app, pass, susp, prol, reqs, late, diagnosis, geiqValid, identified, today>>

NoPass == [st |-> "none", start |-> 0, end |-> 0]

InScope == IF scope \in {"long", "periods"} THEN Iae ELSE Companies
DayInScope(h) == scope = "wide" => h = today

Init ==
    /\ scope \in Scopes
    /\ app = [a \in Apps |-> NewRow(CHOOSE c \in Companies : TRUE, "none")]
    /\ pass = [p \in PassIds |-> NoPass]
    /\ susp = [p \in PassIds |-> {}] /\ prol = [p \in PassIds |-> {}]
    /\ reqs = [p \in PassIds |-> {}] /\ late = {}
    /\ diagnosis = IF scope = "periods" THEN "valid" ELSE "none"
    /\ geiqValid = FALSE
    /\ identified \in BOOLEAN /\ (scope = "periods" => identified)
    /\ today = 0

(***************************************************************************)
(* The job seeker's PASS (User.latest_approval and what is built on it).   *)
(***************************************************************************)
Live == {p \in PassIds : pass[p].st = "live"}
is_valid(p) == today <= pass[p].end
Valid == {p \in Live : is_valid(p)}
has_valid_approval == Valid # {}
(* Ordered by -created_at: the last issued comes first.                    *)
IsLatestValid(p) == p \in Valid /\ \A q \in Valid : q <= p
get_default_end_date(start) == start + PassDays - 1
DeliveryInScope(r, start, end) ==
    scope # "all" => start \in {today, r.hire} /\ end = get_default_end_date(start)

has_latest_approval_in_waiting_period ==
    /\ Valid = {}
    /\ \E p \in Live : /\ \A q \in Live : pass[q].end <= pass[p].end
                       /\ today <= pass[p].end + WaitDays
(* A diagnosis is considered valid as long as a PASS is.                   *)
LastConsideredValid == diagnosis = "valid" \/ (diagnosis = "expired" /\ has_valid_approval)
new_approval_blocked_by_waiting_period(a) ==
    has_latest_approval_in_waiting_period /\ ~(a \in Authorized \/ LastConsideredValid)

(* The latest of them, over or not (with none valid, the last to end).     *)
IsLatest(p) ==
    \/ IsLatestValid(p)
    \/ /\ Valid = {} /\ p \in Live /\ today <= pass[p].end + WaitDays
       /\ \A q \in Live : \/ pass[q].end < pass[p].end
                         \/ /\ pass[q].end = pass[p].end
                            /\ pass[p].start <= pass[q].start

(* Approval.update_start_date: only a PASS that has not begun moves.       *)
update_start_date(p, day) ==
    IF pass[p].start > today
    THEN [pass EXCEPT ![p].start = day, ![p].end = get_default_end_date(day)]
    ELSE pass

(* Trigger update_approval_end_at: days added to the end of the PASS, or   *)
(* taken from it, when a period is inserted, updated or deleted.           *)
Length(period) == period.end - period.start
update_approval_end_at(p, days) == pass' = [pass EXCEPT ![p].end = @ + days]

InsertSuspension(p, s) ==
    /\ susp' = [susp EXCEPT ![p] = @ \cup {s}]
    /\ update_approval_end_at(p, Length(s))
UpdateSuspension(p, s, new) ==
    /\ susp' = [susp EXCEPT ![p] = (@ \ {s}) \cup {new}]
    /\ update_approval_end_at(p, Length(new) - Length(s))
DeleteSuspension(p, s) ==
    /\ susp' = [susp EXCEPT ![p] = @ \ {s}]
    /\ update_approval_end_at(p, -Length(s))

InProgress(p) == {s \in susp[p] : s.start <= today /\ today <= s.end}
is_suspended(p) == InProgress(p) # {}
(* Approval.unsuspend, for the reasons that allow it.                      *)
unsuspend(p, h) ==
    \/ UNCHANGED <<pass, susp>>
    \/ \E s \in InProgress(p) :
          IF s.start = h THEN DeleteSuspension(p, s)
          ELSE UpdateSuspension(p, s, [s EXCEPT !.end = h - 1])

(***************************************************************************)
(* Sending, and the transitions that only touch the application.           *)
(***************************************************************************)
Submit(a) ==
    /\ app[a].st = "none"
    /\ \E c \in InScope : app' = [app EXCEPT ![a] = NewRow(c, "new")]
    /\ UNCHANGED <<scope, pass, periods, diagnosis, geiqValid, identified, today>>

(* process, postpone, add_to_pool, refuse of the views, single or by batch,*)
(* and reset of the admin.                                                 *)
Answer(a) ==
    /\ \E tr \in {"process", "postpone", "add_to_pool", "refuse", "reset"} :
          /\ app[a].st \in From[tr]
          /\ scope = "long" => tr \in {"refuse", "reset"}
          /\ app' = [app EXCEPT ![a] = Fire(app[a], tr)]
    /\ UNCHANGED <<scope, pass, periods, diagnosis, geiqValid, identified, today>>

(* reject_job_applications_after_delay: those old enough that no other     *)
(* transaction has locked.                                                 *)
AutoReject ==
    /\ \E S \in SUBSET Apps :
          /\ S # {}
          /\ \A a \in S : app[a].st \in AUTO_REJECT_JOB_APPLICATION_STATES /\ ~app[a].archived
          /\ app' = [a \in Apps |-> IF a \in S THEN Fire(app[a], "refuse") ELSE app[a]]
    /\ UNCHANGED <<scope, pass, periods, diagnosis, geiqValid, identified, today>>

(* can_change_prior_actions: the prior actions of a GEIQ.                  *)
AddPriorAction(a) ==
    LET r == app[a] IN
    /\ r.co \in Geiq
    /\ r.st \in CAN_ADD_PRIOR_ACTION_STATES \cup {"prior_to_hire"}
    /\ r.prior < MaxPrior
    /\ app' = [app EXCEPT ![a] =
         [(IF r.st = "prior_to_hire" THEN r ELSE Fire(r, "move_to_prior_to_hire"))
            EXCEPT !.prior = @ + 1]]
    /\ UNCHANGED <<scope, pass, periods, diagnosis, geiqValid, identified, today>>

DeletePriorAction(a) ==
    LET r == app[a] IN
    /\ r.co \in Geiq
    /\ r.st \in CAN_ADD_PRIOR_ACTION_STATES \cup {"prior_to_hire"}
    /\ r.prior > 0
    /\ app' = [app EXCEPT ![a] =
         [(IF r.st = "prior_to_hire" /\ r.prior = 1 THEN Fire(r, "cancel_prior_to_hire") ELSE r)
            EXCEPT !.prior = @ - 1]]
    /\ UNCHANGED <<scope, pass, periods, diagnosis, geiqValid, identified, today>>

AddComment(a) ==
    /\ a \in Commented /\ scope # "long"
    /\ app[a].st # "none"
    /\ app' = [app EXCEPT ![a].comments = @ \cup {app[a].co}]
    /\ UNCHANGED <<scope, pass, periods, diagnosis, geiqValid, identified, today>>

DeleteComment(a) ==
    /\ app[a].co \in app[a].comments
    /\ app' = [app EXCEPT ![a].comments = @ \ {app[a].co}]
    /\ UNCHANGED <<scope, pass, periods, diagnosis, geiqValid, identified, today>>

(* The user is a member of both companies.                                 *)
Transfer(a) ==
    /\ app[a].st \in From["transfer"]
    /\ \E c \in InScope \ {app[a].co} :
          app' = [app EXCEPT ![a] =
            [_reset_accepted_state(Fire(app[a], "transfer")) EXCEPT !.co = c, !.comments = {}]]
    /\ UNCHANGED <<scope, pass, periods, diagnosis, geiqValid, identified, today>>

(* A refused application is sent again, as a new one, to another company.  *)
ExternalTransfer(a, b) ==
    /\ app[a].st \in From["external_transfer"]
    /\ app[b].st = "none"
    /\ \E c \in InScope \ {app[a].co} :
          app' = [app EXCEPT ![b] = NewRow(c, "new"), ![a] = Fire(app[a], "external_transfer")]
    /\ UNCHANGED <<scope, pass, periods, diagnosis, geiqValid, identified, today>>

(***************************************************************************)
(* Archiving.                                                              *)
(***************************************************************************)
Archive(a) ==
    /\ a \in Archivable /\ scope # "long"
    /\ app[a].st \in ARCHIVABLE_JOB_APPLICATION_STATES_MANUAL
    /\ app' = [app EXCEPT ![a] = [@ EXCEPT !.archived = TRUE, !.archivedBy = TRUE]]
    /\ UNCHANGED <<scope, pass, periods, diagnosis, geiqValid, identified, today>>

Unarchive(a) ==
    /\ app[a].archived /\ app[a].st # "accepted"
    /\ app' = [app EXCEPT ![a] = [@ EXCEPT !.archived = FALSE, !.archivedBy = FALSE]]
    /\ UNCHANGED <<scope, pass, periods, diagnosis, geiqValid, identified, today>>

(* archive_job_applications, for the applications old enough.              *)
AutoArchive ==
    /\ \E S \in SUBSET Archivable :
          /\ S # {} /\ scope # "long"
          /\ \A a \in S : ~app[a].archived /\ app[a].st \in ARCHIVABLE_JOB_APPLICATION_STATES
          /\ app' = [a \in Apps |-> [app[a] EXCEPT !.archived = @ \/ a \in S]]
    /\ UNCHANGED <<scope, pass, periods, diagnosis, geiqValid, identified, today>>

(***************************************************************************)
(* accept.                                                                 *)
(***************************************************************************)

(* An IAE hiring starting on day h reuses the PASS p.  A PASS that has not *)
(* begun is not suspended: only the other one has something to lift.       *)
ReusePass(p, h) ==
    /\ IsLatestValid(p)
    /\ h <= pass[p].end
    /\ IF pass[p].start > h THEN pass' = update_start_date(p, h) /\ UNCHANGED susp
       ELSE unsuspend(p, h)

(* Approval.save of a new PASS p.                                          *)
NextPass(p) == pass[p].st = "none" /\ \A q \in PassIds : q < p => pass[q].st # "none"
SavePass(p, start, end) ==
    /\ pass' = [pass EXCEPT ![p] = [st |-> "live", start |-> start, end |-> end]]
    /\ UNCHANGED susp
(* Mutant: Approval.clean does not look for a valid PASS.                  *)
IssueAnotherPass(p, start, end) == start < end /\ NextPass(p) /\ SavePass(p, start, end)
IssuePass(p, start, end) ==
    /\ ~has_valid_approval /\ start < end
    /\ NextPass(p) /\ SavePass(p, start, end)

(* Mutant: the job seeker's other applications are left alone.             *)
OthersLeftPending(a, row) == [app EXCEPT ![a] = row]
RenderOthersObsolete(a, row) ==
    [b \in Apps |-> IF b = a THEN row
                    ELSE IF app[b].st \in PENDING_STATES THEN Fire(app[b], "render_obsolete")
                    ELSE app[b]]

(* The form: no hiring in the past (a GEIQ may), none too far ahead.       *)
HiringDay(a, h) ==
    (h >= today \/ app[a].co \in Geiq) /\ h <= today + HireWindow /\ DayInScope(h)

AcceptOutsideIae(a) ==
    /\ app[a].st \in From["accept"] /\ app[a].co \notin Iae
    /\ \E h \in Days :
          /\ HiringDay(a, h)
          /\ app' = RenderOthersObsolete(a, [Fire(app[a], "accept") EXCEPT
                       !.hire = h, !.geiqDiag = app[a].co \in Geiq /\ geiqValid])
    /\ UNCHANGED <<scope, pass, periods, diagnosis, geiqValid, identified, today>>

(* With a PASS, reused or issued, the delivery is automatic.               *)
AcceptWithPass(a) ==
    /\ app[a].st \in From["accept"] /\ app[a].co \in Iae
    /\ ~new_approval_blocked_by_waiting_period(a)
    /\ \E h \in Days, p \in PassIds :
          /\ HiringDay(a, h)
          /\ \/ ReusePass(p, h)
             \/ identified /\ LastConsideredValid /\ IssuePass(p, h, get_default_end_date(h))
          /\ app' = RenderOthersObsolete(a, [Fire(app[a], "accept") EXCEPT
                       !.hire = h, !.diag = LastConsideredValid, !.pass = p,
                       !.mode = "automatic", !.sent = TRUE])
    /\ UNCHANGED <<scope, prol, reqs, late, diagnosis, geiqValid, identified, today>>

(* Without an identified profile the PASS is delivered by hand.            *)
AcceptAwaitingPass(a) ==
    /\ app[a].st \in From["accept"] /\ app[a].co \in Iae
    /\ ~new_approval_blocked_by_waiting_period(a)
    /\ ~has_valid_approval /\ ~identified
    /\ \E h \in Days :
          /\ HiringDay(a, h)
          /\ app' = RenderOthersObsolete(a, [Fire(app[a], "accept") EXCEPT
                       !.hire = h, !.diag = LastConsideredValid, !.mode = "manual"])
    /\ UNCHANGED <<scope, pass, periods, diagnosis, geiqValid, identified, today>>

(***************************************************************************)
(* After the hiring.                                                       *)
(***************************************************************************)

(* admin_views.manually_add_approval: the form proposes the day of the     *)
(* hiring and PassDays, the support may choose other dates.                *)
ManuallyDeliverApproval(a) ==
    LET r == app[a] IN
    /\ r.st = "accepted" /\ r.pass = 0 /\ ~r.refused /\ ~r.sent /\ r.diag
    /\ \E p \in PassIds, start, end \in Days :
          /\ DeliveryInScope(r, start, end)
          /\ IssuePass(p, start, end)
          /\ app' = [app EXCEPT ![a] = [@ EXCEPT !.pass = p, !.sent = TRUE, !.delivered = TRUE]]
    /\ UNCHANGED <<scope, prol, reqs, late, diagnosis, geiqValid, identified, today>>

ManuallyRefuseApproval(a) ==
    LET r == app[a] IN
    /\ r.st = "accepted" /\ r.pass = 0 /\ ~r.delivered /\ ~r.sent
    /\ ~has_valid_approval
    /\ app' = [app EXCEPT ![a].refused = TRUE]
    /\ UNCHANGED <<scope, pass, periods, diagnosis, geiqValid, identified, today>>

(* Mutant: the PASS is deleted whoever else uses it.                       *)
CanAlwaysBeDeleted(p) == p # 0
(* Mutant: the hiring being cancelled is taken for already cancelled.      *)
NoneUsesIt(p) == {b \in Apps : app[b].pass = p /\ app[b].st = "accepted"} = {}
(* Exactly one accepted application uses it.                               *)
can_be_deleted(p) == \E a \in Apps : {b \in Apps : app[b].pass = p /\ app[b].st = "accepted"} = {a}

(* An employee record already sent forbids it.  Approval.delete() takes    *)
(* the PASS from every application, and its periods go with it (CASCADE).  *)
Cancel(a) ==
    LET p == app[a].pass
        gone == p # 0 /\ can_be_deleted(p) IN
    /\ app[a].st \in From["cancel"]
    /\ app[a].fiche # "sent"
    /\ scope = "periods" => a \in Cancellable
    /\ IF gone
       THEN /\ pass' = [pass EXCEPT ![p].st = "cancelled"]
            /\ susp' = [susp EXCEPT ![p] = {}] /\ prol' = [prol EXCEPT ![p] = {}]
            /\ reqs' = [reqs EXCEPT ![p] = {}]
       ELSE UNCHANGED <<pass, susp, prol, reqs>>
    /\ app' = [b \in Apps |->
                 IF b = a THEN [_reset_accepted_state(Fire(app[a], "cancel")) EXCEPT !.fiche = "none"]
                 ELSE IF gone /\ app[b].pass = p THEN [app[b] EXCEPT !.pass = 0]
                 ELSE app[b]]
    /\ UNCHANGED <<scope, late, diagnosis, geiqValid, identified, today>>

(* edit_contract_start_date: the view builds a PermissionDenied for an     *)
(* application that is not accepted, and does not raise it.                *)
EditHiringDate(a) ==
    LET r == app[a] IN
    /\ r.st # "none"
    /\ \E h \in today..(today + PostponeDays) :
          /\ DayInScope(h)
          /\ (r.pass # 0 /\ pass[r.pass].start <= today) => h < pass[r.pass].end
          /\ app' = [app EXCEPT ![a].hire = h]
          /\ pass' = IF r.pass # 0 THEN update_start_date(r.pass, h) ELSE pass
    /\ UNCHANGED <<scope, periods, diagnosis, geiqValid, identified, today>>

(* The employee record of a hiring (module EmployeeRecord), as far as the  *)
(* cancellation looks at it.                                               *)
CreateFiche(a) ==
    /\ app[a].st = "accepted" /\ app[a].pass # 0 /\ app[a].fiche = "none"
    /\ app' = [app EXCEPT ![a].fiche = "new"]
    /\ UNCHANGED <<scope, pass, periods, diagnosis, geiqValid, identified, today>>

SendFiche(a) ==
    /\ app[a].st = "accepted" /\ app[a].fiche = "new"
    /\ app' = [app EXCEPT ![a].fiche = "sent"]
    /\ UNCHANGED <<scope, pass, periods, diagnosis, geiqValid, identified, today>>

(***************************************************************************)
(* The periods of a PASS p (module ApprovalPeriods has them cut at their   *)
(* reads and saves).  What puts off the end of a PASS may do so after it:  *)
(* none of these requests asks whether another PASS was issued meanwhile.  *)
(***************************************************************************)
PutOff(p) == late' = late \cup ({p} \ Valid)
UnchangedFile == UNCHANGED <<scope, app, diagnosis, geiqValid, identified, today>>

UsedBy(c, p) == \E a \in Apps : app[a].st = "accepted" /\ app[a].co = c /\ app[a].pass = p
(* The employer of b hired last: in what order hirings were accepted is    *)
(* not kept, any of those of the IAE may be the last.                      *)
last_hire_was_made_by_siae(b, p) ==
    app[b].st = "accepted" /\ app[b].co \in Iae /\ UsedBy(app[b].co, p)

(* SuspensionForm, with Suspension.clean and the constraints of the table: *)
(* the other suspensions, and the last hiring.  Going back one year at most*)
(* (Retroactivity in ApprovalPeriods) only forbids more.                   *)
SuspensionForm(p, others, hire, s) ==
    LET old == {o \in others : o.end < today} IN
    /\ s.start <= s.end /\ s.end <= s.start + SuspensionMax - 1 /\ s.start <= today
    /\ pass[p].start <= s.start /\ s.start <= pass[p].end
    /\ IF old = {} THEN hire <= s.start ELSE \A o \in old : o.end < s.start
    /\ \A o \in others : o.end < s.start \/ s.end < o.start

Suspensions == {[start |-> d, end |-> d + n] : d \in 0..today, n \in 0..(SuspensionMax - 1)}

suspend(p) ==
    /\ p \in Live /\ pass[p].start <= today /\ is_valid(p) /\ ~is_suspended(p)
    /\ \E b \in Apps, s \in Suspensions :
          /\ last_hire_was_made_by_siae(b, p)
          /\ SuspensionForm(p, susp[p], app[b].hire, s)
          /\ InsertSuspension(p, s)
    /\ UNCHANGED <<prol, reqs, late>> /\ UnchangedFile

suspension_update(p) ==
    /\ \E b \in Apps, s \in InProgress(p), new \in Suspensions :
          /\ last_hire_was_made_by_siae(b, p)
          /\ SuspensionForm(p, susp[p] \ {s}, app[b].hire, new)
          /\ UpdateSuspension(p, s, new)
    /\ PutOff(p) /\ UNCHANGED <<prol, reqs>> /\ UnchangedFile

(* SuspensionEndDateForm: first_day_back_to_work.                          *)
suspension_update_enddate(p) ==
    /\ \E b \in Apps, s \in InProgress(p) : \E back \in (s.start + 1)..(s.end - 1) :
          /\ last_hire_was_made_by_siae(b, p)
          /\ UpdateSuspension(p, s, [s EXCEPT !.end = back - 1])
    /\ UNCHANGED <<prol, reqs, late>> /\ UnchangedFile

suspension_delete(p) ==
    /\ \E b \in Apps, s \in InProgress(p) :
          last_hire_was_made_by_siae(b, p) /\ DeleteSuspension(p, s)
    /\ UNCHANGED <<prol, reqs, late>> /\ UnchangedFile

is_open_to_prolongation(p) == pass[p].end - OpenBefore <= today /\ today <= pass[p].end + OpenAfter
(* "it is possible that another one has been issued in the meantime".      *)
can_be_prolonged(p) ==
    /\ IsLatest(p) /\ is_open_to_prolongation(p)
    /\ ~is_suspended(p) /\ \A r \in reqs[p] : r.st # "pending"

InsertProlongation(p, start, end) ==
    /\ scope = "periods" => prol[p] = {}
    /\ \A o \in prol[p] : o.end <= start \/ end <= o.start
    /\ prol' = [prol EXCEPT ![p] = @ \cup {[start |-> start, end |-> end]}]
    /\ update_approval_end_at(p, end - start)

(* A prolongation, or a request when its reason needs an opinion.          *)
declare_prolongation(p) ==
    /\ can_be_prolonged(p) /\ \E c \in Iae : UsedBy(c, p)
    /\ LET start == pass[p].end IN
       \E end \in (start + 1)..(start + ProlongationMax) :
          \/ InsertProlongation(p, start, end) /\ PutOff(p) /\ UNCHANGED reqs
          \/ /\ \E id \in ReqIds \ {r.id : r \in reqs[p]} :
                   reqs' = [reqs EXCEPT ![p] = @ \cup
                     {[id |-> id, start |-> start, end |-> end, st |-> "pending", info |-> FALSE]}]
             /\ UNCHANGED <<pass, prol, late>>
    /\ UNCHANGED susp /\ UnchangedFile

(* ProlongationRequest.grant, refused or not: can_be_prolonged is not      *)
(* looked at again.                                                        *)
grant(p) ==
    /\ \E r \in reqs[p] :
          /\ r.st # "granted"
          /\ InsertProlongation(p, r.start, r.end)
          /\ reqs' = [reqs EXCEPT ![p] = (@ \ {r}) \cup {[r EXCEPT !.st = "granted"]}]
    /\ PutOff(p) /\ UNCHANGED susp /\ UnchangedFile

(* ProlongationRequest.deny: a request has one deny_information.           *)
deny(p) ==
    /\ \E r \in reqs[p] :
          /\ ~r.info
          /\ reqs' = [reqs EXCEPT ![p] = (@ \ {r}) \cup {[r EXCEPT !.st = "denied", !.info = TRUE]}]
    /\ UNCHANGED <<pass, susp, prol, late>> /\ UnchangedFile

(* terminate_approval: periods to come are deleted, the one in progress    *)
(* ends today, and so does the PASS (save refuses an end before the start).*)
(* Mutant: the periods are left as they are.                               *)
NotClipped(rows) == rows
_clip_approval_dependency(rows) ==
    {s \in rows : s.end < today}
    \cup {[s EXCEPT !.end = today] : s \in {x \in rows : x.start < today /\ today <= x.end}}
terminate_approval(p) ==
    /\ p \in Valid /\ pass[p].start < today
    /\ prol' = [prol EXCEPT ![p] = _clip_approval_dependency(@)]
    /\ susp' = [susp EXCEPT ![p] = _clip_approval_dependency(@)]
    /\ pass' = [pass EXCEPT ![p].end = today]
    /\ UNCHANGED <<reqs, late>> /\ UnchangedFile

(* ApprovalAdmin.save_model, after clean_start_at: the support moves a     *)
(* PASS (when no employee record forbids it, see EmployeeRecord).          *)
AdminSaveModel(p) ==
    /\ p \in Live /\ pass[p].start < pass[p].end
    /\ \E d \in Days :
          /\ scope = "periods" => d <= today
          /\ d # pass[p].start /\ \A o \in susp[p] \cup prol[p] : d <= o.start
          /\ pass' = [pass EXCEPT ![p] = [@ EXCEPT !.start = d, !.end = pass[p].end + d - pass[p].start]]
    /\ PutOff(p) /\ UNCHANGED <<susp, prol, reqs>> /\ UnchangedFile

(***************************************************************************)
(* The job seeker's file, and time.                                        *)
(***************************************************************************)
Diagnose ==
    /\ \/ diagnosis' = "valid" /\ diagnosis # "valid" /\ UNCHANGED geiqValid
       \/ scope \in {"all", "wide"} /\ geiqValid' = TRUE /\ ~geiqValid /\ UNCHANGED diagnosis
    /\ UNCHANGED <<scope, app, pass, periods, identified, today>>

Identify ==
    /\ ~identified /\ identified' = TRUE
    /\ UNCHANGED <<scope, app, pass, periods, diagnosis, geiqValid, today>>

NextDay ==
    /\ scope # "wide" /\ today < MaxDay /\ (scope = "periods" => today < PeriodsDay)
    /\ today' = today + 1
    /\ diagnosis' \in {diagnosis} \cup (IF diagnosis = "valid" /\ scope # "periods" THEN {"expired"} ELSE {})
    /\ UNCHANGED <<scope, app, pass, periods, geiqValid, identified>>

(* The requests that the slices of TLC separate.                           *)
Hiring(a) ==
    \/ Submit(a) \/ AcceptOutsideIae(a) \/ AcceptWithPass(a) \/ AcceptAwaitingPass(a)
    \/ ManuallyDeliverApproval(a) \/ ManuallyRefuseApproval(a) \/ Cancel(a)
Following(a) ==
    \/ Answer(a) \/ AddPriorAction(a) \/ DeletePriorAction(a) \/ AddComment(a) \/ DeleteComment(a)
    \/ Transfer(a) \/ Archive(a) \/ Unarchive(a) \/ EditHiringDate(a) \/ CreateFiche(a) \/ SendFiche(a)
Period(p) ==
    \/ suspend(p) \/ suspension_update(p) \/ suspension_update_enddate(p) \/ suspension_delete(p)
    \/ declare_prolongation(p) \/ grant(p) \/ deny(p)
    \/ terminate_approval(p) \/ AdminSaveModel(p)

Next ==
    \/ \E a \in Apps : Hiring(a)
    \/ /\ scope # "periods"
       /\ \/ \E a \in Apps : Following(a)
          \/ \E a, b \in Apps : a # b /\ ExternalTransfer(a, b)
          \/ AutoReject \/ AutoArchive
    \/ scope \in {"all", "periods"} /\ \E p \in WithPeriods : Period(p)
    \/ Diagnose \/ Identify \/ NextDay

Spec == Init /\ [][Next]_vars

-----------------------------------------------------------------------------

Dates == [start: Int, end: Int]
Request == [id: ReqIds, start: Int, end: Int, st: {"pending", "granted", "denied"}, info: BOOLEAN]

(* Rows, PASS and the job seeker's file keep their types.                  *)
TypeOK ==
    /\ app \in [Apps -> Row]
    /\ pass \in [PassIds -> [st: {"none", "live", "cancelled"}, start: Days, end: Int]]
    /\ susp \in [PassIds -> SUBSET Dates] /\ prol \in [PassIds -> SUBSET Dates]
    /\ reqs \in [PassIds -> SUBSET Request] /\ late \subseteq PassIds
    /\ diagnosis \in {"none", "valid", "expired"}
    /\ geiqValid \in BOOLEAN /\ identified \in BOOLEAN
    /\ today \in 0..MaxDay

(* What the transitions save never breaks a CHECK constraint of the table: *)
(* processed_coherence, archived_status, archived_by__no_archived_at,      *)
(* diagnoses_coherence and accepted_only_fields.  Nor does it leave what   *)
(* no constraint forbids: an application prior to hire without a prior     *)
(* action, or a comment that members of another company would read ("be    *)
(* sure a comment won't be displayed to a member of a company not supposed *)
(* to", JobApplicationComment).                                            *)
RowConstraints(r) ==
    /\ r.processed <=> r.st \in JOB_APPLICATION_PROCESSED_STATES
    /\ ~(r.st \in {"accepted", "prior_to_hire"} /\ r.archived)
    /\ ~(~r.archived /\ r.archivedBy)
    /\ ~(r.diag /\ r.geiqDiag)
    /\ r.st = "accepted" \/ r = _reset_accepted_state(r)
    /\ r.st = "prior_to_hire" => r.prior > 0
    /\ r.comments \subseteq {r.co}
CheckConstraints == \A a \in Apps : RowConstraints(app[a])

(* "Un agrement dans le futur ou en cours de validite existe deja"         *)
(* (Approval.clean): a job seeker has one valid PASS at most, as far as    *)
(* hirings, deliveries by hand, moves of a start, cancellations, closed    *)
(* PASS and the passing of days go.  The older of two valid PASS is one    *)
(* whose end was put off when it was over (a prolongation granted, a       *)
(* suspension or a start moved): none of these looks for another PASS.     *)
OneValidPassInTime == \A p, q \in Valid : p < q => p \in late

(* No PASS is left with an end before its start.  Approval.clean says so   *)
(* ("La date de fin doit etre posterieure a la date de debut"), but the    *)
(* triggers of the periods update the end without it, and the support ends *)
(* or moves a PASS whose periods are still to be shortened or deleted.     *)
NeverEndsBeforeItStarts == \A p \in Live : pass[p].start <= pass[p].end

(* An accepted application of an IAE company has its PASS or waits for one *)
(* to be delivered by hand; it never refers to a PASS that was cancelled.  *)
AcceptedHasPass ==
    \A a \in Apps : app[a].st = "accepted" /\ app[a].co \in Iae =>
        IF app[a].pass = 0 THEN app[a].mode = "manual" ELSE app[a].pass \in Live

(* A PASS lives as long as some hiring uses it: cancel deletes it with the *)
(* last one (can_be_deleted).                                              *)
NoOrphanPass == \A p \in Live : \E a \in Apps : app[a].st = "accepted" /\ app[a].pass = p

(* "It is possible that another one has been issued in the meantime. Thus  *)
(* we have to ensure that the current PASS IAE is the most recent for the  *)
(* user before allowing a prolongation" (can_be_prolonged): no PASS is     *)
(* prolonged while a more recent one is valid. The code does not keep it:  *)
(* grant does not look again (README, section 3).                          *)
ProlongedIsMostRecent ==
    [][\A p \in PassIds : prol[p] \subseteq prol'[p] /\ prol[p] # prol'[p] =>
          \A q \in Valid : q <= p]_vars

(* "Cannot use an approval which ends before the hiring start date": an    *)
(* application that is accepted starts before the end of its PASS. The     *)
(* code does not keep it: unsuspend comes after the comparison.            *)
AcceptedWithinPass ==
    [][\A a \in Apps : app[a].st # "accepted" /\ app'[a].st = "accepted" /\ app'[a].pass # 0 =>
          app'[a].hire <= pass'[app'[a].pass].end]_vars

(* "When a job application is accepted, all other job seeker's pending     *)
(* applications become obsolete" (JobApplicationState).                    *)
ObsoleteOnAccept ==
    [][\A a \in Apps : app[a].st # "accepted" /\ app'[a].st = "accepted" =>
          \A b \in Apps \ {a} : app'[b].st \notin PENDING_STATES]_vars
=============================================================================
