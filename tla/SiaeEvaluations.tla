-------------------------- MODULE SiaeEvaluations --------------------------
(***************************************************************************)
(* One campaign of control of the self-prescriptions of companies (SIAE)   *)
(* by an institution: itou/siae_evaluations (models, admin actions,        *)
(* commands) and itou/www/siae_evaluations_views.                          *)
(*                                                                         *)
(* The companies choose criteria, upload and submit proofs; the inspector  *)
(* reviews each proof, then the company; the support freezes submissions,  *)
(* moves the campaign to its adversarial stage and closes it.  A request   *)
(* that reads rows and saves them later is taken in two steps (`work'),    *)
(* and others commit between the two unless the run is serial.  Dates are  *)
(* kept as what the code compares: a proof or a reminder is of the first   *)
(* phase (before reviewed_at) or of the second.                            *)
(***************************************************************************)
EXTENDS Integers, FiniteSets

CONSTANTS Siaes, Apps, Crits,
          AdversarialStart, \* Calendar.adversarial_stage_start
          ReminderDelay,    \* the 30 days before a reminder
          LastDay           \* bound: the last day of the calendar

ASSUME CalendarAssumption ==
    /\ {AdversarialStart, ReminderDelay, LastDay} \subseteq Nat
    /\ ReminderDelay > 0

VARIABLES today,
          serial,    \* chosen once: no request straddles another, and the
                     \* inspector only posts what the page offers
          campaign,  \* [asked, ended, frozeNotified]
          siae,      \* EvaluatedSiae rows
          crits,     \* EvaluatedAdministrativeCriteria rows
          work,      \* the request in flight
          told,      \* history: the last result e-mailed to each company
          moved      \* history: the campaign reached its adversarial stage

campaignVars == <<today, serial, campaign, siae, crits, work, told, moved>>

NoRequest == [op |-> "idle"]
Absent == [proof |-> FALSE, submitted |-> "no", review |-> "ABSENT", certified |-> FALSE]
Selected == [Absent EXCEPT !.review = "PENDING"]
Certified == [proof |-> FALSE, submitted |-> "first", review |-> "ACCEPTED", certified |-> TRUE]
NewSiae == [reviewed |-> FALSE, final |-> FALSE, frozen |-> FALSE, notified |-> FALSE,
            finalState |-> "none", reminder |-> "no", archived |-> FALSE]

Present(app) == {c \in Crits : app[c].review # "ABSENT"}
Submitted(apps, phases) ==
    \E a \in Apps : \E c \in Present(apps[a]) : apps[a][c].submitted \in phases

(***************************************************************************)
(* The state of an application and of a company, computed from the rows.   *)
(***************************************************************************)
ApplicationPriority ==
    [ACCEPTED |-> 1, REFUSED |-> 2, REFUSED_2 |-> 3, SUBMITTED |-> 4, UPLOADED |-> 5,
     PROCESSING |-> 6, PENDING |-> 7]
SiaePriority == [ACCEPTED |-> 1, REFUSED |-> 2, SUBMITTED |-> 3, SUBMITTABLE |-> 4, PENDING |-> 5]
Highest(priority, S) ==
    IF S = {} THEN "PENDING"
    ELSE CHOOSE x \in S : \A y \in S : priority[y] <= priority[x]

state_from(c) ==
    CASE c.certified -> "ACCEPTED"
      [] ~c.certified /\ ~c.proof -> "PROCESSING"
      [] ~c.certified /\ c.proof /\ c.submitted = "no" -> "UPLOADED"
      [] OTHER -> IF c.review = "PENDING" THEN "SUBMITTED" ELSE c.review
compute_state(app) == Highest(ApplicationPriority, {state_from(app[c]) : c \in Present(app)})

SiaeStateOf(st) ==
    CASE st \in {"PENDING", "PROCESSING"} -> "PENDING"
      [] st = "UPLOADED" -> "SUBMITTABLE"
      [] st = "REFUSED_2" -> "REFUSED"
      [] OTHER -> st
state_from_applications(apps) ==
    Highest(SiaePriority, {SiaeStateOf(compute_state(apps[a])) : a \in Apps})

(* Mutant: the state is computed from the applications, whatever was       *)
(* decided when the campaign was closed.                                   *)
StateForgetsFinal(row, apps, ended) ==
    LET st == state_from_applications(apps)
        is_final == row.final \/ ended
    IN  CASE st \in {"PENDING", "SUBMITTABLE"} -> IF is_final THEN "REFUSED" ELSE st
          [] st = "SUBMITTED" -> IF is_final THEN "ACCEPTED" ELSE st
          [] OTHER -> IF row.reviewed /\ ~is_final THEN "ADVERSARIAL_STAGE" ELSE st
state(row, apps, ended) ==
    LET st == state_from_applications(apps)
        is_final == row.final \/ ended
    IN  CASE row.finalState # "none" -> row.finalState
          [] row.finalState = "none" /\ st \in {"PENDING", "SUBMITTABLE"} ->
                IF is_final THEN "REFUSED" ELSE st
          [] row.finalState = "none" /\ st = "SUBMITTED" ->
                IF is_final THEN "ACCEPTED" ELSE st
          [] OTHER -> IF row.reviewed /\ ~is_final THEN "ADVERSARIAL_STAGE" ELSE st
State(s) == state(siae[s], crits[s], campaign.ended)

can_review(s) ==
    \/ ~siae[s].reviewed /\ State(s) \in {"ACCEPTED", "REFUSED"}
    \/ /\ siae[s].reviewed /\ ~siae[s].final
       /\ State(s) = "ADVERSARIAL_STAGE"
       /\ ~\E a \in Apps, c \in Crits :
             crits[s][a][c].review = "REFUSED" /\ crits[s][a][c].submitted = "first"
can_submit(s) == ~siae[s].frozen /\ State(s) = "SUBMITTABLE"
should_select_criteria(s, a) ==
    LET st == compute_state(crits[s][a])
    IN  /\ ~siae[s].frozen
        /\ st = "PENDING" \/ (~siae[s].reviewed /\ st \in {"PROCESSING", "UPLOADED"})
(* Mutant: a proof may be sent again although submissions are frozen.      *)
UploadThoughFrozen(s, a, c) ==
    \/ crits[s][a][c].submitted = "no"
    \/ crits[s][a][c].review = "REFUSED" /\ siae[s].reviewed
can_upload(s, a, c) ==
    /\ ~siae[s].frozen
    /\ \/ crits[s][a][c].submitted = "no"
       \/ crits[s][a][c].review = "REFUSED" /\ siae[s].reviewed
(* Mutant: the page offers its buttons after the final review.             *)
EditThoughFinal(s, a) ==
    \E c \in Crits : crits[s][a][c].submitted # "no"
(* The buttons of the page of an application.                              *)
can_edit_proof(s, a) ==
    IF siae[s].reviewed
    THEN ~siae[s].final /\ \E c \in Crits : crits[s][a][c].submitted = "second"
    ELSE \E c \in Crits : crits[s][a][c].submitted # "no"
(* EvaluatedSiaeQuerySet.to_control_in_campaign.                           *)
to_control_in_campaign(s) ==
    /\ \E a \in Apps, c \in Crits :
          crits[s][a][c].review = "PENDING" /\ crits[s][a][c].submitted # "no"
    /\ \/ ~siae[s].reviewed /\ AdversarialStart > today
       \/ ~siae[s].final /\ AdversarialStart <= today

(***************************************************************************)
(* The campaign.                                                           *)
(***************************************************************************)
(* The sample of companies and applications is taken as drawn; the         *)
(* criteria certified on the day of the hiring need no proof.              *)
populate ==
    /\ ~campaign.asked
    /\ campaign' = [campaign EXCEPT !.asked = TRUE]
    /\ \E certified \in [Siaes -> [Apps -> SUBSET Crits]] :
          LET rows == [s \in Siaes |-> [a \in Apps |-> [c \in Crits |->
                          IF c \in certified[s][a] THEN Certified ELSE Absent]]]
              done == {s \in Siaes : state(NewSiae, rows[s], FALSE) = "ACCEPTED"}
          IN  /\ crits' = rows
              /\ siae' = [s \in Siaes |->
                             [NewSiae EXCEPT !.reviewed = s \in done, !.final = s \in done]]
              /\ told' = [s \in Siaes |-> IF s \in done THEN "accepted" ELSE "none"]
    /\ UNCHANGED <<today, serial, work, moved>>

freeze ==
    /\ siae' = [s \in Siaes |-> [siae[s] EXCEPT !.frozen = TRUE]]
    /\ campaign' = [campaign EXCEPT !.frozeNotified =
                       @ \/ \E s \in Siaes : to_control_in_campaign(s)]
    /\ UNCHANGED <<today, serial, crits, work, told, moved>>

(* Raises, and saves nothing, when a reviewed company is in a state that   *)
(* "shouldn't happen".                                                     *)
TransitionPossible ==
    \A s \in Siaes : siae[s].reviewed => State(s) \in {"ACCEPTED", "ADVERSARIAL_STAGE"}
transition_to_adversarial_phase ==
    /\ TransitionPossible
    /\ siae' = [s \in Siaes |->
                   [siae[s] EXCEPT !.reviewed = TRUE,
                                   !.final = @ \/ (~siae[s].reviewed /\ State(s) \in {"SUBMITTED", "ACCEPTED"}),
                                   !.frozen = FALSE]]
    /\ told' = [s \in Siaes |->
                   IF State(s) \in {"SUBMITTED", "ACCEPTED"} THEN "accepted" ELSE "adversarial"]
    /\ campaign' = [campaign EXCEPT !.frozeNotified = FALSE]
    /\ moved' = TRUE
    /\ UNCHANGED <<today, serial, crits, work>>

(* Mutant: the state of the companies already notified is not recorded.    *)
DecidesUnnotified(s) ==
    LET row == siae[s]
        st == state_from_applications(crits[s])
    IN  IF row.notified THEN row
        ELSE [row EXCEPT !.final = @ \/ st \in {"ACCEPTED", "REFUSED"},
                         !.finalState = state(row, crits[s], TRUE)]
(* EvaluationCampaign.close, for one company, once ended_at is set.        *)
Decided(s) ==
    LET row == siae[s]
        st == state_from_applications(crits[s])
    IN  [row EXCEPT !.final = @ \/ (~row.notified /\ st \in {"ACCEPTED", "REFUSED"}),
                    !.finalState = state(row, crits[s], TRUE)]
ToldAtClose(s) ==
    LET row == siae[s]
        st == state_from_applications(crits[s])
    IN  CASE row.notified -> told[s]
          [] ~row.notified /\ ~row.final ->
                IF ~Submitted(crits[s], {"first", "second"}) \/ st = "REFUSED" THEN "refused"
                ELSE IF st = "ACCEPTED" THEN "accepted" ELSE told[s]
          [] OTHER -> IF state(row, crits[s], TRUE) = "REFUSED" THEN "refused" ELSE "accepted"
close ==
    /\ ~campaign.ended
    /\ campaign' = [campaign EXCEPT !.ended = TRUE]
    /\ siae' = [s \in Siaes |-> Decided(s)]
    /\ told' = [s \in Siaes |-> ToldAtClose(s)]
    /\ UNCHANGED <<today, serial, crits, work, moved>>

(* archive_accepted_evaluated_siae: the 60 days are not counted.           *)
archive(s) ==
    /\ campaign.ended /\ siae[s].finalState = "ACCEPTED" /\ ~siae[s].archived
    /\ siae' = [siae EXCEPT ![s].archived = TRUE]
    /\ crits' = [crits EXCEPT ![s] = [a \in Apps |-> [c \in Crits |-> Absent]]]
    /\ UNCHANGED <<today, serial, campaign, work, told, moved>>

(* evaluation_campaign_notify: a reminder in each stage; the third loop    *)
(* only moves the date of the last notice sent to the institution.         *)
FirstReminder(s) ==
    /\ ReminderDelay <= today /\ today <= AdversarialStart
    /\ ~Submitted(crits[s], {"first", "second"})
    /\ ~siae[s].reviewed /\ siae[s].reminder = "no"
SecondReminder(s) ==
    /\ AdversarialStart + ReminderDelay <= today
    /\ ~siae[s].final /\ ~Submitted(crits[s], {"second"})
    /\ siae[s].reminder = "no" \/ (siae[s].reminder = "first" /\ siae[s].reviewed)
evaluation_campaign_notify ==
    LET reminded == {s \in Siaes : FirstReminder(s) \/ SecondReminder(s)}
    IN  /\ ~campaign.ended /\ reminded # {}
        /\ siae' = [s \in Siaes |->
                       IF s \notin reminded THEN siae[s]
                       ELSE [siae[s] EXCEPT !.reminder = IF siae[s].reviewed THEN "second" ELSE "first"]]
        /\ UNCHANGED <<today, serial, campaign, crits, work, told, moved>>

(***************************************************************************)
(* The company.                                                            *)
(***************************************************************************)
save_selected_criteria(app, chosen) ==
    [c \in Crits |-> IF c \notin chosen THEN Absent
                     ELSE IF c \in Present(app) THEN app[c] ELSE Selected]
siae_select_criteria(s, a) ==
    /\ ~campaign.ended
    /\ should_select_criteria(s, a)
    /\ \E chosen \in (SUBSET Crits) \ {{}} :
          crits' = [crits EXCEPT ![s][a] = save_selected_criteria(@, chosen)]
    /\ UNCHANGED <<today, serial, campaign, siae, work, told, moved>>

siae_upload_doc(s, a, c) ==
    /\ work = NoRequest /\ ~campaign.ended
    /\ c \in Present(crits[s][a]) /\ can_upload(s, a, c)
    /\ work' = [op |-> "upload", siae |-> s, app |-> a, crit |-> c]
    /\ UNCHANGED <<today, serial, campaign, siae, crits, told, moved>>
(* save_file puts the file in the bucket, then the row is saved, unless it *)
(* has been deleted.                                                       *)
UploadEnds ==
    /\ work.op = "upload"
    /\ LET s == work.siae  a == work.app  c == work.crit
       IN  IF c \in Present(crits[s][a])
           THEN crits' = [crits EXCEPT ![s][a][c] =
                             [@ EXCEPT !.proof = TRUE, !.submitted = "no", !.review = "PENDING"]]
           ELSE UNCHANGED crits
    /\ work' = NoRequest
    /\ UNCHANGED <<today, serial, campaign, siae, told, moved>>

siae_submit_proofs(s) ==
    /\ ~campaign.ended /\ can_submit(s)
    /\ crits' = [crits EXCEPT ![s] = [a \in Apps |-> [c \in Crits |->
                    IF crits[s][a][c].review # "PENDING" THEN crits[s][a][c]
                    ELSE [crits[s][a][c] EXCEPT !.submitted =
                             IF siae[s].reviewed THEN "second" ELSE "first"]]]]
    /\ siae' = [siae EXCEPT ![s].frozen = TRUE]
    /\ UNCHANGED <<today, serial, campaign, work, told, moved>>

(***************************************************************************)
(* The institution.                                                        *)
(***************************************************************************)
(* The view checks neither the phase nor that the proof was submitted.     *)
institution_evaluated_administrative_criteria(s, a, c) ==
    /\ ~campaign.ended
    /\ c \in Present(crits[s][a]) /\ ~crits[s][a][c].certified
    /\ serial => can_edit_proof(s, a)
    /\ \E review \in {"PENDING", "ACCEPTED", IF siae[s].reviewed THEN "REFUSED_2" ELSE "REFUSED"} :
          /\ serial => (review = "PENDING") # (crits[s][a][c].review = "PENDING")
          /\ crits' = [crits EXCEPT ![s][a][c].review = review]
    /\ UNCHANGED <<today, serial, campaign, siae, work, told, moved>>

reviewed(row, st) ==
    CASE st = "ACCEPTED" -> [row EXCEPT !.reviewed = TRUE, !.final = TRUE]
      [] st = "REFUSED" -> [row EXCEPT !.reviewed = TRUE]
      [] st = "ADVERSARIAL_STAGE" -> [row EXCEPT !.final = TRUE]
(* The view reads the company and reviews it; self.save() writes the whole *)
(* row.                                                                    *)
institution_evaluated_siae_validation(s) ==
    /\ work = NoRequest /\ campaign.asked /\ ~campaign.ended
    /\ can_review(s)
    /\ work' = [op |-> "save", siae |-> s, row |-> reviewed(siae[s], State(s))]
    /\ UNCHANGED <<today, serial, campaign, siae, crits, told, moved>>
(* The first page of the notification also saves the whole row.            *)
Notifiable(s) ==
    /\ campaign.ended \/ siae[s].final
    /\ ~siae[s].notified /\ State(s) = "REFUSED"
NotifyStep1(s) ==
    /\ work = NoRequest /\ Notifiable(s)
    /\ work' = [op |-> "save", siae |-> s, row |-> siae[s]]
    /\ UNCHANGED <<today, serial, campaign, siae, crits, told, moved>>
SaveEnds ==
    /\ work.op = "save"
    /\ siae' = [siae EXCEPT ![work.siae] = work.row]
    /\ work' = NoRequest
    /\ UNCHANGED <<today, serial, campaign, crits, told, moved>>
(* Sanctions are created and the company is notified.                      *)
NotifyStep3(s) ==
    /\ Notifiable(s)
    /\ siae' = [siae EXCEPT ![s].notified = TRUE]
    /\ UNCHANGED <<today, serial, campaign, crits, work, told, moved>>

NextDay ==
    /\ campaign.asked /\ today < LastDay
    /\ today' = today + 1
    /\ UNCHANGED <<serial, campaign, siae, crits, work, told, moved>>

CampaignInit ==
    /\ today = 0
    /\ serial \in BOOLEAN
    /\ campaign = [asked |-> FALSE, ended |-> FALSE, frozeNotified |-> FALSE]
    /\ siae = [s \in Siaes |-> NewSiae]
    /\ crits = [s \in Siaes |-> [a \in Apps |-> [c \in Crits |-> Absent]]]
    /\ work = NoRequest
    /\ told = [s \in Siaes |-> "none"]
    /\ moved = FALSE

SiaeNext(s) ==
    /\ campaign.asked
    /\ \/ archive(s)
       \/ \E a \in Apps :
             /\ ~siae[s].archived
             /\ \/ siae_select_criteria(s, a)
                \/ \E c \in Crits : \/ siae_upload_doc(s, a, c)
                                    \/ institution_evaluated_administrative_criteria(s, a, c)
       \/ siae_submit_proofs(s)
       \/ institution_evaluated_siae_validation(s)
       \/ NotifyStep1(s)
       \/ NotifyStep3(s)

SupportNext ==
    \/ populate
    \/ campaign.asked /\ (freeze \/ transition_to_adversarial_phase \/ close)
    \/ evaluation_campaign_notify
    \/ NextDay

CampaignNext ==
    \/ UploadEnds \/ SaveEnds
    \/ /\ serial => work = NoRequest
       /\ SupportNext \/ \E s \in Siaes : SiaeNext(s)

CampaignSpec == CampaignInit /\ [][CampaignNext]_campaignVars

(***************************************************************************)
(* Properties.                                                             *)
(***************************************************************************)
(* Once the campaign is closed, the result of every company is recorded    *)
(* (close records the notified ones apart) and is never better than what   *)
(* the company was told by e-mail: the e-mails of close depend on who      *)
(* submitted what, the result on the state.  Provided no request saves a   *)
(* row it read before.                                                     *)
ClosedIsDecided ==
    serial /\ campaign.ended => \A s \in Siaes :
        /\ siae[s].finalState \in {"ACCEPTED", "REFUSED"}
        /\ told[s] = "refused" => siae[s].finalState = "REFUSED"

(* Once recorded, the result a page computes for a company never changes:  *)
(* neither a late upload, nor a late transition, nor the archiving of the  *)
(* applications changes it.  (A whole-row save in flight may erase it.)    *)
DecisionIsFinal ==
    [][\A s \in Siaes :
          siae[s].finalState # "none" /\ siae'[s].finalState # "none" => State(s)' = State(s)]_campaignVars

(* The move to the adversarial stage is never refused by a company in a    *)
(* state that "shouldn't happen", until it has happened once: submissions  *)
(* stay frozen from the review to the move.                                *)
TransitionExpected ==
    serial /\ ~moved /\ ~campaign.ended => work # NoRequest \/ TransitionPossible

(* A company notified of sanctions stays refused: nothing it may still     *)
(* upload and no button of the inspector changes its state.                *)
SanctionedIsRefused ==
    serial => \A s \in Siaes : siae[s].notified => State(s) = "REFUSED"
============================================================================
