------------------------------ MODULE Archive ------------------------------
(***************************************************************************)
(* The anonymization of inactive people (itou/archive): the commands       *)
(* notify_inactive_..., anonymize_jobseekers and anonymize_professionals,  *)
(* and what people and support do in the meantime.                         *)
(*                                                                         *)
(* A command is one transaction at READ COMMITTED, so each of its          *)
(* statements sees what others committed before it; a failure rolls all of *)
(* it back, as if it had not run.  The scheduler starts a command again    *)
(* although the previous run may not have ended.                           *)
(***************************************************************************)
EXTENDS Integers, FiniteSets

CONSTANTS JobSeekers, Professionals,
          INACTIVITY_PERIOD,  \* days without activity before the notice
          GRACE_PERIOD,       \* days between the notice and the anonymization
          BATCH_SIZE,         \* people a run deals with
          Runs,               \* slots for commands in progress
          MaxDay              \* bound: the last day

ASSUME ArchiveAssumption ==
    {INACTIVITY_PERIOD, GRACE_PERIOD, BATCH_SIZE, MaxDay} \subseteq Nat \ {0}
ASSUME PeopleAssumption == JobSeekers \cap Professionals = {}

People == JobSeekers \union Professionals
Commands == {"notify_js", "notify_pro", "anonymize_js", "anonymize_pro"}
Never == MaxDay + 1
Idle == [cmd |-> "none"]

VARIABLES
    day,
    calm,      \* chosen once: no activity during a run, and one run at a time
    u,         \* the rows of User
    run,       \* the commands in progress: their step and the people listed
    archived   \* Anonymized... rows made of each person

vars == <<day, calm, u, run, archived>>

Deleted == [live |-> FALSE, active |-> FALSE, email |-> FALSE, last |-> 0,
            notified |-> Never, blocked |-> "no"]

(* The people left are job seekers or professionals, who do not interact;  *)
(* the others are archived already.  "blocked" is what points at a         *)
(* professional and cannot be deleted with them: nothing, assignments      *)
(* without organization, or other rows.                                    *)
Init ==
    /\ day = 0 /\ calm \in BOOLEAN
    /\ \E left \in {JobSeekers, Professionals} :
          /\ u \in [People -> {[live |-> TRUE, active |-> TRUE, email |-> TRUE, last |-> 0,
                                notified |-> Never, blocked |-> b] : b \in {"no", "assigned", "yes"}}
                              \union {Deleted}]
          /\ \A x \in People : u[x].live <=> x \in left
          /\ archived = [x \in People |-> IF x \in left THEN 0 ELSE 1]
    /\ \A j \in JobSeekers : u[j].blocked = "no"
    /\ run = [r \in Runs |-> Idle]

Quiet == \A r \in Runs : run[r] = Idle
Notified(x) == u[x].notified # Never

(***************************************************************************)
(* People and support.                                                     *)
(***************************************************************************)
NewDay ==
    /\ day < MaxDay /\ Quiet
    /\ day' = day + 1
    /\ UNCHANGED <<calm, u, run, archived>>

(* A login; for a job seeker also an application, a diagnosis, a PASS or a *)
(* contact.  The identity provider gives an e-mail back.                   *)
Act(x) ==
    /\ calm => Quiet
    /\ u[x].live /\ u[x].active
    /\ u' = [u EXCEPT ![x] = [@ EXCEPT !.last = day, !.email = TRUE]]
    /\ UNCHANGED <<day, calm, run, archived>>

(* What pointed at a professional is deleted.                              *)
Unblocked(p) ==
    /\ p \in Professionals /\ u[p].live /\ u[p].blocked = "yes"
    /\ calm => Quiet
    /\ u' = [u EXCEPT ![p].blocked = "no"]
    /\ UNCHANGED <<day, calm, run, archived>>

(* deactivate_view keeps an e-mail; reactivate_view, with                  *)
(* can_be_reactivated, is for those that anonymization deactivated.        *)
Deactivate(p) ==
    /\ p \in Professionals /\ u[p].live /\ u[p].active
    /\ calm => Quiet
    /\ u' = [u EXCEPT ![p].active = FALSE]
    /\ UNCHANGED <<day, calm, run, archived>>
Reactivate(p) ==
    /\ p \in Professionals /\ u[p].live /\ ~u[p].active /\ ~u[p].email /\ Notified(p)
    /\ calm => Quiet
    /\ u' = [u EXCEPT ![p] = [@ EXCEPT !.active = TRUE, !.notified = Never]]
    /\ UNCHANGED <<day, calm, run, archived>>

(***************************************************************************)
(* The statements of the commands.                                         *)
(***************************************************************************)
inactive_jobseekers_without_recent_related_objects ==
    {j \in JobSeekers : u[j].live /\ u[j].last <= day - INACTIVITY_PERIOD}

to_notify(cmd) ==
    IF cmd = "notify_js"
    THEN {j \in inactive_jobseekers_without_recent_related_objects : ~Notified(j)}
    ELSE {p \in Professionals : u[p].live /\ ~Notified(p) /\ u[p].last < day - INACTIVITY_PERIOD}

(* Mutant: a notice is never taken back.                                   *)
ResetNobody(cmd) == {}
(* reset_notified_..._with_recent_activity.                                *)
to_reset(cmd) ==
    IF cmd = "anonymize_js"
    THEN {j \in JobSeekers : u[j].live /\ Notified(j)} \ inactive_jobseekers_without_recent_related_objects
    ELSE {p \in Professionals : u[p].live /\ Notified(p) /\ u[p].last >= u[p].notified}

(* Mutant: rows are not locked.                                            *)
NobodyLocked == {}
(* select_for_update(skip_locked=True): professionals only.                *)
Locked == UNION {run[r].list : r \in {s \in Runs : run[s].cmd = "anonymize_pro"}}

to_archive(cmd) ==
    IF cmd = "anonymize_js"
    THEN {j \in JobSeekers : u[j].live /\ u[j].notified <= day - GRACE_PERIOD}
    ELSE {p \in Professionals \ Locked : u[p].live /\ u[p].notified <= day - GRACE_PERIOD}

(* Mutant: in the order of the notices only.                               *)
OldestNotice(x, y) == u[x].notified <= u[y].notified
(* order_by: professionals already without e-mail come last.               *)
Before(x, y) ==
    \/ u[x].email /\ ~u[y].email
    \/ u[x].email = u[y].email /\ u[x].notified <= u[y].notified

(* A run takes a batch.                                                    *)
Batches(S) == {L \in SUBSET S : Cardinality(L) = BATCH_SIZE \/ (L = S /\ Cardinality(S) < BATCH_SIZE)}
FirstOf(S) == {L \in Batches(S) : \A x \in L, y \in S \ L : Before(x, y)}

Step(r, cmd, step, list) ==
    run' = [run EXCEPT ![r] = [cmd |-> cmd, step |-> step, list |-> list]]
At(r, cmds, step) == run[r] # Idle /\ run[r].cmd \in cmds /\ run[r].step = step

(***************************************************************************)
(* The commands.                                                           *)
(***************************************************************************)
(* notify_inactive_...: the people are listed, and then marked.            *)
NotifyList(r, cmd) ==
    /\ cmd \in {"notify_js", "notify_pro"} /\ run[r] = Idle
    /\ calm => Quiet
    /\ \E L \in Batches(to_notify(cmd)) : L # {} /\ Step(r, cmd, "listed", L)
    /\ UNCHANGED <<day, calm, u, archived>>
NotifyMark(r) ==
    /\ At(r, {"notify_js", "notify_pro"}, "listed")
    /\ u' = [x \in People |->
                IF x \in run[r].list /\ u[x].live THEN [u[x] EXCEPT !.notified = day] ELSE u[x]]
    /\ run' = [run EXCEPT ![r] = Idle]
    /\ UNCHANGED <<day, calm, archived>>

(* anonymize_...: the notices of the people back are reset (a run with     *)
(* nobody to deal with is left out) ...                                    *)
Reset(r, cmd) ==
    /\ cmd \in {"anonymize_js", "anonymize_pro"} /\ run[r] = Idle
    /\ calm => Quiet
    /\ to_reset(cmd) \union to_archive(cmd) # {}
    /\ u' = [x \in People |-> IF x \in to_reset(cmd) THEN [u[x] EXCEPT !.notified = Never] ELSE u[x]]
    /\ Step(r, cmd, "reset", {})
    /\ UNCHANGED <<day, calm, archived>>
(* ... the others listed ...                                               *)
ArchiveList(r) ==
    /\ At(r, {"anonymize_js", "anonymize_pro"}, "reset")
    /\ \E L \in FirstOf(to_archive(run[r].cmd)) : Step(r, run[r].cmd, "listed", L)
    /\ UNCHANGED <<day, calm, u, archived>>
(* ... and archived: job seekers are deleted with all they have.           *)
archive_jobseekers(r) ==
    /\ At(r, {"anonymize_js"}, "listed")
    /\ u' = [x \in People |-> IF x \in run[r].list THEN Deleted ELSE u[x]]
    /\ archived' = [x \in People |-> archived[x] + IF x \in run[r].list THEN 1 ELSE 0]
    /\ run' = [run EXCEPT ![r] = Idle]
    /\ UNCHANGED <<day, calm>>

(* exclude_users_with_blocking_relations.                                  *)
to_delete(r) == {p \in run[r].list : u[p].blocked = "no"}

(* anonymize_professionals_without_deletion.                               *)
anonymized(x) ==
    [u[x] EXCEPT !.active = FALSE, !.email = FALSE,
                 !.blocked = IF @ = "assigned" THEN "no" ELSE @]

anonymize_professionals(r) ==
    /\ At(r, {"anonymize_pro"}, "listed")
    /\ u' = [x \in People |->
                CASE x \in to_delete(r) -> Deleted
                  [] x \in run[r].list \ to_delete(r) /\ u[x].email -> anonymized(x)
                  [] OTHER -> u[x]]
    /\ archived' = [x \in People |-> archived[x] + IF x \in to_delete(r) THEN 1 ELSE 0]
    /\ run' = [run EXCEPT ![r] = Idle]
    /\ UNCHANGED <<day, calm>>

RunStep(r) ==
    NotifyMark(r) \/ ArchiveList(r) \/ archive_jobseekers(r) \/ anonymize_professionals(r)
Start(r, cmd) == NotifyList(r, cmd) \/ Reset(r, cmd)
Launch(cmd) == \E r \in Runs : Start(r, cmd)

Next ==
    \/ NewDay
    \/ \E x \in People : Act(x) \/ Unblocked(x) \/ Deactivate(x) \/ Reactivate(x)
    \/ \E r \in Runs : RunStep(r) \/ \E cmd \in Commands : Start(r, cmd)

Spec == Init /\ [][Next]_vars

(* Days pass, the scheduler starts the commands again and again and a run  *)
(* ends.  (When runs overlap forever no day passes: the liveness below is  *)
(* about the calm behaviours.)                                             *)
Fairness ==
    /\ SF_vars(NewDay)
    /\ \A r \in Runs : WF_vars(RunStep(r))
    /\ \A cmd \in Commands : SF_vars(Launch(cmd))
FairSpec == Spec /\ Fairness

(***************************************************************************)
(* Properties.                                                             *)
(***************************************************************************)
Gone(x) == ~u[x].live \/ ~u[x].email

(* Nobody is anonymized who was not told so the grace period before, nor   *)
(* who was active in the meantime: a job seeker within the period of       *)
(* inactivity, a professional since the notice (anonymize_jobseekers and   *)
(* anonymize_professionals).  Activity during the run itself comes too     *)
(* late: the listing does not look at it again.                            *)
NoticeIsHonoured ==
    [][calm => \A x \in People : ~Gone(x) /\ Gone(x)' =>
          /\ u[x].notified + GRACE_PERIOD <= day
          /\ IF x \in JobSeekers THEN u[x].last + INACTIVITY_PERIOD <= day
             ELSE u[x].last < u[x].notified]_vars

(* One AnonymizedProfessional for each professional deleted, even when two *)
(* runs of anonymize_professionals overlap.                                *)
ArchivedOnce == \A p \in Professionals : archived[p] = IF u[p].live THEN 0 ELSE 1

(* A notice is followed by the anonymization or taken back: professionals  *)
(* who were anonymized and cannot be deleted do not fill the batches of    *)
(* anonymize_professionals.                                                *)
NoticeEnds ==
    \A p \in Professionals :
       (calm /\ u[p].notified <= MaxDay - GRACE_PERIOD) ~> (Gone(p) \/ ~Notified(p))

(* "If a professional was anonymized without deletion just because of an   *)
(* assignment like these, he will be deleted on the next command run":     *)
(* at least, on one of the next runs.                                      *)
FreedIsDeleted ==
    \A p \in Professionals :
       (calm /\ u[p].notified <= MaxDay - GRACE_PERIOD /\ ~u[p].email /\ u[p].blocked = "no")
           ~> (~u[p].live \/ u[p].email \/ ~Notified(p))
=============================================================================
