-------------------------- MODULE ApprovalPeriods --------------------------
(***************************************************************************)
(* The dates of one PASS IAE: its suspensions, its prolongations, the      *)
(* requests for a prolongation and the triggers update_approval_end_at     *)
(* (itou/approvals/models.py, the views of itou/www/approvals_views and    *)
(* the support's pages of itou/approvals/admin*.py).                       *)
(*                                                                         *)
(* A request reads an instance when it begins and saves it later; between  *)
(* the two, others commit unless the run is serial.  Saves are checked by  *)
(* the database: the exclusion constraints on the two kinds of periods,    *)
(* one pending request, one prolongation and one refusal per request.      *)
(* Requests that save the PASS itself are taken as a whole.                *)
(***************************************************************************)
EXTENDS Integers, FiniteSets, FiniteSetsExt

CONSTANTS Workers,        \* requests in flight on the periods of the PASS
          NumSuspensions, \* bound: suspensions ever created
          NumProlongations, \* bound: prolongations ever created
          NumRequests,    \* bound: prolongation requests ever made
          MaxDay,         \* bound: the last day of the calendar
          PassDays,       \* DEFAULT_APPROVAL_DAYS
          HireWindow,     \* a hiring starts at most that far ahead (6 months)
          OpenBefore,     \* IS_OPEN_TO_PROLONGATION_BOUNDARIES_MONTHS_BEFORE_END
          OpenAfter,      \* IS_OPEN_TO_PROLONGATION_BOUNDARIES_MONTHS_AFTER_END
          SuspensionMax,  \* Suspension.MAX_DURATION_MONTHS
          Retroactivity,  \* Suspension.MAX_RETROACTIVITY_DURATION_DAYS
          DirectMax,      \* "max_duration" of the reasons without an opinion
          RequestMax,     \* "max_duration" of the others
          CumulativeMax   \* "max_cumulative_duration" of the others

SuspIds == 1..NumSuspensions
ProlIds == 1..NumProlongations
ReqIds == 1..NumRequests

ASSUME DurationsAssumption ==
    /\ {NumSuspensions, NumProlongations, NumRequests, MaxDay, HireWindow, OpenBefore,
        OpenAfter, Retroactivity} \subseteq Nat
    /\ {PassDays, SuspensionMax, DirectMax, RequestMax, CumulativeMax} \subseteq Nat \ {0}
    /\ OpenBefore < PassDays /\ RequestMax <= CumulativeMax

VARIABLES today,
          serial,   \* chosen once: no request begins before the other has ended
          pass,     \* [start, end] of the PASS
          hire,     \* hiring_start_at of the last accepted application
          susp,     \* suspension rows
          prol,     \* prolongation rows; req is the request granted, or 0
          reqs,     \* prolongation requests; info: it has a deny_information
          support,  \* history: the support "moved" a PASS with periods or "closed" it
          work      \* requests in flight: what each one has read

vars == <<today, serial, pass, hire, susp, prol, reqs, support, work>>

None == [st |-> "none"]
Idle == [op |-> "idle"]
Live(rows) == {k \in DOMAIN rows : rows[k].st = "live"}
Length(row) == row.end - row.start
Days(rows) == MapThenSumSet(LAMBDA k : Length(rows[k]), Live(rows))
FreeId(rows, k) == rows[k] = None /\ \A j \in DOMAIN rows : j < k => rows[j] # None

(***************************************************************************)
(* The database.                                                           *)
(***************************************************************************)
(* exclude_overlapping_suspensions: [start, end], both inclusive.          *)
NoOverlapSuspension(rows, k, start, end) ==
    \A j \in Live(rows) \ {k} : rows[j].end < start \/ end < rows[j].start
(* exclude_prolongation_overlapping_dates: [start, end), end exclusive.    *)
NoOverlapProlongation(rows, start, end) ==
    \A j \in Live(rows) : rows[j].end <= start \/ end <= rows[j].start
(* Mutant: the trigger forgets the old period when a row is updated.       *)
TriggerKeepsOld(old, new) ==
    IF new.st = "live" THEN Length(new) ELSE 0 - Length(old)
(* Trigger update_approval_end_at: what an insertion, an update or a       *)
(* deletion adds to the end of the PASS.                                   *)
update_approval_end_at(old, new) ==
    (IF new.st = "live" THEN Length(new) ELSE 0) - (IF old.st = "live" THEN Length(old) ELSE 0)

SaveSuspensionRow(k, row) ==
    /\ row.st = "live" => NoOverlapSuspension(susp, k, row.start, row.end) /\ row.start <= today
    /\ susp' = [susp EXCEPT ![k] = row]
    /\ pass' = [pass EXCEPT !.end = @ + update_approval_end_at(susp[k], row)]
(* Deleting a row that is no longer there does nothing.                    *)
DeleteSuspensionRow(k) ==
    IF susp[k].st = "live" THEN SaveSuspensionRow(k, [st |-> "gone"])
    ELSE UNCHANGED <<susp, pass>>
InsertProlongation(k, start, end, reason, r) ==
    /\ FreeId(prol, k)
    /\ NoOverlapProlongation(prol, start, end)
    /\ r # 0 => \A j \in Live(prol) : prol[j].req # r
    /\ LET row == [st |-> "live", start |-> start, end |-> end, reason |-> reason, req |-> r]
       IN  /\ prol' = [prol EXCEPT ![k] = row]
           /\ pass' = [pass EXCEPT !.end = @ + update_approval_end_at(None, row)]

(***************************************************************************)
(* What the models answer.                                                 *)
(***************************************************************************)
get_default_end_date(start) == start + PassDays - 1
is_valid == today <= pass.end
is_in_progress == pass.start <= today /\ today <= pass.end
InProgress(rows) == {k \in Live(rows) : rows[k].start <= today /\ today <= rows[k].end}
is_suspended == InProgress(susp) # {}
can_be_suspended == is_in_progress /\ ~is_suspended
can_postpone_start_date == pass.start > today
PendingRequests == {r \in DOMAIN reqs : reqs[r].st = "pending"}
is_open_to_prolongation == pass.end - OpenBefore <= today /\ today <= pass.end + OpenAfter
(* Mutant: a PASS can be prolonged while it is suspended.                  *)
ProlongedThoughSuspended == is_open_to_prolongation /\ PendingRequests = {}
can_be_prolonged == is_open_to_prolongation /\ ~is_suspended /\ PendingRequests = {}

(* last_old_suspension and next_min_start_at.                              *)
OldSuspensions(k) == {j \in Live(susp) \ {k} : susp[j].end < today}
next_min_start_at(k, referent) ==
    LET old == OldSuspensions(k)
        last == CHOOSE j \in old : \A i \in old : susp[i].start <= susp[j].start
        from == IF old = {} THEN hire ELSE susp[last].end + 1
        threshold == referent - Retroactivity
    IN  IF from < threshold THEN threshold ELSE from

Suspension_get_max_end_at(start) == start + SuspensionMax - 1
(* Suspension.clean, for the PASS p that was read.                         *)
SuspensionIsValid(p, start, end) ==
    /\ start <= end /\ end <= Suspension_get_max_end_at(start)
    /\ p.start <= start /\ start <= p.end
(* SuspensionForm; the end is the latest one when it is not known.         *)
SuspensionForm(p, k, start, end, referent) ==
    SuspensionIsValid(p, start, end) /\ start >= next_min_start_at(k, referent)
(* SuspensionEndDateForm: first_day_back_to_work.                          *)
SuspensionEndDateForm(row) == (row.start + 1)..(row.end - 1)

Reasons == {"direct", "opinion"}  \* REASONS_NOT_NEED_PRESCRIBER_OPINION, and the others
(* Mutant: what is left is counted for each declaration on its own.        *)
MaxEndForgetsUsed(start, reason) ==
    start + (IF reason = "direct" THEN DirectMax ELSE RequestMax)
get_max_end_at(start, reason) ==
    IF reason = "direct" THEN start + DirectMax
    ELSE start + Min({RequestMax, CumulativeMax - Days(prol)})
(* CommonProlongation.clean: at least a day.                               *)
ProlongationEnds(start, reason) == (start + 1)..get_max_end_at(start, reason)

(* Bound: requests begin until the support takes the dates in hand.        *)
Untouched == support = "none"

(***************************************************************************)
(* Requests on periods: what they read and check, then what they save.     *)
(* The employer is the one that hired last (last_hire_was_made_by_siae).   *)
(***************************************************************************)
Start(w, read) ==
    /\ work[w] = Idle /\ Untouched
    /\ serial => \A v \in Workers : work[v] = Idle
    /\ work' = [work EXCEPT ![w] = read]
    /\ UNCHANGED <<today, serial, pass, hire, susp, prol, reqs, support>>
Finish(w) ==
    /\ work' = [work EXCEPT ![w] = Idle]
    /\ UNCHANGED <<today, serial, hire, support>>

ReadForSuspend(w) == can_be_suspended /\ Start(w, [op |-> "suspend", pass |-> pass])
suspend(w) ==
    /\ work[w].op = "suspend"
    /\ \E k \in SuspIds, start \in 0..today : \E end \in start..Suspension_get_max_end_at(start) :
          /\ FreeId(susp, k)
          /\ SuspensionForm(work[w].pass, 0, start, end, today)
          /\ SaveSuspensionRow(k, [st |-> "live", start |-> start, end |-> end, created |-> today])
    /\ Finish(w) /\ UNCHANGED <<prol, reqs>>

(* can_be_handled_by_siae: the suspension is in progress.                  *)
ReadSuspension(w, op) ==
    \E k \in InProgress(susp) : Start(w, [op |-> op, id |-> k, row |-> susp[k], pass |-> pass])
(* A save of a row deleted meanwhile inserts it again.                     *)
suspension_update(w) ==
    /\ work[w].op = "update"
    /\ LET k == work[w].id  row == work[w].row IN
       \E start \in 0..today : \E end \in start..Suspension_get_max_end_at(start) :
          /\ SuspensionForm(work[w].pass, k, start, end, row.created)
          /\ SaveSuspensionRow(k, [row EXCEPT !.start = start, !.end = end])
    /\ Finish(w) /\ UNCHANGED <<prol, reqs>>
suspension_update_enddate(w) ==
    /\ work[w].op = "enddate"
    /\ LET row == work[w].row IN
       \E back \in SuspensionEndDateForm(row) :
          SaveSuspensionRow(work[w].id, [row EXCEPT !.end = back - 1])
    /\ Finish(w) /\ UNCHANGED <<prol, reqs>>
suspension_delete(w) ==
    /\ work[w].op = "delete"
    /\ DeleteSuspensionRow(work[w].id)
    /\ Finish(w) /\ UNCHANGED <<prol, reqs>>

ReadForProlongation(w) == can_be_prolonged /\ Start(w, [op |-> "declare", pass |-> pass])
(* A request waits for the opinion of a prescriber (CreateProlongation-    *)
(* RequestForm).                                                           *)
RequestProlongation(start) ==
    /\ PendingRequests = {}
    /\ \E r \in ReqIds, end \in ProlongationEnds(start, "opinion") :
          /\ FreeId(reqs, r)
          /\ reqs' = [reqs EXCEPT ![r] = [st |-> "pending", start |-> start, end |-> end, info |-> FALSE]]
(* A prolongation, or a request when its reason needs an opinion.          *)
declare_prolongation(w) ==
    /\ work[w].op = "declare"
    /\ LET start == work[w].pass.end IN
       \/ /\ \E k \in ProlIds, end \in ProlongationEnds(start, "direct") :
                InsertProlongation(k, start, end, "direct", 0)
          /\ UNCHANGED reqs
       \/ RequestProlongation(start) /\ UNCHANGED <<prol, pass>>
    /\ Finish(w) /\ UNCHANGED susp

ReadRequest(w, op) ==
    \E r \in {q \in ReqIds : reqs[q] # None} :
       /\ op = "grant" => reqs[r].st # "granted"
       /\ Start(w, [op |-> op, id |-> r, row |-> reqs[r]])
(* Mutant: the two rows are not saved together.                            *)
GrantTwice(w) ==
    /\ work[w].op = "grant"
    /\ reqs' = [reqs EXCEPT ![work[w].id] = [@ EXCEPT !.st = "granted"]]
    /\ Finish(w) /\ UNCHANGED <<susp, prol, pass>>
(* ProlongationRequest.grant: both rows, or neither if a constraint fails. *)
(* The dates of a request never change, and its refusal is another row.    *)
grant(w) ==
    /\ work[w].op = "grant"
    /\ LET r == work[w].id  row == work[w].row IN
       /\ \E k \in ProlIds : InsertProlongation(k, row.start, row.end, "opinion", r)
       /\ reqs' = [reqs EXCEPT ![r] = [@ EXCEPT !.st = "granted"]]
    /\ Finish(w) /\ UNCHANGED susp
(* ProlongationRequest.deny: the status is not looked at again, but a      *)
(* request has one deny_information.                                       *)
deny(w) ==
    /\ work[w].op = "deny"
    /\ LET r == work[w].id IN
       /\ ~reqs[r].info
       /\ reqs' = [reqs EXCEPT ![r] = [@ EXCEPT !.st = "denied", !.info = TRUE]]
    /\ Finish(w) /\ UNCHANGED <<susp, prol, pass>>

(* The form is not valid, or a constraint refuses the save.                *)
GiveUp(w) ==
    /\ work[w] # Idle
    /\ Finish(w) /\ UNCHANGED <<susp, prol, reqs, pass>>

(***************************************************************************)
(* Requests that change the PASS itself, or the last hiring.               *)
(***************************************************************************)
Whole == Untouched /\ (serial => \A w \in Workers : work[w] = Idle)

(* Mutant: the end is delayed by what the start is, from the end so far.   *)
update_start_date_delays(p, d) ==
    IF can_postpone_start_date THEN [start |-> d, end |-> p.end] ELSE p
update_start_date(p, d) ==
    IF can_postpone_start_date THEN [start |-> d, end |-> get_default_end_date(d)] ELSE p

(* accept with a valid PASS: its start may move back, and a suspension in  *)
(* progress ends the day before the hiring, or is deleted (unsuspend), if  *)
(* its reason allows it (REASONS_ALLOWING_UNSUSPEND).                      *)
unsuspend(d) ==
    IF ~is_suspended THEN UNCHANGED <<susp, pass>>
    ELSE LET k == CHOOSE j \in InProgress(susp) : TRUE IN
         IF susp[k].start = d THEN DeleteSuspensionRow(k)
         ELSE SaveSuspensionRow(k, [susp[k] EXCEPT !.end = d - 1])
accept(d) ==
    /\ Whole /\ is_valid
    /\ d \in today..(today + HireWindow) /\ d <= pass.end
    /\ IF pass.start > d
       THEN pass' = update_start_date(pass, d) /\ UNCHANGED susp
       ELSE unsuspend(d) \/ UNCHANGED <<susp, pass>>
    /\ hire' = d
    /\ UNCHANGED <<today, serial, prol, reqs, support, work>>

edit_contract_start_date(d) ==
    /\ Whole
    /\ d \in today..(today + HireWindow)
    /\ can_postpone_start_date \/ d < pass.end
    /\ pass' = update_start_date(pass, d)
    /\ hire' = d
    /\ UNCHANGED <<today, serial, susp, prol, reqs, support, work>>

(* ApprovalAdmin.save_model, after ApprovalAdminForm.clean_start_at.  From *)
(* then on the dates of a PASS with periods are the support's: nothing     *)
(* moves the periods with it, and a PASS moved to a day to come is issued  *)
(* anew by update_start_date.                                              *)
HasPeriods ==
    Live(susp) # {} \/ Live(prol) # {} \/ \E r \in ReqIds : reqs[r] # None
(* Bound: the support comes when no other request is in flight.            *)
Support == Untouched /\ \A w \in Workers : work[w] = Idle
AdminSaveModel(d) ==
    /\ Support /\ d # pass.start
    /\ d \in (pass.start - 1)..(pass.start + 1)  \* bound: a day at a time
    /\ \A k \in Live(susp) : d <= susp[k].start
    /\ \A k \in Live(prol) : d <= prol[k].start
    /\ pass' = [start |-> d, end |-> pass.end + d - pass.start]
    /\ support' = IF HasPeriods THEN "moved" ELSE support
    /\ UNCHANGED <<today, serial, hire, susp, prol, reqs, work>>

(* terminate_approval: periods to come are deleted, the one in progress    *)
(* ends today, and so does the PASS (save refuses an end before the start).*)
ClipRow(rows, k) ==
    IF rows[k].st # "live" THEN rows[k]
    ELSE IF rows[k].start >= today THEN [st |-> "gone"]
    ELSE IF rows[k].end >= today THEN [rows[k] EXCEPT !.end = today]
    ELSE rows[k]
_clip_approval_dependency(rows) == [k \in DOMAIN rows |-> ClipRow(rows, k)]
terminate_approval ==
    /\ Support /\ is_valid /\ pass.start < today
    /\ prol' = _clip_approval_dependency(prol)
    /\ susp' = _clip_approval_dependency(susp)
    /\ pass' = [pass EXCEPT !.end = today]
    /\ support' = "closed"
    /\ UNCHANGED <<today, serial, hire, reqs, work>>

NewDay ==
    /\ today < MaxDay /\ Untouched
    /\ \A w \in Workers : work[w] = Idle
    /\ today' = today + 1
    /\ UNCHANGED <<serial, pass, hire, susp, prol, reqs, support, work>>

Init ==
    /\ today = 0
    /\ serial \in BOOLEAN
    /\ hire \in 0..HireWindow
    /\ pass = [start |-> hire, end |-> get_default_end_date(hire)]
    /\ susp = [k \in SuspIds |-> None]
    /\ prol = [k \in ProlIds |-> None]
    /\ reqs = [r \in ReqIds |-> None]
    /\ support = "none"
    /\ work = [w \in Workers |-> Idle]

Next ==
    \/ \E w \in Workers :
          \/ ReadForSuspend(w) \/ suspend(w)
          \/ \E op \in {"update", "enddate", "delete"} : ReadSuspension(w, op)
          \/ suspension_update(w) \/ suspension_update_enddate(w) \/ suspension_delete(w)
          \/ ReadForProlongation(w) \/ declare_prolongation(w)
          \/ \E op \in {"grant", "deny"} : ReadRequest(w, op)
          \/ grant(w) \/ deny(w) \/ GiveUp(w)
    \/ \E d \in 0..(MaxDay + HireWindow) :
          accept(d) \/ edit_contract_start_date(d) \/ AdminSaveModel(d)
    \/ terminate_approval
    \/ NewDay

Spec == Init /\ [][Next]_vars

(***************************************************************************)
(* Properties.                                                             *)
(***************************************************************************)
SuspRow == [st: {"live"}, start: Int, end: Int, created: Int]
ProlRow == [st: {"live"}, start: Int, end: Int, reason: Reasons, req: ReqIds \cup {0}]
ReqRow == [st: {"pending", "granted", "denied"}, start: Int, end: Int, info: BOOLEAN]
Gone == [st: {"none", "gone"}]

(* The type of the state.                                                  *)
TypeOK ==
    /\ today \in 0..MaxDay /\ serial \in BOOLEAN /\ support \in {"none", "moved", "closed"}
    /\ pass \in [start: Int, end: Int] /\ hire \in Int
    /\ susp \in [SuspIds -> SuspRow \cup Gone]
    /\ prol \in [ProlIds -> ProlRow \cup Gone]
    /\ reqs \in [ReqIds -> ReqRow \cup {None}]
    /\ DOMAIN work = Workers

(* The end of the PASS is its own days plus those of its periods, whatever *)
(* the order in which stale instances of periods are saved, deleted and    *)
(* saved again: the triggers lose nothing and count nothing twice.         *)
EndAddsUp ==
    support = "none" => pass.end = get_default_end_date(pass.start) + Days(susp) + Days(prol)

(* The same as a specification: every step adjusts one period, moves the   *)
(* PASS or closes it, and does to the end just what that calls for.        *)
Periods == ({"s"} \X SuspIds) \cup ({"p"} \X ProlIds)
Given ==
    [p \in Periods |->
        LET row == IF p[1] = "s" THEN susp[p[2]] ELSE prol[p[2]] IN
        IF row.st = "live" THEN Length(row) ELSE 0]
Credit == INSTANCE PassCredit WITH OwnDays <- PassDays, begin <- pass.start,
              length <- pass.end - pass.start + 1, given <- Given,
              closed <- support # "none"
EveryDayIsGiven == Credit!CreditSpec

(* "Prolongation hors periode du PASS IAE" (a check of the admin): as long *)
(* as requests do not overlap, no change of a suspension takes the end of  *)
(* the PASS back before the end of a prolongation, so that the next one    *)
(* never overlaps it.                                                      *)
ProlongationsWithinPass ==
    serial /\ support # "moved" => \A k \in Live(prol) : pass.start <= prol[k].start /\ prol[k].end <= pass.end

(* "Renouvellements possibles dans la limite de ...": a prolongation that  *)
(* needed an opinion never takes the total over the maximum of its reason, *)
(* although the total is computed when the request is made and not when it *)
(* is granted.                                                             *)
RenewalsWithinLimit ==
    serial /\ support = "none" => \A k \in Live(prol) : prol[k].reason = "opinion" =>
        MapThenSumSet(LAMBDA j : Length(prol[j]),
                      {j \in Live(prol) : prol[j].start <= prol[k].start}) <= CumulativeMax

(* The same, as long as no request is granted after it was refused: then   *)
(* nothing is prolonged between a request and its grant.                   *)
NoSecondThought == \A r \in ReqIds : reqs[r].st = "granted" => ~reqs[r].info
CumulativeBound == NoSecondThought => RenewalsWithinLimit

(* A request that was granted has its prolongation, even when a refusal of *)
(* the same request runs at the same time, until the support terminates    *)
(* the PASS.                                                               *)
GrantedIsProlonged ==
    \A r \in ReqIds : reqs[r].st = "granted" =>
        support = "closed" \/ \E k \in Live(prol) : prol[k].req = r
=============================================================================
