--------------------------- MODULE PENotification ---------------------------
(***************************************************************************)
(* The command send_approvals_to_pe, run every five minutes, tells France  *)
(* Travail the dates of every PASS IAE and of every cancelled one          *)
(* (itou/approvals/models.py: PENotificationMixin, CancelledApproval,      *)
(* Approval.notify_pole_emploi and the trigger                             *)
(* plan_pe_notification_on_date_updates; itou/utils/apis/pole_emploi.py).  *)
(*                                                                         *)
(* Nothing is atomic: each UPDATE of the command commits on its own, the   *)
(* batch is read once and its instances are sent one after the other, a    *)
(* run that lasts overlaps the next one, and a run may die anywhere.       *)
(* `mode`, chosen once, says what happens together:                        *)
(*   "overlap"  runs overlap, none dies, no PASS changes during a run;     *)
(*   "stale"    a run ends before the next, whole PASS are saved that were *)
(*              read before, and no PASS changes during a run;             *)
(*   "during"   a run ends before the next, PASS change at any time.       *)
(***************************************************************************)
EXTENDS Naturals, FiniteSets, FiniteSetsExt

CONSTANTS NumPasses,   \* PASS IAE, numbered in the order of their starts
          OddKinds,    \* those from a kind of company France Travail has no code for
          Changing,    \* bound: those whose dates, owner or data ever change
          Runs,        \* runs of the command that may overlap
          BatchSize,   \* MAX_APPROVALS_PER_RUN
          MaxDates,    \* bound: starts, and ends, that a PASS ever has
          MaxCrashes,  \* bound: runs that die
          MaxEdits     \* bound: changes of the data of a job seeker

Passes == 1..NumPasses

ASSUME PEAssumption ==
    /\ {NumPasses, BatchSize, MaxDates} \subseteq Nat \ {0}
    /\ {MaxCrashes, MaxEdits} \subseteq Nat
    /\ OddKinds \subseteq Passes /\ Changing \subseteq Passes

VARIABLES mode,
          row,       \* of each PASS: the row of its table, live or cancelled
          begun,     \* its start has come (start_at <= today)
          known,     \* pe_obfuscated_nir of the job seeker, or its copy once cancelled
          complete,  \* names, birthdate and nir (Delete comes with the last hiring)
          ft,        \* what France Travail holds: dates, Cancelled, or Unknown
          run,       \* runs in progress
          editor,    \* an instance of a PASS read to be saved as a whole
          crashes, edits

vars == <<mode, row, begun, known, complete, ft, run, editor, crashes, edits>>

(* Dates are numbered as they are chosen: no two choices are the same.     *)
Dates(start, end) == [start |-> start, end |-> end]
Unknown == Dates(0, 0)
Cancelled == Dates(0, 1)   \* a PASS that ends the day it begins (get_pe_end_at)
NoPass == [p |-> 0]
Off == [pc |-> "off", kind |-> "live", todo |-> {}, room |-> 0, cur |-> NoPass,
        status |-> "PENDING", endpoint |-> "none"]
Quiet == mode # "during" => \A r \in Runs : run[r] = Off
World == <<mode, begun, complete, editor, crashes, edits>>

(***************************************************************************)
(* The command.                                                            *)
(***************************************************************************)
Goto(r, from, to) ==
    /\ run[r].pc = from
    /\ run' = [run EXCEPT ![r].pc = to]

StartRun(r) ==
    /\ mode # "overlap" => \A s \in Runs : run[s] = Off
    /\ Goto(r, "off", "fix")
    /\ UNCHANGED <<row, known, ft, World>>

(* Three UPDATEs, each of which commits: an ERROR on rech_individu is      *)
(* PENDING again when the job seeker is known since, then what is PENDING  *)
(* is READY when it can be, in one table and in the other.                 *)
Fixed == {p \in Passes : /\ row[p].kind = "live" /\ known[p]
                         /\ row[p].status = "ERROR" /\ row[p].endpoint = "rech_individu"}
NowReady(kind) == {p \in Passes : row[p].kind = kind /\ row[p].status = "PENDING" /\ begun[p] /\ complete[p]}
UpdateStatus(S, status) ==
    row' = [p \in Passes |-> IF p \in S THEN [row[p] EXCEPT !.status = status] ELSE row[p]]
FixErrors(r) ==
    /\ Goto(r, "fix", "ready") /\ UpdateStatus(Fixed, "PENDING")
    /\ UNCHANGED <<known, ft, World>>
PrepareLive(r) ==
    /\ Goto(r, "ready", "cready") /\ UpdateStatus(NowReady("live"), "READY")
    /\ UNCHANGED <<known, ft, World>>
PrepareCancelled(r) ==
    /\ Goto(r, "cready", "select") /\ UpdateStatus(NowReady("cancelled"), "READY")
    /\ UNCHANGED <<known, ft, World>>

(* queryset[:n], ordered by -start_at: what is sent is what is read here.  *)
Queue(kind) == {p \in Passes : row[p].kind = kind /\ row[p].status \in {"READY", "SHOULD_RETRY"}}
(* Mutant: a limit of its own for each kind that leaves nothing.           *)
BatchOfNone(kind, room) == {p \in Queue(kind) : Cardinality({q \in Queue(kind) : q > p}) + 1 < room}
Batch(kind, room) == {p \in Queue(kind) : Cardinality({q \in Queue(kind) : q > p}) < room}
Select(r) ==
    /\ run[r].pc \in {"select", "cselect"}
    /\ LET kind == IF run[r].pc = "select" THEN "live" ELSE "cancelled"
           room == IF run[r].pc = "select" THEN BatchSize ELSE run[r].room
           batch == Batch(kind, room)
       IN  run' = [run EXCEPT ![r] = [Off EXCEPT !.pc = "notify", !.kind = kind,
                    !.todo = {[p |-> p, dates |-> row[p].dates, begun |-> begun[p]] : p \in batch},
                    !.room = room - Cardinality(batch)]]
    /\ UNCHANGED <<row, known, ft, World>>

(* notify_pole_emploi: the checks that come before any call.               *)
Answered(r, status, endpoint) ==
    run' = [run EXCEPT ![r].pc = "save", ![r].status = status, ![r].endpoint = endpoint]
Notify(r) ==
    /\ run[r].pc = "notify" /\ run[r].todo # {}
    /\ LET i == CHOOSE j \in run[r].todo : \A k \in run[r].todo : k.p <= j.p
           next == [run[r] EXCEPT !.todo = @ \ {i}, !.cur = i]
           saved(status) == [next EXCEPT !.pc = "save", !.status = status, !.endpoint = "none"]
       IN  run' = [run EXCEPT ![r] =
                     IF ~i.begun THEN saved("PENDING")
                     ELSE IF i.p \in OddKinds THEN saved("ERROR")
                     ELSE IF ~complete[i.p] THEN saved("PENDING")
                     ELSE IF known[i.p] THEN [next EXCEPT !.pc = "maj_pass"]
                     ELSE [next EXCEPT !.pc = "rech_individu"]]
    /\ UNCHANGED <<row, known, ft, World>>

(* recherche_individu_certifie and mise_a_jour_pass_iae: an exit code, or  *)
(* an exception after which the call may have been heard all the same.     *)
SearchAnswer(r) ==
    /\ run[r].pc = "rech_individu"
    /\ \/ /\ run' = [run EXCEPT ![r].pc = "maj_pass"]
          /\ known' = [known EXCEPT ![run[r].cur.p] = @ \/ row[run[r].cur.p].kind = run[r].kind]
       \/ Answered(r, "ERROR", "rech_individu") /\ UNCHANGED known
    /\ UNCHANGED <<row, ft, World>>
Told(r) == [ft EXCEPT ![run[r].cur.p] = IF run[r].kind = "live" THEN run[r].cur.dates ELSE Cancelled]
MajAnswer(r) ==
    /\ run[r].pc = "maj_pass"
    /\ \/ Answered(r, "SUCCESS", "none") /\ ft' = Told(r)
       \/ Answered(r, "ERROR", "maj_pass") /\ UNCHANGED ft
    /\ UNCHANGED <<row, known, World>>
(* Mutant: an exception counts as an answer.                               *)
FailIsAnswer(r) ==
    /\ run[r].pc \in {"rech_individu", "maj_pass"}
    /\ Answered(r, "SUCCESS", "none")
    /\ ft' \in {ft} \cup (IF run[r].pc = "maj_pass" THEN {Told(r)} ELSE {})
    /\ UNCHANGED <<row, known, World>>
CallFails(r) ==
    /\ run[r].pc \in {"rech_individu", "maj_pass"}
    /\ Answered(r, "SHOULD_RETRY", "none")
    /\ ft' \in {ft} \cup (IF run[r].pc = "maj_pass" THEN {Told(r)} ELSE {})
    /\ UNCHANGED <<row, known, World>>

(* _pe_notification_update: the row by its key, in the table of its kind.  *)
SaveStatus(r) ==
    /\ run[r].pc = "save"
    /\ run' = [run EXCEPT ![r] = [Off EXCEPT !.pc = "notify", !.kind = run[r].kind,
                                             !.todo = run[r].todo, !.room = run[r].room]]
    /\ LET p == run[r].cur.p IN
       row' = IF row[p].kind # run[r].kind THEN row
              ELSE [row EXCEPT ![p].status = run[r].status, ![p].endpoint = run[r].endpoint]
    /\ UNCHANGED <<known, ft, World>>

EndBatch(r) ==
    /\ run[r].pc = "notify" /\ run[r].todo = {}
    /\ run' = [run EXCEPT ![r] = IF run[r].kind = "live" THEN [Off EXCEPT !.pc = "cselect", !.room = run[r].room]
                                 ELSE Off]
    /\ UNCHANGED <<row, known, ft, World>>

Crash(r) ==
    /\ mode # "overlap" /\ run[r] # Off /\ crashes < MaxCrashes
    /\ run' = [run EXCEPT ![r] = Off]
    /\ crashes' = crashes + 1
    /\ UNCHANGED <<mode, row, begun, known, complete, ft, editor, edits>>

(***************************************************************************)
(* The rest of the application.                                            *)
(***************************************************************************)
(* Mutant: the trigger leaves the status as it is.                         *)
KeepStatus(p, dates, status) ==
    row' = [row EXCEPT ![p].dates = dates, ![p].status = status]
(* An UPDATE of the dates and of the status: the trigger                   *)
(* plan_pe_notification_on_date_updates resets the status when the dates   *)
(* change, and refuses a change of both.                                   *)
UpdateRow(p, dates, status) ==
    \/ /\ dates = row[p].dates
       /\ row' = [row EXCEPT ![p].status = status]
    \/ /\ dates # row[p].dates /\ status = row[p].status
       /\ row' = [row EXCEPT ![p].dates = dates, ![p].status = "PENDING"]

(* A suspension, a prolongation: their triggers update end_at only.        *)
ShiftEnd(p) ==
    /\ Quiet /\ row[p].kind = "live" /\ row[p].dates.end < MaxDates
    /\ UpdateRow(p, [row[p].dates EXCEPT !.end = @ + 1], row[p].status)
    /\ UNCHANGED <<mode, begun, known, complete, ft, run, editor, crashes, edits>>
(* update_start_date, ApprovalAdmin.save_model: a whole row read before.   *)
ReadToSave(p) ==
    /\ mode = "stale" /\ editor = NoPass /\ row[p].kind = "live"
    /\ editor' = [p |-> p, dates |-> row[p].dates, status |-> row[p].status]
    /\ UNCHANGED <<mode, row, begun, known, complete, ft, run, crashes, edits>>
SaveWhole ==
    /\ Quiet /\ editor # NoPass
    /\ \/ /\ row[editor.p].kind = "live"
          /\ \E start \in {editor.dates.start, editor.dates.start + 1} \cap (1..MaxDates) :
                UpdateRow(editor.p, Dates(start, editor.dates.end), editor.status)
       \/ UNCHANGED row   \* refused by the trigger, or given up
    /\ editor' = NoPass
    /\ UNCHANGED <<mode, begun, known, complete, ft, run, crashes, edits>>

(* Approval.delete.                                                        *)
Delete(p) ==
    /\ Quiet /\ row[p].kind = "live"
    /\ row' = [row EXCEPT ![p] = [@ EXCEPT !.kind = "cancelled", !.status = "PENDING", !.endpoint = "none"]]
    /\ UNCHANGED <<mode, begun, known, complete, ft, run, editor, crashes, edits>>

Begin(p) ==
    /\ ~begun[p]
    /\ begun' = [begun EXCEPT ![p] = TRUE]
    /\ UNCHANGED <<mode, row, known, complete, ft, run, editor, crashes, edits>>
(* The data of the job seeker change, or its identifier is found elsewhere;*)
(* a cancelled PASS keeps the copy that Approval.delete made.              *)
EditProfile(p) ==
    /\ Quiet /\ row[p].kind = "live" /\ edits < MaxEdits /\ edits' = edits + 1
    /\ \/ complete' = [complete EXCEPT ![p] = ~@] /\ UNCHANGED known
       \/ ~known[p] /\ known' = [known EXCEPT ![p] = TRUE] /\ UNCHANGED complete
    /\ UNCHANGED <<mode, row, begun, ft, run, editor, crashes>>

Init ==
    /\ mode \in {"overlap", "stale", "during"}
    /\ row = [p \in Passes |-> [kind |-> "live", dates |-> Dates(1, 1), status |-> "PENDING", endpoint |-> "none"]]
    /\ begun \in {b \in [Passes -> BOOLEAN] : \A p \in Passes \ Changing : b[p]}
    /\ known = [p \in Passes |-> FALSE]
    /\ complete = [p \in Passes |-> TRUE]
    /\ ft = [p \in Passes |-> Unknown]
    /\ run = [r \in Runs |-> Off]
    /\ editor = NoPass
    /\ crashes = 0 /\ edits = 0

Command(r) ==
    \/ StartRun(r) \/ FixErrors(r) \/ PrepareLive(r) \/ PrepareCancelled(r) \/ Select(r)
    \/ Notify(r) \/ SearchAnswer(r) \/ MajAnswer(r) \/ CallFails(r) \/ SaveStatus(r) \/ EndBatch(r)
Next ==
    \/ \E r \in Runs : Command(r) \/ Crash(r)
    \/ \E p \in Changing : ShiftEnd(p) \/ ReadToSave(p) \/ Delete(p) \/ Begin(p) \/ EditProfile(p)
    \/ SaveWhole

(* The cron starts the command again and again, a run goes on, and France  *)
(* Travail answers now and then.                                           *)
Fairness ==
    /\ \A r \in Runs : WF_vars(Command(r))
    /\ SF_vars(\E r \in Runs : SearchAnswer(r))
    /\ SF_vars(\E r \in Runs : MajAnswer(r))
Spec == Init /\ [][Next]_vars /\ Fairness

(***************************************************************************)
(* Properties.                                                             *)
(***************************************************************************)
(* While no PASS changes during a run, France Travail holds the dates of   *)
(* every PASS whose status is SUCCESS: across overlaps, crashes, calls     *)
(* heard but not answered, suspensions between two runs and stale saves of *)
(* whole rows.                                                             *)
SuccessMeansKnown ==
    mode # "during" =>
        \A p \in Passes : row[p].status = "SUCCESS" /\ row[p].kind = "live" => ft[p] = row[p].dates

(* A cancelled PASS whose status is SUCCESS stays cancelled for France     *)
(* Travail, although the run in progress when it was cancelled still sends *)
(* the dates that it read.                                                 *)
CancelledStays ==
    \A p \in Passes : row[p].status = "SUCCESS" /\ row[p].kind = "cancelled" => ft[p] = Cancelled

(* Whatever crashes or fails on the way, a PASS that has begun and whose   *)
(* data stay complete is answered again and again: it is never left        *)
(* waiting behind the others of a full batch, unless runs overlap: then a  *)
(* late failure takes back the SUCCESS of the other run.                   *)
PendingIsAnswered ==
    mode # "overlap" =>
        \A p \in Passes :
            <>[](begun[p] /\ complete[p]) => []<>(row[p].status \in {"SUCCESS", "ERROR"})
=============================================================================
