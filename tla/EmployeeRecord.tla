--------------------------- MODULE EmployeeRecord ---------------------------
(***************************************************************************)
(* The employee record ("fiche salarie") of one hiring and its exchange    *)
(* with the ASP by SFTP files (itou/employee_record).                      *)
(*                                                                         *)
(* The dates of the PASS are a version number.  The commands that upload   *)
(* run outside a transaction: they read, put a file on the server, and     *)
(* only then mark what they sent; anything may happen in between, a crash  *)
(* included.  The ASP is external.  It takes the files in the order of     *)
(* their names (they are timestamps) and answers each of them, but not     *)
(* before the upload command has ended: it is given 10 minutes             *)
(* (max_runtime) and answers are fetched half an hour later at the soonest.*)
(***************************************************************************)
EXTENDS Integers, Sequences

CONSTANTS MaxDates,  \* bound: changes of the dates of the PASS
          MaxFiles,  \* bound: files put on the server
          CalmExtra  \* bound: what a calm behaviour gets more of both

ASSUME BoundsAssumption == MaxDates \in Nat /\ MaxFiles \in Nat /\ CalmExtra \in Nat

Files == 1..(MaxFiles + CalmExtra)
Dates == 0..(MaxDates + CalmExtra)

Status == {"NEW", "READY", "SENT", "REJECTED", "PROCESSED", "DISABLED", "ARCHIVED"}
NotificationStatus == {"NEW", "SENT", "PROCESSED", "REJECTED"}
CAN_BE_READY_STATES == {"NEW", "REJECTED", "DISABLED", "PROCESSED"}
CAN_BE_DISABLED_STATES == {"NEW", "REJECTED", "PROCESSED"}
CAN_BE_ARCHIVED_STATES == {"NEW", "READY", "REJECTED", "PROCESSED", "DISABLED"}

(* codeTraitement: success, duplicate, a known error and any other one.    *)
Codes == {"0000", "3436", "33xx", "other"}

VARIABLES
    calm,      \* chosen once: no crash, dates only change by a new suspension
               \* or prolongation, and never while a file is uploaded
    er,        \* the row: status ("none": no row), code, file, was it sent
    notes,     \* its update notifications, in order of creation
    missed,    \* was the PASS updated after the last snapshot of the record
    accepted,  \* is the application accepted (it then has its PASS)
    expired,   \* is the PASS over, and not prolongable
    date,      \* the dates of the PASS
    periods,   \* has the PASS a suspension or a prolongation
    up,        \* transfer_employee_records --upload: step, dates serialized
    nup,       \* transfer_employee_records_updates --upload: and the notification
    files,     \* names given so far
    inbox,     \* files the ASP has not read
    feedback,  \* answers on the server
    asp,       \* what the ASP knows
    answers    \* the answer to each file of records (history)

vars == <<calm, er, notes, missed, accepted, expired, date, periods, up, nup, files,
          inbox, feedback, asp, answers>>
world == <<calm, up, nup, files, inbox, feedback, asp, answers>>

Extra == IF calm THEN CalmExtra ELSE 0
FileLeft == files < MaxFiles + Extra
Absent == [st |-> "none", code |-> "none", file |-> 0, sent |-> FALSE]

Init ==
    /\ calm \in BOOLEAN
    /\ er = Absent /\ notes = <<>> /\ missed = FALSE
    /\ accepted = TRUE /\ expired = FALSE /\ date = 0 /\ periods = FALSE
    /\ up = [step |-> "idle", date |-> 0]
    /\ nup = [step |-> "idle", date |-> 0, note |-> 0]
    /\ files = 0 /\ inbox = <<>> /\ feedback = {}
    /\ asp = [known |-> FALSE, date |-> 0]
    /\ answers = [f \in Files |-> "none"]

(***************************************************************************)
(* Employer, support and scheduler.                                        *)
(***************************************************************************)

(* One NEW notification at most (unique_new_employee_record).              *)
Upsert(ns) ==
    IF \E i \in DOMAIN ns : ns[i].st = "NEW" THEN ns ELSE Append(ns, [st |-> "NEW", file |-> 0])

(* A save of the record renews updated_at: nothing is missed any more.     *)
Save(r) == er' = r /\ missed' = FALSE

Create ==
    /\ accepted /\ er.st = "none"
    /\ Save([Absent EXCEPT !.st = "NEW"])
    /\ UNCHANGED <<notes, accepted, expired, date, periods>> /\ UNCHANGED world

Ready ==
    /\ accepted /\ er.st \in CAN_BE_READY_STATES
    /\ Save([er EXCEPT !.st = "READY"])
    /\ UNCHANGED <<notes, accepted, expired, date, periods>> /\ UNCHANGED world

(* disable; enable needs the PASS.                                         *)
Disable ==
    /\ \/ er.st \in CAN_BE_DISABLED_STATES /\ Save([er EXCEPT !.st = "DISABLED"])
       \/ accepted /\ er.st = "DISABLED" /\ Save([er EXCEPT !.st = "NEW"])
    /\ UNCHANGED <<notes, accepted, expired, date, periods>> /\ UNCHANGED world

(* archive_employee_records, with check_archive.                           *)
Archive ==
    /\ accepted /\ expired
    /\ er.st \in CAN_BE_ARCHIVED_STATES
    /\ Save([er EXCEPT !.st = "ARCHIVED"])
    /\ UNCHANGED <<notes, accepted, expired, date, periods>> /\ UNCHANGED world

(* No transition is available for a code that is neither.                  *)
status_based_on_asp_processing_code ==
    CASE er.code = "none"             -> "NEW"
      [] er.code \in {"0000", "3436"} -> "PROCESSED"
      [] er.code = "33xx"             -> "REJECTED"
      [] OTHER                        -> "ARCHIVED"

(* sanitize_employee_records: unarchive() for a notification missed while  *)
(* archived ...                                                            *)
Unarchive ==
    /\ er.st = "ARCHIVED" /\ missed /\ ~expired /\ accepted
    /\ status_based_on_asp_processing_code # "ARCHIVED"
    /\ notes' = Upsert(notes)
    /\ Save([er EXCEPT !.st = status_based_on_asp_processing_code])
    /\ UNCHANGED <<accepted, expired, date, periods>> /\ UNCHANGED world

(* Mutant: a record the ASP is still expected to answer is kept.           *)
SanitizeUnsent ==
    /\ er.st \notin {"none", "SENT"} /\ ~accepted
    /\ er' = Absent /\ notes' = <<>> /\ missed' = FALSE
    /\ UNCHANGED <<accepted, expired, date, periods>> /\ UNCHANGED world

(* ... and _check_approvals: no record without a PASS.                     *)
Sanitize ==
    /\ er.st # "none" /\ ~accepted
    /\ er' = Absent /\ notes' = <<>> /\ missed' = FALSE
    /\ UNCHANGED <<accepted, expired, date, periods>> /\ UNCHANGED world

(* employee_record resend --unarchive: unarchive(), then ready().          *)
Resend ==
    /\ accepted /\ er.st = "ARCHIVED"
    /\ status_based_on_asp_processing_code \in CAN_BE_READY_STATES
    /\ notes' = IF missed THEN Upsert(notes) ELSE notes
    /\ Save([er EXCEPT !.st = "READY"])
    /\ UNCHANGED <<accepted, expired, date, periods>> /\ UNCHANGED world

(* JobApplication.cancel: refused once was_sent(), else it deletes the     *)
(* record with the hiring.                                                 *)
Cancel ==
    /\ accepted
    /\ ~er.sent
    /\ accepted' = FALSE
    /\ er' = Absent /\ notes' = <<>> /\ missed' = FALSE
    /\ UNCHANGED <<expired, date, periods>> /\ UNCHANGED world

Expire ==
    /\ ~expired /\ expired' = TRUE
    /\ UNCHANGED <<er, notes, missed, accepted, date, periods>> /\ UNCHANGED world

(* Mutant: the trigger leaves out the records being sent.                  *)
NotifiedOnceProcessed == {"PROCESSED", "DISABLED"}
(* The statuses the trigger create_employee_record_notification looks for. *)
NotifiedStatuses == {"PROCESSED", "SENT", "DISABLED"}

(* A suspension, a prolongation (or the removal of one), a new start date: *)
(* the trigger on the dates of the PASS.  It stamps a notification with    *)
(* NOW(), the start of the transaction: the date of the PASS may be later. *)
ChangeDates ==
    /\ date < MaxDates + Extra
    /\ calm => up.step = "idle" /\ nup.step = "idle"
    /\ date' = date + 1
    /\ periods' \in IF calm THEN {TRUE} ELSE BOOLEAN
    /\ expired' \in {FALSE, expired}
    /\ notes' = IF er.st \in NotifiedStatuses THEN Upsert(notes) ELSE notes
    /\ missed' \in IF er.st = "none" THEN {FALSE} ELSE {TRUE, notes' = notes}
    /\ UNCHANGED <<er, accepted>> /\ UNCHANGED world

(***************************************************************************)
(* transfer_employee_records --upload                                      *)
(***************************************************************************)
UploadSelect ==
    /\ up.step = "idle" /\ nup.step = "idle" /\ FileLeft
    /\ er.st = "READY" /\ accepted
    /\ up' = [step |-> "put", date |-> date]
    /\ UNCHANGED <<calm, er, notes, missed, accepted, expired, date, periods, nup, files,
                   inbox, feedback, asp, answers>>

(* The file is put and the command goes on, or an error is caught and it   *)
(* stops: nobody knows then (confirm=False) whether the file has arrived.  *)
UploadPut ==
    /\ up.step = "put" /\ FileLeft
    /\ files' = files + 1
    /\ \E arrived \in BOOLEAN, ok \in BOOLEAN :
          /\ ok => arrived
          /\ (calm /\ ~ok) => ~arrived
          /\ inbox' = IF arrived
                      THEN Append(inbox, [kind |-> "C", file |-> files', date |-> up.date])
                      ELSE inbox
          /\ up' = [up EXCEPT !.step = IF ok THEN "mark" ELSE "idle"]
    /\ UNCHANGED <<calm, er, notes, missed, accepted, expired, date, periods, nup,
                   feedback, asp, answers>>

(* wait_for_asp_response saves the instance read by UploadSelect, whose    *)
(* code EmployeeRecordBatch has blanked: a row that was deleted meanwhile  *)
(* is inserted again.  The file is the last one put:                       *)
(* transfer_employee_records.sh runs the two commands in sequence.         *)
UploadMark ==
    /\ up.step = "mark"
    /\ Save([st |-> "SENT", code |-> "none", file |-> files, sent |-> TRUE])
    /\ up' = [up EXCEPT !.step = "idle"]
    /\ UNCHANGED <<calm, notes, accepted, expired, date, periods, nup, files,
                   inbox, feedback, asp, answers>>

(***************************************************************************)
(* transfer_employee_records_updates --upload                              *)
(***************************************************************************)
NotifySelect ==
    /\ nup.step = "idle" /\ up.step = "idle" /\ FileLeft
    /\ \E i \in DOMAIN notes :
          /\ notes[i].st = "NEW"
          /\ nup' = [step |-> "put", date |-> date, note |-> i]
    /\ UNCHANGED <<calm, er, notes, missed, accepted, expired, date, periods, up, files,
                   inbox, feedback, asp, answers>>

NotifyPut ==
    /\ nup.step = "put" /\ FileLeft
    /\ files' = files + 1
    /\ \E arrived \in BOOLEAN, ok \in BOOLEAN :
          /\ ok => arrived
          /\ (calm /\ ~ok) => ~arrived
          /\ inbox' = IF arrived
                      THEN Append(inbox, [kind |-> "M", file |-> files', date |-> nup.date])
                      ELSE inbox
          /\ nup' = [nup EXCEPT !.step = IF ok THEN "mark" ELSE "idle"]
    /\ UNCHANGED <<calm, er, notes, missed, accepted, expired, date, periods, up,
                   feedback, asp, answers>>

(* Saving a notification whose record is gone fails.                       *)
NotifyMark ==
    /\ nup.step = "mark"
    /\ notes' = IF nup.note \in DOMAIN notes
                THEN [notes EXCEPT ![nup.note] = [st |-> "SENT", file |-> files]]
                ELSE notes
    /\ nup' = [nup EXCEPT !.step = "idle"]
    /\ UNCHANGED <<calm, er, missed, accepted, expired, date, periods, up, files,
                   inbox, feedback, asp, answers>>

(* The container is stopped, or an exception ends the command.             *)
Crash ==
    /\ ~calm
    /\ up.step # "idle" \/ nup.step # "idle"
    /\ up' = [up EXCEPT !.step = "idle"] /\ nup' = [nup EXCEPT !.step = "idle"]
    /\ UNCHANGED <<calm, er, notes, missed, accepted, expired, date, periods, files,
                   inbox, feedback, asp, answers>>

(***************************************************************************)
(* The ASP (external).                                                     *)
(***************************************************************************)
AspAnswer ==
    LET m == Head(inbox) IN
    /\ inbox # <<>>
    /\ up.step # "mark" /\ nup.step # "mark"
    /\ inbox' = Tail(inbox)
    /\ \E c \in Codes :
          /\ c = "0000" => (asp.known <=> m.kind = "M")
          /\ c = "3436" => asp.known /\ m.kind = "C"
          /\ feedback' = feedback \cup {[kind |-> m.kind, file |-> m.file, code |-> c]}
          /\ asp' = IF c = "0000" THEN [known |-> TRUE, date |-> m.date] ELSE asp
          /\ answers' = IF m.kind = "C" THEN [answers EXCEPT ![m.file] = c] ELSE answers
    /\ UNCHANGED <<calm, er, notes, missed, accepted, expired, date, periods, up, nup, files>>

(***************************************************************************)
(* --download: one transaction per file, removed from the server once it   *)
(* is committed; a crash in between leaves it there.                       *)
(***************************************************************************)
Removed(f) == feedback' \in {feedback \ {f}} \cup (IF calm THEN {} ELSE {feedback})

(* Mutant: any answer is taken for the answer to the last file.            *)
MatchesRecord(f) == f.kind = "C" /\ er.st = "SENT"
(* find_by_batch, and only a record waiting for an answer.                 *)
Matches(f) == f.kind = "C" /\ er.file = f.file /\ er.st = "SENT"

(* Mutant: the file is removed whether or not it could be applied.         *)
RecordFeedbackDropped(f) ==
    /\ f.kind = "C"
    /\ IF Matches(f) /\ accepted
       THEN /\ Save([er EXCEPT !.code = f.code,
                       !.st = IF f.code \in {"0000", "3436"} THEN "PROCESSED" ELSE "REJECTED"])
            /\ notes' = IF f.code = "3436" /\ periods THEN Upsert(notes) ELSE notes
       ELSE UNCHANGED <<calm, er, notes, missed>>
    /\ feedback' = feedback \ {f}
    /\ UNCHANGED <<calm, accepted, expired, date, periods, up, nup, files, inbox, asp, answers>>

(* process() and reject() clean the record first: an application that is   *)
(* not accepted raises and the file stays.  A duplicate counts as          *)
(* processed, and is notified if the PASS has a suspension or prolongation.*)
RecordFeedback(f) ==
    /\ f.kind = "C"
    /\ Matches(f) => accepted
    /\ IF Matches(f)
       THEN /\ Save([er EXCEPT !.code = f.code,
                       !.st = IF f.code \in {"0000", "3436"} THEN "PROCESSED" ELSE "REJECTED"])
            /\ notes' = IF f.code = "3436" /\ periods THEN Upsert(notes) ELSE notes
       ELSE UNCHANGED <<calm, er, notes, missed>>
    /\ Removed(f)
    /\ UNCHANGED <<calm, accepted, expired, date, periods, up, nup, files, inbox, asp, answers>>

NotificationFeedback(f) ==
    /\ f.kind = "M"
    /\ notes' = [i \in DOMAIN notes |->
                   IF notes[i] = [st |-> "SENT", file |-> f.file]
                   THEN [notes[i] EXCEPT !.st = IF f.code = "0000" THEN "PROCESSED" ELSE "REJECTED"]
                   ELSE notes[i]]
    /\ Removed(f)
    /\ UNCHANGED <<calm, er, missed, accepted, expired, date, periods, up, nup, files, inbox, asp, answers>>

Download == \E f \in feedback : RecordFeedback(f) \/ NotificationFeedback(f)

Next ==
    \/ Create \/ Ready \/ Disable \/ Archive \/ Unarchive \/ Sanitize \/ Resend \/ Cancel
    \/ Expire \/ ChangeDates
    \/ UploadSelect \/ UploadPut \/ UploadMark
    \/ NotifySelect \/ NotifyPut \/ NotifyMark \/ Crash
    \/ AspAnswer \/ Download

Spec == Init /\ [][Next]_vars

(* The scheduler runs sanitize and download over and over, an upload that  *)
(* has put its file goes on or crashes, and the ASP answers.               *)
FairSpec ==
    /\ Spec
    /\ WF_vars(UploadMark \/ NotifyMark \/ Crash) /\ WF_vars(AspAnswer) /\ WF_vars(Sanitize)
    /\ \A f \in [kind: {"C"}, file: Files, code: Codes] :
          WF_vars(f \in feedback /\ RecordFeedback(f))

-----------------------------------------------------------------------------

(* The rows, the files and what the ASP knows keep their types.            *)
TypeOK ==
    /\ calm \in BOOLEAN
    /\ er \in [st: Status \cup {"none"}, code: Codes \cup {"none"}, file: Files \cup {0}, sent: BOOLEAN]
    /\ notes \in Seq([st: NotificationStatus, file: Files \cup {0}])
    /\ missed \in BOOLEAN /\ accepted \in BOOLEAN /\ expired \in BOOLEAN /\ periods \in BOOLEAN
    /\ date \in Dates
    /\ up \in [step: {"idle", "put", "mark"}, date: Dates]
    /\ nup \in [step: {"idle", "put", "mark"}, date: Dates, note: Nat]
    /\ files \in Files \cup {0}
    /\ inbox \in Seq([kind: {"C", "M"}, file: Files, date: Dates])
    /\ feedback \subseteq [kind: {"C", "M"}, file: Files, code: Codes]
    /\ asp \in [known: BOOLEAN, date: Dates]
    /\ answers \in [Files -> Codes \cup {"none"}]

(* The processing code of a record, on which unarchive() relies, is the    *)
(* answer of the ASP to the last file the record was sent in, however many *)
(* times it was sent, crashed, answered late or answered twice.            *)
CodeAnswersLastFile == er.code # "none" => answers[er.file] = er.code

(* A record waits for an answer only while there is one to come: its file  *)
(* is with the ASP or its feedback file is still on the server.            *)
SentIsAnswered ==
    er.st = "SENT" =>
        \/ \E i \in DOMAIN inbox : inbox[i].kind = "C" /\ inbox[i].file = er.file
        \/ \E f \in feedback : f.kind = "C" /\ f.file = er.file

(* Every record sent gets out of the status SENT.                          *)
SentGetsAnswer == er.st = "SENT" ~> er.st # "SENT"

(* "then we create a notification to be sure the ASP has the correct end   *)
(* date" (transfer_employee_records): once a record is processed and all   *)
(* its notifications are too, the ASP has the dates of the PASS.           *)
AspUpToDate ==
    /\ calm /\ er.st = "PROCESSED" /\ up.step = "idle" /\ nup.step = "idle"
    /\ \A i \in DOMAIN notes : notes[i].st = "PROCESSED"
    => asp = [known |-> TRUE, date |-> date]
=============================================================================
