------------------------------- MODULE Tasks -------------------------------
(***************************************************************************)
(* Asynchronous tasks: the Huey queue in Redis with its fallback in        *)
(* PostgreSQL (itou/tasks), the sending of e-mails (itou/emails) and the   *)
(* certification of criteria (itou/eligibility/tasks.py and the command    *)
(* retry_certify_criteria).                                                *)
(*                                                                         *)
(* A job is an e-mail to send or a criterion to certify; its row is made   *)
(* by a transaction, and a copy of its task travels from the callback on   *)
(* commit to the queue, to a worker, to the schedule of retries, or to the *)
(* table of the tasks that could not be queued.  Processes crash, Redis is *)
(* unavailable for a while and the requeuing command is interrupted.       *)
(***************************************************************************)
EXTENDS Integers, FiniteSets

CONSTANTS Emails, Criteria,
          NumCopies,   \* bound: copies of tasks alive at the same time
          Workers,     \* threads of the consumer
          Retries,     \* retries of a task
          Spacing,     \* days between two attempts of retry_certify_criteria
          MaxDay,      \* bound: the last day
          MaxFaults    \* bound: crashes, interruptions and outages

Jobs == Emails \union Criteria
Copies == 1..NumCopies
Free == [at |-> "free"]

ASSUME TasksAssumption ==
    /\ {NumCopies, Workers, Spacing} \subseteq Nat \ {0}
    /\ {Retries, MaxDay, MaxFaults} \subseteq Nat
    /\ Emails \cap Criteria = {}

VARIABLES row,     \* Email and SelectedAdministrativeCriteria rows
          copy,    \* where each copy of a task is
          redis,   \* Redis answers
          day,
          faults,
          prompt,  \* chosen once: the worker keeps up (see NewDay)
          sent,    \* history: how many times an e-mail reached the provider
          over,    \* history: a task was lost, or its retries spent
          doubt    \* history: an answer or a deletion may have been lost

vars == <<row, copy, redis, day, faults, prompt, sent, over, doubt>>

CopiesOf(j) == {k \in Copies : copy[k].at # "free" /\ copy[k].job = j}
At(k, place) == copy[k].at = place
FreeCopy(k) == At(k, "free") /\ \A i \in Copies : i < k => ~At(i, "free")
Running == {k \in Copies : copy[k].at \in {"taken", "locked", "called"}}
Fault == faults < MaxFaults /\ faults' = faults + 1

(***************************************************************************)
(* The queue.                                                              *)
(***************************************************************************)
(* Mutant: without the fallback, a task that cannot be queued is dropped.  *)
EnqueueOnly(c) == IF redis THEN [c EXCEPT !.at = "queue"] ELSE Free
(* RedisStorageWithFallback.enqueue.                                       *)
enqueue(c) == [c EXCEPT !.at = IF redis THEN "queue" ELSE "table"]

(* Mutant: the task is queued when it is called, not on commit.            *)
QueuedAtOnce == IF redis THEN "queue" ELSE "table"
(* on_commit_task: the task waits for the commit of the transaction.       *)
on_commit_task == "registered"
NewTask(j, place) ==
    [at |-> place, job |-> j, retries |-> Retries, born |-> day, tried |-> FALSE, answer |-> "none"]

(* AsyncEmailBackend.send_messages or schedule_certification, inside the   *)
(* transaction of a request.                                               *)
Create(j) ==
    /\ row[j].st = "none"
    /\ \E k \in Copies : FreeCopy(k) /\ copy' = [copy EXCEPT ![k] = NewTask(j, on_commit_task)]
    /\ row' = [row EXCEPT ![j] = [@ EXCEPT !.st = "open", !.created = day]]
    /\ UNCHANGED <<redis, day, faults, prompt, sent, over, doubt>>
Commit(j) ==
    /\ row[j].st = "open"
    /\ row' = [row EXCEPT ![j].st = "live"]
    /\ copy' = [k \in Copies |->
                   IF k \in CopiesOf(j) /\ At(k, "registered") THEN [copy[k] EXCEPT !.at = "committed"]
                   ELSE copy[k]]
    /\ UNCHANGED <<redis, day, faults, prompt, sent, over, doubt>>
Rollback(j) ==
    /\ row[j].st = "open"
    /\ row' = [row EXCEPT ![j].st = "none"]
    /\ copy' = [k \in Copies |-> IF k \in CopiesOf(j) THEN Free ELSE copy[k]]
    /\ UNCHANGED <<redis, day, faults, prompt, sent, over, doubt>>
OnCommit(k) ==
    /\ At(k, "committed")
    /\ copy' = [copy EXCEPT ![k] = enqueue(@)]
    /\ UNCHANGED <<row, redis, day, faults, prompt, sent, over, doubt>>
(* The process stops between its commit and the callback.                  *)
WebCrash(k) ==
    /\ At(k, "committed") /\ Fault
    /\ copy' = [copy EXCEPT ![k] = Free]
    /\ over' = [over EXCEPT ![copy[k].job] = "lost"]
    /\ UNCHANGED <<row, redis, day, prompt, sent, doubt>>

(* Mutant: the row is kept once the task is queued again.                  *)
RequeueKeepsRow(k) ==
    \E i \in Copies : /\ FreeCopy(i)
                      /\ copy' = [copy EXCEPT ![i] = [copy[k] EXCEPT !.at = "queue"]]
Requeued(k) == copy' = [copy EXCEPT ![k] = enqueue(@)]
(* requeue_tasks, one task; the storage was checked before.                *)
requeue_tasks(k) ==
    /\ redis /\ At(k, "table")
    /\ Requeued(k)
    /\ UNCHANGED <<row, redis, day, faults, prompt, sent, over, doubt>>
(* Interrupted after the enqueue: the deletion is rolled back.             *)
RequeueInterrupted(k) ==
    /\ redis /\ At(k, "table") /\ Fault
    /\ \E i \in Copies : /\ FreeCopy(i)
                         /\ copy' = [copy EXCEPT ![i] = [copy[k] EXCEPT !.at = "queue"]]
    /\ doubt' = [doubt EXCEPT ![copy[k].job] = TRUE]
    /\ UNCHANGED <<row, redis, day, prompt, sent, over>>

(***************************************************************************)
(* A worker.                                                               *)
(***************************************************************************)
Dequeue(k) ==
    /\ redis /\ At(k, "queue") /\ Cardinality(Running) < Workers
    /\ copy' = [copy EXCEPT ![k].at = "taken"]
    /\ UNCHANGED <<row, redis, day, faults, prompt, sent, over, doubt>>
(* The row is read with a lock; a task whose row is gone ends.             *)
SelectForUpdate(k) ==
    /\ At(k, "taken")
    /\ \A i \in CopiesOf(copy[k].job) : copy[i].at \notin {"locked", "called"}
    /\ copy' = [copy EXCEPT ![k] = IF row[copy[k].job].st = "live"
                                   THEN [@ EXCEPT !.at = "locked"] ELSE Free]
    /\ UNCHANGED <<row, redis, day, faults, prompt, sent, over, doubt>>

(* The call to Mailjet: an error or an exception does not tell whether the *)
(* message went.                                                           *)
SendMessage(k) ==
    /\ At(k, "locked") /\ copy[k].job \in Emails
    /\ LET e == copy[k].job
       IN  \E answer \in {"success", "error", "exception"}, went \in BOOLEAN :
              /\ answer = "success" => went
              /\ copy' = [copy EXCEPT ![k].at = "called", ![k].answer = answer]
              /\ sent' = [sent EXCEPT ![e] = IF went /\ @ < 2 THEN @ + 1 ELSE @]
              /\ doubt' = [doubt EXCEPT ![e] = @ \/ (went /\ answer # "success")]
    /\ UNCHANGED <<row, redis, day, faults, prompt, over>>
(* The call to the API Particulier or to France Travail: a period, an      *)
(* empty one, an answer that leaves it unknown, an error to retry, a rate  *)
(* limit, or a job seeker without the information needed.                  *)
Certify(k) ==
    /\ At(k, "locked") /\ copy[k].job \in Criteria
    /\ \E answer \in {"period", "empty", "unknown", "error", "later", "skipped"} :
          copy' = [copy EXCEPT ![k].at = "called", ![k].answer = answer]
    /\ UNCHANGED <<row, redis, day, faults, prompt, sent, over, doubt>>

(* The row is saved with the answer.  An exception rolls the e-mail back.  *)
_async_send_message(r, answer) ==
    IF answer = "exception" THEN r ELSE [r EXCEPT !.answer = answer]
_async_certify_criterion(r, answer) ==
    LET attempted == [r EXCEPT !.attempt = day]
    IN  CASE answer = "skipped" -> r
          [] answer \in {"period", "empty"} -> [attempted EXCEPT !.answer = answer]
          [] OTHER -> attempted
(* CancelExecution, RetryTask or another exception: Huey retries while     *)
(* retries are left, and once more in any case for a RetryTask.            *)
Retried(c) ==
    \/ c.answer \in {"error", "exception"} /\ c.retries > 0
    \/ c.answer = "later"
Finish(k) ==
    /\ At(k, "called")
    /\ LET c == copy[k]
           retries == IF c.retries = 0 THEN 0 ELSE c.retries - 1
       IN  /\ row' = [row EXCEPT ![c.job] = IF c.job \in Emails THEN _async_send_message(@, c.answer)
                                            ELSE _async_certify_criterion(@, c.answer)]
           /\ IF Retried(c) /\ redis
              THEN copy' = [copy EXCEPT ![k] = [c EXCEPT !.at = "schedule", !.retries = retries,
                                                         !.tried = TRUE, !.answer = "none"]]
              ELSE copy' = [copy EXCEPT ![k] = Free]
           (* The schedule has no fallback: without Redis the retry is lost. *)
           /\ over' = [over EXCEPT ![c.job] =
                          IF Retried(c) THEN (IF redis THEN @ ELSE "lost")
                          ELSE IF c.answer \in {"error", "exception"} THEN "spent" ELSE @]
    /\ UNCHANGED <<redis, day, faults, prompt, sent, doubt>>
(* The scheduler queues the retries whose delay is over.                   *)
Schedule(k) ==
    /\ redis /\ At(k, "schedule")
    /\ copy' = [copy EXCEPT ![k] = enqueue(@)]
    /\ UNCHANGED <<row, redis, day, faults, prompt, sent, over, doubt>>
(* The consumer stops: what its threads had taken is lost, their           *)
(* transactions are rolled back.                                           *)
ConsumerCrash ==
    /\ Running # {} /\ Fault
    /\ LET jobs == {copy[k].job : k \in Running}
       IN  /\ over' = [j \in Jobs |-> IF j \in jobs THEN "lost" ELSE over[j]]
           /\ doubt' = [j \in Jobs |-> doubt[j] \/ j \in jobs]
    /\ copy' = [k \in Copies |-> IF k \in Running THEN Free ELSE copy[k]]
    /\ UNCHANGED <<row, redis, day, prompt, sent>>

(***************************************************************************)
(* Commands and environment.                                               *)
(***************************************************************************)
(* Mutant: the date of the last attempt is not looked at.                  *)
RecertifiesTooSoon(c) ==
    row[c].st = "live" /\ row[c].answer \in {"none", "expired"} /\ row[c].created < day
to_recertify(c) ==
    /\ row[c].st = "live" /\ row[c].answer \in {"none", "expired"}
    /\ row[c].created < day
    /\ row[c].attempt = 0 \/ row[c].attempt < day - Spacing
(* retry_certify_criteria, once a day.                                     *)
retry_certify_criteria(c) ==
    /\ to_recertify(c) /\ row[c].asked # day
    /\ \E k \in Copies : FreeCopy(k) /\ copy' = [copy EXCEPT ![k] = NewTask(c, "committed")]
    /\ row' = [row EXCEPT ![c].asked = day]
    /\ UNCHANGED <<redis, day, faults, prompt, sent, over, doubt>>
(* The period given by France Travail ends.                                *)
PeriodEnds(c) ==
    /\ row[c].answer = "period"
    /\ row' = [row EXCEPT ![c].answer = "expired"]
    /\ UNCHANGED <<copy, redis, day, faults, prompt, sent, over, doubt>>
(* delete_old_emails, or a deletion in the admin.                          *)
DeleteEmail(e) ==
    /\ row[e].st = "live" /\ ~\E k \in CopiesOf(e) : copy[k].at \in {"locked", "called"}
    /\ row' = [row EXCEPT ![e].st = "deleted"]
    /\ UNCHANGED <<copy, redis, day, faults, prompt, sent, over, doubt>>
RedisDown ==
    /\ redis /\ Fault /\ redis' = FALSE
    /\ UNCHANGED <<row, copy, day, prompt, sent, over, doubt>>
RedisUp ==
    /\ ~redis /\ redis' = TRUE
    /\ UNCHANGED <<row, copy, day, faults, prompt, sent, over, doubt>>
(* When the worker keeps up, a task is tried on the day it is made and its *)
(* retries end before the criterion may be asked again.                    *)
NewDay ==
    /\ day < MaxDay /\ \E c \in Criteria : row[c].st = "live"
    /\ prompt => \A k \in Copies : copy[k].at # "free" /\ copy[k].job \in Criteria
                    => copy[k].tried /\ day < copy[k].born + Spacing
    /\ day' = day + 1
    /\ UNCHANGED <<row, copy, redis, faults, prompt, sent, over, doubt>>

Init ==
    (* A behaviour has e-mails or criteria: they only share the workers. *)
    /\ \E kind \in {Emails, Criteria} :
          row = [j \in Jobs |-> [st |-> IF j \in kind THEN "none" ELSE "deleted",
                                answer |-> "none", created |-> 0, attempt |-> 0, asked |-> 0]]
    /\ copy = [k \in Copies |-> Free]
    /\ redis = TRUE /\ day = 1 /\ faults = 0
    /\ prompt \in BOOLEAN
    /\ sent = [e \in Emails |-> 0]
    /\ over = [j \in Jobs |-> "no"]
    /\ doubt = [j \in Jobs |-> FALSE]

Work(k) ==
    OnCommit(k) \/ requeue_tasks(k) \/ SelectForUpdate(k) \/ SendMessage(k) \/ Certify(k)
    \/ Finish(k) \/ Schedule(k)
Next ==
    \/ \E j \in Jobs : Create(j) \/ Commit(j) \/ Rollback(j)
    \/ \E k \in Copies : Work(k) \/ Dequeue(k) \/ WebCrash(k) \/ RequeueInterrupted(k)
    \/ ConsumerCrash \/ RedisDown \/ RedisUp \/ NewDay
    \/ \E c \in Criteria : retry_certify_criteria(c) \/ PeriodEnds(c)
    \/ \E e \in Emails : DeleteEmail(e)

(* The consumer and its scheduler run, requeue_tasks runs every hour and   *)
(* Redis comes back; the queue is first in, first out, so a task is        *)
(* eventually taken whatever the others do.                                *)
Fairness ==
    /\ \A k \in Copies : WF_vars(Work(k)) /\ SF_vars(Dequeue(k))
    /\ WF_vars(RedisUp)
Spec == Init /\ [][Next]_vars /\ Fairness

(***************************************************************************)
(* Properties.                                                             *)
(***************************************************************************)
(* An e-mail that was committed and not sent yet has a task somewhere,     *)
(* although it is never written in the same transaction as its task: it is *)
(* only lost by a crash, or by an outage when a retry is scheduled.        *)
EmailIsCarried ==
    \A e \in Emails :
        row[e].st = "live" /\ row[e].answer # "success" /\ over[e] = "no" => CopiesOf(e) # {}

(* An e-mail reaches the provider twice only when an answer was lost or    *)
(* requeue_tasks was interrupted between the queue and the deletion.       *)
SentOnce == \A e \in Emails : sent[e] > 1 => doubt[e]

(* While the worker keeps up, retry_certify_criteria never adds a task for *)
(* a criterion that Huey still retries: the week between two attempts is   *)
(* longer than the retries.                                                *)
OneTaskPerCriterion ==
    prompt => \A c \in Criteria : Cardinality(CopiesOf(c)) > 1 => doubt[c]

(* Every committed e-mail is sent, deleted, given up after its retries or  *)
(* lost by a fault: it never waits for ever in a queue, in the table of    *)
(* the fallback or behind a lock.                                          *)
EveryEmailEnds ==
    \A e \in Emails :
        row[e].st = "live" ~> (row[e].answer = "success" \/ row[e].st = "deleted" \/ over[e] # "no")
============================================================================
