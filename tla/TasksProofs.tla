---------------------------- MODULE TasksProofs ----------------------------
(***************************************************************************)
(* E-mails and criteria always have the tasks they need and no more:       *)
(* proofs of EmailIsCarried, SentOnce and OneTaskPerCriterion for any      *)
(* number of jobs, of copies, of workers, of days and of faults.           *)
(***************************************************************************)
EXTENDS Tasks, FiniteSetTheorems, TLAPS

Places == {"registered", "committed", "queue", "table", "taken", "locked", "called", "schedule"}
MailAnswers == {"success", "error", "exception"}
Answers == MailAnswers \cup {"none", "period", "empty", "unknown", "later", "skipped", "expired"}
JobRow == [st: {"none", "open", "live", "deleted"}, answer: Answers,
           created: Nat, attempt: Nat, asked: Nat]
Task == [at: Places, job: Jobs, retries: Nat, born: Nat, tried: BOOLEAN, answer: Answers]

TypeOK ==
    /\ row \in [Jobs -> JobRow]
    /\ copy \in [Copies -> Task \cup {Free}]
    /\ day \in Nat \ {0} /\ prompt \in BOOLEAN
    /\ sent \in [Emails -> Nat]
    /\ over \in [Jobs -> {"no", "lost", "spent"}]
    /\ doubt \in [Jobs -> BOOLEAN]

(* A task is made with its row and waits for the commit.                   *)
TaskWithRow ==
    \A j \in Jobs :
        /\ row[j].st = "none" => CopiesOf(j) = {}
        /\ row[j].st = "open" => CopiesOf(j) # {} /\ \A k \in CopiesOf(j) : At(k, "registered")

(* The answers that each kind of call has.                                 *)
MailCalls ==
    \A k \in Copies : At(k, "called") /\ copy[k].job \in Emails => copy[k].answer \in MailAnswers

(* A job has one task, until one is queued again without being deleted.    *)
OneTask ==
    \A j \in Jobs : ~doubt[j] /\ (j \in Emails \/ prompt) => \A k, i \in CopiesOf(j) : k = i

(* An e-mail that went was answered for, and its task does not run again.  *)
SentIsOver ==
    \A e \in Emails : sent[e] > 0 /\ ~doubt[e] =>
        /\ sent[e] = 1 /\ row[e].st \in {"live", "deleted"}
        /\ \A k \in CopiesOf(e) : At(k, "called") /\ copy[k].answer = "success"

(* The task of a criterion was made or tried too recently for another one  *)
(* to be made.                                                             *)
RecentTask ==
    prompt => \A c \in Criteria : \A k \in CopiesOf(c) :
        /\ 1 <= copy[k].born /\ copy[k].born <= day /\ day <= copy[k].born + Spacing
        /\ ~copy[k].tried => row[c].created = day \/ row[c].asked = day
        /\ copy[k].tried => copy[k].born <= row[c].attempt

IInv ==
    /\ TypeOK /\ TaskWithRow /\ MailCalls /\ OneTask /\ SentIsOver /\ RecentTask
    /\ EmailIsCarried

(***************************************************************************)
(* Copies of tasks.                                                        *)
(***************************************************************************)
LEMMA Constants ==
    /\ Spacing \in Nat /\ Spacing >= 1 /\ Retries \in Nat
    /\ \A j \in Jobs : j \in Emails <=> j \notin Criteria
BY TasksAssumption DEF Jobs

(* A copy carries the job of the task it holds.                            *)
LEMMA Carries ==
    ASSUME TypeOK, NEW k \in Copies
    PROVE  /\ copy[k] \in Task <=> ~At(k, "free")
           /\ copy[k] \notin Task => copy[k] = Free
           /\ \A j \in Jobs : k \in CopiesOf(j) <=> copy[k] \in Task /\ copy[k].job = j
           /\ copy[k] \in Task => copy[k].job \in Jobs /\ copy[k].at \in Places
BY DEF TypeOK, CopiesOf, At, Task, Free, Places

(* One copy is replaced: what the others carry does not change.            *)
LEMMA Put ==
    ASSUME TypeOK, NEW k \in Copies, NEW c \in Task \cup {Free},
           copy' = [copy EXCEPT ![k] = c]
    PROVE  /\ copy' \in [Copies -> Task \cup {Free}]
           /\ copy'[k] = c
           /\ \A i \in Copies : i # k => copy'[i] = copy[i]
           /\ \A j \in Jobs : CopiesOf(j) \subseteq Copies /\ CopiesOf(j)' \subseteq Copies
           /\ \A j \in Jobs, i \in Copies : i # k => (i \in CopiesOf(j)' <=> i \in CopiesOf(j))
           /\ \A j \in Jobs : k \in CopiesOf(j)' <=> c \in Task /\ c.job = j
<1>1. /\ copy' \in [Copies -> Task \cup {Free}]
      /\ copy'[k] = c
      /\ \A i \in Copies : i # k => copy'[i] = copy[i]
  BY DEF TypeOK
<1>2. \A j \in Jobs : CopiesOf(j) \subseteq Copies /\ CopiesOf(j)' \subseteq Copies
  BY DEF CopiesOf
<1>3. \A j \in Jobs, i \in Copies : i # k => (i \in CopiesOf(j)' <=> i \in CopiesOf(j))
  BY <1>1 DEF CopiesOf
<1>4. c.at # "free" <=> c \in Task
  BY DEF Task, Free, Places
<1>5. \A j \in Jobs : k \in CopiesOf(j)' <=> c.at # "free" /\ c.job = j
  BY <1>1 DEF CopiesOf
<1> QED BY <1>1, <1>2, <1>3, <1>4, <1>5

(* A copy that keeps its job changes nobody's copies.                      *)
LEMMA SameCopies ==
    ASSUME TypeOK, NEW k \in Copies, copy[k] \in Task, NEW c \in Task,
           c.job = copy[k].job, copy' = [copy EXCEPT ![k] = c]
    PROVE  \A j \in Jobs : CopiesOf(j)' = CopiesOf(j)
<1> SUFFICES ASSUME NEW j \in Jobs PROVE CopiesOf(j)' = CopiesOf(j)
  OBVIOUS
<1>1. /\ CopiesOf(j) \subseteq Copies /\ CopiesOf(j)' \subseteq Copies
      /\ \A i \in Copies : i # k => (i \in CopiesOf(j)' <=> i \in CopiesOf(j))
      /\ k \in CopiesOf(j)' <=> c \in Task /\ c.job = j
  BY Put
<1>2. k \in CopiesOf(j) <=> copy[k].job = j
  BY Carries
<1> QED BY <1>1, <1>2

(* A copy that is freed leaves those of its job.                           *)
LEMMA Freed ==
    ASSUME TypeOK, NEW k \in Copies, copy' = [copy EXCEPT ![k] = Free]
    PROVE  \A j \in Jobs : CopiesOf(j)' = CopiesOf(j) \ {k}
<1> SUFFICES ASSUME NEW j \in Jobs PROVE CopiesOf(j)' = CopiesOf(j) \ {k}
  OBVIOUS
<1>1. /\ CopiesOf(j) \subseteq Copies /\ CopiesOf(j)' \subseteq Copies
      /\ \A i \in Copies : i # k => (i \in CopiesOf(j)' <=> i \in CopiesOf(j))
      /\ k \in CopiesOf(j)' <=> Free \in Task /\ Free.job = j
  BY Put
<1>2. Free \notin Task
  BY DEF Free, Task, Places
<1> QED BY <1>1, <1>2

(* A task that moves keeps its job, its age and its retries.               *)
LEMMA Moved ==
    ASSUME NEW x \in Task, NEW p \in Places
    PROVE  /\ [x EXCEPT !.at = p] \in Task
           /\ [x EXCEPT !.at = p].at = p
           /\ [x EXCEPT !.at = p].job = x.job
           /\ [x EXCEPT !.at = p].born = x.born
           /\ [x EXCEPT !.at = p].tried = x.tried
           /\ [x EXCEPT !.at = p].answer = x.answer
<1>1. [x EXCEPT !.at = p] \in Task
  BY DEF Task
<1> QED BY <1>1 DEF Task

LEMMA Enqueued ==
    ASSUME NEW x \in Task
    PROVE  /\ enqueue(x) \in Task
           /\ enqueue(x).at \in {"queue", "table"}
           /\ enqueue(x).job = x.job
           /\ enqueue(x).born = x.born
           /\ enqueue(x).tried = x.tried
<1> DEFINE p == IF redis THEN "queue" ELSE "table"
<1>1. p \in {"queue", "table"} /\ p \in Places
  BY DEF Places
<1>2. enqueue(x) = [x EXCEPT !.at = p]
  BY DEF enqueue
<1> HIDE DEF p
<1> QED BY <1>1, <1>2, Moved

(***************************************************************************)
(* What the steps of a task do to the invariant.                           *)
(***************************************************************************)
(* The task goes on: OnCommit, requeue_tasks, Dequeue, the lock, Schedule. *)
LEMMA Progress ==
    ASSUME IInv, NEW k \in Copies, copy[k] \in Task, NEW c \in Task,
           copy[k].at \notin {"registered", "called"}, c.at \notin {"registered", "called"},
           c.job = copy[k].job, c.born = copy[k].born, c.tried = copy[k].tried,
           copy' = [copy EXCEPT ![k] = c],
           UNCHANGED <<row, day, prompt, sent, over, doubt>>
    PROVE  IInv'
<1>0. TypeOK
  BY DEF IInv
<1>1. /\ copy' \in [Copies -> Task \cup {Free}] /\ copy'[k] = c
      /\ \A i \in Copies : i # k => copy'[i] = copy[i]
  BY <1>0, Put
<1>2. \A j \in Jobs : CopiesOf(j) \subseteq Copies /\ (k \in CopiesOf(j) <=> copy[k].job = j)
  BY <1>0, Carries DEF CopiesOf
<1>3. \A j \in Jobs : CopiesOf(j)' = CopiesOf(j)
  BY <1>0, SameCopies
<1>4. TypeOK'
  BY <1>1 DEF IInv, TypeOK
<1>5. TaskWithRow'
  BY <1>1, <1>2, <1>3 DEF IInv, TaskWithRow, At
<1>6. MailCalls'
  BY <1>1 DEF IInv, MailCalls, At
<1>7. OneTask'
  BY <1>3 DEF IInv, OneTask
<1>8. SentIsOver'
  <2>1. \A e \in Emails : e \in Jobs
    BY DEF Jobs
  <2> QED BY <1>1, <1>2, <1>3, <2>1 DEF IInv, SentIsOver, At
<1>9. RecentTask'
  <2>1. \A e \in Criteria : e \in Jobs
    BY DEF Jobs
  <2>2. \A i \in Copies : copy'[i].born = copy[i].born /\ copy'[i].tried = copy[i].tried
    BY <1>1
  <2> QED BY <1>2, <1>3, <2>1, <2>2 DEF IInv, RecentTask
<1>10. EmailIsCarried'
  BY <1>3 DEF IInv, EmailIsCarried, Jobs
<1> QED BY <1>4, <1>5, <1>6, <1>7, <1>8, <1>9, <1>10 DEF IInv

(* The task is gone: WebCrash, or its row was deleted.                     *)
LEMMA Dropped ==
    ASSUME IInv, NEW k \in Copies, copy[k] \in Task, copy[k].at # "registered",
           copy' = [copy EXCEPT ![k] = Free],
           over' \in [Jobs -> {"no", "lost", "spent"}],
           \A j \in Jobs : j # copy[k].job => over'[j] = over[j],
           row[copy[k].job].st # "live" \/ over'[copy[k].job] # "no",
           UNCHANGED <<row, day, prompt, sent, doubt>>
    PROVE  IInv'
<1>0. TypeOK
  BY DEF IInv
<1>1. /\ copy' \in [Copies -> Task \cup {Free}] /\ copy'[k] = Free
      /\ \A i \in Copies : i # k => copy'[i] = copy[i]
  BY <1>0, Put
<1>2. \A j \in Jobs : CopiesOf(j) \subseteq Copies /\ (k \in CopiesOf(j) <=> copy[k].job = j)
  BY <1>0, Carries DEF CopiesOf
<1>3. \A j \in Jobs : CopiesOf(j)' = CopiesOf(j) \ {k}
  BY <1>0, Freed
<1>4. TypeOK'
  BY <1>1 DEF IInv, TypeOK
<1>5. TaskWithRow'
  BY <1>1, <1>2, <1>3 DEF IInv, TaskWithRow, At
<1>6. MailCalls'
  <2>1. Free.at = "free"
    BY DEF Free
  <2> QED BY <1>1, <2>1 DEF IInv, MailCalls, At
<1>7. OneTask'
  BY <1>3 DEF IInv, OneTask
<1>8. SentIsOver'
  <2>1. \A e \in Emails : e \in Jobs
    BY DEF Jobs
  <2> QED BY <1>1, <1>2, <1>3, <2>1 DEF IInv, SentIsOver, At
<1>9. RecentTask'
  <2>1. \A e \in Criteria : e \in Jobs
    BY DEF Jobs
  <2> QED BY <1>1, <1>2, <1>3, <2>1 DEF IInv, RecentTask
<1>10. EmailIsCarried'
  BY <1>2, <1>3 DEF IInv, EmailIsCarried, Jobs
<1> QED BY <1>4, <1>5, <1>6, <1>7, <1>8, <1>9, <1>10 DEF IInv

(* The task as a call leaves it, and as a retry is scheduled.              *)
Called(x, a) == [x EXCEPT !.at = "called", !.answer = a]
Retry(x, n) == [x EXCEPT !.at = "schedule", !.retries = n, !.tried = TRUE, !.answer = "none"]

LEMMA CalledTask ==
    ASSUME NEW x \in Task, NEW a \in Answers
    PROVE  /\ Called(x, a) \in Task
           /\ Called(x, a).at = "called" /\ Called(x, a).answer = a
           /\ Called(x, a).job = x.job /\ Called(x, a).born = x.born
           /\ Called(x, a).tried = x.tried
<1>1. \A y \in Task : [y EXCEPT !.answer = a] \in Task
  BY DEF Task
<1>2. \A y \in Task : [y EXCEPT !.at = "called"] \in Task
  BY DEF Task, Places
<1>3. Called(x, a) = [[x EXCEPT !.at = "called"] EXCEPT !.answer = a]
  BY DEF Called, Task
<1>4. Called(x, a) \in Task
  BY <1>1, <1>2, <1>3
<1> QED BY <1>4 DEF Called, Task

LEMMA RetryTask ==
    ASSUME NEW x \in Task, NEW n \in Nat
    PROVE  /\ Retry(x, n) \in Task
           /\ Retry(x, n).at = "schedule" /\ Retry(x, n).job = x.job
           /\ Retry(x, n).born = x.born /\ Retry(x, n).tried = TRUE
<1>1. \A y \in Task : [y EXCEPT !.answer = "none"] \in Task
  BY DEF Task, Answers
<1>2. \A y \in Task : [y EXCEPT !.at = "schedule"] \in Task
  BY DEF Task, Places
<1>3. \A y \in Task : [y EXCEPT !.retries = n] \in Task
  BY DEF Task
<1>4. \A y \in Task : [y EXCEPT !.tried = TRUE] \in Task
  BY DEF Task
<1>5. Retry(x, n) = [[[[x EXCEPT !.at = "schedule"] EXCEPT !.retries = n] EXCEPT !.tried = TRUE]
                        EXCEPT !.answer = "none"]
  BY DEF Retry, Task
<1>6. Retry(x, n) \in Task
  BY <1>1, <1>2, <1>3, <1>4, <1>5
<1> QED BY <1>6 DEF Retry, Task

LEMMA FreshTask ==
    ASSUME TypeOK, NEW j \in Jobs, NEW p \in Places
    PROVE  /\ NewTask(j, p) \in Task
           /\ NewTask(j, p).at = p /\ NewTask(j, p).job = j
           /\ NewTask(j, p).born = day /\ NewTask(j, p).tried = FALSE
<1>1. NewTask(j, p) \in Task
  BY Constants DEF NewTask, Task, TypeOK, Answers
<1> QED BY <1>1 DEF NewTask, Task

(* The call to Mailjet or to an API: SendMessage and Certify.              *)
LEMMA Call ==
    ASSUME IInv, NEW k \in Copies, At(k, "locked"), NEW c \in Task,
           c.at = "called", c.job = copy[k].job, c.born = copy[k].born, c.tried = copy[k].tried,
           copy' = [copy EXCEPT ![k] = c],
           sent' \in [Emails -> Nat], doubt' \in [Jobs -> BOOLEAN],
           \A j \in Jobs : doubt[j] => doubt'[j],
           \A e \in Emails : e # copy[k].job => sent'[e] = sent[e],
           copy[k].job \in Emails =>
              /\ c.answer \in MailAnswers
              /\ sent'[copy[k].job] = sent[copy[k].job]
                 \/ sent'[copy[k].job] = sent[copy[k].job] + 1
              /\ c.answer # "success" /\ sent'[copy[k].job] # sent[copy[k].job] => doubt'[copy[k].job],
           UNCHANGED <<row, day, prompt, over>>
    PROVE  IInv'
<1>0. TypeOK /\ copy[k] \in Task /\ copy[k].job \in Jobs
  BY Carries DEF IInv, At
<1>1. /\ copy' \in [Copies -> Task \cup {Free}] /\ copy'[k] = c
      /\ \A i \in Copies : i # k => copy'[i] = copy[i]
  BY <1>0, Put
<1>2. \A j \in Jobs : CopiesOf(j) \subseteq Copies /\ (k \in CopiesOf(j) <=> copy[k].job = j)
  BY <1>0, Carries DEF CopiesOf
<1>3. \A j \in Jobs : CopiesOf(j)' = CopiesOf(j)
  BY <1>0, SameCopies
<1>4. TypeOK'
  BY <1>1 DEF IInv, TypeOK
<1>5. TaskWithRow'
  BY <1>1, <1>2, <1>3 DEF IInv, TaskWithRow, At
<1>6. MailCalls'
  BY <1>1 DEF IInv, MailCalls, At
<1>7. OneTask'
  BY <1>3 DEF IInv, OneTask
<1>8. SentIsOver'
  <2> SUFFICES ASSUME NEW e \in Emails, sent'[e] > 0, ~doubt'[e]
               PROVE  /\ sent'[e] = 1 /\ row[e].st \in {"live", "deleted"}
                      /\ \A i \in CopiesOf(e)' : copy'[i].at = "called" /\ copy'[i].answer = "success"
    BY DEF SentIsOver, At
  <2>1. e \in Jobs /\ ~doubt[e] /\ sent[e] \in Nat
    BY <1>0 DEF Jobs, TypeOK
  <2>2. CASE e # copy[k].job
    BY <1>1, <1>2, <1>3, <2>1, <2>2 DEF IInv, SentIsOver, At
  <2>3. CASE e = copy[k].job
    <3>1. k \in CopiesOf(e)
      BY <1>2, <2>1, <2>3
    <3>2. sent[e] = 0
      BY <2>1, <3>1 DEF IInv, SentIsOver, At
    <3>3. sent'[e] = 1 /\ c.answer = "success"
      BY <2>3, <3>2
    <3>4. \A i \in CopiesOf(e)' : i = k
      BY <1>3, <2>1, <3>1 DEF IInv, OneTask
    <3>5. row[e].st \in {"live", "deleted"}
      BY <1>0, <2>1, <3>1 DEF IInv, TaskWithRow, At, TypeOK, JobRow
    <3> QED BY <1>1, <3>3, <3>4, <3>5
  <2> QED BY <2>2, <2>3
<1>9. RecentTask'
  <2>1. \A e \in Criteria : e \in Jobs
    BY DEF Jobs
  <2>2. \A i \in Copies : copy'[i].born = copy[i].born /\ copy'[i].tried = copy[i].tried
    BY <1>1
  <2> QED BY <1>2, <1>3, <2>1, <2>2 DEF IInv, RecentTask
<1>10. EmailIsCarried'
  BY <1>3 DEF IInv, EmailIsCarried, Jobs
<1> QED BY <1>4, <1>5, <1>6, <1>7, <1>8, <1>9, <1>10 DEF IInv

(* The row that a worker saves.                                            *)
LEMMA SavedRow ==
    ASSUME TypeOK, NEW r \in JobRow, NEW a \in Answers
    PROVE  /\ _async_send_message(r, a) \in JobRow
           /\ _async_send_message(r, a).st = r.st
           /\ a # "exception" => _async_send_message(r, a).answer = a
           /\ a = "exception" => _async_send_message(r, a).answer = r.answer
<1>1. [r EXCEPT !.answer = a] \in JobRow
  BY DEF JobRow
<1> QED BY <1>1 DEF _async_send_message, JobRow

LEMMA CertifiedRow ==
    ASSUME TypeOK, NEW r \in JobRow, NEW a \in Answers
    PROVE  /\ _async_certify_criterion(r, a) \in JobRow
           /\ _async_certify_criterion(r, a).st = r.st
           /\ _async_certify_criterion(r, a).created = r.created
           /\ _async_certify_criterion(r, a).asked = r.asked
           /\ _async_certify_criterion(r, a).attempt \in {r.attempt, day}
           /\ a # "skipped" => _async_certify_criterion(r, a).attempt = day
<1> DEFINE m == [r EXCEPT !.attempt = day]
           n == [m EXCEPT !.answer = a]
<1>0. day \in Nat
  BY DEF TypeOK
<1>1. m \in JobRow
  BY <1>0 DEF JobRow
<1>2. m.st = r.st /\ m.created = r.created /\ m.asked = r.asked /\ m.attempt = day
  BY <1>0 DEF JobRow
<1>3. \A y \in JobRow : /\ [y EXCEPT !.answer = a] \in JobRow
                        /\ [y EXCEPT !.answer = a].st = y.st
                        /\ [y EXCEPT !.answer = a].created = y.created
                        /\ [y EXCEPT !.answer = a].asked = y.asked
                        /\ [y EXCEPT !.answer = a].attempt = y.attempt
  BY DEF JobRow
<1>4. n \in JobRow /\ n.st = r.st /\ n.created = r.created /\ n.asked = r.asked /\ n.attempt = day
  <2> HIDE DEF m
  <2> QED BY <1>1, <1>2, <1>3
<1>5. /\ a = "skipped" => _async_certify_criterion(r, a) = r
      /\ a \in {"period", "empty"} => _async_certify_criterion(r, a) = n
      /\ a \notin {"skipped", "period", "empty"} => _async_certify_criterion(r, a) = m
  BY DEF _async_certify_criterion
<1> HIDE DEF m, n
<1> QED BY <1>1, <1>2, <1>4, <1>5

(* The end of a call, with the row r and the place c it leaves.            *)
EndsWith(k, j, c, r) ==
    /\ At(k, "called") /\ copy[k].job = j
    /\ copy' = [copy EXCEPT ![k] = c]
    /\ row' = [row EXCEPT ![j] = r]
    /\ r.st = row[j].st
    /\ c \in Task => /\ c.at = "schedule" /\ c.job = j /\ c.born = copy[k].born /\ c.tried = TRUE
                     /\ copy[k].answer # "success"
                     /\ j \in Criteria => r.attempt = day
    /\ j \in Criteria => /\ r.created = row[j].created /\ r.asked = row[j].asked
                         /\ r.attempt \in {row[j].attempt, day}
    /\ over' \in [Jobs -> {"no", "lost", "spent"}]
    /\ \A i \in Jobs : i # j => over'[i] = over[i]
    /\ over[j] # "no" => over'[j] # "no"
    /\ j \in Emails => c \in Task \/ over'[j] # "no" \/ r.answer = "success"
    /\ UNCHANGED <<day, prompt, sent, doubt>>

LEMMA Ended ==
    ASSUME IInv, NEW k \in Copies, NEW j \in Jobs, NEW c \in Task \cup {Free}, NEW r \in JobRow,
           EndsWith(k, j, c, r)
    PROVE  IInv'
<1> USE DEF EndsWith
<1>0. TypeOK /\ copy[k] \in Task
  BY Carries DEF IInv, At
<1>1. /\ copy' \in [Copies -> Task \cup {Free}] /\ copy'[k] = c
      /\ \A i \in Copies : i # k => copy'[i] = copy[i]
  BY <1>0, Put
<1>2. \A i \in Jobs : CopiesOf(i) \subseteq Copies /\ (k \in CopiesOf(i) <=> i = j)
  BY <1>0, Carries DEF CopiesOf
<1>3. \A i \in Jobs : CopiesOf(i)' = IF c \in Task THEN CopiesOf(i) ELSE CopiesOf(i) \ {k}
  <2>1. CASE c \in Task
    BY <1>0, <2>1, SameCopies
  <2>2. CASE c \notin Task
    BY <1>0, <2>2, Freed
  <2> QED BY <2>1, <2>2
<1>r. /\ row' \in [Jobs -> JobRow] /\ row'[j] = r
      /\ \A i \in Jobs : i # j => row'[i] = row[i]
      /\ \A i \in Jobs : row'[i].st = row[i].st
  BY <1>0 DEF TypeOK
<1>4. TypeOK'
  BY <1>1, <1>r DEF IInv, TypeOK
<1>5. TaskWithRow'
  <2>1. row[j].st \notin {"none", "open"}
    BY <1>2 DEF IInv, TaskWithRow, At
  <2>2. \A i \in Jobs : i # j => CopiesOf(i)' = CopiesOf(i) /\ k \notin CopiesOf(i)
    <3> SUFFICES ASSUME NEW i \in Jobs, i # j PROVE CopiesOf(i)' = CopiesOf(i) /\ k \notin CopiesOf(i)
      OBVIOUS
    <3>1. k \notin CopiesOf(i)
      BY <1>2
    <3>2. CopiesOf(i)' \in {CopiesOf(i), CopiesOf(i) \ {k}}
      BY <1>3
    <3> QED BY <3>1, <3>2
  <2> QED BY <1>1, <1>2, <1>r, <2>1, <2>2 DEF IInv, TaskWithRow, At
<1>6. MailCalls'
  <2>1. c.at # "called"
    BY DEF Free
  <2> QED BY <1>1, <2>1 DEF IInv, MailCalls, At
<1>7. OneTask'
  <2>1. \A i \in Jobs : CopiesOf(i)' \subseteq CopiesOf(i)
    BY <1>3
  <2> QED BY <2>1 DEF IInv, OneTask
<1>8. SentIsOver'
  <2> SUFFICES ASSUME NEW e \in Emails, sent[e] > 0, ~doubt[e]
               PROVE  /\ sent[e] = 1 /\ row'[e].st \in {"live", "deleted"}
                      /\ \A i \in CopiesOf(e)' : copy'[i].at = "called" /\ copy'[i].answer = "success"
    BY DEF SentIsOver, At
  <2>1. /\ e \in Jobs /\ sent[e] = 1 /\ row[e].st \in {"live", "deleted"}
        /\ \A i \in CopiesOf(e) : copy[i].at = "called" /\ copy[i].answer = "success"
    BY DEF IInv, SentIsOver, At, Jobs
  <2>2. c \in Task => e # j
    BY <1>2, <2>1
  <2>3. k \notin CopiesOf(e)' /\ CopiesOf(e)' \subseteq CopiesOf(e)
    BY <1>2, <1>3, <2>1, <2>2
  <2> QED BY <1>1, <1>2, <1>r, <2>1, <2>3
<1>9. RecentTask'
  <2> SUFFICES ASSUME prompt, NEW e \in Criteria, NEW i \in CopiesOf(e)'
               PROVE  /\ 1 <= copy'[i].born /\ copy'[i].born <= day /\ day <= copy'[i].born + Spacing
                      /\ ~copy'[i].tried => row'[e].created = day \/ row'[e].asked = day
                      /\ copy'[i].tried => copy'[i].born <= row'[e].attempt
    BY DEF RecentTask
  <2>1. e \in Jobs /\ i \in CopiesOf(e) /\ i \in Copies
    BY <1>2, <1>3 DEF Jobs
  <2>2. /\ 1 <= copy[i].born /\ copy[i].born <= day /\ day <= copy[i].born + Spacing
        /\ ~copy[i].tried => row[e].created = day \/ row[e].asked = day
        /\ copy[i].tried => copy[i].born <= row[e].attempt
    BY <2>1 DEF IInv, RecentTask
  <2>3. CASE i = k
    <3>1. e = j /\ c \in Task
      BY <1>2, <1>3, <2>1, <2>3
    <3>2. c.born = copy[k].born /\ c.tried = TRUE /\ r.attempt = day
      BY <3>1 DEF Task
    <3> QED BY <1>1, <1>r, <2>2, <2>3, <3>1, <3>2
  <2>4. CASE i # k /\ e # j
    BY <1>1, <1>r, <2>1, <2>2, <2>4
  <2>5. CASE i # k /\ e = j
    BY <1>1, <1>r, <2>1, <2>2, <2>5
  <2> QED BY <2>3, <2>4, <2>5
<1>10. EmailIsCarried'
  <2> SUFFICES ASSUME NEW e \in Emails, row'[e].st = "live", row'[e].answer # "success", over'[e] = "no"
               PROVE  CopiesOf(e)' # {}
    BY DEF EmailIsCarried
  <2>1. e \in Jobs
    BY DEF Jobs
  <2>2. CASE e = j
    BY <1>2, <1>3, <1>r, <2>1, <2>2
  <2>3. CASE e # j
    BY <1>2, <1>3, <1>r, <2>1, <2>3 DEF IInv, EmailIsCarried
  <2> QED BY <2>2, <2>3
<1> QED BY <1>4, <1>5, <1>6, <1>7, <1>8, <1>9, <1>10 DEF IInv

LEMMA FinishStep ==
    ASSUME IInv, NEW k \in Copies, Finish(k) PROVE IInv'
<1>0. /\ TypeOK /\ copy[k] \in Task /\ copy[k].job \in Jobs /\ copy[k].at = "called"
      /\ copy[k].answer \in Answers /\ copy[k].retries \in Nat
  BY Carries DEF IInv, Finish, At, Task
<1>1. PICK x \in Task : x = copy[k]
  BY <1>0
<1>2. PICK j \in Jobs : j = x.job
  BY <1>0, <1>1
<1>3. PICK n \in Nat : n = IF x.retries = 0 THEN 0 ELSE x.retries - 1
  BY <1>0, <1>1
<1>4. row[j] \in JobRow /\ x.answer \in Answers
  BY <1>0, <1>1 DEF TypeOK
<1>5. PICK r \in JobRow : r = IF j \in Emails THEN _async_send_message(row[j], x.answer)
                              ELSE _async_certify_criterion(row[j], x.answer)
  BY <1>0, <1>4, SavedRow, CertifiedRow
<1>6. PICK c \in Task \cup {Free} : c = IF Retried(x) /\ redis THEN Retry(x, n) ELSE Free
  BY RetryTask
<1>7. PICK o \in {"no", "lost", "spent"} :
         o = IF Retried(x) THEN (IF redis THEN over[j] ELSE "lost")
             ELSE IF x.answer \in {"error", "exception"} THEN "spent" ELSE over[j]
  BY <1>0 DEF TypeOK
<1>8. /\ row' = [row EXCEPT ![j] = r]
      /\ copy' = [copy EXCEPT ![k] = c]
      /\ over' = [over EXCEPT ![j] = o]
      /\ UNCHANGED <<day, prompt, sent, doubt>>
  BY <1>1, <1>2, <1>3, <1>5, <1>6, <1>7 DEF Finish, Retry
<1>9. r.st = row[j].st
  BY <1>0, <1>4, <1>5, SavedRow, CertifiedRow
<1>10. c \in Task => Retried(x) /\ redis /\ c = Retry(x, n)
  BY <1>6 DEF Task, Free, Places
<1>11. Retried(x) => x.answer \notin {"success", "skipped"}
  BY DEF Retried
<1>12. j \in Criteria => /\ r.created = row[j].created /\ r.asked = row[j].asked
                         /\ r.attempt \in {row[j].attempt, day}
                         /\ x.answer # "skipped" => r.attempt = day
  BY <1>0, <1>4, <1>5, Constants, CertifiedRow
<1>13. c \in Task => /\ c.at = "schedule" /\ c.job = j /\ c.born = copy[k].born /\ c.tried = TRUE
                     /\ copy[k].answer # "success"
                     /\ j \in Criteria => r.attempt = day
  <2>1. c \in Task => /\ c.at = "schedule" /\ c.job = x.job /\ c.born = x.born /\ c.tried = TRUE
    <3>1. /\ Retry(x, n).at = "schedule" /\ Retry(x, n).job = x.job
          /\ Retry(x, n).born = x.born /\ Retry(x, n).tried = TRUE
      BY RetryTask
    <3> QED BY <1>10, <3>1
  <2>2. c \in Task => x.answer # "success" /\ (j \in Criteria => r.attempt = day)
    BY <1>10, <1>11, <1>12
  <2> QED BY <1>1, <1>2, <2>1, <2>2
<1>14. /\ over' \in [Jobs -> {"no", "lost", "spent"}] /\ over'[j] = o
       /\ \A i \in Jobs : i # j => over'[i] = over[i]
  BY <1>0, <1>8 DEF TypeOK
<1>15. over[j] # "no" => o # "no"
  BY <1>7
<1>16. j \in Emails => c \in Task \/ o # "no" \/ r.answer = "success"
  <2> SUFFICES ASSUME j \in Emails, c \notin Task, o = "no" PROVE r.answer = "success"
    OBVIOUS
  <2>1. x.answer \in MailAnswers
    BY <1>0, <1>1, <1>2 DEF IInv, MailCalls, At
  <2>2. Retried(x) => redis
    BY <1>7
  <2>3. ~Retried(x)
    BY <1>6, <2>2, RetryTask
  <2>4. x.answer = "success"
    BY <1>7, <2>1, <2>3 DEF MailAnswers
  <2> QED BY <1>0, <1>4, <1>5, <2>4, SavedRow
<1>17. At(k, "called") /\ copy[k].job = j
  BY <1>0, <1>1, <1>2 DEF At
<1>18. j \in Criteria => /\ r.created = row[j].created /\ r.asked = row[j].asked
                         /\ r.attempt \in {row[j].attempt, day}
  BY <1>12
<1>19. /\ over[j] # "no" => over'[j] # "no"
       /\ j \in Emails => c \in Task \/ over'[j] # "no" \/ r.answer = "success"
  BY <1>14, <1>15, <1>16
<1>20. EndsWith(k, j, c, r)
  BY <1>8, <1>9, <1>13, <1>14, <1>17, <1>18, <1>19 DEF EndsWith
<1> QED BY <1>20, Ended

(* A first task for a job, in a copy that was free: Create and             *)
(* retry_certify_criteria, which leave the row r.                          *)
AddsTask(k, j, c, r) ==
    /\ At(k, "free")
    /\ copy' = [copy EXCEPT ![k] = c]
    /\ row' = [row EXCEPT ![j] = r]
    /\ c.job = j /\ c.born = day /\ c.tried = FALSE /\ c.at # "called"
    /\ r.st = "open" => c.at = "registered" /\ CopiesOf(j) = {}
    /\ r.st \in {"open", "live"}
    /\ j \in Emails => CopiesOf(j) = {} /\ row[j].st = "none"
    /\ prompt => CopiesOf(j) = {}
    /\ j \in Criteria => r.created = day \/ r.asked = day
    /\ UNCHANGED <<day, prompt, sent, over, doubt>>

LEMMA Added ==
    ASSUME IInv, NEW k \in Copies, NEW j \in Jobs, NEW c \in Task, NEW r \in JobRow,
           AddsTask(k, j, c, r)
    PROVE  IInv'
<1> USE DEF AddsTask
<1>0. TypeOK /\ copy[k] \notin Task
  BY Carries DEF IInv
<1>1. /\ copy' \in [Copies -> Task \cup {Free}] /\ copy'[k] = c
      /\ \A i \in Copies : i # k => copy'[i] = copy[i]
  BY <1>0, Put
<1>2. \A i \in Jobs : CopiesOf(i) \subseteq Copies /\ k \notin CopiesOf(i)
  BY <1>0, Carries DEF CopiesOf
<1>3. /\ CopiesOf(j)' = CopiesOf(j) \cup {k}
      /\ \A i \in Jobs : i # j => CopiesOf(i)' = CopiesOf(i)
  <2> SUFFICES ASSUME NEW i \in Jobs
               PROVE  CopiesOf(i)' = IF i = j THEN CopiesOf(i) \cup {k} ELSE CopiesOf(i)
    OBVIOUS
  <2>1. /\ CopiesOf(i) \subseteq Copies /\ CopiesOf(i)' \subseteq Copies
        /\ \A m \in Copies : m # k => (m \in CopiesOf(i)' <=> m \in CopiesOf(i))
        /\ k \in CopiesOf(i)' <=> c \in Task /\ c.job = i
    BY <1>0, Put
  <2>2. k \notin CopiesOf(i)
    BY <1>2
  <2> QED BY <2>1, <2>2
<1>r. /\ row' \in [Jobs -> JobRow] /\ row'[j] = r
      /\ \A i \in Jobs : i # j => row'[i] = row[i]
  BY <1>0 DEF TypeOK
<1>4. TypeOK'
  BY <1>1, <1>r DEF IInv, TypeOK
<1>5. TaskWithRow'
  <2> SUFFICES ASSUME NEW i \in Jobs
               PROVE  /\ row'[i].st = "none" => CopiesOf(i)' = {}
                      /\ row'[i].st = "open" => /\ CopiesOf(i)' # {}
                                                /\ \A m \in CopiesOf(i)' : copy'[m].at = "registered"
    BY DEF TaskWithRow, At
  <2>1. CASE i = j
    BY <1>1, <1>3, <1>r, <2>1
  <2>2. CASE i # j
    BY <1>1, <1>2, <1>3, <1>r, <2>2 DEF IInv, TaskWithRow, At
  <2> QED BY <2>1, <2>2
<1>6. MailCalls'
  BY <1>1 DEF IInv, MailCalls, At
<1>7. OneTask'
  <2> SUFFICES ASSUME NEW i \in Jobs, ~doubt[i], i \in Emails \/ prompt,
                      NEW m \in CopiesOf(i)', NEW n \in CopiesOf(i)'
               PROVE  m = n
    BY DEF OneTask
  <2>1. CASE i = j
    BY <1>3, <2>1
  <2>2. CASE i # j
    BY <1>3, <2>2 DEF IInv, OneTask
  <2> QED BY <2>1, <2>2
<1>8. SentIsOver'
  <2> SUFFICES ASSUME NEW e \in Emails, sent[e] > 0, ~doubt[e]
               PROVE  /\ sent[e] = 1 /\ row'[e].st \in {"live", "deleted"}
                      /\ \A i \in CopiesOf(e)' : copy'[i].at = "called" /\ copy'[i].answer = "success"
    BY DEF SentIsOver, At
  <2>1. /\ e \in Jobs /\ sent[e] = 1 /\ row[e].st \in {"live", "deleted"}
        /\ \A i \in CopiesOf(e) : copy[i].at = "called" /\ copy[i].answer = "success"
    BY DEF IInv, SentIsOver, At, Jobs
  <2>2. e # j
    BY <2>1
  <2> QED BY <1>1, <1>2, <1>3, <1>r, <2>1, <2>2
<1>9. RecentTask'
  <2> SUFFICES ASSUME prompt, NEW e \in Criteria, NEW i \in CopiesOf(e)'
               PROVE  /\ 1 <= copy'[i].born /\ copy'[i].born <= day /\ day <= copy'[i].born + Spacing
                      /\ ~copy'[i].tried => row'[e].created = day \/ row'[e].asked = day
                      /\ copy'[i].tried => copy'[i].born <= row'[e].attempt
    BY DEF RecentTask
  <2>1. e \in Jobs /\ day \in Nat /\ day >= 1
    BY <1>0 DEF Jobs, TypeOK
  <2>2. CASE e = j
    <3>1. i = k
      BY <1>3, <2>2
    <3>2. copy'[i].born = day /\ copy'[i].tried = FALSE
      BY <1>1, <3>1
    <3>3. row'[e].created = day \/ row'[e].asked = day
      BY <1>r, <2>2
    <3> QED BY <2>1, <3>2, <3>3, Constants
  <2>3. CASE e # j
    <3>1. i \in CopiesOf(e) /\ i \in Copies /\ i # k
      BY <1>2, <1>3, <2>1, <2>3
    <3> QED BY <1>1, <1>r, <2>1, <2>3, <3>1 DEF IInv, RecentTask
  <2> QED BY <2>2, <2>3
<1>10. EmailIsCarried'
  <2> SUFFICES ASSUME NEW e \in Emails, row'[e].st = "live", row'[e].answer # "success", over[e] = "no"
               PROVE  CopiesOf(e)' # {}
    BY DEF EmailIsCarried
  <2>1. CASE e = j
    BY <1>3, <2>1
  <2>2. CASE e # j
    BY <1>3, <1>r, <2>2 DEF IInv, EmailIsCarried, Jobs
  <2> QED BY <2>1, <2>2
<1> QED BY <1>4, <1>5, <1>6, <1>7, <1>8, <1>9, <1>10 DEF IInv

LEMMA CreateStep ==
    ASSUME IInv, NEW j \in Jobs, Create(j) PROVE IInv'
<1>0. TypeOK
  BY DEF IInv
<1>1. PICK k \in Copies : At(k, "free") /\ copy' = [copy EXCEPT ![k] = NewTask(j, "registered")]
  BY DEF Create, FreeCopy, on_commit_task
<1>2. PICK c \in Task : c = NewTask(j, "registered")
  BY <1>0, FreshTask DEF Places
<1>3. c.job = j /\ c.born = day /\ c.tried = FALSE /\ c.at = "registered"
  <2>1. "registered" \in Places
    BY DEF Places
  <2> QED BY <1>0, <1>2, <2>1, FreshTask
<1>4. CopiesOf(j) = {} /\ row[j].st = "none" /\ row[j] \in JobRow /\ day \in Nat
  BY DEF IInv, TaskWithRow, Create, TypeOK
<1>5. \A y \in JobRow : [y EXCEPT !.st = "open"] \in JobRow
  BY DEF JobRow
<1>6. \A y \in JobRow : /\ [y EXCEPT !.created = day] \in JobRow
                        /\ [y EXCEPT !.created = day].created = day
                        /\ [y EXCEPT !.created = day].st = y.st
  BY <1>4 DEF JobRow
<1>7. [row[j] EXCEPT !.st = "open"].st = "open"
  BY <1>4 DEF JobRow
<1>8. [row[j] EXCEPT !.st = "open", !.created = day]
         = [[row[j] EXCEPT !.st = "open"] EXCEPT !.created = day]
  BY <1>4 DEF JobRow
<1>9. PICK r \in JobRow : r = [row[j] EXCEPT !.st = "open", !.created = day]
  BY <1>4, <1>5, <1>6, <1>8
<1>10. r.st = "open" /\ r.created = day
  BY <1>4, <1>5, <1>6, <1>7, <1>8, <1>9
<1>11. row' = [row EXCEPT ![j] = r] /\ UNCHANGED <<day, prompt, sent, over, doubt>>
  BY <1>9 DEF Create
<1>12. AddsTask(k, j, c, r)
  BY <1>1, <1>2, <1>3, <1>4, <1>10, <1>11 DEF AddsTask
<1> QED BY <1>12, Added

(* The week between two attempts is longer than the retries of a task.     *)
LEMMA RecertifyStep ==
    ASSUME IInv, NEW j \in Criteria, retry_certify_criteria(j) PROVE IInv'
<1>0. TypeOK /\ j \in Jobs /\ j \notin Emails
  BY Constants DEF IInv, Jobs
<1>1. PICK k \in Copies : At(k, "free") /\ copy' = [copy EXCEPT ![k] = NewTask(j, "committed")]
  BY DEF retry_certify_criteria, FreeCopy
<1>2. PICK c \in Task : c = NewTask(j, "committed")
  BY <1>0, FreshTask DEF Places
<1>3. c.job = j /\ c.born = day /\ c.tried = FALSE /\ c.at = "committed"
  <2>1. "committed" \in Places
    BY DEF Places
  <2> QED BY <1>0, <1>2, <2>1, FreshTask
<1>4. row[j] \in JobRow /\ day \in Nat /\ row[j].st = "live"
  BY <1>0 DEF TypeOK, retry_certify_criteria, to_recertify
<1>5. PICK r \in JobRow : r = [row[j] EXCEPT !.asked = day]
  BY <1>4 DEF JobRow
<1>6. r.st = "live" /\ r.asked = day
  BY <1>4, <1>5 DEF JobRow
<1>7. row' = [row EXCEPT ![j] = r] /\ UNCHANGED <<day, prompt, sent, over, doubt>>
  BY <1>0, <1>5 DEF retry_certify_criteria, TypeOK
<1>8. prompt => CopiesOf(j) = {}
  <2> SUFFICES ASSUME prompt, NEW m \in CopiesOf(j) PROVE FALSE
    OBVIOUS
  <2>1. /\ row[j].created < day /\ row[j].asked # day
        /\ row[j].attempt = 0 \/ row[j].attempt < day - Spacing
    BY DEF retry_certify_criteria, to_recertify
  <2>2. /\ 1 <= copy[m].born /\ day <= copy[m].born + Spacing
        /\ ~copy[m].tried => row[j].created = day \/ row[j].asked = day
        /\ copy[m].tried => copy[m].born <= row[j].attempt
    BY DEF IInv, RecentTask
  <2>3. row[j].created \in Nat /\ row[j].attempt \in Nat /\ copy[m].born \in Nat
    <3>1. m \in Copies
      BY DEF CopiesOf
    <3>2. copy[m] \in Task
      BY <1>0, <3>1, Carries
    <3> QED BY <1>4, <3>2 DEF JobRow, Task
  <2>4. copy[m].tried
    BY <1>4, <2>1, <2>2, <2>3
  <2>5. copy[m].born <= row[j].attempt
    BY <2>2, <2>4
  <2> QED BY <1>4, <2>1, <2>2, <2>3, <2>5, Constants
<1>9. AddsTask(k, j, c, r)
  BY <1>0, <1>1, <1>2, <1>3, <1>6, <1>7, <1>8 DEF AddsTask
<1> QED BY <1>0, <1>9, Added

(* A task is queued again and its row of the table stays.                  *)
LEMMA RequeueInterruptedStep ==
    ASSUME IInv, NEW k \in Copies, RequeueInterrupted(k) PROVE IInv'
<1>0. TypeOK /\ copy[k] \in Task /\ copy[k].at = "table"
  BY Carries DEF IInv, RequeueInterrupted, At
<1>i. PICK i \in Copies : At(i, "free") /\ copy' = [copy EXCEPT ![i] = [copy[k] EXCEPT !.at = "queue"]]
  BY DEF RequeueInterrupted, FreeCopy
<1>c. PICK c \in Task : c = [copy[k] EXCEPT !.at = "queue"]
  BY <1>0, Moved DEF Places
<1>e. copy' = [copy EXCEPT ![i] = c]
  BY <1>i, <1>c
<1>d. /\ c.at = "queue" /\ c.job = copy[k].job /\ c.born = copy[k].born /\ c.tried = copy[k].tried
  BY <1>0, <1>c, Moved DEF Places
<1>j. PICK j \in Jobs : j = copy[k].job
  BY <1>0, Carries
<1>u. /\ doubt' = [doubt EXCEPT ![j] = TRUE]
      /\ UNCHANGED <<row, day, prompt, sent, over>>
  BY <1>j DEF RequeueInterrupted
<1>v. /\ doubt' \in [Jobs -> BOOLEAN] /\ doubt'[j]
      /\ \A m \in Jobs : m # j => doubt'[m] = doubt[m]
  BY <1>0, <1>u DEF TypeOK
<1>1. /\ copy' \in [Copies -> Task \cup {Free}] /\ copy'[i] = c
      /\ \A m \in Copies : m # i => copy'[m] = copy[m]
  BY <1>0, <1>i, <1>c, Put
<1>2. /\ \A m \in Jobs : CopiesOf(m) \subseteq Copies /\ i \notin CopiesOf(m)
      /\ k \in CopiesOf(j)
  BY <1>0, <1>i, <1>j, Carries DEF CopiesOf
<1>3. /\ CopiesOf(j)' = CopiesOf(j) \cup {i}
      /\ \A m \in Jobs : m # j => CopiesOf(m)' = CopiesOf(m)
  <2> SUFFICES ASSUME NEW m \in Jobs
               PROVE  CopiesOf(m)' = IF m = j THEN CopiesOf(m) \cup {i} ELSE CopiesOf(m)
    OBVIOUS
  <2>1. /\ CopiesOf(m) \subseteq Copies /\ CopiesOf(m)' \subseteq Copies
        /\ \A n \in Copies : n # i => (n \in CopiesOf(m)' <=> n \in CopiesOf(m))
        /\ i \in CopiesOf(m)' <=> c \in Task /\ c.job = m
    BY <1>0, <1>e, Put
  <2>2. i \notin CopiesOf(m)
    BY <1>2
  <2> QED BY <1>d, <1>j, <2>1, <2>2
<1>4. TypeOK'
  BY <1>0, <1>1, <1>u, <1>v DEF TypeOK
<1>5. TaskWithRow'
  <2>1. row[j].st \notin {"none", "open"}
    BY <1>0, <1>2 DEF IInv, TaskWithRow, At
  <2> QED BY <1>1, <1>2, <1>3, <1>u, <2>1 DEF IInv, TaskWithRow, At
<1>6. MailCalls'
  BY <1>1, <1>d DEF IInv, MailCalls, At
<1>7. OneTask'
  BY <1>3, <1>u, <1>v DEF IInv, OneTask
<1>8. SentIsOver'
  <2> SUFFICES ASSUME NEW e \in Emails, sent[e] > 0, ~doubt'[e]
               PROVE  /\ sent[e] = 1 /\ row[e].st \in {"live", "deleted"}
                      /\ \A m \in CopiesOf(e)' : copy'[m].at = "called" /\ copy'[m].answer = "success"
    BY <1>u DEF SentIsOver, At
  <2>1. e \in Jobs /\ e # j /\ ~doubt[e]
    BY <1>v DEF Jobs
  <2>2. /\ sent[e] = 1 /\ row[e].st \in {"live", "deleted"}
        /\ \A m \in CopiesOf(e) : copy[m].at = "called" /\ copy[m].answer = "success"
    BY <2>1 DEF IInv, SentIsOver, At
  <2> QED BY <1>1, <1>2, <1>3, <2>1, <2>2
<1>9. RecentTask'
  <2> SUFFICES ASSUME prompt, NEW e \in Criteria, NEW m \in CopiesOf(e)'
               PROVE  /\ 1 <= copy'[m].born /\ copy'[m].born <= day /\ day <= copy'[m].born + Spacing
                      /\ ~copy'[m].tried => row[e].created = day \/ row[e].asked = day
                      /\ copy'[m].tried => copy'[m].born <= row[e].attempt
    BY <1>u DEF RecentTask
  <2>1. e \in Jobs
    BY DEF Jobs
  <2>2. \E n \in CopiesOf(e) : copy'[m].born = copy[n].born /\ copy'[m].tried = copy[n].tried
    <3>1. CASE m = i
      <4>1. e = j
        BY <1>2, <1>3, <2>1, <3>1
      <4> QED BY <1>1, <1>2, <1>d, <3>1, <4>1
    <3>2. CASE m # i
      <4>1. m \in CopiesOf(e) /\ m \in Copies
        BY <1>2, <1>3, <2>1, <3>2
      <4> QED BY <1>1, <3>2, <4>1
    <3> QED BY <3>1, <3>2
  <2> QED BY <2>2 DEF IInv, RecentTask
<1>10. EmailIsCarried'
  BY <1>3, <1>u DEF IInv, EmailIsCarried, Jobs
<1> QED BY <1>4, <1>5, <1>6, <1>7, <1>8, <1>9, <1>10 DEF IInv

(* The transaction commits and its callbacks are to be run.                *)
LEMMA CommitStep ==
    ASSUME IInv, NEW j \in Jobs, Commit(j) PROVE IInv'
<1>0. TypeOK /\ row[j].st = "open" /\ row[j] \in JobRow
  BY DEF IInv, Commit, TypeOK
<1>r. PICK r \in JobRow : r = [row[j] EXCEPT !.st = "live"]
  BY <1>0 DEF JobRow
<1>s. /\ r.st = "live" /\ r.answer = row[j].answer /\ r.created = row[j].created
      /\ r.asked = row[j].asked /\ r.attempt = row[j].attempt
  BY <1>0, <1>r DEF JobRow
<1>t. /\ row' = [row EXCEPT ![j] = r] /\ UNCHANGED <<day, prompt, sent, over, doubt>>
  BY <1>0, <1>r DEF Commit, TypeOK
<1>u. /\ row' \in [Jobs -> JobRow] /\ row'[j] = r
      /\ \A i \in Jobs : i # j => row'[i] = row[i]
  BY <1>0, <1>t DEF TypeOK
<1>k. \A k \in Copies : /\ copy[k] \in Task \cup {Free}
                        /\ k \in CopiesOf(j) => copy[k] \in Task
  BY <1>0, Carries DEF TypeOK
<1>1. \A k \in Copies :
         /\ copy'[k] \in Task \cup {Free}
         /\ k \in CopiesOf(j) => /\ copy'[k].at \in {copy[k].at, "committed"}
                                 /\ copy'[k].at # "free"
                                 /\ copy'[k].job = copy[k].job /\ copy'[k].born = copy[k].born
                                 /\ copy'[k].tried = copy[k].tried /\ copy'[k].answer = copy[k].answer
         /\ k \notin CopiesOf(j) => copy'[k] = copy[k]
  <2> SUFFICES ASSUME NEW k \in Copies
               PROVE  /\ copy'[k] \in Task \cup {Free}
                      /\ k \in CopiesOf(j) => /\ copy'[k].at \in {copy[k].at, "committed"}
                                              /\ copy'[k].at # "free"
                                              /\ copy'[k].job = copy[k].job /\ copy'[k].born = copy[k].born
                                              /\ copy'[k].tried = copy[k].tried
                                              /\ copy'[k].answer = copy[k].answer
                      /\ k \notin CopiesOf(j) => copy'[k] = copy[k]
    OBVIOUS
  <2>1. copy'[k] = IF k \in CopiesOf(j) /\ At(k, "registered") THEN [copy[k] EXCEPT !.at = "committed"]
                   ELSE copy[k]
    BY DEF Commit
  <2>2. CASE k \in CopiesOf(j) /\ At(k, "registered")
    <3>1. copy[k] \in Task /\ "committed" \in Places
      BY <1>k, <2>2 DEF Places
    <3> QED BY <2>1, <2>2, <3>1, Moved
  <2>3. CASE ~(k \in CopiesOf(j) /\ At(k, "registered"))
    BY <1>k, <2>1, <2>3 DEF CopiesOf
  <2> QED BY <2>2, <2>3
<1>2. copy' \in [Copies -> Task \cup {Free}]
  <2>1. copy' = [k \in Copies |-> copy'[k]]
    BY DEF Commit
  <2> QED BY <1>1, <2>1
<1>3. \A i \in Jobs : CopiesOf(i)' = CopiesOf(i) /\ CopiesOf(i) \subseteq Copies
  <2>1. \A k \in Copies, i \in Jobs : k \in CopiesOf(i)' <=> k \in CopiesOf(i)
    BY <1>1 DEF CopiesOf
  <2>2. \A i \in Jobs : CopiesOf(i) \subseteq Copies /\ CopiesOf(i)' \subseteq Copies
    BY DEF CopiesOf
  <2> QED BY <2>1, <2>2
<1>x. \A i \in Jobs, k \in Copies : i # j /\ k \in CopiesOf(i) => k \notin CopiesOf(j)
  BY DEF CopiesOf
<1>4. TypeOK'
  BY <1>0, <1>2, <1>t, <1>u DEF TypeOK
<1>5. TaskWithRow'
  BY <1>1, <1>3, <1>s, <1>u, <1>x DEF IInv, TaskWithRow, At
<1>6. MailCalls'
  <2>1. \A k \in Copies : /\ copy'[k].at = "called" => copy[k].at = "called"
                          /\ copy'[k].at = "called" => copy'[k].job = copy[k].job /\ copy'[k].answer = copy[k].answer
    BY <1>1
  <2> QED BY <2>1 DEF IInv, MailCalls, At
<1>7. OneTask'
  BY <1>3, <1>t DEF IInv, OneTask
<1>8. SentIsOver'
  <2> SUFFICES ASSUME NEW e \in Emails, sent[e] > 0, ~doubt[e]
               PROVE  /\ sent[e] = 1 /\ row'[e].st \in {"live", "deleted"}
                      /\ \A i \in CopiesOf(e)' : copy'[i].at = "called" /\ copy'[i].answer = "success"
    BY <1>t DEF SentIsOver, At
  <2>1. /\ e \in Jobs /\ sent[e] = 1 /\ row[e].st \in {"live", "deleted"}
        /\ \A i \in CopiesOf(e) : copy[i].at = "called" /\ copy[i].answer = "success"
    BY DEF IInv, SentIsOver, At, Jobs
  <2>2. e # j
    BY <1>0, <2>1
  <2> QED BY <1>1, <1>3, <1>u, <1>x, <2>1, <2>2
<1>9. RecentTask'
  <2>1. \A i \in Jobs : \A k \in CopiesOf(i) : /\ copy'[k].born = copy[k].born
                                               /\ copy'[k].tried = copy[k].tried
    BY <1>1, <1>3
  <2>2. \A i \in Jobs : /\ row'[i].created = row[i].created /\ row'[i].asked = row[i].asked
                        /\ row'[i].attempt = row[i].attempt
    BY <1>s, <1>u
  <2>3. \A i \in Criteria : i \in Jobs
    BY DEF Jobs
  <2> QED BY <1>3, <1>t, <2>1, <2>2, <2>3 DEF IInv, RecentTask
<1>10. EmailIsCarried'
  BY <1>0, <1>3, <1>t, <1>u DEF IInv, EmailIsCarried, TaskWithRow, Jobs
<1> QED BY <1>4, <1>5, <1>6, <1>7, <1>8, <1>9, <1>10 DEF IInv

(* Several copies are freed at once.                                       *)
LEMMA FreedTogether ==
    ASSUME TypeOK, NEW S, copy' = [k \in Copies |-> IF k \in S THEN Free ELSE copy[k]]
    PROVE  /\ copy' \in [Copies -> Task \cup {Free}]
           /\ \A j \in Jobs : CopiesOf(j)' = CopiesOf(j) \ S /\ CopiesOf(j) \subseteq Copies
           /\ \A j \in Jobs : \A k \in CopiesOf(j)' : copy'[k] = copy[k]
           /\ \A k \in Copies : k \in S => copy'[k].at = "free"
           /\ \A k \in Copies : k \notin S => copy'[k] = copy[k]
<1>1. copy' \in [Copies -> Task \cup {Free}]
  BY DEF TypeOK
<1>2. /\ \A k \in Copies : k \in S => copy'[k].at = "free"
      /\ \A k \in Copies : k \notin S => copy'[k] = copy[k]
  BY DEF Free
<1>3. \A j \in Jobs, k \in Copies : k \in CopiesOf(j)' <=> k \in CopiesOf(j) /\ k \notin S
  BY <1>2 DEF CopiesOf
<1>4. \A j \in Jobs : CopiesOf(j) \subseteq Copies /\ CopiesOf(j)' \subseteq Copies
  BY DEF CopiesOf
<1> QED BY <1>1, <1>2, <1>3, <1>4

LEMMA RollbackStep ==
    ASSUME IInv, NEW j \in Jobs, Rollback(j) PROVE IInv'
<1>0. TypeOK /\ row[j].st = "open" /\ row[j] \in JobRow
  BY DEF IInv, Rollback, TypeOK
<1>r. PICK r \in JobRow : r = [row[j] EXCEPT !.st = "none"]
  BY <1>0 DEF JobRow
<1>s. /\ r.st = "none"
  BY <1>0, <1>r DEF JobRow
<1>t. /\ row' = [row EXCEPT ![j] = r] /\ UNCHANGED <<day, prompt, sent, over, doubt>>
  BY <1>0, <1>r DEF Rollback, TypeOK
<1>u. /\ row' \in [Jobs -> JobRow] /\ row'[j] = r
      /\ \A i \in Jobs : i # j => row'[i] = row[i]
  BY <1>0, <1>t DEF TypeOK
<1>1. PICK S : S = CopiesOf(j)
  OBVIOUS
<1>2. copy' = [k \in Copies |-> IF k \in S THEN Free ELSE copy[k]]
  BY <1>1 DEF Rollback
<1>3. /\ copy' \in [Copies -> Task \cup {Free}]
      /\ \A i \in Jobs : CopiesOf(i)' = CopiesOf(i) \ S /\ CopiesOf(i) \subseteq Copies
      /\ \A i \in Jobs : \A k \in CopiesOf(i)' : copy'[k] = copy[k]
      /\ \A k \in Copies : k \in S => copy'[k].at = "free"
      /\ \A k \in Copies : k \notin S => copy'[k] = copy[k]
  BY <1>0, <1>2, FreedTogether
<1>x. /\ CopiesOf(j)' = {}
      /\ \A i \in Jobs : i # j => CopiesOf(i)' = CopiesOf(i)
  <2>1. \A i \in Jobs : i # j => CopiesOf(i) \cap S = {}
    BY <1>1 DEF CopiesOf
  <2> QED BY <1>1, <1>3, <2>1
<1>4. TypeOK'
  BY <1>0, <1>3, <1>t, <1>u DEF TypeOK
<1>5. TaskWithRow'
  BY <1>3, <1>s, <1>u, <1>x DEF IInv, TaskWithRow, At
<1>6. MailCalls'
  <2>1. \A k \in Copies : copy'[k].at = "called" => copy'[k] = copy[k]
    BY <1>3
  <2> QED BY <2>1 DEF IInv, MailCalls, At
<1>7. OneTask'
  BY <1>3, <1>t DEF IInv, OneTask
<1>8. SentIsOver'
  <2> SUFFICES ASSUME NEW e \in Emails, sent[e] > 0, ~doubt[e]
               PROVE  /\ sent[e] = 1 /\ row'[e].st \in {"live", "deleted"}
                      /\ \A i \in CopiesOf(e)' : copy'[i].at = "called" /\ copy'[i].answer = "success"
    BY <1>t DEF SentIsOver, At
  <2>1. /\ e \in Jobs /\ sent[e] = 1 /\ row[e].st \in {"live", "deleted"}
        /\ \A i \in CopiesOf(e) : copy[i].at = "called" /\ copy[i].answer = "success"
    BY DEF IInv, SentIsOver, At, Jobs
  <2>2. e # j
    BY <1>0, <2>1
  <2> QED BY <1>3, <1>u, <1>x, <2>1, <2>2
<1>9. RecentTask'
  <2>1. \A i \in Criteria : i \in Jobs
    BY DEF Jobs
  <2>2. \A i \in Criteria : \A k \in CopiesOf(i)' : i # j /\ k \in CopiesOf(i) /\ copy'[k] = copy[k]
    BY <1>3, <1>x, <2>1
  <2> QED BY <1>t, <1>u, <2>1, <2>2 DEF IInv, RecentTask
<1>10. EmailIsCarried'
  BY <1>s, <1>x, <1>t, <1>u DEF IInv, EmailIsCarried, Jobs
<1> QED BY <1>4, <1>5, <1>6, <1>7, <1>8, <1>9, <1>10 DEF IInv

LEMMA ConsumerCrashStep ==
    ASSUME IInv, ConsumerCrash PROVE IInv'
<1>0. TypeOK
  BY DEF IInv
<1>1. PICK S : S = Running
  OBVIOUS
<1>2. copy' = [k \in Copies |-> IF k \in S THEN Free ELSE copy[k]]
  BY <1>1 DEF ConsumerCrash
<1>3. /\ copy' \in [Copies -> Task \cup {Free}]
      /\ \A i \in Jobs : CopiesOf(i)' = CopiesOf(i) \ S /\ CopiesOf(i) \subseteq Copies
      /\ \A i \in Jobs : \A k \in CopiesOf(i)' : copy'[k] = copy[k]
      /\ \A k \in Copies : k \in S => copy'[k].at = "free"
      /\ \A k \in Copies : k \notin S => copy'[k] = copy[k]
  BY <1>0, <1>2, FreedTogether
<1>o. PICK L : L = {copy[k].job : k \in S}
  OBVIOUS
<1>p. /\ over' = [j \in Jobs |-> IF j \in L THEN "lost" ELSE over[j]]
      /\ doubt' = [j \in Jobs |-> doubt[j] \/ j \in L]
      /\ UNCHANGED <<row, day, prompt, sent>>
  BY <1>1, <1>o DEF ConsumerCrash
<1>q. /\ over' \in [Jobs -> {"no", "lost", "spent"}]
      /\ \A j \in Jobs : over'[j] = "no" => j \notin L /\ over[j] = "no"
  BY <1>0, <1>p DEF TypeOK
<1>d. /\ doubt' \in [Jobs -> BOOLEAN]
      /\ \A j \in Jobs : ~doubt'[j] => ~doubt[j]
  BY <1>0, <1>p DEF TypeOK
<1>x. \A j \in Jobs : j \notin L => CopiesOf(j)' = CopiesOf(j)
  <2>1. \A j \in Jobs : j \notin L => CopiesOf(j) \cap S = {}
    BY <1>o DEF CopiesOf
  <2> QED BY <1>3, <2>1
<1>4. TypeOK'
  BY <1>0, <1>3, <1>p, <1>q, <1>d DEF TypeOK
<1>5. TaskWithRow'
  <2>1. \A j \in Jobs : row[j].st = "open" => CopiesOf(j) \cap S = {}
    BY <1>1 DEF IInv, TaskWithRow, At, Running
  <2>2. \A j \in Jobs : row[j].st = "open" => CopiesOf(j)' = CopiesOf(j)
    BY <1>3, <2>1
  <2>3. \A j \in Jobs : row[j].st = "none" => CopiesOf(j)' = {}
    BY <1>3 DEF IInv, TaskWithRow
  <2> QED BY <1>3, <1>p, <2>2, <2>3 DEF IInv, TaskWithRow, At
<1>6. MailCalls'
  <2>1. \A k \in Copies : copy'[k].at = "called" => copy'[k] = copy[k]
    BY <1>3
  <2> QED BY <2>1 DEF IInv, MailCalls, At
<1>7. OneTask'
  <2>1. \A j \in Jobs : CopiesOf(j)' \subseteq CopiesOf(j)
    BY <1>3
  <2> QED BY <1>d, <1>p, <2>1 DEF IInv, OneTask
<1>8. SentIsOver'
  <2>1. \A e \in Emails : e \in Jobs /\ CopiesOf(e)' \subseteq CopiesOf(e)
    BY <1>3 DEF Jobs
  <2> QED BY <1>3, <1>d, <1>p, <2>1 DEF IInv, SentIsOver, At
<1>9. RecentTask'
  <2>1. \A i \in Criteria : i \in Jobs
    BY DEF Jobs
  <2>2. \A i \in Criteria : \A k \in CopiesOf(i)' : k \in CopiesOf(i) /\ copy'[k] = copy[k]
    BY <1>3, <2>1
  <2> QED BY <1>p, <2>1, <2>2 DEF IInv, RecentTask
<1>10. EmailIsCarried'
  BY <1>x, <1>p, <1>q DEF IInv, EmailIsCarried, Jobs
<1> QED BY <1>4, <1>5, <1>6, <1>7, <1>8, <1>9, <1>10 DEF IInv

(* The period of a criterion ends, or an e-mail is deleted.                *)
LEMMA RowStep ==
    ASSUME IInv, NEW j \in Jobs, NEW r \in JobRow, row' = [row EXCEPT ![j] = r],
           r.st = row[j].st \/ (row[j].st = "live" /\ r.st = "deleted"),
           r.created = row[j].created, r.attempt = row[j].attempt, r.asked = row[j].asked,
           j \in Emails => r.st = "deleted",
           UNCHANGED <<copy, day, prompt, sent, over, doubt>>
    PROVE  IInv'
<1>0. TypeOK
  BY DEF IInv
<1>1. /\ row' \in [Jobs -> JobRow] /\ row'[j] = r
      /\ \A i \in Jobs : i # j => row'[i] = row[i]
  BY <1>0 DEF TypeOK
<1>2. \A i \in Jobs : CopiesOf(i)' = CopiesOf(i)
  BY DEF CopiesOf
<1>3. TypeOK'
  BY <1>0, <1>1 DEF TypeOK
<1>4. TaskWithRow'
  BY <1>1, <1>2 DEF IInv, TaskWithRow, At
<1>5. MailCalls' /\ OneTask'
  BY <1>2 DEF IInv, MailCalls, OneTask, At
<1>6. SentIsOver'
  BY <1>1, <1>2 DEF IInv, SentIsOver, At, Jobs
<1>7. RecentTask'
  <2>1. \A i \in Jobs : /\ row'[i].created = row[i].created /\ row'[i].asked = row[i].asked
                        /\ row'[i].attempt = row[i].attempt
    BY <1>1
  <2>2. \A i \in Criteria : i \in Jobs
    BY DEF Jobs
  <2> QED BY <1>2, <2>1, <2>2 DEF IInv, RecentTask
<1>8. EmailIsCarried'
  BY <1>1, <1>2 DEF IInv, EmailIsCarried, Jobs
<1> QED BY <1>3, <1>4, <1>5, <1>6, <1>7, <1>8 DEF IInv

LEMMA NewDayStep ==
    ASSUME IInv, NewDay PROVE IInv'
<1>0. /\ TypeOK /\ day' = day + 1 /\ day \in Nat /\ day >= 1
      /\ UNCHANGED <<row, copy, prompt, sent, over, doubt>>
  BY DEF IInv, TypeOK, NewDay
<1>1. \A i \in Jobs : CopiesOf(i)' = CopiesOf(i)
  BY <1>0 DEF CopiesOf
<1>2. TypeOK' /\ TaskWithRow' /\ MailCalls'
  BY <1>0, <1>1 DEF IInv, TypeOK, TaskWithRow, MailCalls, At
<1>3. OneTask'
  BY <1>0, <1>1 DEF IInv, OneTask
<1>4. SentIsOver' /\ EmailIsCarried'
  BY <1>0, <1>1 DEF IInv, SentIsOver, EmailIsCarried, At, Jobs
<1>5. RecentTask'
  <2> SUFFICES ASSUME prompt, NEW c \in Criteria, NEW k \in CopiesOf(c)
               PROVE  /\ 1 <= copy[k].born /\ copy[k].born <= day' /\ day' <= copy[k].born + Spacing
                      /\ ~copy[k].tried => row[c].created = day' \/ row[c].asked = day'
                      /\ copy[k].tried => copy[k].born <= row[c].attempt
    BY <1>0, <1>1 DEF RecentTask, Jobs
  <2>1. k \in Copies /\ c \in Jobs
    BY DEF CopiesOf, Jobs
  <2>2. copy[k] \in Task /\ copy[k].job = c /\ copy[k].at # "free"
    BY <1>0, <2>1, Carries DEF CopiesOf
  <2>3. copy[k].tried /\ day < copy[k].born + Spacing
    BY <2>1, <2>2 DEF NewDay
  <2>4. copy[k].born \in Nat
    BY <2>2 DEF Task
  <2>5. 1 <= copy[k].born /\ copy[k].born <= day /\ (copy[k].tried => copy[k].born <= row[c].attempt)
    BY DEF IInv, RecentTask
  <2>6. copy[k].born <= day' /\ day' <= copy[k].born + Spacing
    BY <1>0, <2>3, <2>4, <2>5, Constants
  <2> QED BY <2>3, <2>5, <2>6
<1> QED BY <1>2, <1>3, <1>4, <1>5 DEF IInv

LEMMA WorkStep ==
    ASSUME IInv, NEW k \in Copies, Work(k) PROVE IInv'
<1>0. TypeOK
  BY DEF IInv
<1>1. ASSUME At(k, "committed") \/ At(k, "table") \/ At(k, "schedule"),
             copy' = [copy EXCEPT ![k] = enqueue(copy[k])],
             UNCHANGED <<row, day, prompt, sent, over, doubt>>
      PROVE  IInv'
  <2>1. copy[k] \in Task /\ copy[k].at \notin {"registered", "called"}
    BY <1>0, <1>1, Carries DEF At
  <2>2. PICK c \in Task : c = enqueue(copy[k])
    BY <2>1, Enqueued
  <2>3. /\ c.at \notin {"registered", "called"} /\ c.job = copy[k].job
        /\ c.born = copy[k].born /\ c.tried = copy[k].tried
    BY <2>1, <2>2, Enqueued
  <2>4. copy' = [copy EXCEPT ![k] = c]
    BY <1>1, <2>2
  <2> QED BY <1>1, <2>1, <2>3, <2>4, Progress
<1>2. CASE OnCommit(k)
  BY <1>1, <1>2 DEF OnCommit
<1>3. CASE requeue_tasks(k)
  BY <1>1, <1>3 DEF requeue_tasks, Requeued
<1>4. CASE Schedule(k)
  BY <1>1, <1>4 DEF Schedule
<1>5. CASE SelectForUpdate(k)
  <2>1. /\ copy[k] \in Task /\ copy[k].at = "taken" /\ copy[k].job \in Jobs
        /\ UNCHANGED <<row, day, prompt, sent, over, doubt>>
    BY <1>0, <1>5, Carries DEF At, SelectForUpdate
  <2>2. CASE row[copy[k].job].st = "live"
    <3>1. copy' = [copy EXCEPT ![k] = [copy[k] EXCEPT !.at = "locked"]]
      BY <1>5, <2>2 DEF SelectForUpdate
    <3>2. "locked" \in Places
      BY DEF Places
    <3>3. PICK c \in Task : c = [copy[k] EXCEPT !.at = "locked"]
      BY <2>1, <3>2, Moved
    <3>4. c.at = "locked" /\ c.job = copy[k].job /\ c.born = copy[k].born /\ c.tried = copy[k].tried
      BY <2>1, <3>2, <3>3, Moved
    <3> QED BY <2>1, <3>1, <3>3, <3>4, Progress
  <2>3. CASE row[copy[k].job].st # "live"
    <3>1. copy' = [copy EXCEPT ![k] = Free]
      BY <1>5, <2>3 DEF SelectForUpdate
    <3>2. /\ over' \in [Jobs -> {"no", "lost", "spent"}]
          /\ \A j \in Jobs : j # copy[k].job => over'[j] = over[j]
      BY <1>0, <2>1 DEF TypeOK
    <3> QED BY <2>1, <2>3, <3>1, <3>2, Dropped
  <2> QED BY <2>2, <2>3
<1>6. CASE Finish(k)
  BY <1>6, FinishStep
<1>7. CASE SendMessage(k)
  <2>1. /\ At(k, "locked") /\ copy[k] \in Task /\ UNCHANGED <<row, day, prompt, over>>
    BY <1>0, <1>7, Carries DEF SendMessage, At
  <2>2. PICK e \in Emails : e = copy[k].job
    BY <1>7 DEF SendMessage
  <2>3. PICK a \in MailAnswers, went \in BOOLEAN :
           /\ a = "success" => went
           /\ copy' = [copy EXCEPT ![k].at = "called", ![k].answer = a]
           /\ sent' = [sent EXCEPT ![e] = IF went /\ @ < 2 THEN @ + 1 ELSE @]
           /\ doubt' = [doubt EXCEPT ![e] = @ \/ (went /\ a # "success")]
    BY <1>7, <2>2 DEF SendMessage, MailAnswers
  <2>4. a \in Answers /\ e \in Jobs
    BY DEF Answers, Jobs
  <2>5. PICK c \in Task : c = Called(copy[k], a)
    BY <2>1, <2>4, CalledTask
  <2>6. /\ c.at = "called" /\ c.answer = a
        /\ c.job = copy[k].job /\ c.born = copy[k].born /\ c.tried = copy[k].tried
    BY <2>1, <2>4, <2>5, CalledTask
  <2>7. copy' = [copy EXCEPT ![k] = c]
    BY <1>0, <2>1, <2>3, <2>5 DEF Called, TypeOK, Task
  <2>8. /\ sent' \in [Emails -> Nat]
        /\ \A i \in Emails : i # e => sent'[i] = sent[i]
        /\ sent'[e] = sent[e] \/ (went /\ sent'[e] = sent[e] + 1)
    BY <1>0, <2>3 DEF TypeOK
  <2>9. /\ doubt' \in [Jobs -> BOOLEAN]
        /\ \A j \in Jobs : doubt[j] => doubt'[j]
        /\ went /\ a # "success" => doubt'[e]
    BY <1>0, <2>3, <2>4 DEF TypeOK
  <2>10. /\ \A i \in Emails : i # copy[k].job => sent'[i] = sent[i]
         /\ copy[k].job \in Emails =>
               /\ c.answer \in MailAnswers
               /\ sent'[copy[k].job] = sent[copy[k].job]
                  \/ sent'[copy[k].job] = sent[copy[k].job] + 1
               /\ c.answer # "success" /\ sent'[copy[k].job] # sent[copy[k].job] => doubt'[copy[k].job]
    BY <2>2, <2>6, <2>8, <2>9
  <2> QED BY <2>1, <2>6, <2>7, <2>8, <2>9, <2>10, Call
<1>8. CASE Certify(k)
  <2>1. /\ At(k, "locked") /\ copy[k] \in Task /\ copy[k].job \in Criteria
        /\ UNCHANGED <<row, day, prompt, sent, over, doubt>>
    BY <1>0, <1>8, Carries DEF Certify, At
  <2>2. PICK a \in Answers : copy' = [copy EXCEPT ![k].at = "called", ![k].answer = a]
    BY <1>8 DEF Certify, Answers, MailAnswers
  <2>3. PICK c \in Task : c = Called(copy[k], a)
    BY <2>1, CalledTask
  <2>4. /\ c.at = "called" /\ c.answer = a
        /\ c.job = copy[k].job /\ c.born = copy[k].born /\ c.tried = copy[k].tried
    BY <2>1, <2>3, CalledTask
  <2>5. copy' = [copy EXCEPT ![k] = c]
    BY <1>0, <2>1, <2>2, <2>3 DEF Called, TypeOK, Task
  <2>6. copy[k].job \notin Emails
    BY <2>1, TasksAssumption
  <2>7. sent' \in [Emails -> Nat] /\ doubt' \in [Jobs -> BOOLEAN]
    BY <1>0, <2>1 DEF TypeOK
  <2> QED BY <2>1, <2>4, <2>5, <2>6, <2>7, Call
<1> QED BY <1>2, <1>3, <1>4, <1>5, <1>6, <1>7, <1>8 DEF Work

LEMMA QueueStep ==
    ASSUME IInv, NEW k \in Copies, Dequeue(k) \/ WebCrash(k) PROVE IInv'
<1>0. TypeOK
  BY DEF IInv
<1>1. CASE Dequeue(k)
  <2>1. /\ copy[k] \in Task /\ copy[k].at = "queue"
        /\ UNCHANGED <<row, day, prompt, sent, over, doubt>>
    BY <1>0, <1>1, Carries DEF At, Dequeue
  <2>2. copy' = [copy EXCEPT ![k] = [copy[k] EXCEPT !.at = "taken"]]
    BY <1>0, <1>1 DEF Dequeue, TypeOK
  <2>3. "taken" \in Places
    BY DEF Places
  <2>4. PICK c \in Task : c = [copy[k] EXCEPT !.at = "taken"]
    BY <2>1, <2>3, Moved
  <2>5. c.at = "taken" /\ c.job = copy[k].job /\ c.born = copy[k].born /\ c.tried = copy[k].tried
    BY <2>1, <2>3, <2>4, Moved
  <2> QED BY <2>1, <2>2, <2>4, <2>5, Progress
<1>2. CASE WebCrash(k)
  <2>1. /\ copy[k] \in Task /\ copy[k].at = "committed" /\ copy[k].job \in Jobs
        /\ copy' = [copy EXCEPT ![k] = Free]
        /\ over' = [over EXCEPT ![copy[k].job] = "lost"]
        /\ UNCHANGED <<row, day, prompt, sent, doubt>>
    BY <1>0, <1>2, Carries DEF At, WebCrash
  <2>2. /\ over' \in [Jobs -> {"no", "lost", "spent"}] /\ over'[copy[k].job] # "no"
        /\ \A j \in Jobs : j # copy[k].job => over'[j] = over[j]
    BY <1>0, <2>1 DEF TypeOK
  <2> QED BY <2>1, <2>2, Dropped
<1> QED BY <1>1, <1>2

LEMMA InitStep ==
    ASSUME Init PROVE IInv
<1>1. PICK kind \in {Emails, Criteria} :
         row = [j \in Jobs |-> [st |-> IF j \in kind THEN "none" ELSE "deleted",
                                answer |-> "none", created |-> 0, attempt |-> 0, asked |-> 0]]
  BY DEF Init
<1>2. row \in [Jobs -> JobRow] /\ \A j \in Jobs : row[j].st \in {"none", "deleted"}
  BY <1>1 DEF JobRow, Answers
<1>3. TypeOK
  BY <1>2 DEF Init, TypeOK
<1>4. \A k \in Copies : copy[k].at = "free"
  BY DEF Init, Free
<1>5. \A j : CopiesOf(j) = {}
  BY <1>4 DEF CopiesOf
<1>6. TaskWithRow /\ MailCalls /\ OneTask /\ RecentTask
  BY <1>2, <1>4, <1>5 DEF TaskWithRow, MailCalls, OneTask, RecentTask, At
<1>7. EmailIsCarried
  BY <1>2 DEF EmailIsCarried, Jobs
<1>8. SentIsOver
  BY DEF Init, SentIsOver
<1> QED BY <1>3, <1>6, <1>7, <1>8 DEF IInv

(* IInv holds of every behaviour of the queue, its workers and its faults. *)
THEOREM Inductive == Spec => []IInv
<1>1. Init => IInv
  BY InitStep
<1>2. IInv /\ [Next]_vars => IInv'
  <2> SUFFICES ASSUME IInv, [Next]_vars PROVE IInv'
    OBVIOUS
  <2>0. TypeOK
    BY DEF IInv
  <2>u. ASSUME UNCHANGED <<row, copy, day, prompt, sent, over, doubt>> PROVE IInv'
    <3>1. \A j : CopiesOf(j)' = CopiesOf(j)
      BY <2>u DEF CopiesOf
    <3>2. TypeOK' /\ TaskWithRow' /\ MailCalls' /\ OneTask' /\ RecentTask'
      BY <2>u, <3>1 DEF IInv, TypeOK, TaskWithRow, MailCalls, OneTask, RecentTask, At
    <3>3. EmailIsCarried' /\ SentIsOver'
      BY <2>u, <3>1 DEF IInv, EmailIsCarried, SentIsOver, At
    <3> QED BY <3>2, <3>3 DEF IInv
  <2>1. ASSUME NEW j \in Jobs, Create(j) \/ Commit(j) \/ Rollback(j) PROVE IInv'
    BY <2>1, CreateStep, CommitStep, RollbackStep
  <2>2. ASSUME NEW k \in Copies, Work(k) \/ Dequeue(k) \/ WebCrash(k) \/ RequeueInterrupted(k)
        PROVE  IInv'
    BY <2>2, WorkStep, QueueStep, RequeueInterruptedStep
  <2>3. CASE ConsumerCrash
    BY <2>3, ConsumerCrashStep
  <2>4. CASE RedisDown \/ RedisUp
    BY <2>4, <2>u DEF RedisDown, RedisUp
  <2>5. CASE NewDay
    BY <2>5, NewDayStep
  <2>6. ASSUME NEW c \in Criteria, retry_certify_criteria(c) PROVE IInv'
    BY <2>6, RecertifyStep
  <2>7. ASSUME NEW c \in Criteria, PeriodEnds(c) PROVE IInv'
    <3>1. c \in Jobs /\ row[c] \in JobRow /\ c \notin Emails
      BY <2>0, TasksAssumption DEF Jobs, TypeOK
    <3>2. PICK r \in JobRow : r = [row[c] EXCEPT !.answer = "expired"]
      BY <3>1 DEF JobRow, Answers
    <3>3. /\ r.st = row[c].st /\ r.created = row[c].created
          /\ r.attempt = row[c].attempt /\ r.asked = row[c].asked
      BY <3>1, <3>2 DEF JobRow
    <3>4. row' = [row EXCEPT ![c] = r] /\ UNCHANGED <<copy, day, prompt, sent, over, doubt>>
      BY <2>0, <2>7, <3>1, <3>2 DEF PeriodEnds, TypeOK
    <3> QED BY <3>1, <3>3, <3>4, RowStep
  <2>8. ASSUME NEW e \in Emails, DeleteEmail(e) PROVE IInv'
    <3>1. e \in Jobs /\ row[e] \in JobRow /\ row[e].st = "live"
      BY <2>0, <2>8 DEF Jobs, TypeOK, DeleteEmail
    <3>2. PICK r \in JobRow : r = [row[e] EXCEPT !.st = "deleted"]
      BY <3>1 DEF JobRow
    <3>3. /\ r.st = "deleted" /\ r.created = row[e].created
          /\ r.attempt = row[e].attempt /\ r.asked = row[e].asked
      BY <3>1, <3>2 DEF JobRow
    <3>4. row' = [row EXCEPT ![e] = r] /\ UNCHANGED <<copy, day, prompt, sent, over, doubt>>
      BY <2>0, <2>8, <3>1, <3>2 DEF DeleteEmail, TypeOK
    <3> QED BY <3>1, <3>3, <3>4, RowStep
  <2>9. CASE UNCHANGED vars
    BY <2>9, <2>u DEF vars
  <2> QED BY <2>1, <2>2, <2>3, <2>4, <2>5, <2>6, <2>7, <2>8, <2>9 DEF Next
<1> QED BY <1>1, <1>2, PTL DEF Spec

(* A committed e-mail that was not sent always has a task, in the callback *)
(* of its transaction, in Redis, in the table of the fallback or in a      *)
(* worker, unless a crash, an outage during a retry or the end of its      *)
(* retries took it.                                                        *)
THEOREM NoEmailForgotten == Spec => []EmailIsCarried
<1>1. IInv => EmailIsCarried
  BY DEF IInv
<1> QED BY <1>1, Inductive, PTL

(* An e-mail reaches the provider twice only when an answer was lost or    *)
(* requeue_tasks was interrupted, whatever is retried and requeued.        *)
THEOREM NoSecondSending == Spec => []SentOnce
<1>1. IInv => SentOnce
  BY DEF IInv, SentIsOver, SentOnce, TypeOK
<1> QED BY <1>1, Inductive, PTL

(* While the worker keeps up, retry_certify_criteria never doubles the     *)
(* task of a criterion.                                                    *)
THEOREM NoDoubledTask == Spec => []OneTaskPerCriterion
<1>1. IInv => OneTaskPerCriterion
  <2> SUFFICES ASSUME IInv, prompt, NEW c \in Criteria, ~doubt[c]
               PROVE  ~(Cardinality(CopiesOf(c)) > 1)
    BY DEF OneTaskPerCriterion
  <2>1. \A k, i \in CopiesOf(c) : k = i
    BY DEF IInv, OneTask, Jobs
  <2>2. CASE CopiesOf(c) = {}
    BY <2>2, FS_EmptySet
  <2>3. CASE CopiesOf(c) # {}
    <3>1. PICK k : CopiesOf(c) = {k}
      BY <2>1, <2>3
    <3>2. Cardinality({k}) = 1
      BY FS_Singleton
    <3> QED BY <3>1, <3>2
  <2> QED BY <2>2, <2>3
<1> QED BY <1>1, Inductive, PTL
=============================================================================
