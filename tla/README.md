# TLA+ specification of les emplois de l'inclusion

"Les emplois" is the Django site on which job seekers, prescribers and social
enterprises (SIAE, GEIQ) exchange job applications, and on which the
**PASS IAE** (the agreement that opens a subsidised contract) is issued and
followed up. This directory holds TLA+ modules of the parts of it that are hard
to test, TLC configurations that check them on small instances, and TLAPS
proofs. `PROJECT.json` maps every definition to the source lines it models.

    tlc -workers 2 -config ApprovalNumber.cfg MCApprovalNumber
    tlapm ApprovalNumberProofs.tla

A component `X` is specified in `X.tla`, instantiated for TLC by `MCX.tla` and the
`.cfg` files, and proved about in `XProofs.tla` where there is one (section 5).

## 1. Inventory

All state is in PostgreSQL, under `READ COMMITTED`, with one transaction per
HTTP request (`ATOMIC_REQUESTS`). Many gunicorn workers serve requests at the
same time; cron commands run beside them, some in one transaction
(`ATOMIC_HANDLE`), some not; Huey workers run asynchronous tasks.

| component | state | operations | talks to | hard part |
|---|---|---|---|---|
| PASS numbering (`approvals/models.py`) | tables `Approval`, `CancelledApproval` | `save` of a new PASS, `delete`, anonymization | called by accept, manual delivery, cancel | two row locks used as a semaphore, rows that move from one table to the other |
| Job applications (`job_applications`, `www/apply`) | `JobApplication` rows, comments, prior actions | 12 transitions with hooks, transfers, archiving, edition of dates, batch views, two cron commands | PASS, diagnoses, employee records | long sequences of transitions; stale instances saved as a whole |
| PASS dates (`approvals/models.py`) | `Approval.start_at/end_at`, `Suspension`, `Prolongation`, `ProlongationRequest` | suspend, unsuspend, prolong, grant, deny, postpone | triggers shift `end_at`; notifies employee records and France Travail | triggers against stale saves |
| Employee records (`employee_record`) | `EmployeeRecord`, `EmployeeRecordUpdateNotification`, logs | create, ready, disable, archive, unarchive, upload, download, sanitize | the ASP, by files on an SFTP server | no atomicity between files and tables, late and duplicate answers |
| Notification to France Travail (`send_approvals_to_pe`) | `pe_notification_*` of the two PASS tables | five-minute cron, API calls | trigger on the dates | lost update, retries |
| Eligibility (`eligibility`) | diagnoses, criteria, certifications | create, renew, certify (Huey tasks, retry command) | accept needs a diagnosis | retries on external APIs |
| Tasks and emails (`tasks`, `emails`) | Huey queue in Redis, `Task`, `Email` rows | enqueue on commit, requeue, send | every component | at-least-once delivery |
| Anonymization (`archive`) | users, applications, PASS | notify, archive after a grace period | deletes rows other components number or count | a user comes back during the grace period |
| SIAE evaluations (`siae_evaluations`) | campaigns, evaluated companies, applications, criteria | draw, upload, submit, review, freeze, adversarial stage, close | users, e-mails | a state computed from rows that two sides change |
| GEIQ assessments (`geiq_assessments`) | assessments, contracts, documents | create, fill in, submit, grant, review, send back, fetch a PDF | Label API, S3, tasks | whole-row saves, a lock with a time to live |
| Files, antivirus, OTP, companies, users, invitations, GPS, RDV-Insertion, APIs, search, Metabase, login, communications | their rows | mostly CRUD, imports, exports and I/O | | little control of their own (see section 7) |

What makes them correct: numbers are unique, dense and never given twice; a job
seeker has one valid PASS, unless an older one that was over is put off again; a PASS
is used by a hiring and does not end before it starts; the end of a PASS is its own days plus those of its suspensions and
prolongations; nothing saved breaks a constraint of the table; a record sent to
the ASP gets its own answer and the ASP ends up with the dates of the PASS;
France Travail holds what the table says it was told; a task, an e-mail or a
notice is neither lost nor left for ever; what was submitted, decided or archived
stays so. The hazards that threaten these, with their lines, are in
`PROJECT.json`.

## 2. Modules

Several modules choose a Boolean or a mode in `Init` and keep it: it selects the
behaviours a property is about (requests one at a time, no crash) without a second
configuration. Properties that name it do not hold in the other behaviours; section
3 says what happens there.

### ApprovalNumber (proofs in ApprovalNumberProofs)

`Approval.save()` of a new row and `Approval.delete()`, cut at their SQL
statements. A creator goes through `SelectFirstApproval` (the locking `SELECT`
takes its snapshot), `LockApproval` (the lock is granted on the first row of
that snapshot that still exists), `ReadLastApproval` (the "whole new SELECT"),
the same three on `CancelledApproval`, `InsertApproval`, `CommitApproval`. A
canceller reads its PASS without a lock, inserts the cancelled row, deletes the
other (which needs the row lock), commits. `Rollback` may end either at any
step. `AnonymizeApproval` and `AnonymizeCancelled` are the commands of
`itou/archive` that remove rows ended long ago, the semaphore row included.
`issued` is a history variable: every number ever committed.

A row is its key and its number; `snap`, `lockA`, `lockC`, `lastA`, `lastC` and
`pending` are the local state of a transaction. The semantics of PostgreSQL that
the code relies on is in the header of the module.

### JobApplication (proofs in JobApplicationProofs)

The applications of one job seeker, one action per request or command, each
taken as a whole. `From`/`To` are the transitions of `JobApplicationWorkflow`,
`set_processed_at`, `unset_processed_at` and `unarchive` the hooks, `Fire` one
transition with its hooks and its save. `accept` is split by its outcome:
outside the IAE, with a PASS (`ReusePass`, which compares the day of the hiring with
the end of the PASS and then lifts its suspension, or `IssuePass`), awaiting a manual
delivery, where the support chooses the dates. `suspend` to `AdminSaveModel` are the
requests on the periods and the dates of a PASS, which ApprovalPeriods cuts at their
reads and saves; they are here for what they do to the hirings and to the other PASS
of the job seeker. `late` is a history variable: the PASS that were over when a
prolongation, a suspension or a move of their start put off their end.

The behaviours are `all`, without a bound, which the proofs cover; TLC explores
slices of them (`Scopes`): `wide` (all kinds of companies, one day), `long` (IAE
companies over several days) and `periods` (the same with what changes the dates of
the PASS, in which the job seeker has a diagnosis and an identified profile, and what
neither hires nor cancels is left out). `Cancel`, `Transfer`,
`EditHiringDate`, the admin's manual refusal, the archiving and rejecting commands,
prior actions and comments follow the code. Days are integers; a PASS is
`[st, start, end]`. Diagnoses are
"none", "valid" or "expired"; the employee record is reduced to what
`can_be_cancelled` looks at.

### HiringRaces (proofs in HiringRacesProofs)

`JobApplication` cut at the statements of its transactions, for the questions
where interleaving matters: `accept` (read, check for a valid PASS, semaphore,
select and obsolete the others, save), `cancel` (read, `can_be_deleted`, detach,
delete, save), `process` (the shape of every single view: read without a lock,
save all columns) and the refusal wizard (the shape of every batch view: read
under `FOR NO KEY UPDATE`). A row is its state and its PASS. `wrote`, `issued`
and `deleted` are what a transaction has done and not committed. All PASS are
valid here (one day). The semaphore is one lock: ApprovalNumber shows that it is
exclusive.

### EmployeeRecord (proofs in EmployeeRecordProofs)

The record of one hiring, its update notifications, the two `--upload` and the
two `--download` commands, `sanitize`, `archive`, `resend`, and the ASP
(external). The dates of the PASS are a version number that `ChangeDates`
increments together with the trigger `create_employee_record_notification`. An
upload is three steps (select and serialize, put the file, mark as sent) with no
transaction around them; `Crash` may end it between any two. The ASP reads files
in the order of their names and answers each with a code of `Codes`; it knows a
record or not, and its answer has to agree with that: success of a creation only
if unknown, duplicate (3436) only if known. It does not answer a file while the
command that put it is still marking: the command is given ten minutes and
answers are fetched half an hour after uploads (`clevercloud/cron.json`).
A feedback file may be applied and not removed (crash), and is then read again.
`calm` behaviours have no crash and no change of dates during an upload.

### ApprovalPeriods, and PassCredit which it implements (proofs in ApprovalPeriodsProofs)

One PASS with its suspensions, prolongations and requests for a prolongation.
A request reads an instance (`ReadSuspension`, `ReadRequest`...) and saves it
later (`suspension_update`, `grant`...), unless the behaviour is `serial`; the
triggers `update_approval_end_at`, the exclusion constraints and the unique
constraints apply at the save, and a deleted row that is saved is inserted again.
`accept` moves the start and lifts a suspension, `edit_contract_start_date` moves
the start, the support moves the PASS (`AdminSaveModel`) or ends it
(`terminate_approval`). Lengths are `end - start`, as the triggers compute them.

`PassCredit` is the promise: a PASS has days of its own, a period adds its length
and nothing else changes it, until the support takes the dates in hand.
`EveryDayIsGiven` is `Credit!CreditSpec` under the mapping `length <- end - start
+ 1`, `begin <- pass.start`, `given <-` the length of each live period, `closed <-
support # "none"`.

### PENotification (proofs in PENotificationProofs)

`send_approvals_to_pe` with its three UPDATEs (`FixErrors`, `PrepareLive`,
`PrepareCancelled`), each of which commits, its batch read once, the two
calls to France Travail (external), which may fail, be heard and not answered, or
answer with an error, and the save of the status; the trigger
`plan_pe_notification_on_date_updates`; changes of dates by SQL or by a whole-row
save of an instance read earlier; cancellation, which moves the row to
`CancelledApproval`. `mode` says what happens together: overlapping runs, stale
saves between runs, or PASS that change during a run. Dates are numbered as they
are chosen, so that two choices are never equal.

### SiaeEvaluations (proofs in AdministrationProofs)

One campaign. The state of an application and of a company is computed from the
rows, as the two `state` properties of the models do. Companies choose criteria,
upload and submit; the inspector reviews each proof, then the company; the support
freezes submissions, moves to the adversarial stage and closes; sanctions are
notified; old applications are archived. A request that reads then saves is two
steps (`work`). `told` (the result e-mailed) and `moved` are history variables.

### Tasks (proofs in TasksProofs)

The Huey queue (external) with its fallback table, `requeue_tasks`, the task that
sends an e-mail and the one that certifies a criterion, with their locks, calls,
retries and the commands `retry_certify_criteria` and the deletion of old e-mails. A copy of a
task travels: commit callback, queue, worker, schedule, or table. Redis may be
down, the web process, the consumer and `requeue_tasks` may die between two
steps. `over` and `doubt` record what a fault has lost or may have doubled; in
`prompt` behaviours the worker keeps up with the calendar. A behaviour has e-mails
or criteria: they only share the workers.

### GeiqAssessments (proofs in AdministrationProofs)

The creation form of two tabs, or the life of one assessment: selection and
justification of contracts, comment, documents, submission, grants, decision,
the two reviews, the two ways back, and the task that fetches a PDF under a lock of
Redis. A user reads, then writes what the read allowed; transitions and model
forms save the whole row, the other views their fields, and the check constraints
guard every write. Dates are kept as set or not. `mode` is `create`, `serial` or
`races` (overlapping requests, a lock that expires).

### Archive (proofs in AdministrationProofs)

`notify_inactive_jobseekers`, `notify_inactive_professionals`,
`anonymize_jobseekers` and `anonymize_professionals` cut at their statements, in
run slots that may overlap; people become active, are deactivated by support and
come back. "Blocked" is what points at a professional and forbids deletion. A
behaviour has job seekers or professionals, which do not interact. `calm`: one run
at a time and nobody active during it.

## 3. Runs

| run | shows | bounds |
|---|---|---|
| `approval_number` | `TypeOK`, `NoDuplicate`, `NoHole`, `NeverReissued` and `RequestsEnd` (no deadlock) with rollbacks and anonymizations | 3 creators, 2 cancellers; three initial rows, the first of which may be anonymized, the first two cancelled; limit 5, so that the limit is reached |
| `job_application` | `CheckConstraints`, `ObsoleteOnAccept`, `OneValidPassInTime`, `NeverEndsBeforeItStarts`, `AcceptedHasPass`, `NoOrphanPass`, one request at a time | 2 applications, in three slices. `wide`: an IAE company and a GEIQ on one day. `long`: an IAE company over 4 days with PASS of 2 days and 2 PASS: a PASS begins, is shared, ends, has a waiting period and is replaced; the answers are the refusal and the reset. `periods`: 3 days, 2 PASS of which the first has suspensions of up to 3 days (any number, they do not overlap), 1 prolongation and 1 request from its last day on, and moves of its start to the past; one of the applications may be cancelled |
| `hiring_races` | `AcceptedOnlyFields`, `NoDanglingPass`, `LockedReadIsFresh`: what stale saves cannot break | 2 applications, 2 acceptors, 2 cancellers, 1 process, 1 refusal |
| `employee_record` | `CodeAnswersLastFile`, `SentIsAnswered`, `SentGetsAnswer`; `AspUpToDate` in calm behaviours | 1 change of dates, 3 files (one more of each when calm): a record is sent, crashes, is sent again and answered twice |
| `approval_periods` | `EndAddsUp`, `EveryDayIsGiven` (refinement) and `GrantedIsProlonged` with concurrent requests; `ProlongationsWithinPass` and `CumulativeBound` one at a time | 2 requests in flight, 1 suspension of up to 3 days, 2 prolongations, 1 request, 3 days, PASS of 2 days; the support acts when no request is in flight, after which no other begins |
| `pe_notification` | `SuccessMeansKnown`, `CancelledStays`, `PendingIsAnswered` | 2 PASS of which one changes, a batch of 1, so that one waits behind the other; 2 runs, 1 crash, 1 edition, 2 starts and ends |
| `siae_evaluations` | `ClosedIsDecided`, `DecisionIsFinal`, `TransitionExpected`, `SanctionedIsRefused` | 1 company (companies only meet in the loops of the support), 2 applications, 2 criteria, 3 days |
| `tasks` | `EmailIsCarried`, `SentOnce`, `OneTaskPerCriterion`, `EveryEmailEnds` | 1 e-mail or 1 criterion, 2 copies of its task, 2 workers, 1 retry, 4 days, 2 faults |
| `geiq_assessments` | `OneAssessmentPerAntenna`, `SubmittedIsComplete`; `SubmittedIsFrozen` one request at a time | 1 contract, 2 antennas, 2 tabs, 2 institutions, 2 workers, 2 versions of a document, 2 overlapping requests |
| `archive` | `ArchivedOnce`; in calm behaviours `NoticeIsHonoured` and `NoticeEnds` | 1 job seeker or 2 professionals, periods of 1 day, a batch of 1, 2 run slots, 4 days |

Two requests of a kind are enough for every conflict on a row, a lock or a
unique key; a third creator of a PASS is there because the semaphore row can
change between the second and the third. Symmetry is used in `HiringRaces`,
`ApprovalPeriods`, `SiaeEvaluations` and `GeiqAssessments`, on sets whose members
the module treats alike; none of these runs has a liveness property
(`EveryDayIsGiven` is a safety specification). Deadlock is checked for
`approval_number`; in the other runs the calendar, the PASS, the files or the
people run out, or every request is done.

Each property has a mutant in `PROJECT.json`: a plausible error in one definition
with which TLC finds the property violated.

### Disagreements between the code and its own words

Two runs expect a violation; the quoted lines are in `PROJECT.json`.

* `hiring_races_two_pass`: `Approval.clean` looks for a valid PASS before the
  semaphore of `get_next_number`; two concurrent acceptances issue two PASS.
* `archive_next_run`: a professional who could not be deleted because of
  assignments is said to be deleted "on the next command run"; when older ones
  that cannot be deleted fill the batch, he is in no later batch.

Seen while modelling, and the reason why some properties are restricted to serial
or calm behaviours:

* Hirings: `edit_contract_start_date` builds `PermissionDenied()` without raising
  it (`edit_views.py:35`); `cancel` may delete a PASS that a concurrent acceptance
  is reusing (`approvals/models.py:573`); a stale save of `process` may undo an
  acceptance (`process_views.py:472`); two concurrent cancellations of the two
  hirings of a PASS each leave it to the other; moving the start of one of two
  hirings moves the shared PASS past the other; the support may deliver by hand a PASS
  that is over or of any length.
* Employee records: dates changed during an upload are not notified
  (`transfer_employee_records.py:60`); a hiring can be cancelled while its record
  is on its way (`job_applications/models.py:1016`).
* A second PASS: a PASS is only prolonged when no other has been issued "in the
  meantime" (`can_be_prolonged`, `approvals/models.py:836`), which is looked at when
  the prolongation is requested. A request is pending when the PASS ends; an acceptance
  issues a second PASS; the request is granted (`models.py:1608`, `grant` looks at
  nothing) and the first PASS is valid again: two valid PASS, without any overlap of
  requests. The same happens when the support moves the start of a PASS that is over,
  or when a suspension of it is lengthened: `OneValidPassInTime` says that there is no
  other way. `ProlongedIsMostRecent` states the comment; TLC finds it violated in
  9 states when it is added as a PROPERTY to `JobApplication.cfg` with
  `Scopes = {"periods"}`.
* The end of a hiring's PASS: `accept` refuses a PASS "which ends before the hiring
  start date" (`job_applications/models.py:1240`), then calls `unsuspend` (`:1291`),
  which ends the suspension on the day before the hiring and takes the end of the PASS
  back. When the suspension began on the last day of the PASS, the hiring starts one
  day after the end (`AcceptedWithinPass`, violated in 7 states of the same
  instance). A hiring accepted before may be left far behind: take a PASS that would
  end in 10 days, suspended 30 days ago for 12 months, and so ends in about a year; a
  hiring is accepted for 170 days from now (the PASS then ends in about 209 days), then
  another one for today: the PASS ends in about 39 days, and the first hiring starts
  131 days after that. A hiring after the end of the suspension lengthens it instead.
  No run says that a hiring starts within its PASS: the code does not keep it.
* PASS dates: the start of a suspension that is updated is compared with an end
  of the PASS that its own days extend; the support that moves a
  start leaves periods behind, and `update_start_date` then drops their days; `deny`
  does not look at the status of the request. The maximum of a reason ("Renouvellements
  possibles dans la limite de 5 ans", `approvals/models.py:1338`) is computed when a
  prolongation is requested and not again when it is granted (`models.py:1608`): a
  refused request granted from a page opened before (`approvals_views/views.py:598`),
  after another that fitted the same maximum, takes the total above it, provided a
  suspension moved the end of the PASS between the two so that their dates do not
  overlap. With two requests TLC finds `RenewalsWithinLimit` violated in 15 states; it
  is the condition `NoSecondThought` of `CumulativeBound`, and `RenewalsAreBounded`
  proves that nothing else breaks the maximum.
* France Travail: the SUCCESS of a call in flight overwrites the PENDING set by the
  trigger; with overlapping runs a late failure takes back a SUCCESS; a run in
  progress sends the dates it read.
* SIAE evaluations: a second move to the adversarial stage raises `ValueError`;
  whole-row saves may erase `final_state`; POSTs of the inspector are not checked
  against what the page offers.
* Tasks: a retry scheduled while Redis is down has no fallback; a duplicated task
  sends its e-mail again.
* GEIQ: whole-row saves overwrite a concurrent request; a fetch that outlives its
  lock replaces the PDF of a submitted assessment; `full_or_no_submission` only
  refuses a row in which everything is missing; a contract can be changed by a
  request that read the assessment before it was submitted.
* Archive: activity between the listing and the end of a run comes too late;
  overlapping runs archive a job seeker twice; applications made between the copy
  and the deletion are lost.

## 4. Fairness

`ApprovalNumber!Fairness`: the database goes on with every transaction that does
not wait for a lock (weak fairness of each request once started); nobody has to
start one. `EmployeeRecord!FairSpec`: an upload that has put its file goes on or
crashes, cron runs `--download` and `sanitize_employee_records` over and over
(`clevercloud/cron.json`), the ASP answers. Weak fairness is per feedback file:
`download_json_file` tries every file in the directory at each run.
`PENotification!Fairness`: cron starts the command every five minutes and a run
goes on (weak fairness of the command); France Travail answers now and then, that
is, not all of infinitely many calls fail (strong fairness of the two answers).
`Tasks!Fairness`: the consumer, its scheduler and the hourly `requeue_tasks` go on,
Redis comes back, and a queued task is taken in the end whatever is queued after
it: the queue is first in, first out (strong fairness of `Dequeue`).
`Archive!Fairness`: days pass, a run goes on, each command is started again and
again whatever the others do (strong fairness of `Launch` and `NewDay`, since a
slot or the quiet that a calm behaviour requires comes and goes). Nothing is
assumed of the users.

## 5. Proofs

Each module of proofs proves its properties for every value of the constants: any number
of people, rows, requests, workers, days and faults, any durations. The pattern is
the same: `IInv` is an inductive invariant (`Inductive`: `Spec => []IInv`; `SiaeInv` and
`GeiqInv` for the SIAE evaluations and the GEIQ assessments), with one
lemma per action or per group of actions that do the same to the state, and each
property follows from `IInv` alone, or from a step taken in a state that satisfies
it. TLC checked each `IInv` on the instance of the run before it was proved.

| module | theorems (property) |
|---|---|
| `ApprovalNumberProofs` | `Typing` (`TypeOK`), `NumbersUnique` (`NoDuplicate`), `NumbersDense` (`NoHole`), `NumbersFresh` (`NeverReissued`) |
| `JobApplicationProofs` | `RowsCoherent` (`CheckConstraints`), `SecondPassComesBack` (`OneValidPassInTime`), `HiringsHavePass` (`AcceptedHasPass`), `PassHasHiring` (`NoOrphanPass`), `PassKeepsItsOrder` (`NeverEndsBeforeItStarts`), `HiringEndsSearch` (`ObsoleteOnAccept`) |
| `HiringRacesProofs` | `FieldsNeverMixed` (`AcceptedOnlyFields`), `PassExists` (`NoDanglingPass`), `LockedReads` (`LockedReadIsFresh`) |
| `EmployeeRecordProofs` | `CodeIsAnswer` (`CodeAnswersLastFile`), `NoLostRecord` (`SentIsAnswered`), `AspKnowsDates` (`AspUpToDate`) |
| `ApprovalPeriodsProofs` | `TriggersAddUp` (`EndAddsUp`), `GrantsProlong` (`GrantedIsProlonged`), `ImplementsPassCredit` (`EveryDayIsGiven`), `NoProlongationOutside` (`ProlongationsWithinPass`), `RenewalsAreBounded` (`CumulativeBound`) |
| `PENotificationProofs` | `SuccessIsTrue` (`SuccessMeansKnown`), `CancellationIsFinal` (`CancelledStays`) |
| `TasksProofs` | `NoEmailForgotten` (`EmailIsCarried`), `NoSecondSending` (`SentOnce`), `NoDoubledTask` (`OneTaskPerCriterion`) |
| `AdministrationProofs` | archiving: `OneArchive` (`ArchivedOnce`), `NoticeFirst` (`NoticeIsHonoured`); SIAE evaluations: `ClosedCampaignIsDecided` (`ClosedIsDecided`), `SanctionedStaysRefused` (`SanctionedIsRefused`), `TransitionNeverRaises` (`TransitionExpected`), `RecordedDecisionIsFinal` (`DecisionIsFinal`); GEIQ assessments: `AntennaCoveredOnce` (`OneAssessmentPerAntenna`), `SubmissionIsComplete` (`SubmittedIsComplete`), `SubmissionIsFrozen` (`SubmittedIsFrozen`) |

### ApprovalNumberProofs

`NoDuplicate` is not inductive: one must know that creators are alone between their
first lock and their commit. `IInv` adds

* `Anchored`: a row below every new one survives, and a creator waiting for the
  semaphore has every such row in its snapshot;
* `LockExclusive` and `Semaphore`: whoever is past its first lock holds the first
  row of the table **as it is now**, so that two creators would hold the same row
  (lemma `Mutex`);
* `Cancelling`: what a canceller knows of the row it removes;
* `Reading`: what a creator has read bounds every number issued; between its two
  reads, a number it has not seen as an Approval is already a CancelledApproval.

Assumptions: creators and cancellers are distinct, keys and numbers of the initial
rows are unique, and `AnchorAssumption`: the last PASS of the initial table is never
cancelled nor anonymized. The last one matters: on an empty table there is no row to
lock and the semaphore does not exist. In production such a row exists as soon as one
employee record was sent, since `can_be_cancelled` then refuses.

### JobApplicationProofs

`CheckConstraints` is kept by each transition alone (lemmas `Firing` and those on
rows: what a transition makes of each field). The rest of `IInv` has two parts, which
meet in the actions that hire and cancel:

* `Hired`: the rows, the PASS of every hiring and the hiring of every PASS. They hold
  together or not at all, with `PassInUse`: an application only refers to a live PASS.
  `Cancel` deletes a PASS when exactly one application has it (`can_be_deleted` counts
  them), which is why the others stay right and why no PASS is left without a hiring;
* `Dated`: the dates of the PASS. `OverOrLate`: a PASS that is followed by another one
  is over or came back. It is kept because a PASS is issued when none is valid, and
  because days, shortened or lifted suspensions and the closing never make a PASS
  valid that was not; what can do it records it in `late`. `PassFine` says of each PASS
  what `NeverEndsBeforeItStarts` lacks to be inductive: at most one suspension can
  still be shortened or lifted (they do not overlap and none begins in the future), and
  without the days of that one the PASS would still end after its start. Closing the
  PASS keeps it because the suspension in progress is cut first.

The lemma `Step` combines the two (`Together`, `Quiet`, `Redated`), and
`HiringEndsSearch` is a property of the same step.

`DaysAssumption` asks for `PassDays > 1`, so that a PASS issued ends after it starts,
and `PostponeDays <= HireWindow`: in the code 730 days, 30 days and 6 months.
`CompaniesAssumption`: the kinds of companies are disjoint. The slices of TLC are
covered as the behaviours without a bound are: `scope` only restricts the steps.

### HiringRacesProofs

`IInv` says which requests take which steps (`Roles`), that what is written and not
committed obeys `accepted_only_fields` too (`WrittenFields`: what was read without a
PASS is saved without one), that a row is updated or locked by one transaction at a
time (`RowLocks`), and what a PASS about to be deleted is still attached to, which is
what `NoDanglingPass` says. Assumption: a transaction is of one kind (`TxAssumption`).

### EmployeeRecordProofs

* `Queue`: a name is given to one file, the ASP reads the files in the order of their
  names, those it has answered come before those it has not, and a file that waits
  has no answer. So an answer is never about a file with a code already, and a
  feedback file that is read again brings the same code;
* `OneUpload`: the two uploads do not run together, and the file that one of them is
  about to mark is the last one and waits for the ASP: this is what makes a record
  that becomes SENT have an answer to come (`SentIsAnswered`);
* `CalmDates` and `RecordTold`, for `AspUpToDate`: the dates in the inbox never get
  older; and for a record processed or sent, the ASP has the dates of the PASS, or a
  notification is new, refused or about to be, or on its way with the current dates,
  or the record's own file is on its way with them, or was answered by something else
  than a success. When all notifications are processed only the first is left. A
  duplicate (3436) tells nothing of the dates, hence the notification that
  `process()` adds for a PASS with periods; without periods the dates never changed.

Assumption: the bounds are natural numbers.

### ApprovalPeriodsProofs

The length of the PASS is a sum over its live periods. The lemmas `AdditiveExists`,
`DaysOfIs`, `DaysAdd` and their like establish what a sum over a finite set does when
a member is added, removed or changed. They are not proved by an induction rule: a
set of counterexamples has a smallest member (`WFMin` on the strict subset ordering of
`FiniteSetTheorems`), which contradicts the definition. The invariant is

* `WorkOK`, `Ordered`, `Alone`, `Begun`, `Current`, `OnePending`: the types of the rows
  and of the instances in flight, the order of their dates, what the constraints of the
  tables keep, and what an instance read earlier and the row still share;
* `EndAddsUp` and `GrantedIsProlonged` themselves.

`ImplementsPassCredit` maps every step to a step of `PassCredit` or a stutter: each
action changes one period and the end by the same amount, moves start and end
together, or closes the PASS (the support).

`SInv`, for the requests that do not overlap, adds `Slack` (what the suspensions that
may still be shortened have added to the end lies beyond the prolongations and the
requests, so that giving it back takes nothing from them), `PendingFits` (a pending
request comes after every prolongation and fits in what they left of the maximum) and
`Limit` (the total of the prolongations up to each one). `RenewalsAreBounded` has the
condition `NoSecondThought` of the property it proves (section 3).

`DurationsAssumption`: durations are positive, a hiring opens a prolongation before
the PASS ends (`OpenBefore < PassDays`), and one request fits in the maximum
(`RequestMax <= CumulativeMax`).

### PENotificationProofs

`IInv` follows what a run has read and not saved yet: it is current unless the mode
lets a PASS change during the run (`ReadIsCurrent`, `OneRun`), a PASS that a run still
takes for live was not answered as cancelled (`CancelledIsLast`), a success about to
be saved was heard (`AnswerIsHeard`), and an instance saved as a whole only brings its
status back with the dates that the status is about (`EditorIsHarmless`).
`PEAssumption`: bounds are natural, the batch is not empty.

### TasksProofs

`EmailIsCarried` is nearly inductive: `TaskWithRow` (a task is made in the
transaction of its row) is what it needs. `SentIsOver` says that an e-mail that went
has its answer in hand and no other task (`OneTask`). For a criterion, `RecentTask`:
while the worker keeps up, a task that exists was made or tried within `Spacing`, so
that `to_recertify`, which looks at these dates, cannot choose the criterion again.
`TasksAssumption`: an e-mail is not a criterion, and bounds are natural.

### AdministrationProofs

Three components that share nothing but the kind of work they do, over months. The
module extends the three, which is why those of `SiaeEvaluations` (`CampaignSpec`) and
`GeiqAssessments` (`GeiqSpec`) have names of their own for `Init`, `Next`, `vars` and
`Spec`.

*Archiving* (`IInv`). `OneRun` and `Warned`: in calm behaviours the list that a run
holds is of people who were notified and silent, and still are. `LockedLists`: two
runs of `anonymize_professionals` never hold the same professional, whose rows are
locked with `skip_locked`: hence `ArchivedOnce`. `PeopleAssumption`: nobody is both a
job seeker and a professional.

*SIAE evaluations* (`SiaeInv`). The state of a company is the highest of those of its
applications, each the highest of those of its criteria: the lemmas from `Priorities`
to `MissingIsRefused` say what such a maximum tells of its members (one criterion
that misses something makes the company pending or submittable; a settled company
has only settled criteria). They replace any enumeration of criteria: nothing is
assumed of their number. The invariant is

* for all behaviours: `CertifiedIsAccepted`, `OpenIsUndecided` (no result is recorded
  before the close) and `FlightIsOld` (the row that a request holds has the recorded
  result or none). They give `DecisionIsFinal` even when requests overlap;
* when requests come one at a time: `FlightIsFresh` (what the request in flight read
  is still so), `NotifiedIsFinal` (a company notified before the end had its final
  review), and `FirstPhaseHolds`: until the campaign first moves, whatever was
  submitted is frozen, no review is of the second phase, and a reviewed company is
  settled. So no company is refused, pending or submittable at the move
  (`TransitionExpected`); a notified company is final, can neither upload nor submit
  anything that gets it out of "refused", and the inspector has no button left
  (`SanctionedIsRefused`). At the close, a company that submitted nothing misses
  something and is refused (`SilentIsRefused`), as its e-mail says (`ClosedIsDecided`).

Whether there is a calendar at all does not matter: `CalendarAssumption` is not used.

*GEIQ assessments* (`GeiqInv`). `SubmittedIsComplete` is not inductive, since whole
rows read before are saved later: `ReadIsComplete` says the same of every row that a
request holds, and the constraints of the table do the rest for the views that save
their own fields. For `SubmittedIsFrozen`, when requests come one at a time:
`OneReader`; `FetchedOnce` (a worker that fetches has the lock, and there is no PDF
yet, so nothing is submitted); `ReadIsCurrent` (what a request read is what the table
has, except for a PDF that came since, which only happens before the submission).
Every write of a user is shown to be a `SafeWrite` (lemmas `GeiqWrites` and
`InstitutionWrites`), and the invariant and the action property follow from that.
`GeiqAssumption`: a version is not 0 (no document), the
tabs are finitely many and are not institutions, and "free" is not a worker.

### Only model-checked

Liveness (`RequestsEnd`, `SentGetsAnswer`, `PendingIsAnswered`, `EveryEmailEnds`,
`NoticeEnds`): fairness and ENABLED are out of the prover's reach. Every other
property of a passing run is stated by a theorem.

## 6. Plan

1. `HiringRaces` as an implementation of `JobApplication` for the requests that lock
   their row (a committed request is a step of it), first checked, then proved.
2. Model the throttling of the one-time passwords under concurrent verifications and
   the `skip_locked` selection of the antivirus scans.

## 7. Not modelled

Left out for good: imports of companies and reference data, exports to Metabase,
search, read-only APIs, login with identity providers, invitations, GPS,
RDV-Insertion and communications (CRUD, I/O, or control that lives in an external
service). The map covers a small share of the repository's lines: most of them are
migrations, pages of the admin, forms and views that read or write one row,
serializers, imports, exports and queries for display, in which there is nothing
to interleave and no state to reach that a unit test does not.

Within the modelled parts, left out:

* wording and notifications of users, logs, the end date of contracts, the
  criteria of the diagnoses;
* employee records: several lines per file, the serialization of records.
  `resend_employee_records` is not an action: it reads
  `EmployeeRecord.job_application.to_company` on the class
  (`resend_employee_records.py:26`) and always raises `AttributeError`;
* PASS imported from the AI stock and numbers without the ITOU prefix;
* PASS dates: reminders of requests (`prolongation_requests_chores`), direct
  editions of periods in the admin, report files;
* SIAE evaluations: the percentage and the draw, the explanations of the
  inspector, the content of sanctions, the delay of 60 days, weekly notices;
* e-mails: how recipients are cut into several messages; certification: which
  criteria an API certifies and the data it needs;
* GEIQ: what the label API returns, the amounts, the second PDF (same task);
* archive: what is copied to the anonymized tables, the removal from Brevo
  and the e-mails themselves.
