----------------------- MODULE AdministrationProofs -----------------------
(***************************************************************************)
(* What the administration decides about people and companies, over        *)
(* months, is proved for any number of them: the archiving of users, the   *)
(* control of the self-prescriptions of companies, and the assessments of  *)
(* the GEIQs: three components that share nothing.                         *)
(***************************************************************************)
EXTENDS Archive, SiaeEvaluations, GeiqAssessments, FiniteSetTheorems, TLAPS

(***************************************************************************)
(* Archive: who is anonymized was told so, and a professional is archived  *)
(* once, for any number of people and of runs, any periods and any         *)
(* calendar.                                                               *)
(***************************************************************************)

UserRow == [live: BOOLEAN, active: BOOLEAN, email: BOOLEAN, last: 0..MaxDay,
            notified: 0..Never, blocked: {"no", "assigned", "yes"}]
RunRow == [cmd: Commands, step: {"reset", "listed"}, list: SUBSET People]

(* The rows of users, the runs and the archive keep their types; a run     *)
(* deals with one kind of people.                                          *)
TypeOK ==
    /\ day \in 0..MaxDay /\ calm \in BOOLEAN
    /\ u \in [People -> UserRow]
    /\ run \in [Runs -> RunRow \cup {Idle}]
    /\ archived \in [People -> Nat]
    /\ \A r \in Runs : run[r] # Idle =>
          run[r].list \subseteq IF run[r].cmd \in {"notify_js", "anonymize_js"} THEN JobSeekers
                                ELSE Professionals

-----------------------------------------------------------------------------
(* Types.                                                                  *)

(* A column of the row of a user may take any value of its type.           *)
LEMMA UserColumn ==
    ASSUME NEW v \in UserRow
    PROVE  /\ \A b \in BOOLEAN : [v EXCEPT !.active = b] \in UserRow /\ [v EXCEPT !.email = b] \in UserRow
           /\ \A d \in 0..MaxDay : [v EXCEPT !.last = d] \in UserRow
           /\ \A n \in 0..Never : [v EXCEPT !.notified = n] \in UserRow
           /\ \A b \in {"no", "assigned", "yes"} : [v EXCEPT !.blocked = b] \in UserRow
  BY DEF UserRow

(* What the steps of people, support and commands leave in a row.          *)
LEMMA UserSteps ==
    ASSUME NEW v \in UserRow, NEW d \in 0..MaxDay
    PROVE  /\ [v EXCEPT !.last = d, !.email = TRUE] \in UserRow
           /\ [v EXCEPT !.active = TRUE, !.notified = Never] \in UserRow
           /\ [v EXCEPT !.active = FALSE, !.email = FALSE,
                        !.blocked = IF @ = "assigned" THEN "no" ELSE @] \in UserRow
           /\ Deleted \in UserRow
<1>0. Never \in 0..Never /\ 0 \in 0..MaxDay /\ MaxDay \in Nat
  BY ArchiveAssumption DEF Never
<1>1. [[v EXCEPT !.last = d] EXCEPT !.email = TRUE] \in UserRow
  BY UserColumn, Zenon
<1>2. [[v EXCEPT !.active = TRUE] EXCEPT !.notified = Never] \in UserRow
  BY <1>0, UserColumn, Zenon
<1>3. PICK w \in UserRow : w = [[v EXCEPT !.active = FALSE] EXCEPT !.email = FALSE]
  BY UserColumn, Zenon
<1>4. [w EXCEPT !.blocked = IF @ = "assigned" THEN "no" ELSE @] \in UserRow
  BY DEF UserRow
<1>5. Deleted \in UserRow
  BY <1>0 DEF Deleted, UserRow
<1> QED BY <1>1, <1>2, <1>3, <1>4, <1>5

(* The runs keep their types when one of them goes on or ends.             *)
LEMMA RunType ==
    ASSUME TypeOK, NEW r \in Runs, NEW cmd \in Commands, NEW step \in {"reset", "listed"}, NEW list,
           list \subseteq IF cmd \in {"notify_js", "anonymize_js"} THEN JobSeekers ELSE Professionals,
           Step(r, cmd, step, list) \/ run' = [run EXCEPT ![r] = Idle]
    PROVE  /\ run' \in [Runs -> RunRow \cup {Idle}]
           /\ \A s \in Runs : run'[s] # Idle =>
                 run'[s].list \subseteq IF run'[s].cmd \in {"notify_js", "anonymize_js"} THEN JobSeekers
                                        ELSE Professionals
<1>1. [cmd |-> cmd, step |-> step, list |-> list] \in RunRow
  BY DEF RunRow, People
<1> QED BY <1>1 DEF TypeOK, Step

(* Whom a command lists.                                                   *)
LEMMA ListedPeople ==
    ASSUME TypeOK, NEW cmd \in Commands
    PROVE  /\ cmd \in {"notify_js", "notify_pro"} => \A L \in Batches(to_notify(cmd)) :
                 L \subseteq IF cmd = "notify_js" THEN JobSeekers ELSE Professionals
           /\ cmd \in {"anonymize_js", "anonymize_pro"} => \A L \in FirstOf(to_archive(cmd)) :
                 L \subseteq to_archive(cmd)
                 /\ L \subseteq IF cmd = "anonymize_js" THEN JobSeekers ELSE Professionals
  BY DEF Commands, Batches, FirstOf, to_notify, to_archive,
       inactive_jobseekers_without_recent_related_objects

(* Every step keeps the types.                                             *)
LEMMA TypingStep == TypeOK /\ [Next]_vars => TypeOK'
<1> SUFFICES ASSUME TypeOK, [Next]_vars PROVE TypeOK' OBVIOUS
<1>0. MaxDay \in Nat /\ day \in 0..Never /\ Never \in 0..Never
  BY ArchiveAssumption DEF TypeOK, Never
<1>1. CASE NewDay
  BY <1>0, <1>1 DEF TypeOK, NewDay
<1>2. ASSUME NEW x \in People, Act(x) PROVE TypeOK'
  BY <1>2, UserSteps DEF TypeOK, Act
<1>3. ASSUME NEW x \in People, Unblocked(x) PROVE TypeOK'
  BY <1>3, UserColumn DEF TypeOK, Unblocked
<1>4. ASSUME NEW x \in People, Deactivate(x) PROVE TypeOK'
  BY <1>4, UserColumn DEF TypeOK, Deactivate
<1>5. ASSUME NEW x \in People, Reactivate(x) PROVE TypeOK'
  BY <1>5, UserSteps DEF TypeOK, Reactivate
<1>6. ASSUME NEW r \in Runs, NEW cmd \in Commands, NotifyList(r, cmd) PROVE TypeOK'
  <2>1. PICK L \in Batches(to_notify(cmd)) : Step(r, cmd, "listed", L)
    BY <1>6 DEF NotifyList
  <2>2. L \subseteq IF cmd \in {"notify_js", "anonymize_js"} THEN JobSeekers ELSE Professionals
    BY <1>6, ListedPeople DEF NotifyList
  <2> QED BY <1>6, <2>1, <2>2, RunType DEF TypeOK, NotifyList
<1>7. ASSUME NEW r \in Runs, NotifyMark(r) PROVE TypeOK'
  <2>1. u' \in [People -> UserRow]
    BY <1>0, <1>7, UserColumn DEF TypeOK, NotifyMark
  <2> QED BY <1>7, <2>1 DEF TypeOK, NotifyMark
<1>8. ASSUME NEW r \in Runs, NEW cmd \in Commands, Reset(r, cmd) PROVE TypeOK'
  <2>1. u' \in [People -> UserRow]
    BY <1>0, <1>8, UserColumn DEF TypeOK, Reset
  <2> QED BY <1>8, <2>1, RunType DEF TypeOK, Reset
<1>9. ASSUME NEW r \in Runs, ArchiveList(r) PROVE TypeOK'
  <2>1. run[r].cmd \in {"anonymize_js", "anonymize_pro"} /\ run[r].cmd \in Commands
    BY <1>9 DEF ArchiveList, At, Commands
  <2>2. PICK L \in FirstOf(to_archive(run[r].cmd)) : Step(r, run[r].cmd, "listed", L)
    BY <1>9 DEF ArchiveList
  <2>3. L \subseteq IF run[r].cmd \in {"notify_js", "anonymize_js"} THEN JobSeekers ELSE Professionals
    BY <2>1, ListedPeople
  <2> QED BY <1>9, <2>1, <2>2, <2>3, RunType DEF TypeOK, ArchiveList
<1>10. ASSUME NEW r \in Runs, archive_jobseekers(r) PROVE TypeOK'
  <2>1. \A x \in People : u[x] \in UserRow /\ Deleted \in UserRow
    BY UserSteps DEF TypeOK
  <2>2. u' \in [People -> UserRow]
    BY <1>10, <2>1 DEF archive_jobseekers
  <2>3. archived' \in [People -> Nat]
    BY <1>10 DEF TypeOK, archive_jobseekers
  <2> QED BY <1>10, <2>2, <2>3 DEF TypeOK, archive_jobseekers
<1>11. ASSUME NEW r \in Runs, anonymize_professionals(r) PROVE TypeOK'
  <2>1. \A x \in People : u[x] \in UserRow /\ Deleted \in UserRow /\ anonymized(x) \in UserRow
    BY UserSteps DEF TypeOK, anonymized
  <2>2. u' \in [People -> UserRow]
    BY <1>11, <2>1 DEF anonymize_professionals
  <2>3. archived' \in [People -> Nat]
    BY <1>11 DEF TypeOK, anonymize_professionals
  <2> QED BY <1>11, <2>2, <2>3 DEF TypeOK, anonymize_professionals
<1>12. CASE UNCHANGED vars
  BY <1>12 DEF TypeOK, vars
<1> QED
  BY <1>1, <1>2, <1>3, <1>4, <1>5, <1>6, <1>7, <1>8, <1>9, <1>10, <1>11, <1>12
     DEF Next, RunStep, Start

-----------------------------------------------------------------------------
(* The inductive invariant.                                                *)

(* Runs of anonymize_professionals have locked live rows, each its own.    *)
LockedLists == \A r \in Runs : run[r].cmd = "anonymize_pro" =>
    /\ run[r].step = "reset" => run[r].list = {}
    /\ \A p \in run[r].list : u[p].live
    /\ \A s \in Runs \ {r} : run[s].cmd = "anonymize_pro" => run[r].list \cap run[s].list = {}

(* In a calm behaviour one command runs at a time ...                      *)
OneRun == calm => \A r, s \in Runs : run[r] # Idle /\ run[s] # Idle => r = s

Inactive(j) == u[j].last + INACTIVITY_PERIOD <= day
Silent(p) == u[p].last < u[p].notified
Expired(x) == u[x].notified + GRACE_PERIOD <= day

(* ... once it has taken back the notices of those who came back, the      *)
(* people still notified, and then those listed, gave no sign of life.     *)
Warned == calm => \A r \in Runs :
    /\ At(r, {"anonymize_js"}, "reset") => \A j \in JobSeekers : u[j].live /\ Notified(j) => Inactive(j)
    /\ At(r, {"anonymize_pro"}, "reset") => \A p \in Professionals : u[p].live /\ Notified(p) => Silent(p)
    /\ At(r, {"anonymize_js"}, "listed") => \A j \in run[r].list : Expired(j) /\ Inactive(j)
    /\ At(r, {"anonymize_pro"}, "listed") => \A p \in run[r].list : Expired(p) /\ Silent(p)

IInv == TypeOK /\ LockedLists /\ OneRun /\ Warned /\ ArchivedOnce

(* Locks are exclusive, and who is listed under one stays until deleted by *)
(* the run that holds it.                                                  *)
LEMMA ArchivedStep ==
    TypeOK /\ LockedLists /\ ArchivedOnce /\ [Next]_vars => LockedLists' /\ ArchivedOnce'
<1> SUFFICES ASSUME TypeOK, LockedLists, ArchivedOnce, [Next]_vars
             PROVE  LockedLists' /\ ArchivedOnce'
  OBVIOUS
<1>0. Professionals \subseteq People /\ \A r \in Runs : run[r].cmd = "anonymize_pro" => run[r] # Idle
  BY DEF People, Idle
<1>1. ASSUME UNCHANGED <<run, archived>>, \A x \in People : u'[x].live = u[x].live
      PROVE  LockedLists' /\ ArchivedOnce'
  <2>1. \A r \in Runs : run[r].cmd = "anonymize_pro" => run[r].list \subseteq People
    BY <1>0 DEF TypeOK
  <2> QED BY <1>0, <1>1, <2>1 DEF LockedLists, ArchivedOnce
<1>2. ASSUME NEW x \in People, Act(x) \/ Unblocked(x) \/ Deactivate(x) \/ Reactivate(x)
      PROVE  LockedLists' /\ ArchivedOnce'
  <2>1. \A y \in People : u'[y].live = u[y].live
    BY <1>2 DEF TypeOK, UserRow, Act, Unblocked, Deactivate, Reactivate
  <2> QED BY <1>1, <1>2, <2>1 DEF Act, Unblocked, Deactivate, Reactivate
<1>3. CASE NewDay \/ UNCHANGED vars
  BY <1>1, <1>3 DEF NewDay, vars
<1>4. ASSUME NEW r \in Runs, NEW cmd \in Commands, NotifyList(r, cmd) PROVE LockedLists' /\ ArchivedOnce'
  BY <1>4 DEF TypeOK, NotifyList, Step, LockedLists, ArchivedOnce
<1>5. ASSUME NEW r \in Runs, NotifyMark(r) PROVE LockedLists' /\ ArchivedOnce'
  <2>1. \A y \in People : u'[y].live = u[y].live
    BY <1>5 DEF TypeOK, UserRow, NotifyMark
  <2>2. \A s \in Runs : run'[s].cmd = "anonymize_pro" => run[s] = run'[s]
    BY <1>5 DEF TypeOK, NotifyMark, Idle
  <2>3. \A s \in Runs : run[s].cmd = "anonymize_pro" => run[s].list \subseteq People
    BY <1>0 DEF TypeOK
  <2> QED BY <1>0, <1>5, <2>1, <2>2, <2>3 DEF NotifyMark, LockedLists, ArchivedOnce
<1>6. ASSUME NEW r \in Runs, NEW cmd \in Commands, Reset(r, cmd) PROVE LockedLists' /\ ArchivedOnce'
  <2>1. \A y \in People : u'[y].live = u[y].live
    BY <1>6 DEF TypeOK, UserRow, Reset
  <2>2. \A s \in Runs : run'[s].cmd = "anonymize_pro" =>
           run[s] = run'[s] \/ (run'[s].step = "reset" /\ run'[s].list = {})
    BY <1>6 DEF TypeOK, Reset, Step
  <2>3. \A s \in Runs : run[s].cmd = "anonymize_pro" => run[s].list \subseteq People
    BY <1>0 DEF TypeOK
  <2> QED BY <1>0, <1>6, <2>1, <2>2, <2>3 DEF Reset, LockedLists, ArchivedOnce
<1>7. ASSUME NEW r \in Runs, ArchiveList(r) PROVE LockedLists' /\ ArchivedOnce'
  <2>1. PICK L \in FirstOf(to_archive(run[r].cmd)) : Step(r, run[r].cmd, "listed", L)
    BY <1>7 DEF ArchiveList
  <2>2. run[r].cmd \in {"anonymize_js", "anonymize_pro"} /\ UNCHANGED <<u, archived>>
    BY <1>7 DEF ArchiveList, At
  <2>3. run[r].cmd = "anonymize_pro" => L \subseteq to_archive("anonymize_pro")
    BY <2>2, ListedPeople DEF Commands
  <2>4. run[r].cmd = "anonymize_pro" => \A p \in L : u[p].live /\ p \notin Locked
    BY <2>3 DEF to_archive
  <2>5. \A s \in Runs : run'[s] = IF s = r THEN [cmd |-> run[r].cmd, step |-> "listed", list |-> L] ELSE run[s]
    BY <2>1 DEF TypeOK, Step
  <2>6. \A s \in Runs : run[s].cmd = "anonymize_pro" => run[s].list \subseteq Locked
    BY DEF Locked
  <2> QED BY <2>2, <2>4, <2>5, <2>6 DEF LockedLists, ArchivedOnce
<1>8. ASSUME NEW r \in Runs, archive_jobseekers(r) PROVE LockedLists' /\ ArchivedOnce'
  <2>1. run[r].list \subseteq JobSeekers /\ run[r].cmd = "anonymize_js"
    BY <1>8 DEF TypeOK, archive_jobseekers, At
  <2>2. \A p \in Professionals : u'[p] = u[p] /\ archived'[p] = archived[p]
    BY <1>0, <1>8, <2>1, PeopleAssumption DEF TypeOK, archive_jobseekers
  <2>3. \A s \in Runs : run'[s].cmd = "anonymize_pro" => run[s] = run'[s] /\ run[s].list \subseteq Professionals
    BY <1>0, <1>8 DEF TypeOK, archive_jobseekers, Idle
  <2> QED BY <2>2, <2>3 DEF LockedLists, ArchivedOnce
<1>9. ASSUME NEW r \in Runs, anonymize_professionals(r) PROVE LockedLists' /\ ArchivedOnce'
  <2>1. run[r].list \subseteq Professionals /\ run[r].cmd = "anonymize_pro"
    BY <1>9 DEF TypeOK, anonymize_professionals, At
  <2>2. /\ \A p \in Professionals \ to_delete(r) : u'[p].live = u[p].live /\ archived'[p] = archived[p]
        /\ \A p \in to_delete(r) : ~u'[p].live /\ archived'[p] = archived[p] + 1
    <3>1. \A p \in Professionals : anonymized(p).live = u[p].live
      BY <1>0 DEF TypeOK, UserRow, anonymized
    <3>2. \A p \in Professionals \ to_delete(r) : u'[p].live = u[p].live
      BY <1>0, <1>9, <3>1 DEF anonymize_professionals
    <3>3. \A p \in to_delete(r) : p \in People /\ ~u'[p].live
      BY <1>0, <1>9, <2>1 DEF anonymize_professionals, to_delete, Deleted
    <3>4. \A p \in Professionals : archived'[p] = archived[p] + IF p \in to_delete(r) THEN 1 ELSE 0
      BY <1>0, <1>9 DEF anonymize_professionals
    <3>5. to_delete(r) \subseteq Professionals /\ \A p \in Professionals : archived[p] \in Nat
      BY <1>0, <2>1 DEF to_delete, TypeOK
    <3> QED BY <3>2, <3>3, <3>4, <3>5
  <2>3. \A s \in Runs : run'[s].cmd = "anonymize_pro" =>
           s # r /\ run[s] = run'[s] /\ run[s].list \subseteq Professionals
    BY <1>0, <1>9 DEF TypeOK, anonymize_professionals, Idle
  <2>4. \A p \in to_delete(r) : p \in run[r].list /\ u[p].live
    BY <2>1 DEF to_delete, LockedLists
  <2>5. LockedLists'
    BY <2>1, <2>2, <2>3, <2>4 DEF LockedLists
  <2>6. ArchivedOnce'
    BY <2>2, <2>4 DEF ArchivedOnce
  <2> QED BY <2>5, <2>6
<1> QED BY <1>2, <1>3, <1>4, <1>5, <1>6, <1>7, <1>8, <1>9 DEF Next, RunStep, Start

(* What a quiet behaviour is: nothing starts beside a command.             *)
LEMMA OneRunStep == TypeOK /\ OneRun /\ [Next]_vars => OneRun'
<1> SUFFICES ASSUME TypeOK, OneRun, [Next]_vars PROVE OneRun' OBVIOUS
<1>1. UNCHANGED calm
  BY DEF Next, RunStep, Start, vars, NewDay, Act, Unblocked, Deactivate, Reactivate, NotifyList,
     NotifyMark, Reset, ArchiveList, archive_jobseekers, anonymize_professionals
<1>2. CASE UNCHANGED run
  BY <1>1, <1>2 DEF OneRun
<1>3. ASSUME NEW r \in Runs, NEW cmd \in Commands, Start(r, cmd) PROVE OneRun'
  <2>1. calm => Quiet
    BY <1>3 DEF Start, NotifyList, Reset
  <2>2. \A s \in Runs : s # r => run'[s] = run[s]
    BY <1>3 DEF TypeOK, Start, NotifyList, Reset, Step
  <2> QED BY <1>1, <2>1, <2>2 DEF OneRun, Quiet
<1>4. ASSUME NEW r \in Runs, RunStep(r) PROVE OneRun'
  <2>1. run[r] # Idle
    BY <1>4 DEF RunStep, NotifyMark, ArchiveList, archive_jobseekers, anonymize_professionals, At
  <2>2. \A s \in Runs : s # r => run'[s] = run[s]
    BY <1>4 DEF TypeOK, RunStep, NotifyMark, ArchiveList, archive_jobseekers, anonymize_professionals, Step
  <2> QED BY <1>1, <2>1, <2>2 DEF OneRun
<1> QED BY <1>2, <1>3, <1>4 DEF Next, vars, NewDay, Act, Unblocked, Deactivate, Reactivate

(* The only run of a calm behaviour knows of the people it lists that they *)
(* were warned and gave no sign of life since.                             *)
LEMMA WarnedStep == TypeOK /\ OneRun /\ Warned /\ [Next]_vars => Warned'
<1> SUFFICES ASSUME TypeOK, OneRun, Warned, [Next]_vars, calm' PROVE Warned'
  BY DEF Warned
<1>0. /\ MaxDay \in Nat /\ INACTIVITY_PERIOD \in Nat /\ GRACE_PERIOD \in Nat /\ day \in 0..MaxDay
      /\ JobSeekers \subseteq People /\ Professionals \subseteq People /\ calm
      /\ \A x \in People : u[x].last \in Nat /\ u[x].notified \in Nat
  <2>1. \A x \in People : u[x].last \in Nat /\ u[x].notified \in Nat
    BY ArchiveAssumption DEF TypeOK, UserRow, Never
  <2>2. UNCHANGED calm
    BY DEF Next, RunStep, Start, vars, NewDay, Act, Unblocked, Deactivate, Reactivate, NotifyList,
       NotifyMark, Reset, ArchiveList, archive_jobseekers, anonymize_professionals
  <2> QED BY <2>1, <2>2, ArchiveAssumption DEF TypeOK, People
<1>1. CASE \A r \in Runs : run'[r] = Idle
  BY <1>1 DEF Warned, At
<1>2. CASE NewDay \/ \E x \in People : Act(x) \/ Unblocked(x) \/ Deactivate(x) \/ Reactivate(x)
  <2>1. Quiet /\ UNCHANGED run
    BY <1>0, <1>2 DEF NewDay, Act, Unblocked, Deactivate, Reactivate
  <2> QED BY <1>1, <2>1 DEF Quiet
<1>3. ASSUME NEW r \in Runs, NEW cmd \in Commands, NotifyList(r, cmd) PROVE Warned'
  <2>1. \A s \in Runs : run'[s] # Idle => run'[s].cmd \in {"notify_js", "notify_pro"}
    BY <1>0, <1>3 DEF TypeOK, NotifyList, Quiet, Step
  <2> QED BY <2>1 DEF Warned, At
<1>4. ASSUME NEW r \in Runs, NotifyMark(r) \/ archive_jobseekers(r) \/ anonymize_professionals(r)
      PROVE  Warned'
  <2>1. run[r] # Idle /\ \A s \in Runs : run'[s] = IF s = r THEN Idle ELSE run[s]
    BY <1>4 DEF TypeOK, NotifyMark, archive_jobseekers, anonymize_professionals, At
  <2> QED BY <1>0, <1>1, <2>1 DEF OneRun
<1>5. ASSUME NEW r \in Runs, NEW cmd \in Commands, Reset(r, cmd) PROVE Warned'
  <2>1. \A s \in Runs : run'[s] # Idle => run'[s].cmd = cmd /\ run'[s].step = "reset"
    BY <1>0, <1>5 DEF TypeOK, Reset, Quiet, Step
  <2>2. UNCHANGED day /\ \A x \in People : u'[x] = IF x \in to_reset(cmd) THEN [u[x] EXCEPT !.notified = Never]
                                                 ELSE u[x]
    BY <1>5 DEF Reset
  <2>3. CASE cmd = "anonymize_js"
    <3>1. \A j \in JobSeekers : u'[j].live /\ u'[j].notified # Never =>
             u'[j] = u[j] /\ u[j].last <= day - INACTIVITY_PERIOD
      BY <1>0, <2>2, <2>3 DEF TypeOK, UserRow, to_reset, Notified,
           inactive_jobseekers_without_recent_related_objects
    <3> QED BY <1>0, <2>1, <2>2, <2>3, <3>1 DEF Warned, At, Notified, Inactive
  <2>4. CASE cmd = "anonymize_pro"
    <3>1. ASSUME NEW p \in Professionals, u'[p].live, u'[p].notified # Never
          PROVE  u'[p] = u[p] /\ u[p].last < u[p].notified
      <4>1. p \in People /\ [u[p] EXCEPT !.notified = Never].notified = Never
        BY <1>0 DEF TypeOK, UserRow
      <4>2. p \notin to_reset(cmd) /\ u'[p] = u[p]
        BY <2>2, <3>1, <4>1
      <4>3. ~(u[p].last >= u[p].notified)
        BY <2>4, <3>1, <4>2 DEF to_reset, Notified
      <4> QED BY <1>0, <4>1, <4>2, <4>3
    <3> QED BY <1>0, <2>1, <2>2, <2>4, <3>1 DEF Warned, At, Notified, Silent
  <2> QED BY <1>5, <2>3, <2>4 DEF Reset
<1>6. ASSUME NEW r \in Runs, ArchiveList(r) PROVE Warned'
  <2>1. PICK L \in FirstOf(to_archive(run[r].cmd)) : Step(r, run[r].cmd, "listed", L)
    BY <1>6 DEF ArchiveList
  <2>2. /\ UNCHANGED <<day, u>> /\ run[r].cmd \in {"anonymize_js", "anonymize_pro"}
        /\ At(r, {run[r].cmd}, "reset") /\ run[r] # Idle
    BY <1>6 DEF ArchiveList, At
  <2>3. L \subseteq to_archive(run[r].cmd)
    BY <2>2, ListedPeople DEF Commands
  <2>4. \A s \in Runs : run'[s] # Idle => s = r /\ run'[s].cmd = run[r].cmd /\ run'[s].step = "listed"
                                           /\ run'[s].list = L
    BY <1>0, <2>1, <2>2 DEF TypeOK, Step, OneRun
  <2>5. \A x \in L : x \in People /\ u[x].live /\ Expired(x) /\ Notified(x)
    BY <1>0, <2>2, <2>3, ArchiveAssumption DEF to_archive, Expired, Notified, Never
  <2>6. CASE run[r].cmd = "anonymize_js"
    <3>1. \A x \in L : x \in JobSeekers /\ Inactive(x)
      BY <1>0, <2>2, <2>3, <2>5, <2>6 DEF Warned, to_archive
    <3> QED BY <2>2, <2>4, <2>5, <2>6, <3>1 DEF Warned, At, Expired, Inactive
  <2>7. CASE run[r].cmd = "anonymize_pro"
    <3>1. \A x \in L : x \in Professionals /\ Silent(x)
      BY <1>0, <2>2, <2>3, <2>5, <2>7 DEF Warned, to_archive
    <3> QED BY <2>2, <2>4, <2>5, <2>7, <3>1 DEF Warned, At, Expired, Silent
  <2> QED BY <2>2, <2>6, <2>7
<1>7. CASE UNCHANGED vars
  BY <1>7 DEF vars, Warned, At, Notified, Inactive, Silent, Expired
<1> QED BY <1>2, <1>3, <1>4, <1>5, <1>6, <1>7 DEF Next, RunStep, Start

(* The invariant holds of every behaviour of people, support and commands. *)
THEOREM Inductive == Spec => []IInv
<1>1. Init => IInv
  <2> SUFFICES ASSUME Init PROVE IInv OBVIOUS
  <2>1. PICK left \in {JobSeekers, Professionals} :
           /\ u \in [People -> {[live |-> TRUE, active |-> TRUE, email |-> TRUE, last |-> 0,
                                 notified |-> Never, blocked |-> b] : b \in {"no", "assigned", "yes"}}
                               \union {Deleted}]
           /\ \A x \in People : u[x].live <=> x \in left
           /\ archived = [x \in People |-> IF x \in left THEN 0 ELSE 1]
    BY DEF Init
  <2>2. MaxDay \in Nat /\ Never \in 0..Never /\ 0 \in 0..MaxDay
    BY ArchiveAssumption DEF Never
  <2>3. \A x \in People : u[x] \in UserRow
    <3>1. \A b \in {"no", "assigned", "yes"} :
             [live |-> TRUE, active |-> TRUE, email |-> TRUE, last |-> 0,
              notified |-> Never, blocked |-> b] \in UserRow
      BY <2>2 DEF UserRow
    <3>2. Deleted \in UserRow
      BY <2>2 DEF UserRow, Deleted
    <3> QED BY <2>1, <3>1, <3>2
  <2>4. TypeOK
    BY <2>1, <2>2, <2>3 DEF Init, TypeOK
  <2>5. LockedLists /\ OneRun /\ Warned
    BY DEF Init, LockedLists, OneRun, Warned, At, Idle
  <2>6. ArchivedOnce
    BY <2>1 DEF ArchivedOnce, People
  <2> QED BY <2>4, <2>5, <2>6 DEF IInv
<1>2. IInv /\ [Next]_vars => IInv'
  BY TypingStep, ArchivedStep, OneRunStep, WarnedStep DEF IInv
<1> QED BY <1>1, <1>2, PTL DEF Spec

(* One AnonymizedProfessional for each professional deleted, however many  *)
(* runs of anonymize_professionals overlap.                                *)
THEOREM OneArchive == Spec => []ArchivedOnce
<1>1. IInv => ArchivedOnce
  BY DEF IInv
<1> QED BY <1>1, Inductive, PTL

(* While runs do not overlap each other nor people's activity, nobody is   *)
(* anonymized who was not told the grace period before, or who was active  *)
(* since.                                                                  *)
THEOREM NoticeFirst == Spec => NoticeIsHonoured
<1> DEFINE Honoured == calm => \A x \in People : ~Gone(x) /\ Gone(x)' =>
              /\ u[x].notified + GRACE_PERIOD <= day
              /\ IF x \in JobSeekers THEN u[x].last + INACTIVITY_PERIOD <= day
                 ELSE u[x].last < u[x].notified
<1>1. IInv /\ [Next]_vars => [Honoured]_vars
  <2> SUFFICES ASSUME IInv, Next, calm, NEW x \in People, ~Gone(x), Gone(x)'
               PROVE  /\ u[x].notified + GRACE_PERIOD <= day
                      /\ IF x \in JobSeekers THEN u[x].last + INACTIVITY_PERIOD <= day
                         ELSE u[x].last < u[x].notified
    OBVIOUS
  <2>0. TypeOK /\ Warned
    BY DEF IInv
  <2>1. ASSUME NEW r \in Runs, archive_jobseekers(r)
        PROVE  x \in JobSeekers /\ Expired(x) /\ Inactive(x)
    <3>1. x \in run[r].list
      BY <2>1 DEF archive_jobseekers, Gone
    <3>2. run[r].list \subseteq JobSeekers
      BY <2>0, <2>1 DEF TypeOK, archive_jobseekers, At
    <3> QED BY <2>0, <2>1, <3>1, <3>2 DEF Warned, archive_jobseekers
  <2>2. ASSUME NEW r \in Runs, anonymize_professionals(r)
        PROVE  x \in Professionals /\ Expired(x) /\ Silent(x)
    <3>1. x \in run[r].list
      BY <2>2 DEF anonymize_professionals, to_delete, Gone
    <3>2. run[r].list \subseteq Professionals
      BY <2>0, <2>2 DEF TypeOK, anonymize_professionals, At
    <3> QED BY <2>0, <2>2, <3>1, <3>2 DEF Warned, anonymize_professionals
  <2>3. /\ u[x].live /\ u[x].email /\ (~u'[x].live \/ ~u'[x].email)
        /\ u[x] \in UserRow
    BY <2>0 DEF Gone, TypeOK
  <2>4. u' # u
    BY <2>3, Zenon
  <2>5. ASSUME NEW y \in People, Act(y) \/ Unblocked(y) \/ Deactivate(y) \/ Reactivate(y) PROVE FALSE
    <3>1. u'[x].live = u[x].live
      BY <2>0, <2>5 DEF TypeOK, UserRow, Act, Unblocked, Deactivate, Reactivate
    <3>2. CASE Act(y)
      <4>1. u'[x].email \/ u'[x] = u[x]
        BY <2>0, <3>2 DEF TypeOK, UserRow, Act
      <4> QED BY <2>3, <3>1, <4>1, Zenon
    <3>3. CASE Unblocked(y) \/ Deactivate(y) \/ Reactivate(y)
      <4>1. /\ [u[y] EXCEPT !.active = TRUE, !.notified = Never].email = u[y].email
            /\ [u[y] EXCEPT !.blocked = "no"].email = u[y].email
            /\ [u[y] EXCEPT !.active = FALSE].email = u[y].email
        BY <2>0 DEF TypeOK, UserRow
      <4>2. u'[x] = u[x] \/ x = y
        BY <2>0, <3>3 DEF TypeOK, Unblocked, Deactivate, Reactivate
      <4>3. \/ u'[y] = [u[y] EXCEPT !.active = TRUE, !.notified = Never]
            \/ u'[y] = [u[y] EXCEPT !.blocked = "no"]
            \/ u'[y] = [u[y] EXCEPT !.active = FALSE]
        BY <2>0, <3>3 DEF TypeOK, Unblocked, Deactivate, Reactivate
      <4>4. u'[x].email = u[x].email
        BY <4>1, <4>2, <4>3
      <4> QED BY <2>3, <3>1, <4>4, Zenon
    <3> QED BY <2>5, <3>2, <3>3
  <2>6. ASSUME NEW r \in Runs, NEW cmd \in Commands, Start(r, cmd) PROVE FALSE
    <3>1. u'[x].live = u[x].live /\ u'[x].email = u[x].email
      <4>1. /\ [u[x] EXCEPT !.notified = Never].live = u[x].live
            /\ [u[x] EXCEPT !.notified = Never].email = u[x].email
        BY <2>3 DEF UserRow
      <4>2. u'[x] = u[x] \/ u'[x] = [u[x] EXCEPT !.notified = Never]
        BY <2>6 DEF Start, NotifyList, Reset
      <4> QED BY <4>1, <4>2
    <3> QED BY <2>3, <3>1, Zenon
  <2>7. ASSUME NEW r \in Runs, NotifyMark(r) \/ ArchiveList(r) PROVE FALSE
    <3>1. u'[x].live = u[x].live /\ u'[x].email = u[x].email
      BY <2>0, <2>7 DEF TypeOK, UserRow, NotifyMark, ArchiveList
    <3> QED BY <2>3, <3>1, Zenon
  <2>8. (\E r \in Runs : archive_jobseekers(r)) \/ (\E r \in Runs : anonymize_professionals(r))
    BY <2>4, <2>5, <2>6, <2>7 DEF Next, RunStep, NewDay
  <2> QED BY <2>1, <2>2, <2>8, PeopleAssumption DEF Expired, Inactive, Silent
<1> QED BY <1>1, Inductive, PTL DEF Spec, NoticeIsHonoured

(***************************************************************************)
(* SiaeEvaluations: the results of a campaign, for any companies,          *)
(* applications and criteria, and any calendar.                            *)
(***************************************************************************)
(* The columns of the tables.                                              *)
SiaeRow == [reviewed: BOOLEAN, final: BOOLEAN, frozen: BOOLEAN, notified: BOOLEAN,
            finalState: {"none", "ACCEPTED", "REFUSED"},
            reminder: {"no", "first", "second"}, archived: BOOLEAN]
Reviews == {"ABSENT", "PENDING", "ACCEPTED", "REFUSED", "REFUSED_2"}
CritRow == [proof: BOOLEAN, submitted: {"no", "first", "second"}, review: Reviews,
            certified: BOOLEAN]
AppRow == [Crits -> CritRow]

(* The rows, the campaign and the request in flight keep their types.      *)
SiaeTypes ==
    /\ serial \in BOOLEAN /\ moved \in BOOLEAN
    /\ campaign \in [asked: BOOLEAN, ended: BOOLEAN, frozeNotified: BOOLEAN]
    /\ siae \in [Siaes -> SiaeRow]
    /\ crits \in [Siaes -> [Apps -> AppRow]]
    /\ work \in {NoRequest} \cup [op: {"upload"}, siae: Siaes, app: Apps, crit: Crits]
                         \cup [op: {"save"}, siae: Siaes, row: SiaeRow]
    /\ told \in [Siaes -> {"none", "accepted", "adversarial", "refused"}]

(* A criterion certified on the day of the hiring is accepted as it is.    *)
CertifiedIsAccepted ==
    /\ \A s \in Siaes, p \in Apps, k \in Crits : crits[s][p][k].certified =>
          crits[s][p][k].submitted = "first" /\ crits[s][p][k].review = "ACCEPTED"
    /\ work.op = "upload" => ~crits[work.siae][work.app][work.crit].certified

(* Nothing is decided before the companies are drawn, nor recorded before  *)
(* the campaign is closed.                                                 *)
OpenIsUndecided ==
    /\ ~campaign.asked => work = NoRequest /\ ~campaign.ended
    /\ ~campaign.ended =>
          /\ \A s \in Siaes : /\ siae[s].finalState = "none" /\ told[s] # "refused"
                              /\ siae[s].final => siae[s].reviewed
          /\ work.op = "save" => (work.row.final => work.row.reviewed)

(* The row in flight has the recorded result, or was read before it.       *)
FlightIsOld ==
    work.op = "save" => work.row.finalState \in {"none", siae[work.siae].finalState}

(* When requests come one at a time, the one in flight is still right.     *)
FlightIsFresh ==
    serial =>
      /\ work.op = "save" =>
            \/ work.row = siae[work.siae]
            \/ /\ ~campaign.ended /\ can_review(work.siae)
               /\ work.row = reviewed(siae[work.siae], State(work.siae))
      /\ work.op = "upload" =>
            /\ work.crit \in Present(crits[work.siae][work.app])
            /\ can_upload(work.siae, work.app, work.crit)

(* A company is notified before the end after its final review only.       *)
NotifiedIsFinal ==
    serial /\ ~campaign.ended => \A s \in Siaes : siae[s].notified => siae[s].final

(* Until the campaign moves to its adversarial stage, what was submitted   *)
(* is frozen, and what was reviewed is settled.                            *)
FirstPhase(row, apps) ==
    /\ \A p \in Apps, k \in Crits :
          /\ apps[p][k].submitted # "second" /\ apps[p][k].review # "REFUSED_2"
          /\ ~apps[p][k].certified /\ apps[p][k].submitted # "no" => row.frozen
    /\ row.reviewed =>
          state_from_applications(apps) \in IF row.final THEN {"ACCEPTED"} ELSE {"ACCEPTED", "REFUSED"}
FirstPhaseHolds == serial /\ ~moved /\ ~campaign.ended => \A s \in Siaes : FirstPhase(siae[s], crits[s])

(* The inductive invariant.                                                *)
SiaeInv ==
    /\ SiaeTypes /\ CertifiedIsAccepted /\ OpenIsUndecided /\ FlightIsOld /\ FlightIsFresh
    /\ NotifiedIsFinal /\ FirstPhaseHolds
    /\ ClosedIsDecided /\ SanctionedIsRefused

(* The states of an application and of a company.                          *)
ApplicationStates == {"ACCEPTED", "REFUSED", "REFUSED_2", "SUBMITTED", "UPLOADED", "PROCESSING", "PENDING"}
SiaeStates == {"ACCEPTED", "REFUSED", "SUBMITTED", "SUBMITTABLE", "PENDING"}

(* Every criterion was reviewed; something is still to be sent.            *)
Settled == {"ACCEPTED", "REFUSED", "REFUSED_2"}
Missing == {"PENDING", "PROCESSING", "UPLOADED"}

(* The priorities order the states of an application and of a company.     *)
LEMMA Priorities ==
    /\ \A x \in ApplicationStates : ApplicationPriority[x] =
          IF x = "ACCEPTED" THEN 1 ELSE IF x = "REFUSED" THEN 2 ELSE IF x = "REFUSED_2" THEN 3
          ELSE IF x = "SUBMITTED" THEN 4 ELSE IF x = "UPLOADED" THEN 5
          ELSE IF x = "PROCESSING" THEN 6 ELSE 7
    /\ \A x \in SiaeStates : SiaePriority[x] =
          IF x = "ACCEPTED" THEN 1 ELSE IF x = "REFUSED" THEN 2 ELSE IF x = "SUBMITTED" THEN 3
          ELSE IF x = "SUBMITTABLE" THEN 4 ELSE 5
  BY DEF ApplicationPriority, SiaePriority, ApplicationStates, SiaeStates

(* Highest is one of the states it is given, and the highest of them.      *)
LEMMA HighestApplication ==
    ASSUME NEW T \in SUBSET ApplicationStates, T # {}
    PROVE  /\ Highest(ApplicationPriority, T) \in T
           /\ \A y \in T : ApplicationPriority[y] <= ApplicationPriority[Highest(ApplicationPriority, T)]
<1>1. \E x \in T : \A y \in T : ApplicationPriority[y] <= ApplicationPriority[x]
  <2>1. CASE "PENDING" \in T BY <2>1, Priorities DEF ApplicationStates
  <2>2. CASE "PENDING" \notin T /\ "PROCESSING" \in T BY <2>2, Priorities DEF ApplicationStates
  <2>3. CASE {"PENDING", "PROCESSING"} \cap T = {} /\ "UPLOADED" \in T
    BY <2>3, Priorities DEF ApplicationStates
  <2>4. CASE {"PENDING", "PROCESSING", "UPLOADED"} \cap T = {} /\ "SUBMITTED" \in T
    BY <2>4, Priorities DEF ApplicationStates
  <2>5. CASE T \subseteq Settled /\ "REFUSED_2" \in T
    BY <2>5, Priorities DEF ApplicationStates, Settled
  <2>6. CASE T \subseteq {"ACCEPTED", "REFUSED"} /\ "REFUSED" \in T
    BY <2>6, Priorities DEF ApplicationStates
  <2>7. CASE T = {"ACCEPTED"}
    BY <2>7, Priorities DEF ApplicationStates
  <2> QED BY <2>1, <2>2, <2>3, <2>4, <2>5, <2>6, <2>7 DEF ApplicationStates, Settled
<1>2. Highest(ApplicationPriority, T) =
         CHOOSE x \in T : \A y \in T : ApplicationPriority[y] <= ApplicationPriority[x]
  BY DEF Highest
<1> QED BY <1>1, <1>2

(* The same, for the states of a company.                                  *)
LEMMA HighestSiae ==
    ASSUME NEW T \in SUBSET SiaeStates, T # {}
    PROVE  /\ Highest(SiaePriority, T) \in T
           /\ \A y \in T : SiaePriority[y] <= SiaePriority[Highest(SiaePriority, T)]
<1>1. \E x \in T : \A y \in T : SiaePriority[y] <= SiaePriority[x]
  <2>1. CASE "PENDING" \in T BY <2>1, Priorities DEF SiaeStates
  <2>2. CASE "PENDING" \notin T /\ "SUBMITTABLE" \in T BY <2>2, Priorities DEF SiaeStates
  <2>3. CASE T \subseteq {"ACCEPTED", "REFUSED", "SUBMITTED"} /\ "SUBMITTED" \in T
    BY <2>3, Priorities DEF SiaeStates
  <2>4. CASE T \subseteq {"ACCEPTED", "REFUSED"} /\ "REFUSED" \in T
    BY <2>4, Priorities DEF SiaeStates
  <2>5. CASE T = {"ACCEPTED"}
    BY <2>5, Priorities DEF SiaeStates
  <2> QED BY <2>1, <2>2, <2>3, <2>4, <2>5 DEF SiaeStates
<1>2. Highest(SiaePriority, T) =
         CHOOSE x \in T : \A y \in T : SiaePriority[y] <= SiaePriority[x]
  BY DEF Highest
<1> QED BY <1>1, <1>2

(* What the state of a criterion says of its row.                          *)
LEMMA CriterionState ==
    ASSUME NEW r \in CritRow, r.review # "ABSENT"
    PROVE  /\ state_from(r) \in ApplicationStates \ {"PENDING"}
           /\ r.certified => state_from(r) = "ACCEPTED"
           /\ ~r.certified /\ ~r.proof => state_from(r) = "PROCESSING"
           /\ ~r.certified /\ r.proof /\ r.submitted = "no" => state_from(r) = "UPLOADED"
           /\ ~r.certified /\ r.proof /\ r.submitted # "no" =>
                 state_from(r) = IF r.review = "PENDING" THEN "SUBMITTED" ELSE r.review
  BY DEF state_from, CritRow, Reviews, ApplicationStates

(* The state of an application: pending without criteria, else that of one *)
(* of its criteria; settled when they all are, missing something when one  *)
(* of them does.                                                           *)
LEMMA ApplicationState ==
    ASSUME NEW app \in AppRow
    PROVE  /\ compute_state(app) \in ApplicationStates
           /\ Present(app) = {} <=> compute_state(app) = "PENDING"
           /\ Present(app) # {} => \E k \in Present(app) : compute_state(app) = state_from(app[k])
           /\ compute_state(app) \in Settled => \A k \in Present(app) : state_from(app[k]) \in Settled
           /\ compute_state(app) = "ACCEPTED" => \A k \in Present(app) : state_from(app[k]) = "ACCEPTED"
           /\ \A k \in Present(app) : state_from(app[k]) \in Missing => compute_state(app) \in Missing
<1> DEFINE T == {state_from(app[k]) : k \in Present(app)}
           h == Highest(ApplicationPriority, T)
<1>1. compute_state(app) = h
  BY DEF compute_state
<1>2. \A k \in Present(app) : state_from(app[k]) \in ApplicationStates \ {"PENDING"}
  BY CriterionState DEF AppRow, Present
<1>3. CASE Present(app) = {}
  <2>1. T = {} BY <1>3
  <2>2. h = "PENDING" BY <2>1 DEF Highest
  <2> QED BY <1>1, <1>3, <2>2 DEF ApplicationStates, Settled
<1>4. CASE Present(app) # {}
  <2>1. T \in SUBSET ApplicationStates /\ T # {} /\ "PENDING" \notin T
    BY <1>2, <1>4
  <2>2. h \in T /\ \A y \in T : ApplicationPriority[y] <= ApplicationPriority[h]
    BY <2>1, HighestApplication
  <2>3. PICK k \in Present(app) : h = state_from(app[k])
    BY <2>2
  <2>4. \A j \in Present(app) : /\ state_from(app[j]) \in ApplicationStates
                                  /\ ApplicationPriority[state_from(app[j])] <= ApplicationPriority[h]
    BY <1>2, <2>2
  <2> HIDE DEF h, T
  <2>5. h \in ApplicationStates \ {"PENDING"} BY <1>2, <2>3
  <2>6. h \in Settled => \A j \in Present(app) : state_from(app[j]) \in Settled
    BY <2>4, <2>5, Priorities DEF ApplicationStates, Settled
  <2>7. h = "ACCEPTED" => \A j \in Present(app) : state_from(app[j]) = "ACCEPTED"
    BY <2>4, <2>5, Priorities DEF ApplicationStates
  <2>8. \A j \in Present(app) : state_from(app[j]) \in Missing => h \in Missing
    BY <2>4, <2>5, Priorities DEF ApplicationStates, Missing
  <2> QED BY <1>1, <1>4, <2>3, <2>5, <2>6, <2>7, <2>8
<1> QED BY <1>3, <1>4

(* The state of a company, from those of its applications.                 *)
LEMMA CompanyState ==
    ASSUME NEW apps \in [Apps -> AppRow]
    PROVE  /\ state_from_applications(apps) \in SiaeStates
           /\ state_from_applications(apps) \in {"ACCEPTED", "REFUSED"} =>
                 \A p \in Apps : compute_state(apps[p]) \in Settled
           /\ state_from_applications(apps) = "ACCEPTED" =>
                 \A p \in Apps : compute_state(apps[p]) = "ACCEPTED"
           /\ state_from_applications(apps) \notin {"PENDING"} =>
                 \E p \in Apps : state_from_applications(apps) = SiaeStateOf(compute_state(apps[p]))
           /\ \A p \in Apps : compute_state(apps[p]) \in Missing =>
                 state_from_applications(apps) \in {"PENDING", "SUBMITTABLE"}
<1> DEFINE T == {SiaeStateOf(compute_state(apps[p])) : p \in Apps}
           h == Highest(SiaePriority, T)
<1>1. state_from_applications(apps) = h
  BY DEF state_from_applications
<1>2. \A p \in Apps : compute_state(apps[p]) \in ApplicationStates
  BY ApplicationState
<1>3. \A x \in ApplicationStates :
         /\ SiaeStateOf(x) \in SiaeStates
         /\ x \in Settled <=> SiaeStateOf(x) \in {"ACCEPTED", "REFUSED"}
         /\ x = "ACCEPTED" <=> SiaeStateOf(x) = "ACCEPTED"
         /\ x \in Missing <=> SiaeStateOf(x) \in {"PENDING", "SUBMITTABLE"}
  BY DEF SiaeStateOf, ApplicationStates, SiaeStates, Settled, Missing
<1>4. CASE Apps = {}
  <2>1. T = {} BY <1>4
  <2>2. h = "PENDING" BY <2>1 DEF Highest
  <2> QED BY <1>1, <1>4, <2>2 DEF SiaeStates
<1>5. CASE Apps # {}
  <2>1. T \in SUBSET SiaeStates /\ T # {}
    BY <1>2, <1>3, <1>5
  <2>2. h \in T /\ \A y \in T : SiaePriority[y] <= SiaePriority[h]
    BY <2>1, HighestSiae
  <2>3. PICK q \in Apps : h = SiaeStateOf(compute_state(apps[q]))
    BY <2>2
  <2>4. \A p \in Apps : /\ SiaeStateOf(compute_state(apps[p])) \in SiaeStates
                        /\ SiaePriority[SiaeStateOf(compute_state(apps[p]))] <= SiaePriority[h]
    BY <1>2, <1>3, <2>2
  <2> HIDE DEF h, T
  <2>5. h \in SiaeStates BY <1>2, <1>3, <2>3
  <2>6. h \in {"ACCEPTED", "REFUSED"} =>
           \A p \in Apps : SiaeStateOf(compute_state(apps[p])) \in {"ACCEPTED", "REFUSED"}
    BY <2>4, <2>5, Priorities DEF SiaeStates
  <2>7. h = "ACCEPTED" => \A p \in Apps : SiaeStateOf(compute_state(apps[p])) = "ACCEPTED"
    BY <2>4, <2>5, Priorities DEF SiaeStates
  <2>8. \A p \in Apps : SiaeStateOf(compute_state(apps[p])) \in {"PENDING", "SUBMITTABLE"} =>
           h \in {"PENDING", "SUBMITTABLE"}
    BY <2>4, <2>5, Priorities DEF SiaeStates
  <2> QED BY <1>1, <1>2, <1>3, <2>3, <2>5, <2>6, <2>7, <2>8
<1> QED BY <1>4, <1>5

(* The result of a company: the recorded one, or that of its applications. *)
LEMMA ResultState ==
    ASSUME NEW r \in SiaeRow, NEW apps \in [Apps -> AppRow], NEW e \in BOOLEAN
    PROVE  /\ r.finalState # "none" => state(r, apps, e) = r.finalState
           /\ r.finalState = "none" => state(r, apps, e) =
                 IF state_from_applications(apps) \in {"PENDING", "SUBMITTABLE"}
                 THEN IF r.final \/ e THEN "REFUSED" ELSE state_from_applications(apps)
                 ELSE IF state_from_applications(apps) = "SUBMITTED"
                 THEN IF r.final \/ e THEN "ACCEPTED" ELSE "SUBMITTED"
                 ELSE IF r.reviewed /\ ~(r.final \/ e) THEN "ADVERSARIAL_STAGE"
                 ELSE state_from_applications(apps)
           /\ r.final \/ e => state(r, apps, e) \in {"ACCEPTED", "REFUSED"}
<1>1. state_from_applications(apps) \in SiaeStates
  BY CompanyState
<1>2. r.finalState # "none" => state(r, apps, e) = r.finalState
  BY DEF state
<1>3. CASE state_from_applications(apps) \in {"PENDING", "SUBMITTABLE"}
  BY <1>2, <1>3 DEF state, SiaeRow
<1>4. CASE state_from_applications(apps) = "SUBMITTED"
  BY <1>2, <1>4 DEF state, SiaeRow
<1>5. CASE state_from_applications(apps) \in {"ACCEPTED", "REFUSED"}
  BY <1>2, <1>5 DEF state, SiaeRow
<1> QED BY <1>1, <1>3, <1>4, <1>5, <1>2 DEF SiaeStates

(* The result only depends on three columns of the row of the company.     *)
LEMMA SameResult ==
    ASSUME NEW r \in SiaeRow, NEW q \in SiaeRow, NEW apps \in [Apps -> AppRow], NEW e \in BOOLEAN,
           r.reviewed = q.reviewed, r.final = q.final, r.finalState = q.finalState
    PROVE  state(r, apps, e) = state(q, apps, e)
  BY ResultState

(* Each column of the row of a company may take any value of its type.     *)
LEMMA SiaeColumn ==
    ASSUME NEW r \in SiaeRow, NEW b \in BOOLEAN
    PROVE  /\ [r EXCEPT !.reviewed = b] \in SiaeRow
           /\ [r EXCEPT !.final = b] \in SiaeRow
           /\ [r EXCEPT !.frozen = b] \in SiaeRow
           /\ [r EXCEPT !.notified = b] \in SiaeRow
           /\ [r EXCEPT !.archived = b] \in SiaeRow
           /\ \A f \in {"none", "ACCEPTED", "REFUSED"} : [r EXCEPT !.finalState = f] \in SiaeRow
           /\ \A d \in {"no", "first", "second"} : [r EXCEPT !.reminder = d] \in SiaeRow
  BY DEF SiaeRow

(* The request in flight.                                                  *)
LEMMA Flight ==
    ASSUME SiaeTypes
    PROVE  /\ work.op = "save" => work.siae \in Siaes /\ work.row \in SiaeRow
           /\ work.op = "upload" => work.siae \in Siaes /\ work.app \in Apps /\ work.crit \in Crits
<1>1. CASE work = NoRequest BY <1>1 DEF NoRequest
<1>2. CASE work \in [op: {"upload"}, siae: Siaes, app: Apps, crit: Crits] BY <1>2
<1>3. CASE work \in [op: {"save"}, siae: Siaes, row: SiaeRow] BY <1>3
<1> QED BY <1>1, <1>2, <1>3 DEF SiaeTypes

(* What validation makes of the row of a company.                          *)
LEMMA ReviewedRow ==
    ASSUME NEW r \in SiaeRow, NEW st \in {"ACCEPTED", "REFUSED", "ADVERSARIAL_STAGE"}
    PROVE  /\ reviewed(r, st) \in SiaeRow
           /\ reviewed(r, st).reviewed <=> (r.reviewed \/ st # "ADVERSARIAL_STAGE")
           /\ reviewed(r, st).final <=> (r.final \/ st # "REFUSED")
           /\ reviewed(r, st).finalState = r.finalState
           /\ reviewed(r, st).notified = r.notified
           /\ reviewed(r, st).frozen = r.frozen
<1>1. CASE st = "ACCEPTED"
  <2>1. reviewed(r, st) = [[r EXCEPT !.reviewed = TRUE] EXCEPT !.final = TRUE]
    BY <1>1 DEF reviewed, SiaeRow
  <2>2. [r EXCEPT !.reviewed = TRUE] \in SiaeRow BY SiaeColumn
  <2>3. reviewed(r, st) \in SiaeRow BY <2>1, <2>2, SiaeColumn
  <2> QED BY <1>1, <2>1, <2>3 DEF SiaeRow
<1>2. CASE st = "REFUSED"
  <2>1. reviewed(r, st) = [r EXCEPT !.reviewed = TRUE]
    BY <1>2 DEF reviewed, SiaeRow
  <2>2. reviewed(r, st) \in SiaeRow BY <2>1, SiaeColumn
  <2> QED BY <1>2, <2>1, <2>2 DEF SiaeRow
<1>3. CASE st = "ADVERSARIAL_STAGE"
  <2>1. reviewed(r, st) = [r EXCEPT !.final = TRUE]
    BY <1>3 DEF reviewed, SiaeRow
  <2>2. reviewed(r, st) \in SiaeRow BY <2>1, SiaeColumn
  <2> QED BY <1>3, <2>1, <2>2 DEF SiaeRow
<1> QED BY <1>1, <1>2, <1>3

(* A step that only moves the calendar.                                    *)
LEMMA SiaeFrame ==
    ASSUME SiaeInv, UNCHANGED <<serial, campaign, siae, crits, work, told, moved>>
    PROVE  SiaeInv'
  BY DEF SiaeInv, SiaeTypes, CertifiedIsAccepted, OpenIsUndecided, FlightIsOld, FlightIsFresh,
         NotifiedIsFinal, FirstPhaseHolds, FirstPhase, ClosedIsDecided, SanctionedIsRefused,
         State, can_review, can_upload

(* A step that leaves the applications alone, and of the companies the     *)
(* columns their results depend on; it may notify refused companies.       *)
LEMMA SideStep ==
    ASSUME SiaeInv, serial => work = NoRequest,
           UNCHANGED <<serial, crits, work, told, moved>>,
           campaign' \in [asked: BOOLEAN, ended: BOOLEAN, frozeNotified: BOOLEAN],
           campaign'.asked = campaign.asked, campaign'.ended = campaign.ended,
           siae' \in [Siaes -> SiaeRow],
           \A s \in Siaes :
              /\ siae'[s].reviewed = siae[s].reviewed /\ siae'[s].final = siae[s].final
              /\ siae'[s].finalState = siae[s].finalState
              /\ siae[s].frozen => siae'[s].frozen
              /\ siae'[s].notified => siae[s].notified \/ Notifiable(s)
    PROVE  SiaeInv'
<1>1. SiaeTypes'
  BY DEF SiaeInv, SiaeTypes, NoRequest
<1>2. \A s \in Siaes : State(s)' = State(s)
  BY SameResult DEF State, SiaeInv, SiaeTypes
<1>3. CertifiedIsAccepted'
  BY DEF SiaeInv, CertifiedIsAccepted
<1>4. OpenIsUndecided'
  BY DEF SiaeInv, OpenIsUndecided
<1>5. FlightIsOld'
  BY Flight DEF SiaeInv, FlightIsOld
<1>6. FlightIsFresh'
  BY DEF FlightIsFresh, NoRequest
<1>7. NotifiedIsFinal'
  BY DEF SiaeInv, NotifiedIsFinal, Notifiable
<1>8. FirstPhaseHolds'
  BY DEF SiaeInv, FirstPhaseHolds, FirstPhase
<1>9. ClosedIsDecided'
  BY DEF SiaeInv, ClosedIsDecided
<1>10. SanctionedIsRefused'
  BY <1>2 DEF SiaeInv, SanctionedIsRefused, Notifiable
<1> QED BY <1>1, <1>3, <1>4, <1>5, <1>6, <1>7, <1>8, <1>9, <1>10 DEF SiaeInv

(* Freezing the submissions.                                               *)
LEMMA FreezeStep ==
    ASSUME SiaeInv, serial => work = NoRequest, freeze
    PROVE  SiaeInv'
<1>1. \A s \in Siaes : siae'[s] = [siae[s] EXCEPT !.frozen = TRUE] /\ siae'[s] \in SiaeRow
  BY SiaeColumn DEF freeze, SiaeInv, SiaeTypes
<1>2. siae' \in [Siaes -> SiaeRow]
  BY <1>1 DEF freeze
<1>3. \A s \in Siaes :
         /\ siae'[s].reviewed = siae[s].reviewed /\ siae'[s].final = siae[s].final
         /\ siae'[s].finalState = siae[s].finalState /\ siae'[s].frozen
         /\ siae'[s].notified => siae[s].notified \/ Notifiable(s)
  <2> SUFFICES ASSUME NEW s \in Siaes
               PROVE  /\ siae'[s].reviewed = siae[s].reviewed /\ siae'[s].final = siae[s].final
                      /\ siae'[s].finalState = siae[s].finalState /\ siae'[s].frozen
                      /\ siae'[s].notified = siae[s].notified
    OBVIOUS
  <2>1. siae[s] \in SiaeRow BY DEF SiaeInv, SiaeTypes
  <2> QED BY <1>1, <2>1 DEF SiaeRow
<1>4. /\ campaign' \in [asked: BOOLEAN, ended: BOOLEAN, frozeNotified: BOOLEAN]
      /\ campaign'.asked = campaign.asked /\ campaign'.ended = campaign.ended
  BY DEF freeze, SiaeInv, SiaeTypes
<1> QED BY <1>2, <1>3, <1>4, SideStep DEF freeze

(* The reminders of the command.                                           *)
LEMMA ReminderStep ==
    ASSUME SiaeInv, serial => work = NoRequest, evaluation_campaign_notify
    PROVE  SiaeInv'
<1>1. \A s \in Siaes : \/ siae'[s] = siae[s]
                       \/ \E d \in {"first", "second"} : siae'[s] = [siae[s] EXCEPT !.reminder = d]
  BY DEF evaluation_campaign_notify
<1>2. ASSUME NEW s \in Siaes
      PROVE  /\ siae'[s] \in SiaeRow
             /\ siae'[s].reviewed = siae[s].reviewed /\ siae'[s].final = siae[s].final
             /\ siae'[s].finalState = siae[s].finalState /\ siae'[s].frozen = siae[s].frozen
             /\ siae'[s].notified = siae[s].notified
  <2>1. siae[s] \in SiaeRow BY DEF SiaeInv, SiaeTypes
  <2>2. CASE siae'[s] = siae[s] BY <2>1, <2>2
  <2>3. CASE \E d \in {"first", "second"} : siae'[s] = [siae[s] EXCEPT !.reminder = d]
    <3>1. siae'[s] \in SiaeRow BY <2>1, <2>3, SiaeColumn
    <3> QED BY <2>1, <2>3, <3>1 DEF SiaeRow
  <2> QED BY <1>1, <2>2, <2>3
<1>3. siae' \in [Siaes -> SiaeRow]
  BY <1>2 DEF evaluation_campaign_notify
<1>5. UNCHANGED <<serial, campaign, crits, work, told, moved>>
  BY DEF evaluation_campaign_notify
<1> QED BY <1>2, <1>3, <1>5, SideStep DEF SiaeInv, SiaeTypes

(* The notification of a refused company.                                  *)
LEMMA NotificationStep ==
    ASSUME SiaeInv, serial => work = NoRequest, NEW s \in Siaes, NotifyStep3(s)
    PROVE  SiaeInv'
<1>1. siae'[s] = [siae[s] EXCEPT !.notified = TRUE] /\ siae'[s] \in SiaeRow
  BY SiaeColumn DEF NotifyStep3, SiaeInv, SiaeTypes
<1>2. \A t \in Siaes \ {s} : siae'[t] = siae[t]
  BY DEF NotifyStep3, SiaeInv, SiaeTypes
<1>3. siae' \in [Siaes -> SiaeRow]
  BY <1>1 DEF NotifyStep3, SiaeInv, SiaeTypes
<1>4. /\ siae'[s].reviewed = siae[s].reviewed /\ siae'[s].final = siae[s].final
      /\ siae'[s].finalState = siae[s].finalState /\ siae'[s].frozen = siae[s].frozen
  BY <1>1 DEF SiaeInv, SiaeTypes, SiaeRow
<1>5. UNCHANGED <<serial, campaign, crits, work, told, moved>> /\ Notifiable(s)
  BY DEF NotifyStep3
<1> QED BY <1>2, <1>3, <1>4, <1>5, SideStep DEF SiaeInv, SiaeTypes

(* A request that starts.                                                  *)
LEMMA StartStep ==
    ASSUME SiaeInv, campaign.asked, NEW s \in Siaes,
           \/ institution_evaluated_siae_validation(s) \/ NotifyStep1(s)
           \/ \E p \in Apps, k \in Crits : siae_upload_doc(s, p, k)
    PROVE  SiaeInv'
<1>1. UNCHANGED <<serial, campaign, siae, crits, told, moved>>
  BY DEF institution_evaluated_siae_validation, NotifyStep1, siae_upload_doc
<1>2. /\ \A t \in Siaes : State(t)' = State(t) /\ can_review(t)' = can_review(t)
      /\ \A t \in Siaes, p \in Apps, k \in Crits : can_upload(t, p, k)' = can_upload(t, p, k)
  BY <1>1 DEF State, can_review, can_upload
<1>3. NotifiedIsFinal' /\ FirstPhaseHolds' /\ ClosedIsDecided' /\ SanctionedIsRefused'
  BY <1>1, <1>2 DEF SiaeInv, NotifiedIsFinal, FirstPhaseHolds, FirstPhase, ClosedIsDecided,
     SanctionedIsRefused
<1>4. CASE \E p \in Apps, k \in Crits : siae_upload_doc(s, p, k)
  <2>1. PICK p \in Apps, k \in Crits : siae_upload_doc(s, p, k)
    BY <1>4
  <2>2. /\ work' = [op |-> "upload", siae |-> s, app |-> p, crit |-> k]
        /\ k \in Present(crits[s][p]) /\ can_upload(s, p, k)
    BY <2>1 DEF siae_upload_doc
  <2>3. SiaeTypes' BY <1>1, <2>2 DEF SiaeInv, SiaeTypes
  <2>4. ~crits[s][p][k].certified
    BY <2>2 DEF SiaeInv, CertifiedIsAccepted, can_upload
  <2>5. CertifiedIsAccepted' BY <1>1, <2>2, <2>4 DEF SiaeInv, CertifiedIsAccepted
  <2>6. OpenIsUndecided' BY <1>1, <2>2 DEF SiaeInv, OpenIsUndecided
  <2>7. FlightIsOld' BY <2>2 DEF FlightIsOld
  <2>8. FlightIsFresh' BY <1>1, <1>2, <2>2 DEF FlightIsFresh
  <2> QED BY <1>3, <2>3, <2>5, <2>6, <2>7, <2>8 DEF SiaeInv
<1>5. CASE institution_evaluated_siae_validation(s)
  <2>1. /\ work' = [op |-> "save", siae |-> s, row |-> reviewed(siae[s], State(s))]
        /\ can_review(s) /\ ~campaign.ended
    BY <1>5 DEF institution_evaluated_siae_validation
  <2>2. State(s) \in {"ACCEPTED", "REFUSED", "ADVERSARIAL_STAGE"} /\ siae[s] \in SiaeRow
    BY <2>1 DEF can_review, SiaeInv, SiaeTypes
  <2>3. SiaeTypes' BY <1>1, <2>1, <2>2, ReviewedRow DEF SiaeInv, SiaeTypes
  <2>5. CertifiedIsAccepted' BY <1>1, <2>1 DEF SiaeInv, CertifiedIsAccepted
  <2>6. OpenIsUndecided'
    <3>1. siae[s].final => siae[s].reviewed
      BY <2>1 DEF SiaeInv, OpenIsUndecided
    <3>2. State(s) = "ADVERSARIAL_STAGE" => siae[s].reviewed
      BY <2>1 DEF can_review
    <3>3. work'.op = "save" /\ (work'.row.final => work'.row.reviewed)
      BY <2>1, <2>2, <3>1, <3>2, ReviewedRow
    <3> QED BY <1>1, <2>1, <3>3 DEF SiaeInv, OpenIsUndecided
  <2>7. FlightIsOld' BY <1>1, <2>1, <2>2, ReviewedRow DEF FlightIsOld
  <2>8. FlightIsFresh' BY <1>1, <1>2, <2>1 DEF FlightIsFresh
  <2> QED BY <1>3, <2>3, <2>5, <2>6, <2>7, <2>8 DEF SiaeInv
<1>6. CASE NotifyStep1(s)
  <2>1. work' = [op |-> "save", siae |-> s, row |-> siae[s]] /\ siae[s] \in SiaeRow
    BY <1>6 DEF NotifyStep1, SiaeInv, SiaeTypes
  <2>3. SiaeTypes' BY <1>1, <2>1 DEF SiaeInv, SiaeTypes
  <2>5. CertifiedIsAccepted' BY <1>1, <2>1 DEF SiaeInv, CertifiedIsAccepted
  <2>6. OpenIsUndecided' BY <1>1, <2>1 DEF SiaeInv, OpenIsUndecided
  <2>7. FlightIsOld' BY <1>1, <2>1 DEF FlightIsOld
  <2>8. FlightIsFresh' BY <1>1, <2>1 DEF FlightIsFresh
  <2> QED BY <1>3, <2>3, <2>5, <2>6, <2>7, <2>8 DEF SiaeInv
<1> QED BY <1>4, <1>5, <1>6

(* A step on the criteria of one company keeps the invariant if it makes   *)
(* none certified, keeps the first phase and keeps a notified company      *)
(* refused.                                                                *)
LEMMA CriteriaStep ==
    ASSUME SiaeInv, campaign.asked,
           NEW s \in Siaes, NEW apps \in [Apps -> AppRow],
           UNCHANGED <<serial, campaign, told, moved>>,
           crits' = [crits EXCEPT ![s] = apps],
           siae' \in [Siaes -> SiaeRow], \A t \in Siaes \ {s} : siae'[t] = siae[t],
           siae'[s].reviewed = siae[s].reviewed, siae'[s].final = siae[s].final,
           siae'[s].finalState = siae[s].finalState, siae'[s].notified = siae[s].notified,
           work' = NoRequest \/ (work' = work /\ (serial => work = NoRequest)),
           \A p \in Apps, k \in Crits : apps[p][k].certified => apps[p][k] = crits[s][p][k],
           serial /\ ~moved /\ ~campaign.ended => FirstPhase(siae'[s], apps),
           serial /\ ~campaign.ended /\ siae[s].notified => state(siae'[s], apps, campaign.ended) = "REFUSED"
    PROVE  SiaeInv'
<1>1. /\ SiaeTypes /\ CertifiedIsAccepted /\ OpenIsUndecided /\ FlightIsOld /\ NotifiedIsFinal
      /\ FirstPhaseHolds /\ ClosedIsDecided /\ SanctionedIsRefused
  BY DEF SiaeInv
<1>2. crits'[s] = apps /\ \A t \in Siaes \ {s} : crits'[t] = crits[t]
  BY <1>1 DEF SiaeTypes
<1>3. SiaeTypes'
  BY <1>1, <1>2 DEF SiaeTypes, NoRequest
<1>4. CertifiedIsAccepted'
  <2>1. ASSUME NEW t \in Siaes, NEW p \in Apps, NEW k \in Crits, crits'[t][p][k].certified
        PROVE  crits[t][p][k].certified /\ crits'[t][p][k] = crits[t][p][k]
    BY <1>2, <2>1
  <2>2. work'.op = "upload" => ~crits'[work'.siae][work'.app][work'.crit].certified
    BY <1>1, <2>1, Flight DEF CertifiedIsAccepted, NoRequest
  <2> QED BY <1>1, <2>1, <2>2 DEF CertifiedIsAccepted
<1>5. OpenIsUndecided'
  BY <1>1 DEF OpenIsUndecided, NoRequest
<1>6. FlightIsOld'
  BY <1>1, Flight DEF FlightIsOld, NoRequest
<1>7. FlightIsFresh'
  BY DEF FlightIsFresh, NoRequest
<1>8. NotifiedIsFinal'
  BY <1>1 DEF NotifiedIsFinal
<1>9. FirstPhaseHolds'
  BY <1>1, <1>2 DEF FirstPhaseHolds
<1>10. ClosedIsDecided'
  BY <1>1 DEF ClosedIsDecided
<1>11. SanctionedIsRefused'
  <2> SUFFICES ASSUME serial, NEW t \in Siaes, siae[t].notified PROVE State(t)' = "REFUSED"
    BY DEF SanctionedIsRefused
  <2>1. State(t) = "REFUSED"
    BY <1>1 DEF SanctionedIsRefused
  <2>2. CASE t # s
    BY <1>2, <2>1, <2>2 DEF State
  <2>3. CASE t = s /\ campaign.ended
    <3>1. siae[s].finalState # "none"
      BY <1>1, <2>3 DEF ClosedIsDecided
    <3>2. /\ siae[s] \in SiaeRow /\ crits[s] \in [Apps -> AppRow] /\ campaign.ended \in BOOLEAN
          /\ siae'[s] \in SiaeRow
      BY <1>1 DEF SiaeTypes
    <3>3. State(s) = siae[s].finalState /\ State(s)' = siae'[s].finalState
      BY <1>2, <3>1, <3>2, ResultState DEF State
    <3> QED BY <2>1, <2>3, <3>3
  <2>4. CASE t = s /\ ~campaign.ended
    BY <1>2, <2>4 DEF State
  <2> QED BY <2>2, <2>3, <2>4
<1> QED BY <1>3, <1>4, <1>5, <1>6, <1>7, <1>8, <1>9, <1>10, <1>11 DEF SiaeInv

(* In the first phase a reviewed company is settled.                       *)
LEMMA ReviewedIsSettled ==
    ASSUME SiaeInv, serial, ~moved, ~campaign.ended, NEW s \in Siaes, siae[s].reviewed
    PROVE  /\ State(s) \in {"ACCEPTED", "ADVERSARIAL_STAGE"}
           /\ \A p \in Apps :
                 /\ compute_state(crits[s][p]) \in Settled
                 /\ \A k \in Present(crits[s][p]) :
                       \/ crits[s][p][k].certified
                       \/ crits[s][p][k].submitted # "no" /\ siae[s].frozen
<1>1. /\ siae[s] \in SiaeRow /\ crits[s] \in [Apps -> AppRow] /\ campaign.ended \in BOOLEAN
      /\ siae[s].finalState = "none" /\ FirstPhase(siae[s], crits[s])
  BY DEF SiaeInv, SiaeTypes, OpenIsUndecided, FirstPhaseHolds
<1>2. state_from_applications(crits[s]) \in IF siae[s].final THEN {"ACCEPTED"} ELSE {"ACCEPTED", "REFUSED"}
  BY <1>1 DEF FirstPhase
<1>3. State(s) \in {"ACCEPTED", "ADVERSARIAL_STAGE"}
  BY <1>1, <1>2, ResultState DEF State
<1>4. \A p \in Apps : compute_state(crits[s][p]) \in Settled
  BY <1>1, <1>2, CompanyState
<1>5. ASSUME NEW p \in Apps, NEW k \in Present(crits[s][p]), ~crits[s][p][k].certified
      PROVE  crits[s][p][k].submitted # "no" /\ siae[s].frozen
  <2>1. k \in Crits /\ crits[s][p] \in AppRow /\ crits[s][p][k] \in CritRow /\ crits[s][p][k].review # "ABSENT"
    BY <1>1 DEF Present, AppRow
  <2>2. state_from(crits[s][p][k]) \in Settled
    BY <1>4, <2>1, ApplicationState
  <2>3. crits[s][p][k].submitted # "no"
    BY <1>5, <2>1, <2>2, CriterionState DEF Settled
  <2> QED BY <1>1, <1>5, <2>1, <2>3 DEF FirstPhase
<1> QED BY <1>3, <1>4, <1>5

(* A company that was notified before the end is final, hence reviewed.    *)
LEMMA NotifiedIsReviewed ==
    ASSUME SiaeInv, serial, ~campaign.ended, NEW s \in Siaes, siae[s].notified
    PROVE  siae[s].final /\ siae[s].reviewed /\ siae[s].finalState = "none" /\ State(s) = "REFUSED"
  BY DEF SiaeInv, NotifiedIsFinal, OpenIsUndecided, SanctionedIsRefused

(* A final company that misses something is refused.                       *)
LEMMA MissingIsRefused ==
    ASSUME NEW r \in SiaeRow, NEW apps \in [Apps -> AppRow], NEW e \in BOOLEAN,
           r.finalState = "none", r.final, NEW p \in Apps, NEW k \in Present(apps[p]),
           state_from(apps[p][k]) \in Missing
    PROVE  state(r, apps, e) = "REFUSED"
<1>1. compute_state(apps[p]) \in Missing
  BY ApplicationState
<1>2. state_from_applications(apps) \in {"PENDING", "SUBMITTABLE"}
  BY <1>1, CompanyState
<1> QED BY <1>2, ResultState

(* The company chooses criteria.                                           *)
LEMMA SelectStep ==
    ASSUME SiaeInv, campaign.asked, serial => work = NoRequest,
           NEW s \in Siaes, NEW p \in Apps, siae_select_criteria(s, p)
    PROVE  SiaeInv'
<1>1. PICK chosen \in (SUBSET Crits) \ {{}} :
         crits' = [crits EXCEPT ![s][p] = save_selected_criteria(@, chosen)]
  BY DEF siae_select_criteria
<1>2. /\ UNCHANGED <<serial, campaign, siae, work, told, moved>>
      /\ ~campaign.ended /\ should_select_criteria(s, p)
  BY DEF siae_select_criteria
<1> DEFINE new == save_selected_criteria(crits[s][p], chosen)
           apps == [crits[s] EXCEPT ![p] = new]
<1>3. /\ siae \in [Siaes -> SiaeRow] /\ crits \in [Siaes -> [Apps -> AppRow]]
      /\ siae[s] \in SiaeRow /\ crits[s] \in [Apps -> AppRow] /\ crits[s][p] \in AppRow
      /\ campaign.ended \in BOOLEAN
  BY DEF SiaeInv, SiaeTypes
<1>4. \A k \in Crits : new[k] = IF k \notin chosen THEN Absent
                                ELSE IF k \in Present(crits[s][p]) THEN crits[s][p][k] ELSE Selected
  BY DEF save_selected_criteria
<1>5. Absent \in CritRow /\ Selected \in CritRow /\ Absent.certified = FALSE /\ Selected.certified = FALSE
  BY DEF Absent, Selected, CritRow, Reviews
<1>6. new \in AppRow
  <2>1. new = [k \in Crits |-> new[k]] BY DEF save_selected_criteria
  <2>2. \A k \in Crits : new[k] \in CritRow BY <1>3, <1>4, <1>5 DEF AppRow
  <2> HIDE DEF new
  <2> QED BY <2>1, <2>2 DEF AppRow
<1>7. crits' = [crits EXCEPT ![s] = apps] /\ apps \in [Apps -> AppRow] /\ apps[p] = new
      /\ \A q \in Apps \ {p} : apps[q] = crits[s][q]
  BY <1>1, <1>3, <1>6
<1> HIDE DEF new, apps
<1>9. \A q \in Apps, k \in Crits : apps[q][k].certified => apps[q][k] = crits[s][q][k]
  BY <1>4, <1>5, <1>7
<1>10. ASSUME serial, ~moved, ~campaign.ended PROVE FirstPhase(siae[s], apps)
  <2>1. FirstPhase(siae[s], crits[s])
    BY <1>10 DEF SiaeInv, FirstPhaseHolds
  <2>2. ~siae[s].reviewed
    <3> SUFFICES ASSUME siae[s].reviewed PROVE FALSE OBVIOUS
    <3>1. compute_state(crits[s][p]) = "PENDING"
      BY <1>2 DEF should_select_criteria
    <3> QED BY <1>10, <3>1, ReviewedIsSettled DEF Settled
  <2>3. \A k \in Crits : new[k] = crits[s][p][k] \/ (new[k].submitted = "no" /\ new[k].review # "REFUSED_2")
    BY <1>4 DEF Absent, Selected
  <2> QED BY <1>7, <2>1, <2>2, <2>3 DEF FirstPhase
<1>11. ASSUME serial, ~campaign.ended, siae[s].notified
       PROVE  state(siae[s], apps, campaign.ended) = "REFUSED"
  <2>1. siae[s].final /\ siae[s].reviewed /\ siae[s].finalState = "none"
    BY <1>11, NotifiedIsReviewed
  <2>2. compute_state(crits[s][p]) = "PENDING"
    BY <1>2, <2>1 DEF should_select_criteria
  <2>3. Present(crits[s][p]) = {}
    BY <1>3, <2>2, ApplicationState
  <2>4. PICK k \in Crits : k \in chosen
    BY <1>1
  <2>5. new[k] = Selected /\ Selected.review # "ABSENT" /\ ~Selected.proof
    BY <1>4, <2>3, <2>4 DEF Selected, Absent
  <2>6. k \in Present(apps[p]) /\ state_from(apps[p][k]) \in Missing
    BY <1>5, <1>7, <2>5, CriterionState DEF Present, Missing
  <2> QED BY <1>3, <1>7, <2>1, <2>6, MissingIsRefused
<1> QED BY <1>2, <1>3, <1>7, <1>9, <1>10, <1>11, CriteriaStep

(* The proof that was being uploaded is saved.                             *)
LEMMA UploadStep ==
    ASSUME SiaeInv, UploadEnds
    PROVE  SiaeInv'
<1> DEFINE s == work.siae
           p == work.app
           k == work.crit
<1>0. work.op = "upload" /\ SiaeTypes /\ work' = NoRequest /\ UNCHANGED <<serial, campaign, siae, told, moved>>
  BY DEF UploadEnds, SiaeInv
<1>1. s \in Siaes /\ p \in Apps /\ k \in Crits
  BY <1>0, Flight
<1>2. campaign.asked
  BY <1>0 DEF SiaeInv, OpenIsUndecided, NoRequest
<1>3. /\ siae \in [Siaes -> SiaeRow] /\ crits \in [Siaes -> [Apps -> AppRow]]
      /\ siae[s] \in SiaeRow /\ crits[s] \in [Apps -> AppRow] /\ crits[s][p] \in AppRow
      /\ crits[s][p][k] \in CritRow /\ campaign.ended \in BOOLEAN
  BY <1>0, <1>1 DEF SiaeTypes, AppRow
<1>4. crits[s][p][k].certified = FALSE
  BY <1>0, <1>3 DEF SiaeInv, CertifiedIsAccepted, CritRow
<1> DEFINE row == IF k \in Present(crits[s][p])
                  THEN [crits[s][p][k] EXCEPT !.proof = TRUE, !.submitted = "no", !.review = "PENDING"]
                  ELSE crits[s][p][k]
           apps == [crits[s] EXCEPT ![p][k] = row]
<1>5. row \in CritRow /\ row.certified = FALSE
      /\ (k \in Present(crits[s][p]) => row.proof /\ row.submitted = "no" /\ row.review = "PENDING")
  BY <1>3, <1>4 DEF CritRow, Reviews
<1>6. crits' = [crits EXCEPT ![s][p][k] = row]
  <2>1. CASE k \in Present(crits[s][p])
    BY <2>1, <1>3 DEF UploadEnds
  <2>2. CASE k \notin Present(crits[s][p])
    <3>1. crits' = crits /\ row = crits[s][p][k]
      BY <2>2 DEF UploadEnds
    <3>2. crits[s][p] = [crits[s][p] EXCEPT ![k] = row]
      BY <1>3, <3>1 DEF AppRow
    <3>3. crits[s] = [crits[s] EXCEPT ![p] = [crits[s][p] EXCEPT ![k] = row]]
      BY <1>3, <3>2
    <3>4. crits = [crits EXCEPT ![s] = [crits[s] EXCEPT ![p] = [crits[s][p] EXCEPT ![k] = row]]]
      BY <1>3, <3>3
    <3> QED BY <3>1, <3>4
  <2> QED BY <2>1, <2>2
<1> HIDE DEF row
<1>7. /\ apps \in [Apps -> AppRow] /\ apps[p][k] = row
      /\ \A q \in Apps, j \in Crits : q # p \/ j # k => apps[q][j] = crits[s][q][j]
  BY <1>1, <1>3, <1>5 DEF AppRow
<1>8. crits' = [crits EXCEPT ![s] = apps]
  BY <1>3, <1>6
<1> HIDE DEF s, p, k, apps
<1>10. \A q \in Apps, j \in Crits : apps[q][j].certified => apps[q][j] = crits[s][q][j]
  BY <1>5, <1>7
<1>11. serial => k \in Present(crits[s][p]) /\ can_upload(s, p, k)
  BY <1>0 DEF SiaeInv, FlightIsFresh, s, p, k
<1>12. ASSUME serial, ~moved, ~campaign.ended PROVE FirstPhase(siae[s], apps)
  <2>1. FirstPhase(siae[s], crits[s])
    BY <1>1, <1>12 DEF SiaeInv, FirstPhaseHolds
  <2>2. ~siae[s].reviewed
    BY <1>1, <1>4, <1>11, <1>12, ReviewedIsSettled DEF can_upload
  <2> QED BY <1>5, <1>7, <1>11, <1>12, <2>1, <2>2 DEF FirstPhase
<1>13. ASSUME serial, ~campaign.ended, siae[s].notified
       PROVE  state(siae[s], apps, campaign.ended) = "REFUSED"
  <2>1. siae[s].final /\ siae[s].finalState = "none"
    BY <1>1, <1>13, NotifiedIsReviewed
  <2>2. k \in Present(apps[p]) /\ state_from(apps[p][k]) \in Missing
    BY <1>1, <1>5, <1>7, <1>11, <1>13, CriterionState DEF Present, Missing
  <2> QED BY <1>1, <1>3, <1>7, <2>1, <2>2, MissingIsRefused
<1> QED BY <1>0, <1>1, <1>2, <1>3, <1>7, <1>8, <1>10, <1>12, <1>13, CriteriaStep

(* The company submits its proofs, which freezes it.                       *)
LEMMA SubmitStep ==
    ASSUME SiaeInv, campaign.asked, serial => work = NoRequest,
           NEW s \in Siaes, siae_submit_proofs(s)
    PROVE  SiaeInv'
<1> DEFINE phase == IF siae[s].reviewed THEN "second" ELSE "first"
           row(p, k) == IF crits[s][p][k].review # "PENDING" THEN crits[s][p][k]
                        ELSE [crits[s][p][k] EXCEPT !.submitted = phase]
           apps == [p \in Apps |-> [k \in Crits |-> row(p, k)]]
<1>1. /\ UNCHANGED <<serial, campaign, work, told, moved>> /\ can_submit(s)
      /\ crits' = [crits EXCEPT ![s] = apps]
      /\ siae' = [siae EXCEPT ![s].frozen = TRUE]
  BY DEF siae_submit_proofs
<1>2. /\ siae \in [Siaes -> SiaeRow] /\ siae[s] \in SiaeRow /\ crits[s] \in [Apps -> AppRow]
      /\ \A p \in Apps, k \in Crits : crits[s][p][k] \in CritRow
      /\ campaign.ended \in BOOLEAN
  BY DEF SiaeInv, SiaeTypes, AppRow
<1>3. ASSUME NEW p \in Apps, NEW k \in Crits
      PROVE  /\ row(p, k) \in CritRow /\ row(p, k).certified = crits[s][p][k].certified
             /\ row(p, k).review = crits[s][p][k].review
             /\ row(p, k).submitted \in {crits[s][p][k].submitted, phase}
             /\ crits[s][p][k].review # "PENDING" => row(p, k) = crits[s][p][k]
  <2>1. crits[s][p][k] \in CritRow BY <1>2
  <2>2. CASE crits[s][p][k].review # "PENDING" BY <2>1, <2>2
  <2>3. CASE crits[s][p][k].review = "PENDING"
    <3>1. row(p, k) = [crits[s][p][k] EXCEPT !.submitted = phase] /\ phase \in {"first", "second"}
      BY <2>3
    <3> HIDE DEF phase, row
    <3> QED BY <2>1, <2>3, <3>1 DEF CritRow
  <2> QED BY <2>2, <2>3
<1>4. /\ apps \in [Apps -> AppRow] /\ \A p \in Apps, k \in Crits : apps[p][k] = row(p, k)
  BY <1>3 DEF AppRow
<1>5. siae'[s] = [siae[s] EXCEPT !.frozen = TRUE] /\ \A t \in Siaes \ {s} : siae'[t] = siae[t]
  BY <1>1, <1>2
<1>6. siae'[s] \in SiaeRow
  BY <1>2, <1>5, SiaeColumn
<1>7. siae' \in [Siaes -> SiaeRow]
  BY <1>1, <1>2, <1>5, <1>6
<1>8. /\ siae'[s].reviewed = siae[s].reviewed /\ siae'[s].final = siae[s].final /\ siae'[s].frozen
      /\ siae'[s].finalState = siae[s].finalState /\ siae'[s].notified = siae[s].notified
  BY <1>2, <1>5 DEF SiaeRow
<1> HIDE DEF apps, row
<1>9. \A p \in Apps, k \in Crits : apps[p][k].certified => apps[p][k] = crits[s][p][k]
  BY <1>3, <1>4 DEF SiaeInv, CertifiedIsAccepted
<1>10. ASSUME serial, ~moved, ~campaign.ended PROVE FirstPhase(siae'[s], apps)
  <2>1. FirstPhase(siae[s], crits[s])
    BY <1>10 DEF SiaeInv, FirstPhaseHolds
  <2>2. ~siae[s].reviewed
    BY <1>1, <1>10, ReviewedIsSettled DEF can_submit
  <2> QED BY <1>3, <1>4, <1>8, <2>1, <2>2 DEF FirstPhase
<1>11. ASSUME serial, ~campaign.ended, siae[s].notified PROVE FALSE
  BY <1>1, <1>11, NotifiedIsReviewed DEF can_submit
<1>12. /\ serial /\ ~moved /\ ~campaign.ended => FirstPhase(siae'[s], apps)
       /\ ~(serial /\ ~campaign.ended /\ siae[s].notified)
  BY <1>10, <1>11
<1>13. /\ UNCHANGED <<serial, campaign, work, told, moved>> /\ crits' = [crits EXCEPT ![s] = apps]
       /\ apps \in [Apps -> AppRow] /\ \A t \in Siaes \ {s} : siae'[t] = siae[t]
  BY <1>1, <1>4, <1>5
<1> QED BY <1>7, <1>8, <1>9, <1>12, <1>13, CriteriaStep

(* The inspector reviews a proof.                                          *)
LEMMA InspectStep ==
    ASSUME SiaeInv, campaign.asked, serial => work = NoRequest,
           NEW s \in Siaes, NEW p \in Apps, NEW k \in Crits,
           institution_evaluated_administrative_criteria(s, p, k)
    PROVE  SiaeInv'
<1>1. PICK v \in {"PENDING", "ACCEPTED", IF siae[s].reviewed THEN "REFUSED_2" ELSE "REFUSED"} :
         crits' = [crits EXCEPT ![s][p][k].review = v]
  BY DEF institution_evaluated_administrative_criteria
<1>2. /\ UNCHANGED <<serial, campaign, siae, work, told, moved>>
      /\ ~crits[s][p][k].certified /\ (serial => can_edit_proof(s, p))
  BY DEF institution_evaluated_administrative_criteria
<1>3. /\ siae \in [Siaes -> SiaeRow] /\ crits \in [Siaes -> [Apps -> AppRow]]
      /\ crits[s] \in [Apps -> AppRow] /\ crits[s][p] \in AppRow /\ crits[s][p][k] \in CritRow
      /\ siae[s] \in SiaeRow
  BY DEF SiaeInv, SiaeTypes, AppRow
<1> DEFINE row == [crits[s][p][k] EXCEPT !.review = v]
           apps == [crits[s] EXCEPT ![p][k] = row]
<1>4. /\ row \in CritRow /\ row.certified = crits[s][p][k].certified
      /\ row.submitted = crits[s][p][k].submitted /\ row.review = v
  BY <1>1, <1>3 DEF CritRow, Reviews
<1>5. crits' = [crits EXCEPT ![s] = apps]
  BY <1>1, <1>3
<1> HIDE DEF row
<1>6. /\ apps \in [Apps -> AppRow] /\ apps[p][k] = row
      /\ \A q \in Apps, j \in Crits : q # p \/ j # k => apps[q][j] = crits[s][q][j]
  BY <1>3, <1>4 DEF AppRow
<1> HIDE DEF apps
<1>7. \A q \in Apps, j \in Crits : apps[q][j].certified => apps[q][j] = crits[s][q][j]
  BY <1>2, <1>4, <1>6
<1>8. ASSUME serial, ~moved, ~campaign.ended PROVE FirstPhase(siae[s], apps)
  <2>1. FirstPhase(siae[s], crits[s])
    BY <1>8 DEF SiaeInv, FirstPhaseHolds
  <2>2. ~siae[s].reviewed
    BY <1>2, <1>8, <2>1 DEF FirstPhase, can_edit_proof
  <2>3. v # "REFUSED_2"
    BY <1>1, <2>2
  <2> QED BY <1>4, <1>6, <2>1, <2>2, <2>3 DEF FirstPhase
<1>9. ASSUME serial, ~campaign.ended, siae[s].notified PROVE FALSE
  BY <1>2, <1>9, NotifiedIsReviewed DEF can_edit_proof
<1>10. /\ serial /\ ~moved /\ ~campaign.ended => FirstPhase(siae'[s], apps)
       /\ ~(serial /\ ~campaign.ended /\ siae[s].notified)
  BY <1>2, <1>8, <1>9
<1> QED BY <1>2, <1>3, <1>5, <1>6, <1>7, <1>10, CriteriaStep

(* The applications of an accepted company are deleted.                    *)
LEMMA ArchiveSiaeStep ==
    ASSUME SiaeInv, campaign.asked, serial => work = NoRequest, NEW s \in Siaes, archive(s)
    PROVE  SiaeInv'
<1> DEFINE apps == [p \in Apps |-> [k \in Crits |-> Absent]]
<1>1. /\ UNCHANGED <<serial, campaign, work, told, moved>> /\ campaign.ended
      /\ crits' = [crits EXCEPT ![s] = apps]
      /\ siae' = [siae EXCEPT ![s].archived = TRUE]
  BY DEF archive
<1>2. siae \in [Siaes -> SiaeRow] /\ siae[s] \in SiaeRow
  BY DEF SiaeInv, SiaeTypes
<1>3. siae'[s] = [siae[s] EXCEPT !.archived = TRUE] /\ \A t \in Siaes \ {s} : siae'[t] = siae[t]
  BY <1>1, <1>2
<1>4. siae'[s] \in SiaeRow
  BY <1>2, <1>3, SiaeColumn
<1>5. siae' \in [Siaes -> SiaeRow]
  BY <1>1, <1>2, <1>3, <1>4
<1>6. /\ siae'[s].reviewed = siae[s].reviewed /\ siae'[s].final = siae[s].final
      /\ siae'[s].finalState = siae[s].finalState /\ siae'[s].notified = siae[s].notified
  BY <1>2, <1>3 DEF SiaeRow
<1>7. Absent \in CritRow /\ ~Absent.certified
  BY DEF Absent, CritRow, Reviews
<1>8. apps \in [Apps -> AppRow] /\ \A p \in Apps, k \in Crits : ~apps[p][k].certified
  BY <1>7 DEF AppRow
<1> QED BY <1>1, <1>3, <1>5, <1>6, <1>8, CriteriaStep

(* The row of a company that a request read before is saved.               *)
LEMMA SaveStep ==
    ASSUME SiaeInv, SaveEnds
    PROVE  SiaeInv'
<1> DEFINE s == work.siae
           row == work.row
<1>0. /\ work.op = "save" /\ work' = NoRequest /\ UNCHANGED <<serial, campaign, crits, told, moved>>
      /\ siae' = [siae EXCEPT ![s] = row]
      /\ SiaeTypes /\ CertifiedIsAccepted /\ OpenIsUndecided /\ FlightIsOld /\ FlightIsFresh /\ NotifiedIsFinal
      /\ FirstPhaseHolds /\ ClosedIsDecided /\ SanctionedIsRefused
  BY DEF SaveEnds, SiaeInv
<1>1. /\ s \in Siaes /\ row \in SiaeRow /\ siae[s] \in SiaeRow /\ crits[s] \in [Apps -> AppRow]
      /\ campaign.ended \in BOOLEAN /\ siae \in [Siaes -> SiaeRow]
  BY <1>0, Flight DEF SiaeTypes
<1>2. siae'[s] = row /\ \A t \in Siaes \ {s} : siae'[t] = siae[t]
  BY <1>0, <1>1
<1>3. /\ row.finalState \in {"none", siae[s].finalState}
      /\ ~campaign.ended => (row.final => row.reviewed)
  BY <1>0 DEF FlightIsOld, OpenIsUndecided
<1>4. ASSUME serial, row # siae[s]
      PROVE  ~campaign.ended /\ can_review(s) /\ row = reviewed(siae[s], State(s))
  BY <1>0, <1>4 DEF FlightIsFresh
<1> HIDE DEF s, row
<1>5. SiaeTypes'
  BY <1>0, <1>1 DEF SiaeTypes
<1>6. CertifiedIsAccepted' /\ FlightIsOld' /\ FlightIsFresh'
  BY <1>0 DEF CertifiedIsAccepted, FlightIsOld, FlightIsFresh, NoRequest
<1>7. OpenIsUndecided'
  BY <1>0, <1>1, <1>2, <1>3 DEF OpenIsUndecided, NoRequest
<1>8. CASE ~serial
  BY <1>0, <1>5, <1>6, <1>7, <1>8
     DEF SiaeInv, NotifiedIsFinal, FirstPhaseHolds, ClosedIsDecided, SanctionedIsRefused
<1>9. CASE serial /\ row = siae[s]
  <2>1. \A t \in Siaes : siae'[t] = siae[t] /\ State(t)' = State(t)
    BY <1>0, <1>1, <1>2, <1>9 DEF State
  <2>2. NotifiedIsFinal' /\ FirstPhaseHolds'
    BY <1>0, <2>1 DEF NotifiedIsFinal, FirstPhaseHolds
  <2>3. ClosedIsDecided' /\ SanctionedIsRefused'
    BY <1>0, <2>1 DEF ClosedIsDecided, SanctionedIsRefused
  <2> QED BY <1>5, <1>6, <1>7, <2>2, <2>3 DEF SiaeInv
<1>10. CASE serial /\ row # siae[s]
  <2>1. /\ ~campaign.ended /\ can_review(s) /\ row = reviewed(siae[s], State(s))
        /\ State(s) \in {"ACCEPTED", "REFUSED", "ADVERSARIAL_STAGE"}
    BY <1>4, <1>10 DEF can_review
  <2>2. /\ siae[s].finalState = "none" /\ (siae[s].final => siae[s].reviewed)
    BY <1>0, <1>1, <2>1 DEF OpenIsUndecided
  <2>3. ~siae[s].final
    BY <2>1, <2>2 DEF can_review
  <2>4. /\ row.reviewed <=> siae[s].reviewed \/ State(s) # "ADVERSARIAL_STAGE"
        /\ row.final <=> siae[s].final \/ State(s) # "REFUSED"
        /\ row.notified = siae[s].notified /\ row.frozen = siae[s].frozen
    BY <1>1, <2>1, ReviewedRow
  <2>5. ~siae[s].notified
    BY <1>0, <1>1, <1>10, <2>1, <2>3 DEF NotifiedIsFinal
  <2>6. ~moved => FirstPhase(row, crits[s])
    <3> SUFFICES ASSUME ~moved PROVE FirstPhase(row, crits[s]) OBVIOUS
    <3>1. FirstPhase(siae[s], crits[s])
      BY <1>0, <1>1, <1>10, <2>1 DEF FirstPhaseHolds
    <3>2. state_from_applications(crits[s]) \in SiaeStates
      BY <1>1, CompanyState
    <3>3. CASE ~siae[s].reviewed
      <4>1. State(s) \in {"ACCEPTED", "REFUSED"}
        BY <2>1, <3>3 DEF can_review
      <4>2. state_from_applications(crits[s]) = State(s)
        BY <1>1, <2>1, <2>2, <2>3, <3>2, <3>3, <4>1, ResultState DEF State, SiaeStates
      <4>3. state_from_applications(crits[s]) \in IF row.final THEN {"ACCEPTED"} ELSE {"ACCEPTED", "REFUSED"}
        BY <2>3, <2>4, <4>1, <4>2
      <4> QED BY <2>4, <3>1, <4>3 DEF FirstPhase
    <3>4. CASE siae[s].reviewed
      <4>1. \A p \in Apps, k \in Crits : ~(crits[s][p][k].review = "REFUSED" /\ crits[s][p][k].submitted = "first")
        BY <2>1, <3>4 DEF can_review
      <4>2. state_from_applications(crits[s]) \in {"ACCEPTED", "REFUSED"}
        BY <2>3, <3>1, <3>4 DEF FirstPhase
      <4>3. state_from_applications(crits[s]) # "REFUSED"
        <5> SUFFICES ASSUME state_from_applications(crits[s]) = "REFUSED" PROVE FALSE OBVIOUS
        <5>1. PICK p \in Apps : SiaeStateOf(compute_state(crits[s][p])) = "REFUSED"
          BY <1>1, CompanyState
        <5>2. compute_state(crits[s][p]) \in {"REFUSED", "REFUSED_2"} /\ crits[s][p] \in AppRow
          BY <1>1, <5>1, ApplicationState DEF SiaeStateOf, ApplicationStates
        <5>3. PICK k \in Present(crits[s][p]) : state_from(crits[s][p][k]) \in {"REFUSED", "REFUSED_2"}
          BY <5>2, ApplicationState
        <5>4. k \in Crits /\ crits[s][p][k] \in CritRow /\ crits[s][p][k].review # "ABSENT"
          BY <5>2, <5>3 DEF Present, AppRow
        <5>5. crits[s][p][k].submitted # "no" /\ crits[s][p][k].review \in {"REFUSED", "REFUSED_2"}
          BY <5>3, <5>4, CriterionState
        <5>6. crits[s][p][k].submitted = "first" /\ crits[s][p][k].review = "REFUSED"
          BY <3>1, <5>4, <5>5 DEF FirstPhase, CritRow
        <5> QED BY <4>1, <5>4, <5>6
      <4> QED BY <2>4, <3>1, <4>2, <4>3 DEF FirstPhase
    <3> QED BY <3>3, <3>4
  <2>7. FirstPhaseHolds'
    BY <1>0, <1>2, <2>6 DEF FirstPhaseHolds
  <2>8. NotifiedIsFinal'
    BY <1>0, <1>2, <2>4, <2>5 DEF NotifiedIsFinal
  <2>9. ClosedIsDecided'
    BY <1>0, <2>1 DEF ClosedIsDecided
  <2>10. SanctionedIsRefused'
    BY <1>0, <1>2, <2>4, <2>5 DEF SanctionedIsRefused, State
  <2> QED BY <1>5, <1>6, <1>7, <2>7, <2>8, <2>9, <2>10 DEF SiaeInv
<1> QED BY <1>8, <1>9, <1>10

(* The companies and the criteria are drawn.                               *)
LEMMA PopulateStep ==
    ASSUME SiaeInv, populate
    PROVE  SiaeInv'
<1>0. /\ UNCHANGED <<today, serial, work, moved>> /\ campaign' = [campaign EXCEPT !.asked = TRUE]
      /\ work = NoRequest /\ ~campaign.ended /\ SiaeTypes
  BY DEF populate, SiaeInv, OpenIsUndecided
<1>1. /\ campaign' \in [asked: BOOLEAN, ended: BOOLEAN, frozeNotified: BOOLEAN]
      /\ campaign'.asked = TRUE /\ ~campaign'.ended
  BY <1>0 DEF SiaeTypes
<1>2. PICK certified \in [Siaes -> [Apps -> SUBSET Crits]] :
         LET rows == [s \in Siaes |-> [p \in Apps |-> [k \in Crits |->
                         IF k \in certified[s][p] THEN Certified ELSE Absent]]]
             done == {s \in Siaes : state(NewSiae, rows[s], FALSE) = "ACCEPTED"}
         IN  /\ crits' = rows
             /\ siae' = [s \in Siaes |->
                            [NewSiae EXCEPT !.reviewed = s \in done, !.final = s \in done]]
             /\ told' = [s \in Siaes |-> IF s \in done THEN "accepted" ELSE "none"]
  BY DEF populate
<1> DEFINE done == {s \in Siaes : state(NewSiae, crits'[s], FALSE) = "ACCEPTED"}
<1>2a. /\ siae' = [s \in Siaes |-> [NewSiae EXCEPT !.reviewed = s \in done, !.final = s \in done]]
       /\ told' = [s \in Siaes |-> IF s \in done THEN "accepted" ELSE "none"]
  BY <1>2
<1> HIDE DEF done
<1>3. Certified \in CritRow /\ Absent \in CritRow /\ NewSiae \in SiaeRow
  BY DEF Certified, Absent, NewSiae, CritRow, SiaeRow, Reviews
<1>4. \A s \in Siaes, p \in Apps, k \in Crits : crits'[s][p][k] \in {Certified, Absent}
  BY <1>2
<1>5. crits' \in [Siaes -> [Apps -> AppRow]]
  BY <1>2, <1>3 DEF AppRow
<1>6. ASSUME NEW s \in Siaes
      PROVE  /\ siae'[s] \in SiaeRow /\ siae'[s].finalState = "none" /\ ~siae'[s].notified
             /\ siae'[s].final <=> siae'[s].reviewed
             /\ siae'[s].reviewed => state(NewSiae, crits'[s], FALSE) = "ACCEPTED"
             /\ told'[s] \in {"none", "accepted"}
  <2> DEFINE b == s \in done
  <2>1. siae'[s] = [NewSiae EXCEPT !.reviewed = b, !.final = b] /\ told'[s] \in {"none", "accepted"}
    BY <1>2a
  <2>2. b \in BOOLEAN OBVIOUS
  <2> HIDE DEF b
  <2>3. siae'[s] = [reviewed |-> b, final |-> b, frozen |-> FALSE, notified |-> FALSE,
                    finalState |-> "none", reminder |-> "no", archived |-> FALSE]
    BY <2>1 DEF NewSiae
  <2>4. siae'[s] \in SiaeRow
    BY <2>2, <2>3 DEF SiaeRow
  <2>5. /\ siae'[s].finalState = "none" /\ ~siae'[s].notified
        /\ siae'[s].final = b /\ siae'[s].reviewed = b
    BY <2>3
  <2> QED BY <2>1, <2>2, <2>4, <2>5 DEF b, done
<1>7. SiaeTypes'
  <2>1. siae' \in [Siaes -> SiaeRow]
    BY <1>2a, <1>6
  <2>2. told' \in [Siaes -> {"none", "accepted", "adversarial", "refused"}]
    BY <1>2a
  <2> QED BY <1>0, <1>1, <1>5, <2>1, <2>2 DEF SiaeTypes
<1>8. CertifiedIsAccepted'
  BY <1>0, <1>4 DEF CertifiedIsAccepted, Certified, Absent, NoRequest
<1>9. OpenIsUndecided'
  BY <1>0, <1>1, <1>6 DEF OpenIsUndecided, NoRequest
<1>10. FlightIsOld' /\ FlightIsFresh'
  BY <1>0 DEF FlightIsOld, FlightIsFresh, NoRequest
<1>11. NotifiedIsFinal' /\ SanctionedIsRefused' /\ ClosedIsDecided'
  BY <1>1, <1>6 DEF NotifiedIsFinal, SanctionedIsRefused, ClosedIsDecided
<1>12. ASSUME NEW s \in Siaes PROVE FirstPhase(siae'[s], crits'[s])
  <2>1. crits'[s] \in [Apps -> AppRow] /\ NewSiae.finalState = "none" /\ ~NewSiae.final /\ ~NewSiae.reviewed
    BY <1>5 DEF NewSiae
  <2>2. state_from_applications(crits'[s]) \in SiaeStates
    BY <2>1, CompanyState
  <2>3. state(NewSiae, crits'[s], FALSE) = "ACCEPTED" => state_from_applications(crits'[s]) = "ACCEPTED"
    BY <1>3, <2>1, <2>2, ResultState DEF SiaeStates
  <2>4. siae'[s].reviewed => state_from_applications(crits'[s]) = "ACCEPTED"
    BY <1>6, <2>3
  <2>5. \A p \in Apps, k \in Crits : /\ crits'[s][p][k].submitted # "second" /\ crits'[s][p][k].review # "REFUSED_2"
                                     /\ crits'[s][p][k].certified \/ crits'[s][p][k].submitted = "no"
    BY <1>4 DEF Certified, Absent
  <2> QED BY <2>4, <2>5 DEF FirstPhase
<1>13. FirstPhaseHolds'
  BY <1>12 DEF FirstPhaseHolds
<1> QED BY <1>7, <1>8, <1>9, <1>10, <1>11, <1>13 DEF SiaeInv

(* The move to the adversarial stage.                                      *)
LEMMA TransitionStep ==
    ASSUME SiaeInv, serial => work = NoRequest, transition_to_adversarial_phase
    PROVE  SiaeInv'
<1>0. /\ UNCHANGED <<serial, crits, work>> /\ moved' = TRUE
      /\ campaign' = [campaign EXCEPT !.frozeNotified = FALSE]
      /\ TransitionPossible
      /\ SiaeTypes /\ CertifiedIsAccepted /\ OpenIsUndecided /\ FlightIsOld
      /\ NotifiedIsFinal /\ ClosedIsDecided /\ SanctionedIsRefused
  BY DEF transition_to_adversarial_phase, SiaeInv
<1>1. /\ campaign' \in [asked: BOOLEAN, ended: BOOLEAN, frozeNotified: BOOLEAN]
      /\ campaign'.asked = campaign.asked /\ campaign'.ended = campaign.ended
  BY <1>0 DEF SiaeTypes
<1>2. ASSUME NEW s \in Siaes
      PROVE  /\ siae'[s] \in SiaeRow /\ siae'[s].reviewed /\ (siae[s].final => siae'[s].final)
             /\ siae'[s].finalState = siae[s].finalState /\ siae'[s].notified = siae[s].notified
  <2>1. siae[s] \in SiaeRow BY <1>0 DEF SiaeTypes
  <2> DEFINE b == siae[s].final \/ (~siae[s].reviewed /\ State(s) \in {"SUBMITTED", "ACCEPTED"})
  <2>2. b \in BOOLEAN /\ (siae[s].final => b) BY <2>1 DEF SiaeRow
  <2>3. siae'[s] = [siae[s] EXCEPT !.reviewed = TRUE, !.final = b, !.frozen = FALSE]
    BY DEF transition_to_adversarial_phase
  <2> HIDE DEF b
  <2>4. siae'[s] \in SiaeRow /\ siae'[s].final = b
    BY <2>1, <2>2, <2>3 DEF SiaeRow
  <2> QED BY <2>1, <2>2, <2>3, <2>4 DEF SiaeRow
<1>3. \A s \in Siaes : told'[s] \in {"accepted", "adversarial"}
  BY DEF transition_to_adversarial_phase
<1>4. SiaeTypes'
  <2>1. siae' \in [Siaes -> SiaeRow]
    BY <1>2 DEF transition_to_adversarial_phase
  <2>2. told' \in [Siaes -> {"none", "accepted", "adversarial", "refused"}]
    BY <1>3 DEF transition_to_adversarial_phase
  <2> QED BY <1>0, <1>1, <2>1, <2>2 DEF SiaeTypes, NoRequest
<1>5. CertifiedIsAccepted'
  BY <1>0 DEF CertifiedIsAccepted
<1>6. OpenIsUndecided'
  BY <1>0, <1>1, <1>2, <1>3 DEF OpenIsUndecided
<1>7. FlightIsOld'
  BY <1>0, <1>2, Flight DEF FlightIsOld
<1>8. FlightIsFresh' /\ FirstPhaseHolds'
  BY <1>0 DEF FlightIsFresh, FirstPhaseHolds, NoRequest
<1>9. NotifiedIsFinal'
  BY <1>0, <1>1, <1>2 DEF NotifiedIsFinal
<1>10. ClosedIsDecided'
  BY <1>0, <1>1, <1>2, <1>3 DEF ClosedIsDecided
<1>11. SanctionedIsRefused'
  <2> SUFFICES ASSUME serial, NEW s \in Siaes, siae[s].notified PROVE State(s)' = "REFUSED"
    BY <1>0, <1>2 DEF SanctionedIsRefused
  <2>1. State(s) = "REFUSED"
    BY <1>0 DEF SanctionedIsRefused
  <2>2. CASE ~campaign.ended
    BY <1>0, <2>1, <2>2 DEF TransitionPossible, NotifiedIsFinal, OpenIsUndecided
  <2>3. CASE campaign.ended
    <3>1. /\ siae[s] \in SiaeRow /\ siae'[s] \in SiaeRow /\ crits[s] \in [Apps -> AppRow]
          /\ campaign.ended \in BOOLEAN /\ siae[s].finalState # "none" /\ crits' = crits
      BY <1>0, <1>2, <2>3 DEF SiaeTypes, ClosedIsDecided
    <3>2. State(s) = siae[s].finalState /\ State(s)' = siae'[s].finalState
      BY <1>1, <1>2, <3>1, ResultState DEF State
    <3> QED BY <1>2, <2>1, <3>2
  <2> QED BY <2>2, <2>3
<1> QED BY <1>4, <1>5, <1>6, <1>7, <1>8, <1>9, <1>10, <1>11 DEF SiaeInv

(* A company that submitted nothing misses something, so the close of the  *)
(* campaign refuses it.                                                    *)
LEMMA SilentIsRefused ==
    ASSUME NEW r \in SiaeRow, NEW apps \in [Apps -> AppRow], r.finalState = "none",
           ~Submitted(apps, {"first", "second"}),
           \A p \in Apps, k \in Crits : apps[p][k].certified =>
              apps[p][k].submitted = "first" /\ apps[p][k].review = "ACCEPTED"
    PROVE  state(r, apps, TRUE) = "REFUSED"
<1>1. ASSUME NEW p \in Apps PROVE compute_state(apps[p]) \in Missing
  <2>1. apps[p] \in AppRow OBVIOUS
  <2>2. CASE Present(apps[p]) = {}
    BY <2>1, <2>2, ApplicationState DEF Missing
  <2>3. CASE Present(apps[p]) # {}
    <3>1. PICK k \in Present(apps[p]) : compute_state(apps[p]) = state_from(apps[p][k])
      BY <2>1, <2>3, ApplicationState
    <3>2. k \in Crits /\ apps[p][k] \in CritRow /\ apps[p][k].review # "ABSENT"
      BY <2>1, <3>1 DEF Present, AppRow
    <3>3. apps[p][k].submitted = "no"
      BY <3>1, <3>2 DEF Submitted, CritRow
    <3>4. ~apps[p][k].certified
      BY <3>2, <3>3
    <3> QED BY <3>1, <3>2, <3>3, <3>4, CriterionState DEF Missing
  <2> QED BY <2>2, <2>3
<1>2. state_from_applications(apps) \in {"PENDING", "SUBMITTABLE"}
  <2>1. CASE Apps = {}
    <3>1. state_from_applications(apps) = "PENDING"
      BY <2>1, CompanyState
    <3> QED BY <3>1
  <2>2. CASE Apps # {}
    BY <1>1, <2>2, CompanyState
  <2> QED BY <2>1, <2>2
<1> QED BY <1>2, ResultState

(* The close of the campaign.                                              *)
LEMMA CloseStep ==
    ASSUME SiaeInv, campaign.asked, serial => work = NoRequest, close
    PROVE  SiaeInv'
<1>0. /\ UNCHANGED <<serial, crits, work, moved>> /\ ~campaign.ended
      /\ campaign' = [campaign EXCEPT !.ended = TRUE]
      /\ SiaeTypes /\ CertifiedIsAccepted /\ OpenIsUndecided /\ FlightIsOld
      /\ NotifiedIsFinal /\ ClosedIsDecided /\ SanctionedIsRefused
  BY DEF close, SiaeInv
<1>1. /\ campaign' \in [asked: BOOLEAN, ended: BOOLEAN, frozeNotified: BOOLEAN]
      /\ campaign'.asked = campaign.asked /\ campaign'.ended = TRUE
  BY <1>0 DEF SiaeTypes
<1>2. ASSUME NEW s \in Siaes
      PROVE  /\ siae[s] \in SiaeRow /\ crits[s] \in [Apps -> AppRow] /\ siae[s].finalState = "none"
             /\ state(siae[s], crits[s], TRUE) \in {"ACCEPTED", "REFUSED"}
             /\ siae'[s] \in SiaeRow /\ siae'[s].notified = siae[s].notified
             /\ siae'[s].finalState = state(siae[s], crits[s], TRUE)
  <2>1. siae[s] \in SiaeRow /\ crits[s] \in [Apps -> AppRow] /\ siae[s].finalState = "none"
    BY <1>0 DEF SiaeTypes, OpenIsUndecided
  <2> DEFINE b == \/ siae[s].final
                  \/ ~siae[s].notified /\ state_from_applications(crits[s]) \in {"ACCEPTED", "REFUSED"}
             f == state(siae[s], crits[s], TRUE)
  <2>2. b \in BOOLEAN BY <2>1 DEF SiaeRow
  <2>3. f \in {"ACCEPTED", "REFUSED"}
    BY <2>1, ResultState
  <2>4. siae'[s] = [siae[s] EXCEPT !.final = b, !.finalState = f]
    BY DEF close, Decided
  <2> HIDE DEF b, f
  <2>5. siae'[s] \in SiaeRow /\ siae'[s].finalState = f
    BY <2>1, <2>2, <2>3, <2>4 DEF SiaeRow
  <2> QED BY <2>1, <2>3, <2>4, <2>5 DEF SiaeRow, f
<1>3. ASSUME NEW s \in Siaes
      PROVE  /\ told'[s] \in {"none", "accepted", "adversarial", "refused"}
             /\ told'[s] = "refused" => state(siae[s], crits[s], TRUE) = "REFUSED"
  <2> DEFINE st == state_from_applications(crits[s])
  <2>1. told'[s] = ToldAtClose(s) /\ told[s] \in {"none", "accepted", "adversarial"}
    BY <1>0 DEF close, SiaeTypes, OpenIsUndecided
  <2>2. ~Submitted(crits[s], {"first", "second"}) => state(siae[s], crits[s], TRUE) = "REFUSED"
    BY <1>0, <1>2, SilentIsRefused DEF CertifiedIsAccepted
  <2>3. st = "REFUSED" => state(siae[s], crits[s], TRUE) = "REFUSED"
    BY <1>2, ResultState
  <2> HIDE DEF st
  <2>4. siae[s].notified \in BOOLEAN /\ siae[s].final \in BOOLEAN
    BY <1>2 DEF SiaeRow
  <2>5. CASE siae[s].notified
    BY <2>1, <2>5 DEF ToldAtClose
  <2>6. CASE ~siae[s].notified /\ ~siae[s].final
    BY <2>1, <2>2, <2>3, <2>6 DEF ToldAtClose, st
  <2>7. CASE ~siae[s].notified /\ siae[s].final
    BY <2>1, <2>7 DEF ToldAtClose
  <2> QED BY <2>4, <2>5, <2>6, <2>7
<1>4. SiaeTypes'
  <2>1. siae' \in [Siaes -> SiaeRow]
    BY <1>2 DEF close
  <2>2. told' \in [Siaes -> {"none", "accepted", "adversarial", "refused"}]
    BY <1>3 DEF close
  <2> QED BY <1>0, <1>1, <2>1, <2>2 DEF SiaeTypes, NoRequest
<1>5. CertifiedIsAccepted'
  BY <1>0 DEF CertifiedIsAccepted
<1>6. OpenIsUndecided' /\ NotifiedIsFinal' /\ FirstPhaseHolds'
  BY <1>1 DEF OpenIsUndecided, NotifiedIsFinal, FirstPhaseHolds
<1>7. FlightIsOld'
  BY <1>0, <1>2, Flight DEF FlightIsOld
<1>8. FlightIsFresh'
  BY <1>0 DEF FlightIsFresh, NoRequest
<1>10. ClosedIsDecided'
  BY <1>2, <1>3 DEF ClosedIsDecided
<1>11. SanctionedIsRefused'
  <2> SUFFICES ASSUME serial, NEW s \in Siaes, siae[s].notified PROVE State(s)' = "REFUSED"
    BY <1>0, <1>2 DEF SanctionedIsRefused
  <2>1. State(s) = "REFUSED" /\ siae[s].final
    BY <1>0 DEF SanctionedIsRefused, NotifiedIsFinal
  <2>2. campaign.ended = FALSE
    BY <1>0 DEF SiaeTypes
  <2>3. state(siae[s], crits[s], TRUE) = state(siae[s], crits[s], FALSE)
    <3>1. /\ siae[s] \in SiaeRow /\ crits[s] \in [Apps -> AppRow] /\ siae[s].finalState = "none"
          /\ siae[s].final
      BY <1>2, <2>1
    <3> DEFINE st == state_from_applications(crits[s])
               res == IF st \in {"PENDING", "SUBMITTABLE"} THEN "REFUSED"
                      ELSE IF st = "SUBMITTED" THEN "ACCEPTED" ELSE st
    <3>2. state(siae[s], crits[s], TRUE) = res
      BY <3>1, ResultState
    <3>3. state(siae[s], crits[s], FALSE) = res
      BY <3>1, ResultState
    <3> HIDE DEF st, res
    <3> QED BY <3>2, <3>3
  <2>4. siae'[s].finalState = "REFUSED"
    BY <1>2, <2>1, <2>2, <2>3 DEF State
  <2>5. state(siae'[s], crits[s], TRUE) = "REFUSED"
    BY <1>2, <2>4, ResultState
  <2> QED BY <1>0, <1>1, <2>5 DEF State
<1> QED BY <1>4, <1>5, <1>6, <1>7, <1>8, <1>10, <1>11 DEF SiaeInv

(* Every behaviour of the campaign keeps the inductive invariant: the      *)
(* requests that end, then one step per action of the support, of the      *)
(* companies and of the institution.                                       *)
THEOREM SiaeInvariant == CampaignSpec => []SiaeInv
<1>1. CampaignInit => SiaeInv
  <2> SUFFICES ASSUME CampaignInit PROVE SiaeInv OBVIOUS
  <2>1. /\ campaign = [asked |-> FALSE, ended |-> FALSE, frozeNotified |-> FALSE]
        /\ siae = [s \in Siaes |-> NewSiae]
        /\ crits = [s \in Siaes |-> [p \in Apps |-> [k \in Crits |-> Absent]]]
        /\ work = NoRequest /\ told = [s \in Siaes |-> "none"] /\ moved = FALSE /\ serial \in BOOLEAN
    BY DEF CampaignInit
  <2>2. NewSiae \in SiaeRow /\ Absent \in CritRow
    BY DEF NewSiae, Absent, SiaeRow, CritRow, Reviews
  <2>3. SiaeTypes BY <2>1, <2>2 DEF SiaeTypes, AppRow
  <2>4. CertifiedIsAccepted BY <2>1 DEF CertifiedIsAccepted, Absent, NoRequest
  <2>5. OpenIsUndecided BY <2>1 DEF OpenIsUndecided, NewSiae, NoRequest
  <2>6. FlightIsOld /\ FlightIsFresh BY <2>1 DEF FlightIsOld, FlightIsFresh, NoRequest
  <2>7. NotifiedIsFinal /\ SanctionedIsRefused /\ ClosedIsDecided
    BY <2>1 DEF NotifiedIsFinal, SanctionedIsRefused, ClosedIsDecided, NewSiae
  <2>8. FirstPhaseHolds
    BY <2>1 DEF FirstPhaseHolds, FirstPhase, NewSiae, Absent
  <2> QED BY <2>3, <2>4, <2>5, <2>6, <2>7, <2>8 DEF SiaeInv
<1>2. SiaeInv /\ [CampaignNext]_campaignVars => SiaeInv'
  <2> SUFFICES ASSUME SiaeInv, [CampaignNext]_campaignVars PROVE SiaeInv' OBVIOUS
  <2>1. CASE UploadEnds BY <2>1, UploadStep
  <2>2. CASE SaveEnds BY <2>2, SaveStep
  <2>3. CASE (serial => work = NoRequest) /\ SupportNext
    <3>1. CASE populate BY <3>1, PopulateStep
    <3>2. CASE campaign.asked /\ freeze BY <2>3, <3>2, FreezeStep
    <3>3. CASE campaign.asked /\ transition_to_adversarial_phase BY <2>3, <3>3, TransitionStep
    <3>4. CASE campaign.asked /\ close BY <2>3, <3>4, CloseStep
    <3>5. CASE evaluation_campaign_notify BY <2>3, <3>5, ReminderStep
    <3>6. CASE NextDay BY <3>6, SiaeFrame DEF NextDay
    <3> QED BY <2>3, <3>1, <3>2, <3>3, <3>4, <3>5, <3>6 DEF SupportNext
  <2>4. ASSUME serial => work = NoRequest, NEW s \in Siaes, SiaeNext(s) PROVE SiaeInv'
    <3>0. campaign.asked BY <2>4 DEF SiaeNext
    <3>1. CASE archive(s) BY <2>4, <3>0, <3>1, ArchiveSiaeStep
    <3>2. CASE \E p \in Apps : siae_select_criteria(s, p) BY <2>4, <3>0, <3>2, SelectStep
    <3>3. CASE \E p \in Apps, k \in Crits : institution_evaluated_administrative_criteria(s, p, k)
      BY <2>4, <3>0, <3>3, InspectStep
    <3>4. CASE siae_submit_proofs(s) BY <2>4, <3>0, <3>4, SubmitStep
    <3>5. CASE NotifyStep3(s) BY <2>4, <3>5, NotificationStep
    <3>6. CASE \/ institution_evaluated_siae_validation(s) \/ NotifyStep1(s)
               \/ \E p \in Apps, k \in Crits : siae_upload_doc(s, p, k)
      BY <3>0, <3>6, StartStep
    <3> QED BY <2>4, <3>1, <3>2, <3>3, <3>4, <3>5, <3>6 DEF SiaeNext
  <2>5. CASE UNCHANGED campaignVars BY <2>5, SiaeFrame DEF campaignVars
  <2> QED BY <2>1, <2>2, <2>3, <2>4, <2>5 DEF CampaignNext
<1> QED BY <1>1, <1>2, PTL DEF CampaignSpec

(* When requests come one at a time, the close of a campaign records a     *)
(* result for every company, never better than the one it was e-mailed.    *)
THEOREM ClosedCampaignIsDecided == CampaignSpec => []ClosedIsDecided
<1>1. SiaeInv => ClosedIsDecided BY DEF SiaeInv
<1> QED BY <1>1, SiaeInvariant, PTL

(* When requests come one at a time, a company notified of sanctions stays *)
(* refused, whatever it uploads and whatever the inspector posts.          *)
THEOREM SanctionedStaysRefused == CampaignSpec => []SanctionedIsRefused
<1>1. SiaeInv => SanctionedIsRefused BY DEF SiaeInv
<1> QED BY <1>1, SiaeInvariant, PTL

(* When requests come one at a time, transition_to_adversarial_phase never *)
(* raises before it has succeeded once.                                    *)
THEOREM TransitionNeverRaises == CampaignSpec => []TransitionExpected
<1>1. SiaeInv => TransitionExpected
  BY ReviewedIsSettled DEF TransitionExpected, TransitionPossible
<1> QED BY <1>1, SiaeInvariant, PTL

(* Whatever the interleaving, a step that leaves a result recorded leaves  *)
(* the result that the pages compute as it was.                            *)
THEOREM RecordedDecisionIsFinal == CampaignSpec => DecisionIsFinal
<1> DEFINE Same(s) == siae[s].finalState # "none" /\ siae'[s].finalState # "none" =>
                         siae'[s].finalState = siae[s].finalState
<1>1. SiaeInv /\ [CampaignNext]_campaignVars => \A s \in Siaes : Same(s)
  <2> SUFFICES ASSUME SiaeInv, [CampaignNext]_campaignVars, NEW s \in Siaes PROVE Same(s) OBVIOUS
  <2>0. siae \in [Siaes -> SiaeRow] /\ siae[s] \in SiaeRow
    BY DEF SiaeInv, SiaeTypes
  <2>1. CASE SaveEnds
    <3>1. /\ siae' = [siae EXCEPT ![work.siae] = work.row] /\ work.siae \in Siaes
          /\ work.row.finalState \in {"none", siae[work.siae].finalState}
      BY <2>1, Flight DEF SaveEnds, SiaeInv, FlightIsOld
    <3> QED BY <2>0, <3>1
  <2>2. CASE populate \/ close
    BY <2>2 DEF SiaeInv, OpenIsUndecided, populate, close
  <2>3. CASE freeze
    <3>1. siae'[s] = [siae[s] EXCEPT !.frozen = TRUE] BY <2>3 DEF freeze
    <3> QED BY <2>0, <3>1 DEF SiaeRow
  <2>4. CASE transition_to_adversarial_phase
    <3>1. \E b : siae'[s] = [siae[s] EXCEPT !.reviewed = TRUE, !.final = b, !.frozen = FALSE]
      BY <2>4 DEF transition_to_adversarial_phase
    <3> QED BY <2>0, <3>1 DEF SiaeRow
  <2>5. CASE evaluation_campaign_notify
    <3>1. siae'[s] = siae[s] \/ \E d : siae'[s] = [siae[s] EXCEPT !.reminder = d]
      BY <2>5 DEF evaluation_campaign_notify
    <3> QED BY <2>0, <3>1 DEF SiaeRow
  <2>6. CASE \E t \in Siaes : archive(t) \/ siae_submit_proofs(t) \/ NotifyStep3(t)
    <3>1. PICK t \in Siaes : \/ siae' = [siae EXCEPT ![t].archived = TRUE]
                             \/ siae' = [siae EXCEPT ![t].frozen = TRUE]
                             \/ siae' = [siae EXCEPT ![t].notified = TRUE]
      BY <2>6 DEF archive, siae_submit_proofs, NotifyStep3
    <3>2. \/ siae'[s] = siae[s] \/ siae'[s] = [siae[s] EXCEPT !.archived = TRUE]
          \/ siae'[s] = [siae[s] EXCEPT !.frozen = TRUE] \/ siae'[s] = [siae[s] EXCEPT !.notified = TRUE]
      BY <2>0, <3>1
    <3> QED BY <2>0, <3>2 DEF SiaeRow
  <2>7. CASE UNCHANGED siae BY <2>7
  <2>8. UploadEnds \/ NextDay \/ UNCHANGED campaignVars => UNCHANGED siae
    BY DEF UploadEnds, NextDay, campaignVars
  <2>9. ASSUME NEW t \in Siaes, SiaeNext(t)
        PROVE  UNCHANGED siae \/ archive(t) \/ siae_submit_proofs(t) \/ NotifyStep3(t)
    BY <2>9 DEF SiaeNext, siae_select_criteria, siae_upload_doc,
       institution_evaluated_administrative_criteria, institution_evaluated_siae_validation, NotifyStep1
  <2> QED BY <2>1, <2>2, <2>3, <2>4, <2>5, <2>6, <2>7, <2>8, <2>9 DEF CampaignNext, SupportNext
<1>2. ASSUME SiaeInv, SiaeInv', NEW s \in Siaes, Same(s),
             siae[s].finalState # "none", siae'[s].finalState # "none"
      PROVE  State(s)' = State(s)
  <2>1. /\ siae[s] \in SiaeRow /\ crits[s] \in [Apps -> AppRow] /\ campaign.ended \in BOOLEAN
        /\ siae'[s] \in SiaeRow /\ crits'[s] \in [Apps -> AppRow] /\ campaign'.ended \in BOOLEAN
    BY <1>2 DEF SiaeInv, SiaeTypes
  <2>2. State(s) = siae[s].finalState /\ State(s)' = siae'[s].finalState
    BY <1>2, <2>1, ResultState DEF State
  <2> QED BY <1>2, <2>2
<1>3. SiaeInv /\ SiaeInv' /\ [CampaignNext]_campaignVars =>
        [\A s \in Siaes : siae[s].finalState # "none" /\ siae'[s].finalState # "none" =>
            State(s)' = State(s)]_campaignVars
  BY <1>1, <1>2
<1> QED BY <1>3, SiaeInvariant, PTL DEF CampaignSpec, DecisionIsFinal

(***************************************************************************)
(* GeiqAssessments: what was submitted, for any contracts, antennas, tabs  *)
(* of browsers, workers and versions of the documents.                     *)
(***************************************************************************)
(* The columns of the tables, and what a request keeps of them.            *)
AssessmentRow == [synced: BOOLEAN, selected: BOOLEAN, submitted: BOOLEAN, grants: BOOLEAN,
                  decision: BOOLEAN, reviewed: BOOLEAN, final: BOOLEAN,
                  action: Versions \cup {0}, comment: Versions \cup {0}, pdf: Versions \cup {0}]
ContractRow == [requested: BOOLEAN, justified: BOOLEAN, granted: BOOLEAN, refused: BOOLEAN]
ReadRow == [at: {"read"}, row: AssessmentRow, c: [Contracts -> ContractRow]]

(* The rows of the tables and the ones that the requests read.             *)
GeiqTypes ==
    /\ a \in AssessmentRow /\ c \in [Contracts -> ContractRow]
    /\ DOMAIN seen = Users /\ \A v \in Users : seen[v] # None => seen[v] \in ReadRow
    /\ task \in [Workers -> {"idle", "fetching"}]
    /\ made \in [Antennas -> {0, 1}]

(* SubmittedIsComplete, of one row: also of those that the requests read   *)
(* and may save as a whole.                                                *)
Complete(r) == r.submitted => r.selected /\ r.comment # 0 /\ r.action # 0 /\ r.pdf # 0
ReadIsComplete == \A v \in Users : seen[v] # None => Complete(seen[v].row)

(* When requests come one at a time, at most one has read the assessment.  *)
OneReader == mode = "serial" => \A v, x \in Users : seen[v] # None /\ seen[x] # None => v = x

(* ... the worker that fetches a PDF has the lock, and there is no PDF.    *)
FetchedOnce == mode = "serial" => \A w \in Workers : task[w] = "fetching" => lock = w /\ a.pdf = 0

(* ... and what was read is current, but for the PDF that may have come.   *)
ReadIsCurrent ==
    mode = "serial" => \A v \in Users : seen[v] # None =>
       /\ seen[v].c = c
       /\ seen[v].row = a \/ (seen[v].row.pdf = 0 /\ seen[v].row = [a EXCEPT !.pdf = 0])

(* The inductive invariant.                                                *)
GeiqInv ==
    /\ GeiqTypes /\ Constraints(a) /\ Complete(a) /\ ReadIsComplete
    /\ OneReader /\ FetchedOnce /\ ReadIsCurrent

(* What SubmittedIsFrozen asks of a write of these rows.                   *)
Kept(r, k) ==
    mode = "serial" =>
       /\ a.submitted /\ r.submitted =>
             /\ r.comment = a.comment /\ r.action = a.action /\ r.pdf = a.pdf
             /\ \A x \in Contracts : /\ k[x].requested = c[x].requested
                                     /\ k[x].justified = c[x].justified
       /\ a.decision /\ r.decision => \A x \in Contracts : k[x].granted = c[x].granted

(* A write of a request that keeps what the invariants promise.            *)
SafeWrite(v, r, k) ==
    /\ r \in AssessmentRow /\ k \in [Contracts -> ContractRow]
    /\ Write(v, r, k) /\ UNCHANGED fetching
    /\ Complete(r) /\ Kept(r, k)
    /\ mode = "serial" /\ a.pdf = 0 => r.pdf = 0

(* The columns of an assessment may take any value of their types.         *)
LEMMA AssessmentColumn ==
    ASSUME NEW r \in AssessmentRow, NEW b \in BOOLEAN, NEW t \in Versions \cup {0}
    PROVE  /\ [r EXCEPT !.synced = b] \in AssessmentRow /\ [r EXCEPT !.selected = b] \in AssessmentRow
           /\ [r EXCEPT !.submitted = b] \in AssessmentRow /\ [r EXCEPT !.grants = b] \in AssessmentRow
           /\ [r EXCEPT !.decision = b] \in AssessmentRow /\ [r EXCEPT !.reviewed = b] \in AssessmentRow
           /\ [r EXCEPT !.final = b] \in AssessmentRow
           /\ [r EXCEPT !.action = t] \in AssessmentRow /\ [r EXCEPT !.comment = t] \in AssessmentRow
           /\ [r EXCEPT !.pdf = t] \in AssessmentRow
  BY DEF AssessmentRow

(* What a request knows of the assessment from what it read.               *)
LEMMA Reading ==
    ASSUME GeiqInv, NEW v \in Users, seen[v] # None
    PROVE  /\ seen[v].row \in AssessmentRow /\ Complete(seen[v].row) /\ seen[v].c \in [Contracts -> ContractRow]
           /\ mode = "serial" =>
                 /\ seen[v].row.synced = a.synced /\ seen[v].row.selected = a.selected
                 /\ seen[v].row.submitted = a.submitted /\ seen[v].row.grants = a.grants
                 /\ a.submitted => seen[v].row = a
                 /\ a.pdf = 0 => seen[v].row.pdf = 0
<1>1. seen[v] \in ReadRow /\ Complete(seen[v].row) /\ a \in AssessmentRow
  BY DEF GeiqInv, GeiqTypes, ReadIsComplete
<1>2. seen[v].row \in AssessmentRow /\ seen[v].c \in [Contracts -> ContractRow]
  BY <1>1 DEF ReadRow
<1>3. ASSUME mode = "serial", seen[v].row # a
      PROVE  seen[v].row.pdf = 0 /\ seen[v].row = [a EXCEPT !.pdf = 0]
  BY <1>3 DEF GeiqInv, ReadIsCurrent
<1>4. ASSUME mode = "serial", seen[v].row # a
      PROVE  /\ seen[v].row.synced = a.synced /\ seen[v].row.selected = a.selected
             /\ seen[v].row.submitted = a.submitted /\ seen[v].row.grants = a.grants
             /\ ~a.submitted /\ seen[v].row.pdf = 0
  <2>1. seen[v].row.pdf = 0 /\ seen[v].row = [a EXCEPT !.pdf = 0]
    BY <1>3, <1>4
  <2>2. /\ seen[v].row.synced = a.synced /\ seen[v].row.selected = a.selected
        /\ seen[v].row.submitted = a.submitted /\ seen[v].row.grants = a.grants
    BY <1>1, <2>1 DEF AssessmentRow
  <2>3. ~a.submitted
    BY <1>1, <2>1, <2>2 DEF Complete
  <2> QED BY <2>1, <2>2, <2>3
<1> QED BY <1>1, <1>2, <1>4

(* A decision is only there on a submitted assessment with its grants.     *)
LEMMA DecisionIsSubmitted ==
    ASSUME GeiqInv
    PROVE  /\ a.decision => a.grants /\ a.submitted
           /\ a.submitted => a.selected /\ a.synced
  BY DEF GeiqInv, Constraints

(* A safe write keeps the invariant.                                       *)
LEMMA WriteStep ==
    ASSUME GeiqInv, NEW v \in Users, seen[v] # None, NEW r, NEW k, SafeWrite(v, r, k)
    PROVE  GeiqInv'
<1>0. /\ GeiqTypes /\ ReadIsComplete /\ OneReader /\ FetchedOnce /\ ReadIsCurrent
      /\ a' = r /\ c' = k /\ seen' = [seen EXCEPT ![v] = None]
      /\ UNCHANGED <<mode, made, queued, task, lock>> /\ Constraints(r) /\ Complete(r)
      /\ r \in AssessmentRow /\ k \in [Contracts -> ContractRow]
      /\ mode = "serial" /\ a.pdf = 0 => r.pdf = 0
  BY DEF GeiqInv, SafeWrite, Write, fetching, creation
<1>1. /\ DOMAIN seen' = Users /\ seen'[v] = None
      /\ \A x \in Users : x # v => seen'[x] = seen[x]
  BY <1>0 DEF GeiqTypes
<1>2. GeiqTypes'
  BY <1>0, <1>1 DEF GeiqTypes, Users
<1>3. ReadIsComplete' /\ OneReader'
  BY <1>0, <1>1 DEF ReadIsComplete, OneReader, Users
<1>4. FetchedOnce'
  BY <1>0 DEF FetchedOnce
<1>5. ReadIsCurrent'
  BY <1>0, <1>1 DEF ReadIsCurrent, OneReader, Users
<1>6. Constraints(a)' /\ Complete(a)'
  BY <1>0 DEF Constraints, Complete
<1> QED BY <1>2, <1>3, <1>4, <1>5, <1>6 DEF GeiqInv

(* Every text is a version, and none of them stands for no text.           *)
LEMMA TextIsVersion ==
    ASSUME NEW t \in Texts
    PROVE  t \in Versions /\ t # 0
  BY GeiqAssumption DEF Texts

(* A save of some columns of the assessment, over what it is now or over   *)
(* what the request read: safe when nothing that was submitted changes.    *)
LEMMA SaveRowStep ==
    ASSUME GeiqInv, NEW v \in Users, seen[v] # None, NEW r \in AssessmentRow,
           Write(v, r, c), UNCHANGED fetching, Complete(r),
           mode = "serial" /\ a.submitted /\ r.submitted =>
              r.comment = a.comment /\ r.action = a.action /\ r.pdf = a.pdf,
           mode = "serial" /\ a.pdf = 0 => r.pdf = 0
    PROVE  SafeWrite(v, r, c)
  BY DEF SafeWrite, Kept, GeiqInv, GeiqTypes

(* The writes of the GEIQ are safe.                                        *)
LEMMA GeiqWrites ==
    ASSUME GeiqInv, NEW v \in Users, seen[v] # None,
           \/ assessment_comment(v) \/ upload_action_financial_assessment(v)
           \/ assessment_contracts_sync(v) \/ toggle_requested(v) \/ justify_request(v)
           \/ select_contracts(v) \/ submit(v)
    PROVE  \E r, k : SafeWrite(v, r, k)
<1> DEFINE row == seen[v].row
<1>0. /\ a \in AssessmentRow /\ Complete(a)
      /\ c \in [Contracts -> ContractRow] /\ row \in AssessmentRow /\ Complete(row)
      /\ mode = "serial" =>
            /\ row.synced = a.synced /\ row.selected = a.selected
            /\ row.submitted = a.submitted /\ (a.pdf = 0 => row.pdf = 0)
      /\ a.decision => a.submitted
      /\ a.submitted => a.selected /\ a.synced
  BY Reading, DecisionIsSubmitted DEF GeiqInv, GeiqTypes
<1> HIDE DEF row
<1>1. CASE assessment_comment(v)
  <2>1. PICK t \in Texts : Write(v, [row EXCEPT !.comment = t], c)
    BY <1>1 DEF assessment_comment, Row, row
  <2>2. ~row.submitted /\ UNCHANGED fetching
    BY <1>1 DEF assessment_comment, Row, editable, row
  <2>3. [row EXCEPT !.comment = t] \in AssessmentRow
    BY <1>0, TextIsVersion, AssessmentColumn
  <2>4. /\ [row EXCEPT !.comment = t].submitted = row.submitted
        /\ [row EXCEPT !.comment = t].pdf = row.pdf
    BY <1>0 DEF AssessmentRow
  <2>5. SafeWrite(v, [row EXCEPT !.comment = t], c)
    BY <1>0, <2>1, <2>2, <2>3, <2>4, SaveRowStep DEF Complete
  <2> QED BY <2>5
<1>2. CASE upload_action_financial_assessment(v)
  <2>1. PICK t \in Texts : Write(v, [a EXCEPT !.action = t], c)
    BY <1>2 DEF upload_action_financial_assessment
  <2>2. ~row.submitted /\ UNCHANGED fetching
    BY <1>2 DEF upload_action_financial_assessment, Row, editable, row
  <2> DEFINE r == [a EXCEPT !.action = t]
  <2>3. r \in AssessmentRow /\ t # 0
    BY <1>0, TextIsVersion, AssessmentColumn
  <2>4. /\ r.submitted = a.submitted /\ r.selected = a.selected
        /\ r.pdf = a.pdf /\ r.comment = a.comment /\ r.action = t
    BY <1>0 DEF AssessmentRow
  <2> HIDE DEF r
  <2>5. SafeWrite(v, r, c)
    BY <1>0, <2>1, <2>2, <2>3, <2>4, SaveRowStep DEF Complete, r
  <2> QED BY <2>5
<1>3. CASE assessment_contracts_sync(v)
  <2>1. PICK paid \in SUBSET Contracts :
           Write(v, [a EXCEPT !.synced = TRUE],
                   [x \in Contracts |->
                      [NewContract EXCEPT !.requested = x \in paid /\ days[x] = "above"]])
    BY <1>3 DEF assessment_contracts_sync
  <2>2. ~a.synced /\ UNCHANGED fetching
    BY <1>3 DEF assessment_contracts_sync
  <2> DEFINE r == [a EXCEPT !.synced = TRUE]
             k == [x \in Contracts |->
                      [NewContract EXCEPT !.requested = x \in paid /\ days[x] = "above"]]
  <2>3. r \in AssessmentRow
    BY <1>0, AssessmentColumn
  <2>4. r.submitted = a.submitted /\ r.pdf = a.pdf
    BY <1>0 DEF AssessmentRow
  <2>5. k \in [Contracts -> ContractRow]
    BY DEF NewContract, ContractRow
  <2> HIDE DEF r, k
  <2>6. SafeWrite(v, r, k)
    BY <1>0, <2>1, <2>2, <2>3, <2>4, <2>5 DEF SafeWrite, Complete, Kept, r, k
  <2> QED BY <2>6
<1>4. CASE toggle_requested(v)
  <2>1. PICK x \in Contracts :
           /\ Write(v, a, [c EXCEPT ![x] = [c[x] EXCEPT !.requested = ~@]])
           /\ UNCHANGED fetching
    BY <1>4 DEF toggle_requested, SaveContract
  <2>2. ~row.selected
    BY <1>4 DEF toggle_requested, Row, row
  <2> DEFINE k == [c EXCEPT ![x] = [c[x] EXCEPT !.requested = ~@]]
  <2>3. c[x] \in ContractRow /\ [c[x] EXCEPT !.requested = ~@] \in ContractRow
    BY <1>0 DEF ContractRow
  <2>4. k \in [Contracts -> ContractRow]
    BY <1>0, <2>3
  <2> HIDE DEF k
  <2>5. SafeWrite(v, a, k)
    BY <1>0, <2>1, <2>2, <2>4 DEF SafeWrite, Kept, k
  <2> QED BY <2>5
<1>5. CASE justify_request(v)
  <2>1. PICK x \in Contracts :
           /\ Write(v, a, [c EXCEPT ![x] = [c[x] EXCEPT !.justified = TRUE]])
           /\ UNCHANGED fetching
    BY <1>5 DEF justify_request, SaveContract
  <2>2. ~row.selected
    BY <1>5 DEF justify_request, Row, row
  <2> DEFINE k == [c EXCEPT ![x] = [c[x] EXCEPT !.justified = TRUE]]
  <2>3. c[x] \in ContractRow /\ [c[x] EXCEPT !.justified = TRUE] \in ContractRow
    BY <1>0 DEF ContractRow
  <2>4. k \in [Contracts -> ContractRow]
    BY <1>0, <2>3
  <2> HIDE DEF k
  <2>5. SafeWrite(v, a, k)
    BY <1>0, <2>1, <2>2, <2>4 DEF SafeWrite, Kept, k
  <2> QED BY <2>5
<1>6. CASE select_contracts(v)
  <2>1. PICK b \in BOOLEAN : Write(v, [a EXCEPT !.selected = b], c)
    BY <1>6 DEF select_contracts, SaveRow
  <2>2. ~row.submitted /\ UNCHANGED fetching
    BY <1>6 DEF select_contracts, SaveRow, Row, row
  <2> DEFINE r == [a EXCEPT !.selected = b]
  <2>3. r \in AssessmentRow
    BY <1>0, AssessmentColumn
  <2>4. /\ r.submitted = a.submitted /\ r.pdf = a.pdf
        /\ r.comment = a.comment /\ r.action = a.action
    BY <1>0 DEF AssessmentRow
  <2>5. r.submitted => r.selected
    BY <2>1 DEF Write, Constraints
  <2> HIDE DEF r
  <2>6. SafeWrite(v, r, c)
    BY <1>0, <2>1, <2>2, <2>3, <2>4, <2>5, SaveRowStep DEF Complete, r
  <2> QED BY <2>6
<1>7. CASE submit(v)
  <2> DEFINE r == [row EXCEPT !.submitted = TRUE]
             k == [x \in Contracts |->
                     IF c[x].refused THEN c[x]
                     ELSE [c[x] EXCEPT !.granted = c[x].requested]]
  <2>1. Write(v, r, k) /\ UNCHANGED fetching
    BY <1>7 DEF submit, Row, row
  <2>2. state_of(row) = "NEW" /\ missing_actions_to_submit(row)
    BY <1>7 DEF submit, Row, row
  <2>3. ~row.submitted
    BY <1>0, <2>2 DEF state_of, AssessmentRow
  <2>4. r \in AssessmentRow
    BY <1>0, AssessmentColumn
  <2>5. r.selected = row.selected /\ r.comment = row.comment /\ r.action = row.action /\ r.pdf = row.pdf
    BY <1>0 DEF AssessmentRow
  <2>6. k \in [Contracts -> ContractRow]
    BY <1>0 DEF ContractRow
  <2> HIDE DEF r, k
  <2>7. SafeWrite(v, r, k)
    BY <1>0, <2>1, <2>2, <2>3, <2>4, <2>5, <2>6 DEF SafeWrite, Complete, Kept, missing_actions_to_submit
  <2> QED BY <2>7
<1> QED BY <1>1, <1>2, <1>3, <1>4, <1>5, <1>6, <1>7

(* The writes of the institutions are safe.                                *)
LEMMA InstitutionWrites ==
    ASSUME GeiqInv, NEW v \in Users, seen[v] # None, InstitutionStep(v)
    PROVE  \E r, k : SafeWrite(v, r, k)
<1> DEFINE row == seen[v].row
<1>0. /\ a \in AssessmentRow /\ Complete(a)
      /\ c \in [Contracts -> ContractRow] /\ row \in AssessmentRow /\ Complete(row)
      /\ mode = "serial" =>
            /\ row.grants = a.grants /\ (a.pdf = 0 => row.pdf = 0)
            /\ (a.submitted => row = a)
      /\ a.decision => a.submitted /\ a.grants
  BY Reading, DecisionIsSubmitted DEF GeiqInv, GeiqTypes
<1> HIDE DEF row
<1>1. ASSUME NEW x \in Contracts, NEW new \in ContractRow, UNCHANGED fetching,
             Write(v, a, [c EXCEPT ![x] = new]),
             new.requested = c[x].requested, new.justified = c[x].justified,
             grants_open(row)
      PROVE  SafeWrite(v, a, [c EXCEPT ![x] = new])
  <2> DEFINE k == [c EXCEPT ![x] = new]
  <2>1. k \in [Contracts -> ContractRow] BY <1>0
  <2>2. \A y \in Contracts : k[y].requested = c[y].requested /\ k[y].justified = c[y].justified
    BY <1>0, <1>1
  <2> HIDE DEF k
  <2>3. SafeWrite(v, a, k)
    BY <1>0, <1>1, <2>1, <2>2 DEF SafeWrite, Kept, grants_open, k
  <2> QED BY <2>3 DEF k
<1>2. CASE toggle_granted(v)
  <2>1. PICK x \in Contracts :
           \/ SaveContract(v, x, [c[x] EXCEPT !.granted = FALSE])
           \/ SaveContract(v, x, [c[x] EXCEPT !.granted = TRUE, !.refused = FALSE])
    BY <1>2 DEF toggle_granted
  <2>2. grants_open(row)
    BY <1>2 DEF toggle_granted, Row, row
  <2>3. c[x] \in ContractRow BY <1>0
  <2>4. CASE SaveContract(v, x, [c[x] EXCEPT !.granted = FALSE])
    <3> DEFINE new == [c[x] EXCEPT !.granted = FALSE]
    <3>1. /\ new \in ContractRow /\ new.requested = c[x].requested
          /\ new.justified = c[x].justified
      BY <2>3 DEF ContractRow
    <3>2. Write(v, a, [c EXCEPT ![x] = new]) /\ UNCHANGED fetching
      BY <2>4 DEF SaveContract
    <3> HIDE DEF new
    <3> QED BY <1>1, <2>2, <3>1, <3>2
  <2>5. CASE SaveContract(v, x, [c[x] EXCEPT !.granted = TRUE, !.refused = FALSE])
    <3> DEFINE new == [c[x] EXCEPT !.granted = TRUE, !.refused = FALSE]
    <3>1. /\ new \in ContractRow /\ new.requested = c[x].requested
          /\ new.justified = c[x].justified
      BY <2>3 DEF ContractRow
    <3>2. Write(v, a, [c EXCEPT ![x] = new]) /\ UNCHANGED fetching
      BY <2>5 DEF SaveContract
    <3> HIDE DEF new
    <3> QED BY <1>1, <2>2, <3>1, <3>2
  <2> QED BY <2>1, <2>4, <2>5
<1>3. CASE justify_refusal(v)
  <2>1. PICK x \in Contracts : SaveContract(v, x, [c[x] EXCEPT !.refused = TRUE])
    BY <1>3 DEF justify_refusal
  <2>2. grants_open(row)
    BY <1>3 DEF justify_refusal, Row, row
  <2>3. c[x] \in ContractRow BY <1>0
  <2> DEFINE new == [c[x] EXCEPT !.refused = TRUE]
  <2>4. /\ new \in ContractRow /\ new.requested = c[x].requested
        /\ new.justified = c[x].justified
    BY <2>3 DEF ContractRow
  <2>5. Write(v, a, [c EXCEPT ![x] = new]) /\ UNCHANGED fetching
    BY <2>1 DEF SaveContract
  <2> HIDE DEF new
  <2> QED BY <1>1, <2>2, <2>4, <2>5
<1>4. CASE select_grants(v)
  <2>1. CASE SaveRow(v, [a EXCEPT !.grants = TRUE])
    <3> DEFINE r == [a EXCEPT !.grants = TRUE]
    <3>1. /\ r \in AssessmentRow /\ r.submitted = a.submitted /\ r.selected = a.selected
          /\ r.comment = a.comment /\ r.action = a.action /\ r.pdf = a.pdf
      BY <1>0 DEF AssessmentRow
    <3>2. Write(v, r, c) /\ UNCHANGED fetching BY <2>1 DEF SaveRow
    <3> HIDE DEF r
    <3>3. SafeWrite(v, r, c) BY <1>0, <3>1, <3>2, SaveRowStep DEF Complete
    <3> QED BY <3>3
  <2>2. CASE SaveRow(v, [a EXCEPT !.grants = FALSE, !.decision = FALSE])
    <3> DEFINE r == [a EXCEPT !.grants = FALSE, !.decision = FALSE]
    <3>1. /\ r \in AssessmentRow /\ r.submitted = a.submitted /\ r.selected = a.selected
          /\ r.comment = a.comment /\ r.action = a.action /\ r.pdf = a.pdf
      BY <1>0 DEF AssessmentRow
    <3>2. Write(v, r, c) /\ UNCHANGED fetching BY <2>2 DEF SaveRow
    <3> HIDE DEF r
    <3>3. SafeWrite(v, r, c) BY <1>0, <3>1, <3>2, SaveRowStep DEF Complete
    <3> QED BY <3>3
  <2> QED BY <1>4, <2>1, <2>2 DEF select_grants
<1>5. ASSUME NEW r \in AssessmentRow, Write(v, r, c), UNCHANGED fetching,
             r.submitted = row.submitted, r.selected = row.selected,
             r.comment = row.comment, r.action = row.action, r.pdf = row.pdf
      PROVE  \E s, k : SafeWrite(v, s, k)
  <2>1. SafeWrite(v, r, c)
    BY <1>0, <1>5, SaveRowStep DEF Complete
  <2> QED BY <2>1
<1>6. CASE assessment_review(v)
  <2> DEFINE r == [row EXCEPT !.decision = TRUE]
  <2>1. /\ r \in AssessmentRow /\ r.submitted = row.submitted /\ r.selected = row.selected
        /\ r.comment = row.comment /\ r.action = row.action /\ r.pdf = row.pdf
    BY <1>0 DEF AssessmentRow
  <2>2. Write(v, r, c) /\ UNCHANGED fetching
    BY <1>6 DEF assessment_review, SaveRow, Row, row
  <2> HIDE DEF r
  <2> QED BY <1>5, <2>1, <2>2
<1>7. CASE review(v)
  <2> DEFINE r == [row EXCEPT !.reviewed = TRUE]
  <2>1. /\ r \in AssessmentRow /\ r.submitted = row.submitted /\ r.selected = row.selected
        /\ r.comment = row.comment /\ r.action = row.action /\ r.pdf = row.pdf
    BY <1>0 DEF AssessmentRow
  <2>2. Write(v, r, c) /\ UNCHANGED fetching
    BY <1>7 DEF review, SaveRow, Row, row
  <2> HIDE DEF r
  <2> QED BY <1>5, <2>1, <2>2
<1>8. CASE final_review(v)
  <2> DEFINE r == [row EXCEPT !.reviewed = TRUE, !.final = TRUE]
  <2>1. /\ r \in AssessmentRow /\ r.submitted = row.submitted /\ r.selected = row.selected
        /\ r.comment = row.comment /\ r.action = row.action /\ r.pdf = row.pdf
    BY <1>0 DEF AssessmentRow
  <2>2. Write(v, r, c) /\ UNCHANGED fetching
    BY <1>8 DEF final_review, SaveRow, Row, row
  <2> HIDE DEF r
  <2> QED BY <1>5, <2>1, <2>2
<1>9. CASE ask_for_institution_fix(v)
  <2> DEFINE r == [row EXCEPT !.reviewed = FALSE]
  <2>1. /\ r \in AssessmentRow /\ r.submitted = row.submitted /\ r.selected = row.selected
        /\ r.comment = row.comment /\ r.action = row.action /\ r.pdf = row.pdf
    BY <1>0 DEF AssessmentRow
  <2>2. Write(v, r, c) /\ UNCHANGED fetching
    BY <1>9 DEF ask_for_institution_fix, Row, row
  <2> HIDE DEF r
  <2> QED BY <1>5, <2>1, <2>2
<1>10. CASE ask_for_geiq_fix(v)
  <2> DEFINE r == [row EXCEPT !.submitted = FALSE, !.reviewed = FALSE, !.decision = FALSE,
                              !.grants = FALSE, !.final = FALSE]
             k == [x \in Contracts |-> [c[x] EXCEPT !.granted = FALSE]]
  <2>1. r \in AssessmentRow /\ ~r.submitted /\ ~r.decision /\ r.pdf = row.pdf
    BY <1>0 DEF AssessmentRow
  <2>2. k \in [Contracts -> ContractRow]
    BY <1>0 DEF ContractRow
  <2>3. Write(v, r, k) /\ UNCHANGED fetching
    BY <1>10 DEF ask_for_geiq_fix, Row, row
  <2> HIDE DEF r, k
  <2>4. SafeWrite(v, r, k)
    BY <1>0, <2>1, <2>2, <2>3 DEF SafeWrite, Complete, Kept
  <2> QED BY <2>4
<1> QED BY <1>2, <1>3, <1>4, <1>6, <1>7, <1>8, <1>9, <1>10 DEF InstitutionStep

(* A request that reads the assessment: when they come one at a time, it   *)
(* is the only one.                                                        *)
LEMMA ReadStep ==
    ASSUME GeiqInv, NEW v \in Users, Read(v)
    PROVE  GeiqInv'
<1> DEFINE new == [at |-> "read", row |-> a, c |-> c]
           readers == {x \in Users : seen[x] # None}
<1>0. /\ GeiqTypes /\ ReadIsComplete /\ OneReader /\ FetchedOnce /\ ReadIsCurrent
      /\ Constraints(a) /\ Complete(a)
      /\ seen' = [seen EXCEPT ![v] = new]
      /\ UNCHANGED <<mode, made, a, c, task, lock>>
  BY DEF GeiqInv, Read, creation, fetching
<1>0a. mode = "serial" => Cardinality(readers) < 1
  BY DEF Read
<1>1. new \in ReadRow /\ new.row = a /\ new.c = c
  BY <1>0 DEF GeiqTypes, ReadRow
<1>2. mode = "serial" => readers = {}
  <2> HIDE DEF new
  <2>1. IsFiniteSet(Institutions)
    <3>1. IsFiniteSet({}) BY FS_EmptySet
    <3>2. IsFiniteSet({} \cup {"ddets"}) BY <3>1, FS_AddElement
    <3>3. IsFiniteSet(({} \cup {"ddets"}) \cup {"dreets"}) BY <3>2, FS_AddElement
    <3>4. ({} \cup {"ddets"}) \cup {"dreets"} = Institutions BY DEF Institutions
    <3> QED BY <3>3, <3>4
  <2>2. IsFiniteSet(Users)
    <3>1. IsFiniteSet(Tabs) BY GeiqAssumption
    <3>2. IsFiniteSet(Tabs \cup Institutions) BY <2>1, <3>1, FS_Union
    <3> QED BY <3>2 DEF Users
  <2>3. IsFiniteSet(readers)
    BY <2>2, FS_Subset
  <2>4. Cardinality(readers) \in Nat /\ (Cardinality(readers) = 0 <=> readers = {})
    BY <2>3, FS_CardinalityType, FS_EmptySet
  <2> HIDE DEF readers
  <2> QED BY <1>0a, <2>4
<1>3. mode = "serial" => \A x \in Users : seen[x] = None
  BY <1>2
<1> HIDE DEF new, readers
<1>4. /\ DOMAIN seen' = Users /\ seen'[v] = new
      /\ \A x \in Users : x # v => seen'[x] = seen[x]
  BY <1>0 DEF GeiqTypes
<1>5. GeiqTypes'
  BY <1>0, <1>1, <1>4 DEF GeiqTypes, Users
<1>6. ReadIsComplete' /\ OneReader' /\ FetchedOnce'
  BY <1>0, <1>1, <1>3, <1>4 DEF ReadIsComplete, OneReader, FetchedOnce, Users
<1>7. ReadIsCurrent'
  BY <1>0, <1>1, <1>3, <1>4 DEF ReadIsCurrent, Users
<1> QED BY <1>0, <1>5, <1>6, <1>7 DEF GeiqInv

(* A request that ends without writing the assessment.                     *)
LEMMA EndStep ==
    ASSUME GeiqInv, NEW v \in Users, seen' = [seen EXCEPT ![v] = None],
           UNCHANGED <<mode, made, a, c, task, lock>>
    PROVE  GeiqInv'
<1>0. /\ GeiqTypes /\ ReadIsComplete /\ OneReader /\ FetchedOnce /\ ReadIsCurrent
      /\ Constraints(a) /\ Complete(a)
  BY DEF GeiqInv
<1>1. /\ DOMAIN seen' = Users /\ seen'[v] = None
      /\ \A x \in Users : x # v => seen'[x] = seen[x]
  BY <1>0 DEF GeiqTypes
<1>2. GeiqTypes'
  BY <1>0, <1>1 DEF GeiqTypes, Users
<1>3. ReadIsComplete' /\ OneReader' /\ FetchedOnce' /\ ReadIsCurrent'
  BY <1>0, <1>1 DEF ReadIsComplete, OneReader, FetchedOnce, ReadIsCurrent, Users
<1> QED BY <1>0, <1>2, <1>3 DEF GeiqInv

(* A step on the creation form, on the queue or on the lock that expires.  *)
LEMMA ElsewhereStep ==
    ASSUME GeiqInv, made' \in [Antennas -> {0, 1}],
           UNCHANGED <<mode, a, c, seen, task>>,
           mode = "serial" => UNCHANGED lock
    PROVE  GeiqInv'
  BY DEF GeiqInv, GeiqTypes, ReadIsComplete, OneReader, FetchedOnce, ReadIsCurrent, Complete,
     Constraints, Users

(* An assessment is created when none of its antennas is covered.          *)
LEMMA CreateStep ==
    ASSUME GeiqInv, NEW t \in Tabs, create_assessment(t)
    PROVE  GeiqInv'
<1>1. made \in [Antennas -> {0, 1}]
  BY DEF GeiqInv, GeiqTypes
<1>2. made' \in [Antennas -> {0, 1}]
  <2>1. CASE conflicting_antennas(t)
    <3>1. made' = [x \in Antennas |-> IF x \in form[t].choice THEN made[x] + 1 ELSE made[x]]
      BY <2>1 DEF create_assessment
    <3>2. \A x \in Antennas : x \in form[t].choice => made[x] = 0
      BY <2>1 DEF conflicting_antennas
    <3> QED BY <1>1, <3>1, <3>2
  <2>2. CASE ~conflicting_antennas(t)
    BY <1>1, <2>2 DEF create_assessment
  <2> QED BY <2>1, <2>2
<1> QED BY <1>2, ElsewhereStep DEF create_assessment, fetching

(* A worker takes the task, and the lock when it is free.                  *)
LEMMA TaskStarts ==
    ASSUME GeiqInv, NEW w \in Workers, StartTask(w)
    PROVE  GeiqInv'
<1>0. /\ GeiqTypes /\ ReadIsComplete /\ OneReader /\ FetchedOnce /\ ReadIsCurrent
      /\ Constraints(a) /\ Complete(a)
      /\ UNCHANGED <<mode, made, a, c, seen>> /\ "free" \notin Workers
  BY GeiqAssumption DEF GeiqInv, StartTask, creation
<1>1. CASE acquire(w) /\ a.pdf = 0
  <2>1. task' = [task EXCEPT ![w] = "fetching"] /\ lock' = w
    BY <1>1 DEF StartTask
  <2>2. GeiqTypes'
    BY <1>0, <2>1 DEF GeiqTypes, Users
  <2>3. FetchedOnce'
    BY <1>0, <1>1, <2>1 DEF FetchedOnce, GeiqTypes, acquire, Free
  <2>4. ReadIsComplete' /\ OneReader' /\ ReadIsCurrent'
    BY <1>0 DEF ReadIsComplete, OneReader, ReadIsCurrent, Users
  <2> QED BY <1>0, <2>2, <2>3, <2>4 DEF GeiqInv
<1>2. CASE ~(acquire(w) /\ a.pdf = 0)
  <2>1. UNCHANGED <<task, lock>>
    BY <1>2 DEF StartTask
  <2> QED BY <1>0, <2>1, ElsewhereStep DEF GeiqTypes
<1> QED BY <1>1, <1>2

(* A worker ends its task, with or without a PDF: there was none, so the   *)
(* assessment that changes is not submitted.                               *)
LEMMA TaskEnds ==
    ASSUME GeiqInv, NEW w \in Workers, PdfFetched(w) \/ PdfFails(w)
    PROVE  /\ GeiqInv' /\ UNCHANGED c
           /\ mode = "serial" => UNCHANGED a \/ ~a.submitted
<1>0. /\ GeiqTypes /\ ReadIsComplete /\ OneReader /\ FetchedOnce /\ ReadIsCurrent
      /\ Constraints(a) /\ Complete(a)
      /\ UNCHANGED <<mode, made, c, seen>> /\ task[w] = "fetching"
      /\ task' = [task EXCEPT ![w] = "idle"]
      /\ lock' = IF lock = w THEN Free ELSE lock
  BY DEF GeiqInv, PdfFetched, PdfFails, Release, creation
<1>1. mode = "serial" => lock = w /\ a.pdf = 0 /\ ~a.submitted
  BY <1>0 DEF FetchedOnce, Complete
<1>2. mode = "serial" => \A x \in Workers : task'[x] # "fetching"
  BY <1>0, <1>1 DEF FetchedOnce, GeiqTypes
<1>3. /\ a' \in AssessmentRow
      /\ a' = a \/ \E t \in Texts : a' = [a EXCEPT !.pdf = t]
  <2>1. a \in AssessmentRow BY <1>0 DEF GeiqTypes
  <2>2. a' = a \/ \E t \in Texts : a' = [a EXCEPT !.pdf = t]
    BY DEF PdfFetched, PdfFails
  <2> QED BY <2>1, <2>2, TextIsVersion, AssessmentColumn
<1>4. /\ a'.synced = a.synced /\ a'.selected = a.selected
      /\ a'.submitted = a.submitted /\ a'.grants = a.grants
      /\ a'.decision = a.decision /\ a'.reviewed = a.reviewed
      /\ a'.final = a.final /\ a'.action = a.action
      /\ a'.comment = a.comment
      /\ a' = a \/ a'.pdf # 0
  BY <1>0, <1>3, TextIsVersion DEF GeiqTypes, AssessmentRow
<1>5. Constraints(a)' /\ Complete(a)'
  BY <1>0, <1>4 DEF Constraints, Complete
<1>6. GeiqTypes'
  BY <1>0, <1>3 DEF GeiqTypes, Users
<1>7. ReadIsComplete' /\ OneReader'
  BY <1>0 DEF ReadIsComplete, OneReader, Users
<1>8. FetchedOnce'
  BY <1>0, <1>2 DEF FetchedOnce
<1>9. ReadIsCurrent'
  <2>1. mode = "serial" => a = [a EXCEPT !.pdf = 0]
    BY <1>0, <1>1 DEF GeiqTypes, AssessmentRow
  <2>2. [a' EXCEPT !.pdf = 0] = [a EXCEPT !.pdf = 0]
    BY <1>0, <1>3 DEF GeiqTypes, AssessmentRow
  <2>3. ASSUME mode = "serial", NEW v \in Users, seen[v] # None
        PROVE  seen[v].row.pdf = 0 /\ seen[v].row = a /\ seen[v].c = c
    BY <1>0, <1>1, <2>1, <2>3 DEF ReadIsCurrent
  <2> QED BY <1>0, <2>1, <2>2, <2>3 DEF ReadIsCurrent, Users
<1> QED BY <1>0, <1>1, <1>5, <1>6, <1>7, <1>8, <1>9 DEF GeiqInv

(* What a step leaves as it was.                                           *)
GeiqKept ==
    mode = "serial" =>
       /\ a.submitted /\ a'.submitted =>
             /\ <<a.comment, a.action, a.pdf>>' =
                   <<a.comment, a.action, a.pdf>>
             /\ Requested' = Requested
       /\ a.decision /\ a'.decision => Granted' = Granted

(* Every step of the life of an assessment keeps the invariant, and what   *)
(* is submitted or decided.                                                *)
LEMMA GeiqNextStep ==
    ASSUME GeiqInv, [GeiqNext]_geiqVars
    PROVE  GeiqInv' /\ GeiqKept
<1>1. ASSUME UNCHANGED <<a, c>> PROVE GeiqKept
  BY <1>1 DEF GeiqKept, Requested, Granted
<1>2. ASSUME NEW v \in Users, seen[v] # None, \E r, k : SafeWrite(v, r, k)
      PROVE  GeiqInv' /\ GeiqKept
  <2>1. PICK r, k : SafeWrite(v, r, k) BY <1>2
  <2>2. GeiqInv' BY <1>2, <2>1, WriteStep
  <2>3. a' = r /\ c' = k /\ Kept(r, k)
    BY <2>1 DEF SafeWrite, Write
  <2>4. GeiqKept BY <2>3 DEF GeiqKept, Kept, Requested, Granted
  <2> QED BY <2>2, <2>4
<1>3. CASE \E t \in Tabs : ShowForm(t)
  <2>1. UNCHANGED <<mode, made, a, c, seen, task, lock>>
    BY <1>3 DEF ShowForm, fetching
  <2> QED BY <1>1, <2>1, ElsewhereStep DEF GeiqInv, GeiqTypes
<1>4. CASE \E t \in Tabs : create_assessment(t)
  <2>1. UNCHANGED <<a, c>> BY <1>4 DEF create_assessment
  <2> QED BY <1>1, <1>4, <2>1, CreateStep
<1>5. CASE \E v \in Users : Read(v)
  <2>1. UNCHANGED <<a, c>> BY <1>5 DEF Read
  <2> QED BY <1>1, <1>5, <2>1, ReadStep
<1>6. CASE \E v \in Users : Refused(v) \/ assessment_sync_file(v)
  <2>1. PICK v \in Users : /\ seen' = [seen EXCEPT ![v] = None]
                             /\ UNCHANGED <<mode, made, a, c, task, lock>>
    BY <1>6 DEF Refused, assessment_sync_file, creation, fetching
  <2> QED BY <1>1, <2>1, EndStep
<1>7. ASSUME NEW v \in Users, GeiqStep(v), ~assessment_sync_file(v)
      PROVE  GeiqInv' /\ GeiqKept
  <2>1. /\ \/ assessment_comment(v) \/ upload_action_financial_assessment(v)
           \/ assessment_contracts_sync(v) \/ toggle_requested(v) \/ justify_request(v)
           \/ select_contracts(v) \/ submit(v)
    BY <1>7 DEF GeiqStep
  <2>2. seen[v] # None
    BY <2>1 DEF assessment_comment, upload_action_financial_assessment, assessment_contracts_sync,
       toggle_requested, justify_request, select_contracts, submit
  <2> QED BY <1>2, <2>1, <2>2, GeiqWrites
<1>8. ASSUME NEW v \in Users, InstitutionStep(v) PROVE GeiqInv' /\ GeiqKept
  <2>1. seen[v] # None
    BY <1>8 DEF InstitutionStep, toggle_granted, justify_refusal, select_grants, assessment_review,
       review, final_review, ask_for_institution_fix, ask_for_geiq_fix
  <2> QED BY <1>2, <1>8, <2>1, InstitutionWrites
<1>9. CASE \E w \in Workers : StartTask(w)
  <2>1. UNCHANGED <<a, c>> BY <1>9 DEF StartTask
  <2> QED BY <1>1, <1>9, <2>1, TaskStarts
<1>10. CASE \E w \in Workers : PdfFetched(w) \/ PdfFails(w)
  <2>1. /\ GeiqInv' /\ UNCHANGED c
        /\ mode = "serial" => UNCHANGED a \/ ~a.submitted
    BY <1>10, TaskEnds
  <2>2. GeiqKept
    BY <2>1, DecisionIsSubmitted DEF GeiqKept, Requested, Granted
  <2> QED BY <2>1, <2>2
<1>11. CASE LockExpires
  <2>1. UNCHANGED <<mode, made, a, c, seen, task>> /\ mode # "serial"
    BY <1>11 DEF LockExpires, creation
  <2> QED BY <1>1, <2>1, ElsewhereStep DEF GeiqInv, GeiqTypes
<1>12. CASE UNCHANGED geiqVars
  <2>1. UNCHANGED <<mode, made, a, c, seen, task, lock>>
    BY <1>12 DEF geiqVars
  <2> QED BY <1>1, <2>1, ElsewhereStep DEF GeiqInv, GeiqTypes
<1> QED BY <1>3, <1>4, <1>5, <1>6, <1>7, <1>8, <1>9, <1>10, <1>11, <1>12 DEF GeiqNext

(* Every behaviour keeps the inductive invariant, in the three modes.      *)
THEOREM GeiqInvariant == GeiqSpec => []GeiqInv
<1>1. GeiqInit => GeiqInv
  <2> SUFFICES ASSUME GeiqInit PROVE GeiqInv OBVIOUS
  <2>1. /\ made = [x \in Antennas |-> 0] /\ a = NewAssessment
        /\ c = [k \in Contracts |-> NewContract]
        /\ seen = [v \in Users |-> None] /\ task = [w \in Workers |-> "idle"]
    BY DEF GeiqInit
  <2>2. NewAssessment \in AssessmentRow /\ NewContract \in ContractRow
    BY DEF NewAssessment, NewContract, AssessmentRow, ContractRow
  <2>3. GeiqTypes
    BY <2>1, <2>2 DEF GeiqTypes
  <2>4. Constraints(a) /\ Complete(a)
    BY <2>1 DEF Constraints, Complete, NewAssessment
  <2>5. ReadIsComplete /\ OneReader /\ FetchedOnce /\ ReadIsCurrent
    BY <2>1 DEF ReadIsComplete, OneReader, FetchedOnce, ReadIsCurrent
  <2> QED BY <2>3, <2>4, <2>5 DEF GeiqInv
<1>2. GeiqInv /\ [GeiqNext]_geiqVars => GeiqInv'
  BY GeiqNextStep
<1> QED BY <1>1, <1>2, PTL DEF GeiqSpec

(* Two assessments of a campaign never cover the same antenna.             *)
THEOREM AntennaCoveredOnce == GeiqSpec => []OneAssessmentPerAntenna
<1>1. GeiqInv => OneAssessmentPerAntenna
  BY DEF GeiqInv, GeiqTypes, OneAssessmentPerAntenna
<1> QED BY <1>1, GeiqInvariant, PTL

(* A submitted assessment is complete, whatever row is saved over it by a  *)
(* request that read it before.                                            *)
THEOREM SubmissionIsComplete == GeiqSpec => []SubmittedIsComplete
<1>1. GeiqInv => SubmittedIsComplete
  BY DEF GeiqInv, Complete, SubmittedIsComplete
<1> QED BY <1>1, GeiqInvariant, PTL

(* When requests come one at a time, what was submitted does not change    *)
(* until it is sent back, and a decision is withdrawn before its grants    *)
(* change.                                                                 *)
THEOREM SubmissionIsFrozen == GeiqSpec => SubmittedIsFrozen
<1>1. GeiqInv /\ [GeiqNext]_geiqVars => [GeiqKept]_geiqVars
  BY GeiqNextStep
<1> QED BY <1>1, GeiqInvariant, PTL DEF GeiqSpec, SubmittedIsFrozen, GeiqKept
=============================================================================
