------------------------ MODULE EmployeeRecordProofs ------------------------
(***************************************************************************)
(* The code of an employee record is the answer to its last file, a record *)
(* that waits has an answer to come, and in a calm behaviour the ASP ends  *)
(* with the dates of the PASS: for every number of files and of changes of *)
(* dates.                                                                  *)
(***************************************************************************)
EXTENDS EmployeeRecord, SequenceTheorems, TLAPS

Note == [st: NotificationStatus, file: Files \cup {0}]
Message == [kind: {"C", "M"}, file: Files, date: Dates]
Feedback == [kind: {"C", "M"}, file: Files, code: Codes]
Row == [st: Status \cup {"none"}, code: Codes \cup {"none"}, file: Files \cup {0}, sent: BOOLEAN]

(* A name is given once, and the ASP reads the files in the order of their *)
(* names: those it has answered come before those it has not.              *)
Queue ==
    /\ \A i \in DOMAIN inbox : inbox[i].file <= files /\ answers[inbox[i].file] = "none"
    /\ \A i, j \in DOMAIN inbox : i < j => inbox[i].file < inbox[j].file
    /\ \A f \in feedback : /\ f.file <= files
                           /\ \A i \in DOMAIN inbox : f.file < inbox[i].file
    /\ \A f, g \in feedback : f.file = g.file => f = g
    /\ \A f \in feedback : f.kind = "C" => answers[f.file] = f.code
    /\ \A f \in feedback : f.code = "3436" => asp.known
    /\ \A n \in Files : n > files => answers[n] = "none"
    /\ er.file <= files

(* A code is the answer to a file.                                         *)
CodeOfFile == er.code # "none" => er.file \in Files /\ answers[er.file] = er.code

(* The two uploads run one after the other, and the file one of them is    *)
(* about to mark is the last one and waits for the ASP.                    *)
InInbox(k, n, d) ==
    \E i \in DOMAIN inbox : inbox[i].kind = k /\ inbox[i].file = n /\ inbox[i].date = d
OneUpload ==
    /\ up.step = "idle" \/ nup.step = "idle"
    /\ up.step = "mark" => InInbox("C", files, up.date)
    /\ nup.step = "mark" => InInbox("M", files, nup.date)

(* In a calm behaviour what is serialized are the dates of the PASS, and   *)
(* what the ASP knows and will read never gets older.                      *)
CalmDates ==
    calm => /\ up.step # "idle" => up.date = date
            /\ nup.step # "idle" => nup.date = date
            /\ periods \/ date = 0
            /\ asp.date <= date
            /\ \A i \in DOMAIN inbox : asp.date <= inbox[i].date /\ inbox[i].date <= date
            /\ \A i, j \in DOMAIN inbox : i < j => inbox[i].date <= inbox[j].date

(* The ASP has the dates of the PASS, or a notification is still to bring  *)
(* them, or one is refused and says so.                                    *)
Told ==
    \/ asp.known /\ asp.date = date
    \/ \E i \in DOMAIN notes : notes[i].st \in {"NEW", "REJECTED"}
    \/ \E i \in DOMAIN notes : notes[i].st = "SENT" /\ InInbox("M", notes[i].file, date)
    \/ \E i \in DOMAIN notes, f \in feedback :
          /\ notes[i].st = "SENT"
          /\ f.kind = "M" /\ f.file = notes[i].file /\ f.code # "0000"

(* ... or, as long as the record waits, its own file is to bring them, or  *)
(* has been answered by something else than a success.                     *)
RecordTold ==
    calm => /\ er.st = "PROCESSED" => Told
            /\ er.st = "SENT" =>
                  \/ Told
                  \/ InInbox("C", er.file, date)
                  \/ \E f \in feedback : f.kind = "C" /\ f.file = er.file /\ f.code # "0000"

IInv == /\ TypeOK /\ Queue /\ CodeOfFile /\ OneUpload /\ SentIsAnswered
        /\ CalmDates /\ RecordTold

(***************************************************************************)
(* Numbers, sequences and rows.                                            *)
(***************************************************************************)
LEMMA Bounds ==
    ASSUME TypeOK
    PROVE  /\ files \in Nat /\ date \in Nat /\ asp.date \in Nat
           /\ \A n \in Files : n \in Nat /\ n # 0
           /\ \A d \in Dates : d \in Nat
           /\ FileLeft => files + 1 \in Files
           /\ date < MaxDates + Extra => date + 1 \in Dates
           /\ 0 \in Dates
<1>1. Extra \in 0..CalmExtra
  BY BoundsAssumption DEF Extra
<1>2. asp.date \in Dates /\ date \in Dates /\ files \in Files \cup {0}
  BY DEF TypeOK
<1> QED BY <1>1, <1>2, BoundsAssumption DEF Files, Dates, FileLeft

(* The members of a message, of an answer, of a row, of a notification.    *)
LEMMA Members ==
    /\ \A m \in Message : m.kind \in {"C", "M"} /\ m.file \in Files /\ m.date \in Dates
    /\ \A f \in Feedback : f.kind \in {"C", "M"} /\ f.file \in Files /\ f.code \in Codes
    /\ \A n \in Note : n.st \in NotificationStatus /\ n.file \in Files \cup {0}
    /\ \A r \in Row : /\ r.st \in Status \cup {"none"} /\ r.code \in Codes \cup {"none"}
                      /\ r.file \in Files \cup {0}
BY DEF Message, Feedback, Note, Row

LEMMA Typed ==
    ASSUME TypeOK
    PROVE  /\ er \in Row /\ notes \in Seq(Note) /\ inbox \in Seq(Message)
           /\ feedback \subseteq Feedback
           /\ DOMAIN notes = 1..Len(notes) /\ Len(notes) \in Nat
           /\ DOMAIN inbox = 1..Len(inbox) /\ Len(inbox) \in Nat
           /\ \A i \in DOMAIN notes : notes[i] \in Note
           /\ \A i \in DOMAIN inbox : inbox[i] \in Message
<1>1. er \in Row /\ notes \in Seq(Note) /\ inbox \in Seq(Message) /\ feedback \subseteq Feedback
  BY DEF TypeOK, Row, Note, Message, Feedback
<1> QED BY <1>1, LenProperties, ElementOfSeq

(* A message is put at the end ...                                         *)
LEMMA Appended ==
    ASSUME NEW S, NEW s \in Seq(S), NEW m \in S, NEW t, t = Append(s, m)
    PROVE  /\ t \in Seq(S) /\ DOMAIN t = 1..(Len(s) + 1) /\ DOMAIN s = 1..Len(s) /\ Len(s) \in Nat
           /\ DOMAIN s \subseteq DOMAIN t
           /\ \A i \in DOMAIN s : t[i] = s[i]
           /\ t[Len(s) + 1] = m
           /\ \A i \in DOMAIN t : i \in DOMAIN s \/ i = Len(s) + 1
<1>1. t \in Seq(S) /\ Len(t) = Len(s) + 1 /\ t[Len(s) + 1] = m
  BY AppendProperties
<1>2. \A i \in 1..Len(s) : t[i] = s[i]
  BY AppendProperties
<1>3. DOMAIN t = 1..Len(t) /\ DOMAIN s = 1..Len(s) /\ Len(s) \in Nat
  BY <1>1, LenProperties
<1> QED BY <1>1, <1>2, <1>3

(* ... and leaves at the head.                                             *)
LEMMA Tailed ==
    ASSUME NEW S, NEW s \in Seq(S), s # <<>>, NEW t, t = Tail(s)
    PROVE  /\ t \in Seq(S) /\ DOMAIN t = 1..(Len(s) - 1) /\ DOMAIN s = 1..Len(s) /\ Len(s) \in Nat
           /\ 1 \in DOMAIN s /\ Head(s) = s[1]
           /\ \A i \in DOMAIN t : i + 1 \in DOMAIN s /\ t[i] = s[i + 1] /\ i + 1 > 1
           /\ \A i \in DOMAIN s : i = 1 \/ (i - 1 \in DOMAIN t /\ t[i - 1] = s[i])
<1>1. t \in Seq(S) /\ Len(t) = Len(s) - 1
  BY HeadTailProperties
<1>2. \A i \in 1..Len(t) : t[i] = s[i + 1]
  BY HeadTailProperties
<1>3. DOMAIN t = 1..Len(t) /\ DOMAIN s = 1..Len(s) /\ Len(s) \in Nat
  BY <1>1, LenProperties
<1>4. Len(s) \in Nat \ {0}
  BY EmptySeq
<1>5. Head(s) = s[1]
  OBVIOUS
<1>6. \A i \in DOMAIN s : i = 1 \/ (i - 1 \in DOMAIN t /\ t[i - 1] = s[i])
  <2> SUFFICES ASSUME NEW i \in DOMAIN s, i # 1
               PROVE  i - 1 \in DOMAIN t /\ t[i - 1] = s[i]
    OBVIOUS
  <2>1. i - 1 \in 1..Len(t) /\ (i - 1) + 1 = i
    BY <1>1, <1>3
  <2> QED BY <2>1, <1>2, <1>3
<1> QED BY <1>1, <1>2, <1>3, <1>4, <1>5, <1>6

(* There is a notification to send afterwards.                             *)
LEMMA Upserted ==
    ASSUME NEW ns \in Seq(Note)
    PROVE  Upsert(ns) \in Seq(Note) /\ \E i \in DOMAIN Upsert(ns) : Upsert(ns)[i].st = "NEW"
<1>1. CASE \E i \in DOMAIN ns : ns[i].st = "NEW"
  BY <1>1 DEF Upsert
<1>2. CASE ~\E i \in DOMAIN ns : ns[i].st = "NEW"
  <2> DEFINE n == [st |-> "NEW", file |-> 0]
  <2>1. n \in Note /\ n.st = "NEW"
    BY DEF Note, NotificationStatus
  <2>2. Upsert(ns) = Append(ns, n)
    BY <1>2 DEF Upsert
  <2> HIDE DEF n
  <2>3. Append(ns, n) \in Seq(Note) /\ Len(ns) + 1 \in DOMAIN Append(ns, n)
    BY <2>1, Appended
  <2>4. Append(ns, n)[Len(ns) + 1] = n
    BY <2>1, AppendProperties
  <2> QED BY <2>1, <2>2, <2>3, <2>4
<1> QED BY <1>1, <1>2

(* What is in the inbox stays there.                                       *)
KeepsInbox == \A k, n, d : InInbox(k, n, d) => InInbox(k, n, d)'
LEMMA SameInbox ==
    ASSUME inbox' = inbox PROVE KeepsInbox
BY DEF KeepsInbox, InInbox

(***************************************************************************)
(* The employer, the support and the scheduler.                            *)
(***************************************************************************)
(* The record and its notifications change, not what was sent: it does not *)
(* begin to wait, and is only taken for processed with a notification.     *)
AtDesk ==
    /\ UNCHANGED world /\ date' = date /\ periods' = periods
    /\ er' \in Row /\ notes' \in Seq(Note)
    /\ missed' \in BOOLEAN /\ accepted' \in BOOLEAN /\ expired' \in BOOLEAN
    /\ er'.file \in {er.file, 0}
    /\ er'.code = "none" \/ (er'.code = er.code /\ er'.file = er.file)
    /\ er'.st = "SENT" => er' = er /\ notes' = notes
    /\ er'.st = "PROCESSED" => \/ er.st = "PROCESSED" /\ notes' = notes
                               \/ \E i \in DOMAIN notes' : notes'[i].st = "NEW"

LEMMA DeskStep ==
    ASSUME IInv, AtDesk PROVE IInv'
<1>0. TypeOK
  BY DEF IInv
<1>1. /\ UNCHANGED <<calm, up, nup, files, inbox, feedback, asp, answers, date, periods>>
      /\ er' \in Row /\ notes' \in Seq(Note)
      /\ missed' \in BOOLEAN /\ accepted' \in BOOLEAN /\ expired' \in BOOLEAN
  BY DEF AtDesk, world
<1>2. TypeOK'
  BY <1>0, <1>1 DEF TypeOK, Row, Note
<1>3. er'.file <= files
  BY <1>0, Bounds DEF AtDesk, IInv, Queue
<1>4. Queue'
  BY <1>1, <1>3 DEF IInv, Queue
<1>5. CodeOfFile'
  BY <1>1 DEF AtDesk, IInv, CodeOfFile
<1>6. OneUpload' /\ CalmDates'
  BY <1>1 DEF IInv, OneUpload, CalmDates, InInbox
<1>7. SentIsAnswered'
  BY <1>1 DEF AtDesk, IInv, SentIsAnswered
<1>8. notes' = notes => (Told => Told')
  BY <1>1 DEF Told, InInbox
<1>9. (\E i \in DOMAIN notes' : notes'[i].st = "NEW") => Told'
  BY DEF Told
<1>10. RecordTold'
  <2>1. CASE er'.st = "SENT"
    <3>1. er' = er /\ notes' = notes
      BY <2>1 DEF AtDesk
    <3> QED BY <3>1, <1>1, <1>8, <2>1 DEF IInv, RecordTold, InInbox
  <2>2. CASE er'.st # "SENT"
    BY <1>1, <1>8, <1>9, <2>2 DEF AtDesk, IInv, RecordTold
  <2> QED BY <2>1, <2>2
<1> QED BY <1>2, <1>4, <1>5, <1>6, <1>7, <1>10 DEF IInv

LEMMA Rows ==
    /\ Absent \in Row /\ Absent.st = "none" /\ Absent.code = "none" /\ Absent.file = 0
    /\ \A r \in Row, s \in Status :
          /\ [r EXCEPT !.st = s] \in Row /\ [r EXCEPT !.st = s].st = s
          /\ [r EXCEPT !.st = s].code = r.code /\ [r EXCEPT !.st = s].file = r.file
          /\ [r EXCEPT !.st = s].sent = r.sent
BY DEF Absent, Row

LEMMA Desk ==
    ASSUME IInv,
           \/ Create \/ Ready \/ Disable \/ Archive \/ Unarchive \/ Sanitize \/ Resend \/ Cancel
           \/ Expire
    PROVE  AtDesk
<1>0. /\ er \in Row /\ notes \in Seq(Note)
      /\ missed \in BOOLEAN /\ accepted \in BOOLEAN /\ expired \in BOOLEAN
  BY Typed DEF IInv, TypeOK
<1>1. UNCHANGED world /\ date' = date /\ periods' = periods
  BY DEF Create, Ready, Disable, Archive, Unarchive, Sanitize, Resend, Cancel, Expire
<1>2. <<>> \in Seq(Note)
  BY EmptySeq
<1>3. ASSUME NEW r \in Row, NEW s \in Status, s \notin {"SENT", "PROCESSED"},
             er' = [r EXCEPT !.st = s], r \in {er, Absent}, missed' = FALSE,
             notes' \in Seq(Note), accepted' \in BOOLEAN, expired' \in BOOLEAN
      PROVE  AtDesk
  <2>1. /\ er' \in Row /\ er'.st = s /\ er'.code = r.code /\ er'.file = r.file
    BY <1>3, Rows
  <2>2. er'.file \in {er.file, 0} /\ (er'.code = "none" \/ (er'.code = er.code /\ er'.file = er.file))
    BY <1>3, <2>1, Rows
  <2>3. er'.st # "SENT" /\ er'.st # "PROCESSED"
    BY <1>3, <2>1
  <2>4. missed' \in BOOLEAN
    BY <1>3
  <2> QED BY <1>1, <1>3, <2>1, <2>2, <2>3, <2>4 DEF AtDesk
<1>4. CASE Create
  BY <1>0, <1>3, <1>4, Rows DEF Create, Save, Status
<1>5. CASE Ready
  BY <1>0, <1>3, <1>5 DEF Ready, Save, Status
<1>6. CASE Disable
  <2>1. PICK s \in {"DISABLED", "NEW"} : er' = [er EXCEPT !.st = s] /\ missed' = FALSE
    BY <1>6 DEF Disable, Save
  <2>2. UNCHANGED <<notes, accepted, expired>>
    BY <1>6 DEF Disable
  <2> QED BY <1>0, <1>3, <2>1, <2>2 DEF Status
<1>7. CASE Archive
  BY <1>0, <1>3, <1>7 DEF Archive, Save, Status
<1>8. CASE Unarchive
  <2>1. PICK s : s = status_based_on_asp_processing_code
    OBVIOUS
  <2>2. s \in Status /\ s # "SENT"
    BY <2>1 DEF status_based_on_asp_processing_code, Status
  <2>3. er' = [er EXCEPT !.st = s] /\ missed' = FALSE /\ notes' = Upsert(notes)
        /\ accepted' = accepted /\ expired' = expired
    BY <1>8, <2>1 DEF Unarchive, Save
  <2>4. notes' \in Seq(Note) /\ \E i \in DOMAIN notes' : notes'[i].st = "NEW"
    BY <1>0, <2>3, Upserted
  <2> QED BY <1>0, <1>1, <2>2, <2>3, <2>4, Rows DEF AtDesk
<1>9. CASE Sanitize \/ Cancel
  <2>1. /\ er' = Absent /\ notes' = <<>> /\ missed' = FALSE
        /\ accepted' \in BOOLEAN /\ expired' = expired
    BY <1>0, <1>9 DEF Sanitize, Cancel
  <2> QED BY <1>0, <1>1, <1>2, <2>1, Rows DEF AtDesk
<1>10. CASE Resend
  <2>1. er' = [er EXCEPT !.st = "READY"] /\ missed' = FALSE /\ notes' \in {Upsert(notes), notes}
        /\ accepted' = accepted /\ expired' = expired
    BY <1>10 DEF Resend, Save
  <2> QED BY <1>0, <1>3, <2>1, Upserted DEF Status
<1>11. CASE Expire
  <2>1. UNCHANGED <<er, notes, missed, accepted>> /\ expired' \in BOOLEAN
    BY <1>11 DEF Expire
  <2>2. er.file \in {er.file, 0}
    OBVIOUS
  <2> QED BY <1>0, <1>1, <2>1, <2>2 DEF AtDesk
<1> QED BY <1>4, <1>5, <1>6, <1>7, <1>8, <1>9, <1>10, <1>11

(* The trigger: a record that is processed or waits has a notification.    *)
LEMMA ChangeDatesStep ==
    ASSUME IInv, ChangeDates PROVE IInv'
<1>0. TypeOK
  BY DEF IInv
<1>1. /\ UNCHANGED <<calm, up, nup, files, inbox, feedback, asp, answers, er, accepted>>
      /\ date' = date + 1 /\ date < MaxDates + Extra
  BY DEF ChangeDates, world
<1>2. date' \in Dates /\ periods' \in BOOLEAN /\ expired' \in BOOLEAN /\ missed' \in BOOLEAN
  <2>1. date' \in Dates
    BY <1>0, <1>1, Bounds
  <2>2. expired' \in {FALSE, expired} /\ expired \in BOOLEAN
    BY <1>0 DEF ChangeDates, TypeOK
  <2>3. periods' \in BOOLEAN
    BY DEF ChangeDates
  <2>4. missed' \in BOOLEAN
    BY DEF ChangeDates
  <2> QED BY <2>1, <2>2, <2>3, <2>4
<1>3. notes \in Seq(Note) /\ notes' \in {notes, Upsert(notes)}
  BY <1>0, Typed DEF ChangeDates
<1>4. notes' \in Seq(Note)
  BY <1>3, Upserted
<1>5. TypeOK'
  BY <1>0, <1>1, <1>2, <1>4 DEF TypeOK, Note
<1>6. Queue' /\ CodeOfFile' /\ OneUpload' /\ SentIsAnswered'
  BY <1>1 DEF IInv, Queue, CodeOfFile, OneUpload, SentIsAnswered, InInbox
<1>7. CalmDates'
  <2> SUFFICES ASSUME calm
               PROVE  CalmDates'
    BY <1>1 DEF CalmDates
  <2>1. up.step = "idle" /\ nup.step = "idle" /\ periods'
    BY DEF ChangeDates
  <2>2. /\ asp.date <= date
        /\ \A i \in DOMAIN inbox : asp.date <= inbox[i].date /\ inbox[i].date <= date
        /\ \A i, j \in DOMAIN inbox : i < j => inbox[i].date <= inbox[j].date
    BY DEF IInv, CalmDates
  <2>3. date \in Nat /\ asp.date \in Nat /\ \A i \in DOMAIN inbox : inbox[i].date \in Nat
    BY <1>0, Bounds, Typed, Members
  <2>4. asp.date <= date' /\ \A i \in DOMAIN inbox : asp.date <= inbox[i].date /\ inbox[i].date <= date'
    BY <1>1, <2>2, <2>3
  <2> QED BY <1>1, <2>1, <2>2, <2>4 DEF CalmDates
<1>8. RecordTold'
  <2>1. er.st \in {"PROCESSED", "SENT"} => \E i \in DOMAIN notes' : notes'[i].st = "NEW"
    BY <1>3, Upserted DEF ChangeDates, NotifiedStatuses
  <2> QED BY <1>1, <2>1 DEF RecordTold, Told
<1> QED BY <1>5, <1>6, <1>7, <1>8 DEF IInv

(***************************************************************************)
(* The uploads.                                                            *)
(***************************************************************************)
row == <<calm, er, notes, missed, accepted, expired, date, periods, feedback, asp, answers>>

(* A command begins, or stops.                                             *)
LEMMA CommandStep ==
    ASSUME IInv, UNCHANGED row, files' = files, inbox' = inbox,
           up' \in [step: {"idle", "put", "mark"}, date: Dates],
           nup' \in [step: {"idle", "put", "mark"}, date: Dates, note: Nat],
           up'.step = "idle" \/ nup'.step = "idle",
           up'.step # "mark" /\ nup'.step # "mark",
           up'.step # "idle" => up'.date = date,
           nup'.step # "idle" => nup'.date = date
    PROVE  IInv'
<1>1. UNCHANGED <<calm, er, notes, missed, accepted, expired, date, periods, feedback, asp, answers>>
  BY DEF row
<1>2. TypeOK'
  BY <1>1 DEF IInv, TypeOK
<1>3. Queue' /\ CodeOfFile' /\ SentIsAnswered' /\ RecordTold'
  BY <1>1 DEF IInv, Queue, CodeOfFile, SentIsAnswered, RecordTold, Told, InInbox
<1>4. OneUpload'
  BY DEF OneUpload
<1>5. CalmDates'
  BY <1>1 DEF IInv, CalmDates
<1> QED BY <1>2, <1>3, <1>4, <1>5 DEF IInv

LEMMA Selected ==
    ASSUME IInv, UploadSelect \/ NotifySelect \/ Crash PROVE IInv'
<1>0. /\ TypeOK /\ date \in Dates
      /\ up \in [step: {"idle", "put", "mark"}, date: Dates]
      /\ nup \in [step: {"idle", "put", "mark"}, date: Dates, note: Nat]
  BY DEF IInv, TypeOK
<1>1. UNCHANGED row /\ files' = files /\ inbox' = inbox
  BY DEF UploadSelect, NotifySelect, Crash, row
<1>2. CASE UploadSelect
  <2>1. up' = [step |-> "put", date |-> date] /\ nup' = nup /\ nup.step = "idle"
    BY <1>2 DEF UploadSelect
  <2>2. /\ up' \in [step: {"idle", "put", "mark"}, date: Dates]
        /\ up'.step = "put" /\ up'.date = date
    BY <1>0, <2>1
  <2> QED BY <1>0, <1>1, <2>1, <2>2, CommandStep
<1>3. CASE NotifySelect
  <2>1. PICK i \in DOMAIN notes : nup' = [step |-> "put", date |-> date, note |-> i]
    BY <1>3 DEF NotifySelect
  <2>2. i \in Nat
    BY <1>0, Typed
  <2>3. /\ nup' \in [step: {"idle", "put", "mark"}, date: Dates, note: Nat]
        /\ nup'.step = "put" /\ nup'.date = date
    BY <1>0, <2>1, <2>2
  <2>4. up' = up /\ up.step = "idle"
    BY <1>3 DEF NotifySelect
  <2> QED BY <1>0, <1>1, <2>3, <2>4, CommandStep
<1>4. CASE Crash
  <2>1. up' = [up EXCEPT !.step = "idle"] /\ nup' = [nup EXCEPT !.step = "idle"]
    BY <1>4 DEF Crash
  <2>2. up' \in [step: {"idle", "put", "mark"}, date: Dates] /\ up'.step = "idle"
    BY <1>0, <2>1
  <2>3. nup' \in [step: {"idle", "put", "mark"}, date: Dates, note: Nat] /\ nup'.step = "idle"
    BY <1>0, <2>1
  <2> QED BY <1>1, <2>2, <2>3, CommandStep
<1> QED BY <1>2, <1>3, <1>4

(* A new name is given; the file of that name arrives or not.              *)
Puts(k, d, arrived) ==
    /\ UNCHANGED row /\ files' = files + 1 /\ files + 1 \in Files
    /\ inbox' = IF arrived THEN Append(inbox, [kind |-> k, file |-> files', date |-> d]) ELSE inbox

LEMMA PutStep ==
    ASSUME IInv, NEW k \in {"C", "M"}, NEW d \in Dates, NEW arrived \in BOOLEAN,
           calm => d = date, Puts(k, d, arrived)
    PROVE  /\ inbox' \in Seq(Message) /\ files' \in Files
           /\ Queue' /\ CodeOfFile' /\ SentIsAnswered' /\ RecordTold'
           /\ calm => /\ \A i \in DOMAIN inbox' : asp.date <= inbox'[i].date /\ inbox'[i].date <= date
                      /\ \A i, j \in DOMAIN inbox' : i < j => inbox'[i].date <= inbox'[j].date
           /\ arrived => InInbox(k, files, d)'
<1>0. TypeOK
  BY DEF IInv
<1>1. UNCHANGED <<calm, er, notes, missed, accepted, expired, date, periods, feedback, asp, answers>>
      /\ files' = files + 1 /\ files' \in Files /\ files \in Nat
  BY <1>0, Bounds DEF Puts, row
<1>2. inbox \in Seq(Message) /\ feedback \subseteq Feedback
  BY <1>0, Typed
<1>3. CASE ~arrived
  <2>1. inbox' = inbox
    BY <1>3 DEF Puts
  <2>2. Queue'
    <3>1. \A n : n \in Nat /\ n <= files => n <= files'
      BY <1>1
    <3>2. \A n \in Files : n \in Nat
      BY <1>0, Bounds
    <3>3. /\ \A i \in DOMAIN inbox : inbox[i].file \in Nat
          /\ \A f \in feedback : f.file \in Nat
          /\ er.file \in Nat
      BY <3>2, <1>0, <1>2, Typed, Members
    <3>4. \A n \in Files : n > files' => n > files
      BY <1>1, <3>2
    <3> QED BY <1>1, <2>1, <3>1, <3>3, <3>4 DEF IInv, Queue
  <2>3. CodeOfFile' /\ SentIsAnswered' /\ RecordTold'
    BY <1>1, <2>1 DEF IInv, CodeOfFile, SentIsAnswered, RecordTold, Told, InInbox
  <2> QED BY <1>1, <1>2, <1>3, <2>1, <2>2, <2>3 DEF IInv, CalmDates
<1>4. CASE arrived
  <2> DEFINE n == Len(inbox) + 1
  <2>1. PICK m : m = [kind |-> k, file |-> files', date |-> d]
    OBVIOUS
  <2>2. m \in Message /\ m.kind = k /\ m.file = files' /\ m.date = d
    BY <1>1, <2>1 DEF Message
  <2>3. inbox' = Append(inbox, m)
    BY <1>4, <2>1 DEF Puts
  <2>4. /\ inbox' \in Seq(Message) /\ DOMAIN inbox' = 1..n /\ DOMAIN inbox = 1..Len(inbox)
        /\ Len(inbox) \in Nat
        /\ \A i \in DOMAIN inbox : inbox'[i] = inbox[i]
        /\ inbox'[n] = m
        /\ \A i \in DOMAIN inbox' : i \in DOMAIN inbox \/ i = n
        /\ DOMAIN inbox \subseteq DOMAIN inbox'
    BY <1>2, <2>2, <2>3, Appended
  <2>5. n \in DOMAIN inbox' /\ \A i \in DOMAIN inbox : i < n
    BY <2>4
  <2>6. \A i, j \in DOMAIN inbox' : i < j => i \in DOMAIN inbox
    BY <2>4
  <2> HIDE DEF n
  <2>7. /\ \A x \in Files : x \in Nat
        /\ \A i \in DOMAIN inbox : inbox[i].file \in Nat /\ inbox[i].file <= files
        /\ \A f \in feedback : f.file \in Nat /\ f.file <= files
        /\ er.file \in Nat /\ er.file <= files
    BY <1>0, Bounds, Typed, Members DEF IInv, Queue
  <2>8. Queue'
    <3>1. answers[files'] = "none"
      <4>1. files' > files
        BY <1>1
      <4> QED BY <1>1, <4>1 DEF IInv, Queue
    <3>2. \A i \in DOMAIN inbox' : inbox'[i].file <= files' /\ answers[inbox'[i].file] = "none"
      <4>1. \A i \in DOMAIN inbox : inbox[i].file <= files' /\ answers[inbox[i].file] = "none"
        BY <1>1, <2>7 DEF IInv, Queue
      <4>2. files' <= files'
        BY <1>1
      <4> QED BY <2>2, <2>4, <3>1, <4>1, <4>2
    <3>3. \A i \in DOMAIN inbox : inbox[i].file < files'
      BY <1>1, <2>7
    <3>4. \A i, j \in DOMAIN inbox' : i < j => inbox'[i].file < inbox'[j].file
      BY <2>2, <2>4, <2>6, <3>3 DEF IInv, Queue
    <3>5. \A f \in feedback : f.file <= files' /\ f.file < files'
      BY <1>1, <2>7
    <3>6. \A f \in feedback : \A i \in DOMAIN inbox' : f.file < inbox'[i].file
      BY <2>2, <2>4, <3>5 DEF IInv, Queue
    <3>7. \A x \in Files : x > files' => answers[x] = "none"
      <4>1. \A x \in Files : x > files' => x > files
        BY <1>1, <2>7
      <4> QED BY <4>1 DEF IInv, Queue
    <3>8. er.file <= files'
      BY <1>1, <2>7
    <3> QED BY <1>1, <3>2, <3>4, <3>5, <3>6, <3>7, <3>8 DEF IInv, Queue
  <2>9. KeepsInbox
    BY <2>4 DEF KeepsInbox, InInbox
  <2>10. SentIsAnswered'
    BY <1>1, <2>4 DEF IInv, SentIsAnswered
  <2>11. CodeOfFile'
    BY <1>1 DEF IInv, CodeOfFile
  <2>12. Told => Told'
    BY <1>1, <2>9 DEF Told, KeepsInbox
  <2>13. RecordTold'
    BY <1>1, <2>9, <2>12 DEF IInv, RecordTold, KeepsInbox
  <2>14. InInbox(k, files, d)'
    BY <2>2, <2>4, <2>5 DEF InInbox
  <2>15. ASSUME calm
         PROVE  /\ \A i \in DOMAIN inbox' : asp.date <= inbox'[i].date /\ inbox'[i].date <= date
                /\ \A i, j \in DOMAIN inbox' : i < j => inbox'[i].date <= inbox'[j].date
    <3>1. d = date /\ asp.date <= date /\ date <= date
      BY <1>0, <2>15, Bounds DEF IInv, CalmDates
    <3>2. /\ \A i \in DOMAIN inbox : asp.date <= inbox[i].date /\ inbox[i].date <= date
          /\ \A i, j \in DOMAIN inbox : i < j => inbox[i].date <= inbox[j].date
      BY <2>15 DEF IInv, CalmDates
    <3> QED BY <2>2, <2>4, <2>6, <3>1, <3>2
  <2> QED BY <1>1, <2>4, <2>8, <2>10, <2>11, <2>13, <2>14, <2>15
<1> QED BY <1>3, <1>4

LEMMA PutsStep ==
    ASSUME IInv, UploadPut \/ NotifyPut PROVE IInv'
<1>0. /\ TypeOK
      /\ up \in [step: {"idle", "put", "mark"}, date: Dates]
      /\ nup \in [step: {"idle", "put", "mark"}, date: Dates, note: Nat]
      /\ up.date \in Dates /\ nup.date \in Dates
      /\ up.step = "idle" \/ nup.step = "idle"
  BY DEF IInv, TypeOK, OneUpload
<1>1. files + 1 \in Files
  BY <1>0, Bounds DEF UploadPut, NotifyPut
<1>2. UNCHANGED row /\ files' = files + 1
  BY DEF UploadPut, NotifyPut, row
<1>3. UNCHANGED <<calm, er, notes, missed, accepted, expired, date, periods, feedback, asp, answers>>
  BY <1>2 DEF row
<1>4. CASE UploadPut
  <2>1. PICK arrived \in BOOLEAN, ok \in BOOLEAN :
           /\ ok => arrived
           /\ inbox' = IF arrived
                       THEN Append(inbox, [kind |-> "C", file |-> files', date |-> up.date]) ELSE inbox
           /\ up' = [up EXCEPT !.step = IF ok THEN "mark" ELSE "idle"]
    BY <1>4 DEF UploadPut
  <2>2. PICK d \in Dates : d = up.date
    BY <1>0
  <2>3. up.step = "put" /\ nup' = nup /\ nup.step = "idle" /\ (calm => d = date)
    BY <1>0, <1>4, <2>2 DEF UploadPut, IInv, CalmDates
  <2>4. Puts("C", d, arrived)
    BY <1>1, <1>2, <2>1, <2>2 DEF Puts
  <2>5. /\ inbox' \in Seq(Message) /\ files' \in Files
        /\ Queue' /\ CodeOfFile' /\ SentIsAnswered' /\ RecordTold'
        /\ calm => /\ \A i \in DOMAIN inbox' : asp.date <= inbox'[i].date /\ inbox'[i].date <= date
                   /\ \A i, j \in DOMAIN inbox' : i < j => inbox'[i].date <= inbox'[j].date
        /\ arrived => InInbox("C", files, d)'
    BY <2>3, <2>4, PutStep
  <2>6. /\ up' \in [step: {"idle", "put", "mark"}, date: Dates] /\ up'.date = d
        /\ up'.step = "mark" => ok
    BY <1>0, <2>1, <2>2
  <2>7. TypeOK'
    BY <1>0, <1>3, <2>3, <2>5, <2>6 DEF TypeOK, Message
  <2>8. OneUpload'
    BY <2>1, <2>3, <2>5, <2>6 DEF OneUpload
  <2>9. CalmDates'
    BY <1>3, <2>3, <2>5, <2>6 DEF IInv, CalmDates
  <2> QED BY <2>5, <2>7, <2>8, <2>9 DEF IInv
<1>5. CASE NotifyPut
  <2>1. PICK arrived \in BOOLEAN, ok \in BOOLEAN :
           /\ ok => arrived
           /\ inbox' = IF arrived
                       THEN Append(inbox, [kind |-> "M", file |-> files', date |-> nup.date]) ELSE inbox
           /\ nup' = [nup EXCEPT !.step = IF ok THEN "mark" ELSE "idle"]
    BY <1>5 DEF NotifyPut
  <2>2. PICK d \in Dates : d = nup.date
    BY <1>0
  <2>3. nup.step = "put" /\ up' = up /\ up.step = "idle" /\ (calm => d = date)
    BY <1>0, <1>5, <2>2 DEF NotifyPut, IInv, CalmDates
  <2>4. Puts("M", d, arrived)
    BY <1>1, <1>2, <2>1, <2>2 DEF Puts
  <2>5. /\ inbox' \in Seq(Message) /\ files' \in Files
        /\ Queue' /\ CodeOfFile' /\ SentIsAnswered' /\ RecordTold'
        /\ calm => /\ \A i \in DOMAIN inbox' : asp.date <= inbox'[i].date /\ inbox'[i].date <= date
                   /\ \A i, j \in DOMAIN inbox' : i < j => inbox'[i].date <= inbox'[j].date
        /\ arrived => InInbox("M", files, d)'
    BY <2>3, <2>4, PutStep
  <2>6. /\ nup' \in [step: {"idle", "put", "mark"}, date: Dates, note: Nat] /\ nup'.date = d
        /\ nup'.step = "mark" => ok
    BY <1>0, <2>1, <2>2
  <2>7. TypeOK'
    BY <1>0, <1>3, <2>3, <2>5, <2>6 DEF TypeOK, Message
  <2>8. OneUpload'
    BY <2>1, <2>3, <2>5, <2>6 DEF OneUpload
  <2>9. CalmDates'
    BY <1>3, <2>3, <2>5, <2>6 DEF IInv, CalmDates
  <2> QED BY <2>5, <2>7, <2>8, <2>9 DEF IInv
<1> QED BY <1>4, <1>5

(* The record waits for the answer to the file that was just put.          *)
LEMMA UploadMarkStep ==
    ASSUME IInv, UploadMark PROVE IInv'
<1>0. /\ TypeOK /\ up \in [step: {"idle", "put", "mark"}, date: Dates]
      /\ files \in Files \cup {0} /\ files \in Nat
  BY Bounds DEF IInv, TypeOK
<1>1. /\ UNCHANGED <<calm, notes, accepted, expired, date, periods, nup, files, inbox, feedback, asp, answers>>
      /\ up.step = "mark" /\ up' = [up EXCEPT !.step = "idle"] /\ missed' = FALSE
      /\ er' = [st |-> "SENT", code |-> "none", file |-> files, sent |-> TRUE]
  BY DEF UploadMark, Save
<1>2. er' \in Row /\ er'.st = "SENT" /\ er'.code = "none" /\ er'.file = files
  BY <1>0, <1>1 DEF Row, Status
<1>3. up' \in [step: {"idle", "put", "mark"}, date: Dates] /\ up'.step = "idle"
  BY <1>0, <1>1
<1>4. InInbox("C", files, up.date)
  BY <1>1 DEF IInv, OneUpload
<1>5. TypeOK'
  <2>1. missed' \in BOOLEAN
    BY <1>1
  <2> QED BY <1>0, <1>1, <1>2, <1>3, <2>1 DEF TypeOK, Row
<1>6. Queue'
  <2>1. files <= files
    BY <1>0
  <2> QED BY <1>1, <1>2, <2>1 DEF IInv, Queue
<1>7. CodeOfFile'
  BY <1>2 DEF CodeOfFile
<1>8. OneUpload' /\ CalmDates'
  BY <1>1, <1>3 DEF IInv, OneUpload, CalmDates, InInbox
<1>9. SentIsAnswered'
  BY <1>1, <1>2, <1>4 DEF SentIsAnswered, InInbox
<1>10. RecordTold'
  <2>1. calm => up.date = date
    BY <1>1 DEF IInv, CalmDates
  <2> QED BY <1>1, <1>2, <1>4, <2>1 DEF RecordTold, InInbox
<1> QED BY <1>5, <1>6, <1>7, <1>8, <1>9, <1>10 DEF IInv

(* The notification sent brings the dates that the ASP has not read yet.   *)
LEMMA NotifyMarkStep ==
    ASSUME IInv, NotifyMark PROVE IInv'
<1>0. /\ TypeOK /\ nup \in [step: {"idle", "put", "mark"}, date: Dates, note: Nat]
      /\ files \in Files \cup {0} /\ notes \in Seq(Note)
      /\ DOMAIN notes = 1..Len(notes)
  BY Typed DEF IInv, TypeOK
<1>1. /\ UNCHANGED <<calm, er, missed, accepted, expired, date, periods, up, files, inbox, feedback, asp, answers>>
      /\ nup.step = "mark" /\ nup' = [nup EXCEPT !.step = "idle"]
  BY DEF NotifyMark
<1>2. nup' \in [step: {"idle", "put", "mark"}, date: Dates, note: Nat] /\ nup'.step = "idle"
  BY <1>0, <1>1
<1>3. PICK n : n = [st |-> "SENT", file |-> files]
  OBVIOUS
<1>4. n \in Note /\ n.st = "SENT" /\ n.file = files
  BY <1>0, <1>3 DEF Note, NotificationStatus
<1>5. notes' = IF nup.note \in DOMAIN notes THEN [notes EXCEPT ![nup.note] = n] ELSE notes
  BY <1>3 DEF NotifyMark
<1>6. notes' \in Seq(Note)
  BY <1>0, <1>4, <1>5, ExceptSeq
<1>7. TypeOK'
  BY <1>0, <1>1, <1>2, <1>6 DEF TypeOK, Note
<1>8. Queue' /\ CodeOfFile' /\ SentIsAnswered'
  BY <1>1 DEF IInv, Queue, CodeOfFile, SentIsAnswered
<1>9. OneUpload' /\ CalmDates'
  BY <1>1, <1>2 DEF IInv, OneUpload, CalmDates, InInbox
<1>10. RecordTold'
  <2>1. CASE nup.note \in DOMAIN notes
    <3>1. nup.note \in DOMAIN notes' /\ notes'[nup.note] = n
      BY <1>0, <1>5, <2>1
    <3>2. calm => InInbox("M", files, date)
      BY <1>1 DEF IInv, OneUpload, CalmDates
    <3>3. calm => Told'
      BY <1>1, <1>4, <3>1, <3>2 DEF Told, InInbox
    <3> QED BY <1>1, <3>3 DEF RecordTold
  <2>2. CASE nup.note \notin DOMAIN notes
    BY <1>1, <1>5, <2>2 DEF IInv, RecordTold, Told, InInbox
  <2> QED BY <2>1, <2>2
<1> QED BY <1>7, <1>8, <1>9, <1>10 DEF IInv

(***************************************************************************)
(* The ASP.                                                                *)
(***************************************************************************)
LEMMA AspAnswerStep ==
    ASSUME IInv, AspAnswer PROVE IInv'
<1>0. TypeOK /\ Queue
  BY DEF IInv
<1>1. /\ UNCHANGED <<calm, er, notes, missed, accepted, expired, date, periods, up, nup, files>>
      /\ inbox # <<>> /\ up.step # "mark" /\ nup.step # "mark" /\ inbox' = Tail(inbox)
  BY DEF AspAnswer
<1>2. /\ inbox \in Seq(Message) /\ feedback \subseteq Feedback
      /\ \A i \in DOMAIN inbox : inbox[i] \in Message
      /\ er \in Row
  BY <1>0, Typed
<1>3. PICK m \in Message : m = Head(inbox) /\ m = inbox[1] /\ 1 \in DOMAIN inbox
  BY <1>1, <1>2, Tailed
<1>4. PICK c \in Codes :
          /\ c = "0000" => (asp.known <=> m.kind = "M")
          /\ c = "3436" => asp.known /\ m.kind = "C"
          /\ feedback' = feedback \cup {[kind |-> m.kind, file |-> m.file, code |-> c]}
          /\ asp' = IF c = "0000" THEN [known |-> TRUE, date |-> m.date] ELSE asp
          /\ answers' = IF m.kind = "C" THEN [answers EXCEPT ![m.file] = c] ELSE answers
  BY <1>3 DEF AspAnswer
<1>5. PICK f : f = [kind |-> m.kind, file |-> m.file, code |-> c]
  OBVIOUS
<1>6. /\ m.kind \in {"C", "M"} /\ m.file \in Files /\ m.date \in Dates /\ m.file \in Nat
      /\ f \in Feedback /\ f.kind = m.kind /\ f.file = m.file /\ f.code = c
      /\ feedback' = feedback \cup {f}
  BY <1>0, <1>3, <1>4, <1>5, Members, Bounds DEF Feedback
<1>7. /\ inbox' \in Seq(Message)
      /\ \A i \in DOMAIN inbox' : i + 1 \in DOMAIN inbox /\ inbox'[i] = inbox[i + 1] /\ 1 < i + 1
      /\ \A i \in DOMAIN inbox : i = 1 \/ (i - 1 \in DOMAIN inbox' /\ inbox'[i - 1] = inbox[i])
      /\ DOMAIN inbox' = 1..(Len(inbox) - 1) /\ Len(inbox) \in Nat
  BY <1>1, <1>2, Tailed
<1>8. \A i, j \in DOMAIN inbox' : i < j => i + 1 < j + 1
  BY <1>7
<1>9. asp' \in [known: BOOLEAN, date: Dates] /\ (asp.known => asp'.known)
  BY <1>0, <1>4, <1>6 DEF TypeOK
<1>10. answers' \in [Files -> Codes \cup {"none"}]
  BY <1>0, <1>4, <1>6 DEF TypeOK
<1>11. TypeOK'
  BY <1>0, <1>1, <1>2, <1>6, <1>7, <1>9, <1>10 DEF TypeOK, Message, Feedback
(* Only the file read gets an answer, and it had none.                     *)
<1>12. /\ answers[m.file] = "none" /\ m.file <= files
       /\ \A n \in Files : n # m.file => answers'[n] = answers[n]
       /\ m.kind = "C" => answers'[m.file] = c
       /\ m.kind # "C" => answers' = answers
  BY <1>0, <1>3, <1>4, <1>6 DEF TypeOK, Queue
<1>13. \A i \in DOMAIN inbox' : m.file < inbox'[i].file
  BY <1>0, <1>3, <1>7 DEF Queue
<1>14. \A g \in feedback : g.file < m.file
  BY <1>0, <1>3 DEF Queue
<1>15. /\ \A i \in DOMAIN inbox' : inbox'[i].file \in Files /\ inbox'[i].file # m.file
       /\ \A g \in feedback : g.file \in Files /\ g.file # m.file
  <2>1. \A i \in DOMAIN inbox' : inbox'[i].file \in Files /\ inbox'[i].file \in Nat
    BY <1>0, <1>2, <1>7, Members, Bounds
  <2>2. \A g \in feedback : g.file \in Files /\ g.file \in Nat
    BY <1>0, <1>2, Members, Bounds
  <2> QED BY <1>6, <1>13, <1>14, <2>1, <2>2
<1>16. Queue'
  <2>1. \A i \in DOMAIN inbox' : inbox'[i].file <= files /\ answers'[inbox'[i].file] = "none"
    BY <1>0, <1>7, <1>12, <1>15 DEF Queue
  <2>2. \A i, j \in DOMAIN inbox' : i < j => inbox'[i].file < inbox'[j].file
    BY <1>0, <1>7, <1>8 DEF Queue
  <2>3. \A g \in feedback' : g.file <= files
    BY <1>0, <1>6, <1>12 DEF Queue
  <2>4. \A g \in feedback' : \A i \in DOMAIN inbox' : g.file < inbox'[i].file
    BY <1>0, <1>6, <1>7, <1>13 DEF Queue
  <2>5. \A g, h \in feedback' : g.file = h.file => g = h
    BY <1>0, <1>6, <1>15 DEF Queue
  <2>6. \A g \in feedback' : g.kind = "C" => answers'[g.file] = g.code
    BY <1>0, <1>6, <1>12, <1>15 DEF Queue
  <2>7. \A g \in feedback' : g.code = "3436" => asp'.known
    BY <1>0, <1>4, <1>6, <1>9 DEF Queue
  <2>8. \A n \in Files : n > files => answers'[n] = "none"
    <3>1. \A n \in Files : n > files => n # m.file
      BY <1>0, <1>6, <1>12, Bounds
    <3> QED BY <1>0, <1>12, <3>1 DEF Queue
  <2> QED BY <1>0, <1>1, <2>1, <2>2, <2>3, <2>4, <2>5, <2>6, <2>7, <2>8 DEF Queue
<1>17. CodeOfFile'
  <2>1. er.code # "none" => er.file \in Files /\ er.file # m.file /\ answers[er.file] = er.code
    BY <1>12 DEF IInv, CodeOfFile
  <2> QED BY <1>1, <1>12, <2>1 DEF CodeOfFile
<1>18. OneUpload'
  BY <1>1 DEF IInv, OneUpload
(* A message is still in the inbox, or it is the one that was read.        *)
<1>19. \A k, n, d : InInbox(k, n, d) => \/ InInbox(k, n, d)'
                                        \/ m.kind = k /\ m.file = n /\ m.date = d
  <2> SUFFICES ASSUME NEW k, NEW n, NEW d, NEW i \in DOMAIN inbox,
                      inbox[i].kind = k, inbox[i].file = n, inbox[i].date = d
               PROVE  InInbox(k, n, d)' \/ (m.kind = k /\ m.file = n /\ m.date = d)
    BY DEF InInbox
  <2> QED BY <1>3, <1>7 DEF InInbox
<1>20. SentIsAnswered'
  <2> SUFFICES ASSUME er.st = "SENT"
               PROVE  SentIsAnswered'
    BY <1>1 DEF SentIsAnswered
  <2>1. CASE \E i \in DOMAIN inbox : inbox[i].kind = "C" /\ inbox[i].file = er.file
    <3>1. PICK i \in DOMAIN inbox : inbox[i].kind = "C" /\ inbox[i].file = er.file
      BY <2>1
    <3>2. CASE i = 1
      BY <1>1, <1>3, <1>6, <3>1, <3>2 DEF SentIsAnswered
    <3>3. CASE i # 1
      BY <1>1, <1>7, <3>1, <3>3 DEF SentIsAnswered
    <3> QED BY <3>2, <3>3
  <2>2. CASE \E g \in feedback : g.kind = "C" /\ g.file = er.file
    BY <1>1, <1>6, <2>2 DEF SentIsAnswered
  <2> QED BY <2>1, <2>2 DEF IInv, SentIsAnswered
<1>21. CalmDates'
  <2> SUFFICES ASSUME calm
               PROVE  CalmDates'
    BY <1>1 DEF CalmDates
  <2>1. /\ asp.date <= m.date /\ m.date <= date /\ asp.date <= date
        /\ \A i \in DOMAIN inbox : asp.date <= inbox[i].date /\ inbox[i].date <= date
        /\ \A i, j \in DOMAIN inbox : i < j => inbox[i].date <= inbox[j].date
    BY <1>3 DEF IInv, CalmDates
  <2>2. asp'.date \in {m.date, asp.date}
    BY <1>4
  <2>3. \A i \in DOMAIN inbox' : m.date <= inbox'[i].date
    BY <1>3, <1>7, <2>1
  <2>4. \A i \in DOMAIN inbox' : asp'.date <= inbox'[i].date /\ inbox'[i].date <= date
    BY <1>7, <2>1, <2>2, <2>3
  <2>5. \A i, j \in DOMAIN inbox' : i < j => inbox'[i].date <= inbox'[j].date
    BY <1>7, <1>8, <2>1
  <2>6. asp'.date <= date
    BY <2>1, <2>2
  <2> QED BY <1>1, <2>4, <2>5, <2>6 DEF IInv, CalmDates
<1>22. RecordTold'
  <2> SUFFICES ASSUME calm
               PROVE  RecordTold'
    BY <1>1 DEF RecordTold
  <2>1. m.date = date /\ c = "0000" => Told'
    BY <1>1, <1>4 DEF Told
  (* What the ASP knew can only be replaced by a later date.               *)
  <2>2. asp.known /\ asp.date = date => Told'
    <3> SUFFICES ASSUME asp.known, asp.date = date
                 PROVE  asp'.known /\ asp'.date = date
      BY <1>1 DEF Told
    <3>1. asp.date <= m.date /\ m.date <= date /\ m.date \in Nat /\ date \in Nat
      BY <1>0, <1>3, <1>6, Bounds DEF IInv, CalmDates
    <3>2. m.date = date
      BY <3>1
    <3> QED BY <1>4, <1>9, <3>2
  <2>3. ASSUME NEW i \in DOMAIN notes, notes[i].st = "SENT", InInbox("M", notes[i].file, date)
        PROVE  Told'
    <3>0. PICK n, d : n = notes[i].file /\ d = date
      OBVIOUS
    <3>1. CASE InInbox("M", n, d)'
      BY <1>1, <2>3, <3>0, <3>1 DEF Told, InInbox
    <3>2. CASE m.kind = "M" /\ m.file = n /\ m.date = d
      BY <1>1, <1>6, <2>1, <2>3, <3>0, <3>2 DEF Told
    <3> QED BY <1>19, <2>3, <3>0, <3>1, <3>2
  <2>4. Told => Told'
    <3>1. CASE \E i \in DOMAIN notes : notes[i].st \in {"NEW", "REJECTED"}
      BY <1>1, <3>1 DEF Told
    <3>2. CASE \E i \in DOMAIN notes, g \in feedback :
                  notes[i].st = "SENT" /\ g.kind = "M" /\ g.file = notes[i].file /\ g.code # "0000"
      BY <1>1, <1>6, <3>2 DEF Told
    <3> QED BY <2>2, <2>3, <3>1, <3>2 DEF Told
  <2>5. InInbox("C", er.file, date) => RecordTold'
    <3>0. PICK n, d : n = er.file /\ d = date
      OBVIOUS
    <3>1. CASE InInbox("C", n, d)' /\ er.st = "SENT"
      BY <1>1, <3>0, <3>1 DEF RecordTold, InInbox
    <3>2. CASE m.kind = "C" /\ m.file = n /\ m.date = d /\ er.st = "SENT"
      BY <1>1, <1>6, <2>1, <3>0, <3>2 DEF RecordTold
    <3>3. CASE er.st # "SENT"
      BY <1>1, <2>4, <3>3 DEF IInv, RecordTold
    <3> QED BY <1>19, <3>0, <3>1, <3>2, <3>3
  <2> QED BY <1>1, <1>6, <2>4, <2>5 DEF IInv, RecordTold
<1> QED BY <1>11, <1>16, <1>17, <1>18, <1>20, <1>21, <1>22 DEF IInv

(***************************************************************************)
(* The answers are downloaded.                                             *)
(***************************************************************************)
(* The row and the notifications are saved, then the file is removed; a    *)
(* crash in between leaves it there.                                       *)
Downloads(f) ==
    /\ Removed(f)
    /\ UNCHANGED <<calm, accepted, expired, date, periods, up, nup, files, inbox, asp, answers>>

LEMMA Taken ==
    ASSUME IInv, NEW f \in feedback, Downloads(f)
    PROVE  /\ feedback' \subseteq feedback /\ \A g \in feedback : g # f => g \in feedback'
           /\ er' \in Row /\ notes' \in Seq(Note) /\ missed' \in BOOLEAN => TypeOK'
           /\ er'.file = er.file => Queue'
           /\ OneUpload' /\ CalmDates'
<1>1. UNCHANGED <<calm, accepted, expired, date, periods, up, nup, files, inbox, asp, answers>>
  BY DEF Downloads
<1>2. feedback' \subseteq feedback /\ \A g \in feedback : g # f => g \in feedback'
  BY DEF Downloads, Removed
<1>3. er' \in Row /\ notes' \in Seq(Note) /\ missed' \in BOOLEAN => TypeOK'
  BY <1>1, <1>2 DEF IInv, TypeOK, Row, Note
<1>4. er'.file = er.file => Queue'
  BY <1>1, <1>2 DEF IInv, Queue
<1>5. OneUpload' /\ CalmDates'
  BY <1>1 DEF IInv, OneUpload, CalmDates, InInbox
<1> QED BY <1>2, <1>3, <1>4, <1>5

LEMMA RecordFeedbackStep ==
    ASSUME IInv, NEW f \in feedback, RecordFeedback(f) PROVE IInv'
<1>0. TypeOK /\ Queue /\ er \in Row /\ notes \in Seq(Note) /\ feedback \subseteq Feedback
      /\ missed \in BOOLEAN
  BY Typed DEF IInv, TypeOK
<1>1. Downloads(f) /\ f.kind = "C"
  BY DEF RecordFeedback, Downloads
<1>2. UNCHANGED <<calm, date, periods, files, inbox, asp, answers>>
  BY <1>1 DEF Downloads
<1>3. feedback' \subseteq feedback /\ \A g \in feedback : g # f => g \in feedback'
  BY <1>1, Taken
<1>4. f.file \in Files /\ f.code \in Codes /\ answers[f.file] = f.code
  BY <1>0, <1>1, Members DEF Queue
<1>5. notes' = notes => (Told => Told')
  BY <1>1, <1>2, <1>3 DEF Told, InInbox
<1>6. CASE ~Matches(f)
  <2>1. UNCHANGED <<er, notes, missed>>
    BY <1>6 DEF RecordFeedback
  <2>2. TypeOK' /\ Queue' /\ OneUpload' /\ CalmDates'
    BY <1>0, <1>1, <2>1, Taken
  <2>3. CodeOfFile'
    BY <1>2, <2>1 DEF IInv, CodeOfFile
  <2>4. \A g \in feedback : er.st = "SENT" /\ g.kind = "C" /\ g.file = er.file => g \in feedback'
    BY <1>1, <1>3, <1>6 DEF Matches
  <2>5. SentIsAnswered'
    BY <1>2, <2>1, <2>4 DEF IInv, SentIsAnswered
  <2>6. RecordTold'
    BY <1>2, <1>5, <2>1, <2>4 DEF IInv, RecordTold, InInbox
  <2> QED BY <2>2, <2>3, <2>5, <2>6 DEF IInv
<1>7. CASE Matches(f)
  <2>1. er.file = f.file /\ er.st = "SENT"
    BY <1>7 DEF Matches
  <2>2. PICK s : s = IF f.code \in {"0000", "3436"} THEN "PROCESSED" ELSE "REJECTED"
    OBVIOUS
  <2>3. er' = [er EXCEPT !.code = f.code, !.st = s] /\ missed' = FALSE
        /\ notes' = IF f.code = "3436" /\ periods THEN Upsert(notes) ELSE notes
    BY <1>7, <2>2 DEF RecordFeedback, Save
  <2>4. /\ s \in Status /\ s # "SENT" /\ er' \in Row
        /\ er'.file = er.file /\ er'.code = f.code /\ er'.st = s
    <3>1. s \in Status /\ s # "SENT"
      BY <2>2 DEF Status
    <3>2. /\ er'.file = er.file /\ er'.code = f.code /\ er'.st = s /\ er' \in Row
      BY <1>0, <1>4, <2>3, <3>1 DEF Row
    <3> QED BY <3>1, <3>2
  <2>5. notes' \in Seq(Note) /\ missed' \in BOOLEAN
    BY <1>0, <2>3, Upserted
  <2>6. TypeOK' /\ Queue' /\ OneUpload' /\ CalmDates'
    BY <1>1, <2>4, <2>5, Taken
  <2>7. CodeOfFile'
    BY <1>2, <1>4, <2>1, <2>4 DEF CodeOfFile
  <2>8. SentIsAnswered'
    BY <2>4 DEF SentIsAnswered
  (* A duplicate is notified, unless the dates never changed.              *)
  <2>9. calm /\ f.code = "3436" => Told'
    <3>1. CASE periods /\ f.code = "3436"
      BY <1>0, <2>3, <3>1, Upserted DEF Told
    <3>2. CASE ~periods /\ calm /\ f.code = "3436"
      <4>1. date = 0 /\ asp.date <= date /\ asp.date \in Nat /\ asp.known
        BY <1>0, <3>2, Bounds DEF IInv, CalmDates, Queue
      <4>2. asp.date = date
        BY <4>1
      <4> QED BY <1>2, <4>1, <4>2 DEF Told
    <3> QED BY <3>1, <3>2
  (* A success is the answer to the file: it is not in the inbox any more. *)
  <2>10. calm /\ f.code = "0000" => Told'
    <3>1. ~InInbox("C", er.file, date)
      <4>1. \A i \in DOMAIN inbox : f.file < inbox[i].file
        BY <1>0 DEF Queue
      <4>2. f.file \in Nat
        BY <1>0, <1>4, Bounds
      <4> QED BY <2>1, <4>1, <4>2 DEF InInbox
    <3>2. \A g \in feedback : g.file = er.file => g = f
      BY <1>0, <2>1 DEF Queue
    <3>3. calm /\ f.code = "0000" => Told
      BY <2>1, <3>1, <3>2 DEF IInv, RecordTold
    <3>4. f.code = "0000" => notes' = notes
      BY <2>3
    <3> QED BY <1>5, <3>3, <3>4
  <2>11. RecordTold'
    <3>1. er'.st = "PROCESSED" => f.code \in {"0000", "3436"}
      BY <2>2, <2>4
    <3> QED BY <1>2, <2>4, <2>9, <2>10, <3>1 DEF RecordTold
  <2> QED BY <2>6, <2>7, <2>8, <2>11 DEF IInv
<1> QED BY <1>6, <1>7

LEMMA NotificationFeedbackStep ==
    ASSUME IInv, NEW f \in feedback, NotificationFeedback(f) PROVE IInv'
<1>0. /\ TypeOK /\ Queue /\ er \in Row /\ notes \in Seq(Note) /\ feedback \subseteq Feedback
      /\ missed \in BOOLEAN /\ \A i \in DOMAIN notes : notes[i] \in Note
      /\ DOMAIN notes = 1..Len(notes) /\ Len(notes) \in Nat
  BY Typed DEF IInv, TypeOK
<1>1. Downloads(f) /\ f.kind = "M" /\ UNCHANGED <<er, missed>>
  BY DEF NotificationFeedback, Downloads
<1>2. UNCHANGED <<calm, date, inbox, asp, answers>>
  BY <1>1 DEF Downloads
<1>3. feedback' \subseteq feedback /\ \A g \in feedback : g # f => g \in feedback'
  BY <1>1, Taken
<1>4. PICK s : s = IF f.code = "0000" THEN "PROCESSED" ELSE "REJECTED"
  OBVIOUS
<1>5. s \in NotificationStatus
  BY <1>4 DEF NotificationStatus
<1>6. notes' = [i \in DOMAIN notes |-> IF notes[i] = [st |-> "SENT", file |-> f.file]
                                       THEN [notes[i] EXCEPT !.st = s] ELSE notes[i]]
  BY <1>4 DEF NotificationFeedback
<1>7. \A n \in Note : [n EXCEPT !.st = s] \in Note /\ [n EXCEPT !.st = s].st = s
  BY <1>5 DEF Note
<1>8. /\ DOMAIN notes' = DOMAIN notes
      /\ \A i \in DOMAIN notes : notes'[i] \in Note
      /\ \A i \in DOMAIN notes : notes[i] = [st |-> "SENT", file |-> f.file] => notes'[i].st = s
      /\ \A i \in DOMAIN notes : notes[i] # [st |-> "SENT", file |-> f.file] => notes'[i] = notes[i]
  BY <1>0, <1>6, <1>7
<1>9. notes' \in Seq(Note)
  <2>1. notes' \in [1..Len(notes) -> Note]
    BY <1>0, <1>6, <1>8
  <2> QED BY <1>0, <2>1, SeqDef
<1>10. TypeOK' /\ Queue' /\ OneUpload' /\ CalmDates'
  BY <1>0, <1>1, <1>9, Taken
<1>11. CodeOfFile'
  BY <1>1, <1>2 DEF IInv, CodeOfFile
<1>12. \A g \in feedback : g.kind = "C" => g \in feedback'
  BY <1>1, <1>3
<1>13. SentIsAnswered'
  BY <1>1, <1>2, <1>12 DEF IInv, SentIsAnswered
<1>14. Told => Told'
  <2>1. CASE asp.known /\ asp.date = date
    BY <1>2, <2>1 DEF Told
  <2>2. ASSUME NEW i \in DOMAIN notes, notes[i].st \in {"NEW", "REJECTED"}
        PROVE  Told'
    <3>1. notes'[i] = notes[i]
      BY <1>8, <2>2
    <3> QED BY <1>8, <2>2, <3>1 DEF Told
  <2>3. ASSUME NEW i \in DOMAIN notes, notes[i].st = "SENT", InInbox("M", notes[i].file, date)
        PROVE  Told'
    <3>1. f.file # notes[i].file
      <4>1. PICK j \in DOMAIN inbox : inbox[j].file = notes[i].file
        BY <2>3 DEF InInbox
      <4>2. f.file < inbox[j].file /\ f.file \in Nat
        BY <1>0, Members, Bounds DEF Queue
      <4> QED BY <4>1, <4>2
    <3>2. notes'[i] = notes[i]
      BY <1>8, <3>1
    <3> QED BY <1>2, <1>8, <2>3, <3>2 DEF Told, InInbox
  <2>4. ASSUME NEW i \in DOMAIN notes, NEW g \in feedback, notes[i].st = "SENT",
               g.kind = "M", g.file = notes[i].file, g.code # "0000"
        PROVE  Told'
    <3>1. CASE g = f
      <4>1. notes[i] = [st |-> "SENT", file |-> f.file]
        BY <1>0, <2>4, <3>1 DEF Note
      <4>2. notes'[i].st = "REJECTED"
        BY <1>4, <1>8, <2>4, <3>1, <4>1
      <4> QED BY <1>8, <4>2 DEF Told
    <3>2. CASE g # f
      <4>1. g.file # f.file
        BY <1>0, <3>2 DEF Queue
      <4>2. notes'[i] = notes[i]
        BY <1>8, <2>4, <4>1
      <4> QED BY <1>3, <1>8, <2>4, <3>2, <4>2 DEF Told
    <3> QED BY <3>1, <3>2
  <2> QED BY <2>1, <2>2, <2>3, <2>4 DEF Told
<1>15. RecordTold'
  BY <1>1, <1>2, <1>12, <1>14 DEF IInv, RecordTold, InInbox
<1> QED BY <1>10, <1>11, <1>13, <1>15 DEF IInv

(***************************************************************************)
(* Every behaviour.                                                        *)
(***************************************************************************)
LEMMA InitStep ==
    ASSUME Init PROVE IInv
<1>1. /\ er = Absent /\ notes = <<>> /\ inbox = <<>> /\ feedback = {} /\ files = 0 /\ date = 0
      /\ up = [step |-> "idle", date |-> 0] /\ nup = [step |-> "idle", date |-> 0, note |-> 0]
      /\ asp = [known |-> FALSE, date |-> 0] /\ answers = [f \in Files |-> "none"]
      /\ calm \in BOOLEAN /\ missed = FALSE /\ accepted = TRUE /\ expired = FALSE /\ periods = FALSE
  BY DEF Init
<1>2. 0 \in Dates /\ \A n \in Files : n \in Nat
  BY BoundsAssumption DEF Dates, Files
<1>3. notes \in Seq(Note) /\ inbox \in Seq(Message) /\ er \in Row
  BY <1>1, EmptySeq, Rows
<1>4. TypeOK
  <2>1. missed \in BOOLEAN /\ accepted \in BOOLEAN /\ expired \in BOOLEAN /\ periods \in BOOLEAN
    BY <1>1
  <2>2. /\ up \in [step: {"idle", "put", "mark"}, date: Dates]
        /\ nup \in [step: {"idle", "put", "mark"}, date: Dates, note: Nat]
        /\ asp \in [known: BOOLEAN, date: Dates]
    BY <1>1, <1>2
  <2> QED BY <1>1, <1>2, <1>3, <2>1, <2>2 DEF TypeOK, Row, Note, Message
<1>5. DOMAIN inbox = {} /\ DOMAIN notes = {}
  BY <1>1
<1>6. Queue
  BY <1>1, <1>5, Rows DEF Queue
<1>7. CodeOfFile /\ SentIsAnswered /\ RecordTold
  BY <1>1, Rows DEF CodeOfFile, SentIsAnswered, RecordTold
<1>8. OneUpload /\ CalmDates
  BY <1>1, <1>5 DEF OneUpload, CalmDates
<1> QED BY <1>4, <1>6, <1>7, <1>8 DEF IInv

LEMMA Step ==
    ASSUME IInv, [Next]_vars PROVE IInv'
<1>1. CASE \/ Create \/ Ready \/ Disable \/ Archive \/ Unarchive \/ Sanitize \/ Resend \/ Cancel
           \/ Expire
  BY <1>1, Desk, DeskStep
<1>2. CASE ChangeDates
  BY <1>2, ChangeDatesStep
<1>3. CASE UploadSelect \/ NotifySelect \/ Crash
  BY <1>3, Selected
<1>4. CASE UploadPut \/ NotifyPut
  BY <1>4, PutsStep
<1>5. CASE UploadMark
  BY <1>5, UploadMarkStep
<1>6. CASE NotifyMark
  BY <1>6, NotifyMarkStep
<1>7. CASE AspAnswer
  BY <1>7, AspAnswerStep
<1>8. CASE Download
  BY <1>8, RecordFeedbackStep, NotificationFeedbackStep DEF Download
<1>9. CASE UNCHANGED vars
  BY <1>9 DEF vars, IInv, TypeOK, Queue, CodeOfFile, OneUpload, SentIsAnswered, CalmDates,
              RecordTold, Told, InInbox
<1> QED BY <1>1, <1>2, <1>3, <1>4, <1>5, <1>6, <1>7, <1>8, <1>9 DEF Next

(* IInv holds of every history of a record and of its files.               *)
THEOREM Inductive == Spec => []IInv
<1>1. Init => IInv
  BY InitStep
<1>2. IInv /\ [Next]_vars => IInv'
  BY Step
<1> QED BY <1>1, <1>2, PTL DEF Spec

(* The code of a record, which unarchive() turns into a status, is what    *)
(* the ASP answered to the last file the record was sent in.               *)
THEOREM CodeIsAnswer == Spec => []CodeAnswersLastFile
<1>1. IInv => CodeAnswersLastFile
  BY DEF IInv, CodeOfFile, CodeAnswersLastFile
<1> QED BY <1>1, Inductive, PTL

(* A record whose status is SENT has a file with the ASP, or an answer     *)
(* that the next download finds: none is left waiting for nothing.         *)
THEOREM NoLostRecord == Spec => []SentIsAnswered
<1>1. IInv => SentIsAnswered
  BY DEF IInv
<1> QED BY <1>1, Inductive, PTL

(* Without a crash, and as long as dates change between the uploads, a     *)
(* record processed with all its notifications means that the ASP has the  *)
(* dates of the PASS.                                                      *)
THEOREM AspKnowsDates == Spec => []AspUpToDate
<1>1. ASSUME IInv PROVE AspUpToDate
  <2> SUFFICES ASSUME calm, er.st = "PROCESSED", \A i \in DOMAIN notes : notes[i].st = "PROCESSED"
               PROVE  asp = [known |-> TRUE, date |-> date]
    BY DEF AspUpToDate
  <2>1. Told
    BY <1>1 DEF IInv, RecordTold
  <2>2. asp.known /\ asp.date = date
    BY <2>1 DEF Told
  <2>3. asp \in [known: BOOLEAN, date: Dates]
    BY <1>1 DEF IInv, TypeOK
  <2>4. asp.known = TRUE
    BY <2>2, <2>3
  <2> QED BY <2>2, <2>3, <2>4
<1> QED BY <1>1, Inductive, PTL
=============================================================================
