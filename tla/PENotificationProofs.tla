------------------------ MODULE PENotificationProofs ------------------------
(***************************************************************************)
(* What France Travail holds is what the statuses say: proofs of           *)
(* SuccessMeansKnown and CancelledStays for any number of PASS, of runs,   *)
(* of dates and of crashes.                                                *)
(***************************************************************************)
EXTENDS PENotification, Integers, FiniteSetTheorems, TLAPS

Kinds == {"live", "cancelled"}
Statuses == {"PENDING", "READY", "SHOULD_RETRY", "ERROR", "SUCCESS"}
Endpoints == {"none", "rech_individu", "maj_pass"}
Calling == {"rech_individu", "maj_pass", "save"}
Steps == {"off", "fix", "ready", "cready", "select", "cselect", "notify"} \cup Calling

Period == [start: Nat, end: Nat]
Item == [p: Passes, dates: Period, begun: BOOLEAN]
PassRow == [kind: Kinds, dates: Period, status: Statuses, endpoint: Endpoints]
RunRow == [pc: Steps, kind: Kinds, todo: SUBSET Item, room: Int, cur: Item \cup {NoPass},
           status: Statuses, endpoint: Endpoints]
Edit == [p: Passes, dates: Period, status: Statuses]

TypeOK ==
    /\ mode \in {"overlap", "stale", "during"}
    /\ row \in [Passes -> PassRow]
    /\ begun \in [Passes -> BOOLEAN]
    /\ ft \in [Passes -> Period]
    /\ run \in [Runs -> RunRow]
    /\ editor \in Edit \cup {NoPass}
    /\ \A r \in Runs : run[r].pc \in Calling => run[r].cur \in Item

(* The instances that a run has read and not saved yet.                    *)
Held(x) == x.todo \cup (IF x.pc \in Calling THEN {x.cur} ELSE {})

(* Outside the mode "overlap" a run ends before the next one begins.       *)
OneRun ==
    /\ \A r \in Runs : run[r].pc = "off" => run[r] = Off
    /\ mode # "overlap" => \A r, s \in Runs : run[r] # Off /\ run[s] # Off => r = s

(* What a run has read is still so, unless a PASS changes during it.       *)
ReadIsCurrent ==
    mode # "during" => \A r \in Runs : \A i \in Held(run[r]) :
        row[i.p].kind = run[r].kind /\ row[i.p].dates = i.dates

(* A cancelled PASS stays so, and one that a run still takes for live has  *)
(* not been answered as cancelled.                                         *)
CancelledIsLast ==
    \A r \in Runs : \A i \in Held(run[r]) : row[i.p].kind # run[r].kind =>
        run[r].kind = "live" /\ row[i.p].status # "SUCCESS"

(* A SUCCESS about to be saved was heard.                                  *)
AnswerIsHeard ==
    \A r \in Runs : run[r].pc = "save" /\ run[r].status = "SUCCESS" =>
        IF run[r].kind = "cancelled" THEN ft[run[r].cur.p] = Cancelled
        ELSE mode # "during" => ft[run[r].cur.p] = run[r].cur.dates

(* An instance that is saved as a whole only brings its status back with   *)
(* the dates that the status is about.                                     *)
EditorIsHarmless ==
    editor # NoPass =>
        /\ mode = "stale"
        /\ row[editor.p].kind = "live" =>
              /\ editor.dates.start = row[editor.p].dates.start
              /\ editor.dates.end <= row[editor.p].dates.end
              /\ editor.status = "SUCCESS" /\ editor.dates = row[editor.p].dates =>
                    ft[editor.p] = row[editor.p].dates

IInv ==
    /\ TypeOK /\ OneRun /\ ReadIsCurrent /\ CancelledIsLast /\ AnswerIsHeard /\ EditorIsHarmless
    /\ SuccessMeansKnown /\ CancelledStays

(***************************************************************************)
(* What a step of the command does.                                        *)
(***************************************************************************)
(* The run r, which is alone unless runs overlap, goes on as x.            *)
RunGoes(r, x) ==
    /\ x \in RunRow /\ run' = [run EXCEPT ![r] = x]
    /\ x.pc = "off" => x = Off
    /\ x.pc \in Calling => x.cur \in Item
    /\ mode # "overlap" => \A s \in Runs \ {r} : run[s] = Off
    /\ UNCHANGED <<mode, editor, begun>>

(* It works on what it had read, or reads rows as they are; a status may   *)
(* change, never to SUCCESS.                                               *)
Works(x, old) ==
    /\ ft' = ft /\ row' \in [Passes -> PassRow]
    /\ x.pc = "save" => x.status # "SUCCESS"
    /\ \A i \in Held(x) :
          \/ i \in Held(old) /\ x.kind = old.kind
          \/ i \in Item /\ row[i.p].kind = x.kind /\ row[i.p].dates = i.dates
    /\ \A p \in Passes :
          /\ row'[p].kind = row[p].kind /\ row'[p].dates = row[p].dates
          /\ row'[p].status = "SUCCESS" => row[p].status = "SUCCESS"
(* France Travail may have heard it.                                       *)
Hears(r, x) ==
    /\ run[r].pc = "maj_pass" /\ x.pc = "save"
    /\ x.kind = run[r].kind /\ x.todo = run[r].todo /\ x.cur = run[r].cur
    /\ ft' = Told(r) \/ (ft' = ft /\ x.status # "SUCCESS")
    /\ row' = row
(* It saves the answer.                                                    *)
Saves(r, x) ==
    /\ run[r].pc = "save" /\ x.pc = "notify"
    /\ x.kind = run[r].kind /\ x.todo = run[r].todo
    /\ LET p == run[r].cur.p IN
       \/ row[p].kind # run[r].kind /\ row' = row
       \/ /\ row[p].kind = run[r].kind
          /\ \E new \in PassRow :
                /\ row' = [row EXCEPT ![p] = new]
                /\ new.kind = row[p].kind /\ new.dates = row[p].dates
                /\ new.status = run[r].status
    /\ ft' = ft

RunEffect(r) == \E x : RunGoes(r, x) /\ (Works(x, run[r]) \/ Hears(r, x) \/ Saves(r, x))

LEMMA OffType == Off \in RunRow /\ Off.pc = "off" /\ Held(Off) = {}
  BY DEF Off, RunRow, Steps, Calling, Kinds, Statuses, Endpoints, NoPass, Held

(* The row of a run that has a batch.                                      *)
Loaded(k, t, n) == [Off EXCEPT !.pc = "notify", !.kind = k, !.todo = t, !.room = n]

LEMMA LoadedRow ==
    ASSUME NEW k \in Kinds, NEW t \in SUBSET Item, NEW n \in Int
    PROVE  /\ Loaded(k, t, n).pc = "notify" /\ Loaded(k, t, n).kind = k
           /\ Loaded(k, t, n).todo = t /\ Loaded(k, t, n) \in RunRow
<1> DEFINE x == [Off EXCEPT !.pc = "notify", !.kind = k, !.todo = t, !.room = n]
<1>1. /\ \A y \in RunRow : [y EXCEPT !.pc = "notify"] \in RunRow
      /\ \A y \in RunRow : [y EXCEPT !.kind = k] \in RunRow
      /\ \A y \in RunRow : [y EXCEPT !.todo = t] \in RunRow
      /\ \A y \in RunRow : [y EXCEPT !.room = n] \in RunRow
  BY DEF RunRow, Steps
<1>2. [[[[Off EXCEPT !.pc = "notify"] EXCEPT !.kind = k] EXCEPT !.todo = t] EXCEPT !.room = n] \in RunRow
  BY <1>1, OffType, Zenon
<1>3. x \in RunRow
  BY <1>2, Zenon
<1>4. x.pc = "notify" /\ x.kind = k /\ x.todo = t
  BY DEF Off
<1> QED BY <1>3, <1>4 DEF Loaded

(* Only the runs that are under way change.                                *)
LEMMA UnderWay ==
    ASSUME IInv, NEW r \in Runs, run[r].pc # "off"
    PROVE  mode # "overlap" => \A s \in Runs \ {r} : run[s] = Off
<1>1. run[r] # Off
  BY OffType
<1> QED BY <1>1 DEF IInv, OneRun

LEMMA BatchSmall ==
    ASSUME NEW kind, NEW room
    PROVE  Batch(kind, room) \in SUBSET Passes /\ Cardinality(Batch(kind, room)) \in Nat
<1>1. IsFiniteSet(Passes)
  BY FS_Interval, PEAssumption DEF Passes
<1>2. Batch(kind, room) \in SUBSET Passes
  BY DEF Batch, Queue
<1> QED BY <1>1, <1>2, FS_Subset, FS_CardinalityType

LEMMA StartEffect ==
    ASSUME IInv, NEW r \in Runs, StartRun(r)
    PROVE  RunEffect(r)
<1> DEFINE x == [run[r] EXCEPT !.pc = "fix"]
<1>0. TypeOK /\ run[r] \in RunRow
  BY DEF IInv, TypeOK
<1>1. run' = [run EXCEPT ![r] = x] /\ UNCHANGED <<row, ft, mode, editor, begun>>
  BY DEF StartRun, Goto, World
<1>2. x \in RunRow
  BY <1>0 DEF RunRow, Steps
<1>3. x.pc = "fix" /\ x.todo = run[r].todo /\ x.kind = run[r].kind
  BY <1>0 DEF RunRow
<1>4. mode # "overlap" => \A s \in Runs \ {r} : run[s] = Off
  BY DEF StartRun
<1> HIDE DEF x
<1>5. RunGoes(r, x)
  BY <1>1, <1>2, <1>3, <1>4 DEF RunGoes, Calling
<1>6. Works(x, run[r])
  <2>1. Held(x) = run[r].todo /\ run[r].todo \in SUBSET Held(run[r])
    BY <1>3 DEF Held, Calling
  <2> QED BY <1>0, <1>1, <1>3, <2>1 DEF Works, TypeOK
<1> QED BY <1>5, <1>6 DEF RunEffect

(* One of the three UPDATEs of the statuses.                               *)
LEMMA UpdateEffect ==
    ASSUME IInv, NEW r \in Runs, NEW S, NEW st \in {"READY", "PENDING"},
           NEW from \in {"fix", "ready", "cready"}, NEW to \in {"ready", "cready", "select"},
           Goto(r, from, to), UpdateStatus(S, st), UNCHANGED <<ft, mode, editor, begun>>
    PROVE  RunEffect(r)
<1> DEFINE x == [run[r] EXCEPT !.pc = to]
           new(p) == IF p \in S THEN [row[p] EXCEPT !.status = st] ELSE row[p]
<1>0. TypeOK /\ run[r] \in RunRow
  BY DEF IInv, TypeOK
<1>1. run' = [run EXCEPT ![r] = x] /\ row' = [p \in Passes |-> new(p)]
  BY DEF Goto, UpdateStatus
<1>2. x \in RunRow
  BY <1>0 DEF RunRow, Steps
<1>3. x.pc = to /\ x.todo = run[r].todo /\ x.kind = run[r].kind
  BY <1>0 DEF RunRow
<1>4. mode # "overlap" => \A s \in Runs \ {r} : run[s] = Off
  BY UnderWay DEF Goto
<1>5. ASSUME NEW p \in Passes
      PROVE  /\ new(p) \in PassRow
             /\ new(p).kind = row[p].kind /\ new(p).dates = row[p].dates
             /\ new(p).status = "SUCCESS" => row[p].status = "SUCCESS"
  <2>1. row[p] \in PassRow
    BY <1>0 DEF TypeOK
  <2>2. /\ [row[p] EXCEPT !.status = st] \in PassRow
        /\ [row[p] EXCEPT !.status = st].kind = row[p].kind
        /\ [row[p] EXCEPT !.status = st].dates = row[p].dates
        /\ [row[p] EXCEPT !.status = st].status = st
    BY <2>1 DEF PassRow, Statuses
  <2> QED BY <2>1, <2>2
<1> HIDE DEF x, new
<1>6. RunGoes(r, x)
  BY <1>1, <1>2, <1>3, <1>4 DEF RunGoes, Calling
<1>7. Works(x, run[r])
  <2>1. Held(x) = run[r].todo /\ run[r].todo \in SUBSET Held(run[r])
    BY <1>3 DEF Held, Calling
  <2>2. row' \in [Passes -> PassRow] /\ \A p \in Passes : row'[p] = new(p)
    BY <1>1, <1>5
  <2> QED BY <1>3, <1>5, <2>1, <2>2 DEF Works, Calling
<1> QED BY <1>6, <1>7 DEF RunEffect

LEMMA PrepareEffect ==
    ASSUME IInv, NEW r \in Runs, FixErrors(r) \/ PrepareLive(r) \/ PrepareCancelled(r)
    PROVE  RunEffect(r)
<1>1. CASE FixErrors(r)
  BY <1>1, UpdateEffect DEF FixErrors, World
<1>2. CASE PrepareLive(r)
  BY <1>2, UpdateEffect DEF PrepareLive, World
<1>3. CASE PrepareCancelled(r)
  BY <1>3, UpdateEffect DEF PrepareCancelled, World
<1> QED BY <1>1, <1>2, <1>3

LEMMA SelectEffect ==
    ASSUME IInv, NEW r \in Runs, Select(r)
    PROVE  RunEffect(r)
<1>0. TypeOK /\ run[r] \in RunRow /\ row \in [Passes -> PassRow] /\ begun \in [Passes -> BOOLEAN]
  BY DEF IInv, TypeOK
<1> DEFINE kind == IF run[r].pc = "select" THEN "live" ELSE "cancelled"
           room == IF run[r].pc = "select" THEN BatchSize ELSE run[r].room
           batch == Batch(kind, room)
           items == {[p |-> p, dates |-> row[p].dates, begun |-> begun[p]] : p \in batch}
           left == room - Cardinality(batch)
           x == Loaded(kind, items, left)
<1>1. run' = [run EXCEPT ![r] = x] /\ UNCHANGED <<row, ft, mode, editor, begun>>
  BY DEF Select, World, Loaded
<1>2. kind \in Kinds /\ room \in Int /\ batch \in SUBSET Passes /\ Cardinality(batch) \in Nat
  <2>1. kind \in Kinds
    BY DEF Kinds
  <2>2. room \in Int
    <3>1. run[r].room \in Int
      BY <1>0 DEF RunRow
    <3>2. BatchSize \in Int
      BY PEAssumption
    <3> QED BY <3>1, <3>2
  <2> QED BY <2>1, <2>2, BatchSmall
<1>3. items \in SUBSET Item
  <2> HIDE DEF batch
  <2> QED BY <1>0, <1>2 DEF Item, PassRow
<1>4. left \in Int
  <2> HIDE DEF batch, room
  <2> QED BY <1>2
<1>5. \A i \in items : i \in Item /\ row[i.p].kind = kind /\ row[i.p].dates = i.dates
  <2>1. \A p \in batch : row[p].kind = kind
    BY DEF Batch, Queue
  <2> HIDE DEF batch, kind
  <2> QED BY <1>3, <2>1
<1> HIDE DEF kind, items, left
<1>6. x.pc = "notify" /\ x.kind = kind /\ x.todo = items /\ x \in RunRow
  BY <1>2, <1>3, <1>4, LoadedRow
<1>7. mode # "overlap" => \A s \in Runs \ {r} : run[s] = Off
  BY UnderWay DEF Select
<1> HIDE DEF x
<1>8. RunGoes(r, x)
  BY <1>1, <1>6, <1>7 DEF RunGoes, Calling
<1>9. Works(x, run[r])
  <2>1. Held(x) = items
    BY <1>6 DEF Held, Calling
  <2> QED BY <1>0, <1>1, <1>5, <1>6, <2>1 DEF Works
<1> QED BY <1>8, <1>9 DEF RunEffect

(* The row of a run that has an answer to save.                            *)
AnswerOf(y, st, ep) == [y EXCEPT !.pc = "save", !.status = st, !.endpoint = ep]

LEMMA AnswerRow ==
    ASSUME NEW y \in RunRow, NEW st \in Statuses, NEW ep \in Endpoints
    PROVE  /\ AnswerOf(y, st, ep) \in RunRow
           /\ AnswerOf(y, st, ep).pc = "save" /\ AnswerOf(y, st, ep).status = st
           /\ AnswerOf(y, st, ep).kind = y.kind /\ AnswerOf(y, st, ep).todo = y.todo
           /\ AnswerOf(y, st, ep).cur = y.cur
<1> DEFINE x == [y EXCEPT !.pc = "save", !.status = st, !.endpoint = ep]
<1>1. /\ \A z \in RunRow : [z EXCEPT !.pc = "save"] \in RunRow
      /\ \A z \in RunRow : [z EXCEPT !.status = st] \in RunRow
      /\ \A z \in RunRow : [z EXCEPT !.endpoint = ep] \in RunRow
  BY DEF RunRow, Steps, Calling
<1>2. [[[y EXCEPT !.pc = "save"] EXCEPT !.status = st] EXCEPT !.endpoint = ep] \in RunRow
  BY <1>1, Zenon
<1>3. x \in RunRow
  BY <1>2, Zenon
<1>4. x.pc = "save" /\ x.status = st /\ x.kind = y.kind /\ x.todo = y.todo /\ x.cur = y.cur
  BY DEF RunRow
<1> QED BY <1>3, <1>4 DEF AnswerOf

LEMMA AnsweredIs ==
    ASSUME TypeOK, NEW r \in Runs, NEW st \in Statuses, NEW ep \in Endpoints, Answered(r, st, ep)
    PROVE  run' = [run EXCEPT ![r] = AnswerOf(run[r], st, ep)]
<1>1. run \in [Runs -> RunRow]
  BY DEF TypeOK
<1> QED BY <1>1 DEF Answered, AnswerOf

(* A set of PASS has a last one: the sets of the later PASS are ordered by *)
(* inclusion, and one of them is the smallest (WFMin).                     *)
LEMMA LastPass ==
    ASSUME NEW P \in SUBSET Passes, P # {}
    PROVE  \E p \in P : \A q \in P : q <= p
<1> DEFINE C == {p..NumPasses : p \in P}
<1>0. NumPasses \in Nat /\ \A p \in P : p \in Int /\ 1 <= p /\ p <= NumPasses
  BY PEAssumption DEF Passes
<1>1. IsWellFoundedOn(StrictSubsetOrdering(Passes), SUBSET Passes)
  <2>1. IsFiniteSet(Passes)
    BY FS_Interval, PEAssumption DEF Passes
  <2> QED BY <2>1, FS_StrictSubsetOrderingWellFounded, FS_FiniteSubsetsOfFinite
<1>2. C \in SUBSET SUBSET Passes /\ C # {}
  <2>1. \A p \in P : p..NumPasses \in SUBSET Passes
    BY <1>0 DEF Passes
  <2> QED BY <2>1
<1>3. PICK T \in C : \A U \in C : <<U, T>> \notin StrictSubsetOrdering(Passes)
  <2> HIDE DEF C
  <2> QED BY <1>1, <1>2, WFMin
<1>4. PICK p \in P : T = p..NumPasses
  BY <1>3
<1>5. ASSUME NEW q \in P, p < q PROVE FALSE
  <2>1. q..NumPasses \in C /\ q..NumPasses \subseteq T /\ p \in T /\ p \notin q..NumPasses
    BY <1>0, <1>4, <1>5
  <2>2. <<q..NumPasses, T>> \in StrictSubsetOrdering(Passes)
    BY <1>2, <1>3, <2>1 DEF StrictSubsetOrdering
  <2> QED BY <1>3, <2>1, <2>2
<1> QED BY <1>0, <1>5

LEMMA LastItem ==
    ASSUME NEW todo \in SUBSET Item, todo # {}
    PROVE  (CHOOSE j \in todo : \A k \in todo : k.p <= j.p) \in todo
<1> DEFINE P == {i.p : i \in todo}
<1>1. P \in SUBSET Passes /\ P # {}
  BY DEF Item
<1>2. PICK p \in P : \A q \in P : q <= p
  <2> HIDE DEF P
  <2> QED BY <1>1, LastPass
<1>3. PICK j \in todo : j.p = p
  BY <1>2
<1>4. \A k \in todo : k.p <= j.p
  BY <1>2, <1>3
<1> QED BY <1>4

LEMMA NotifyEffect ==
    ASSUME IInv, NEW r \in Runs, Notify(r)
    PROVE  RunEffect(r)
<1>0. TypeOK /\ run[r] \in RunRow /\ row \in [Passes -> PassRow]
  BY DEF IInv, TypeOK
<1> DEFINE i == CHOOSE j \in run[r].todo : \A k \in run[r].todo : k.p <= j.p
           next == [run[r] EXCEPT !.todo = @ \ {i}, !.cur = i]
           saved(status) == AnswerOf(next, status, "none")
           goto(pc) == [next EXCEPT !.pc = pc]
<1>1. i \in run[r].todo /\ run[r].todo \in SUBSET Item
  BY <1>0, LastItem DEF Notify, RunRow
<1> DEFINE x == IF ~i.begun THEN saved("PENDING")
                ELSE IF i.p \in OddKinds THEN saved("ERROR")
                ELSE IF ~complete[i.p] THEN saved("PENDING")
                ELSE IF known[i.p] THEN goto("maj_pass")
                ELSE goto("rech_individu")
<1>2. run' = [run EXCEPT ![r] = x] /\ UNCHANGED <<row, ft, mode, editor, begun>>
  BY DEF Notify, World, AnswerOf
<1> HIDE DEF i
<1>3. /\ next \in RunRow /\ next.todo = run[r].todo \ {i} /\ next.cur = i
      /\ next.kind = run[r].kind
  <2>1. /\ \A y \in RunRow : [y EXCEPT !.todo = @ \ {i}] \in RunRow
        /\ \A y \in RunRow : [y EXCEPT !.cur = i] \in RunRow
    BY <1>1 DEF RunRow
  <2>2. [[run[r] EXCEPT !.todo = @ \ {i}] EXCEPT !.cur = i] \in RunRow
    BY <1>0, <2>1, Zenon
  <2>3. next \in RunRow
    BY <2>2, Zenon
  <2>4. next.todo = run[r].todo \ {i} /\ next.cur = i /\ next.kind = run[r].kind
    BY <1>0 DEF RunRow
  <2> QED BY <2>3, <2>4
<1> HIDE DEF next
<1>4. \A st \in {"PENDING", "ERROR"} :
         /\ saved(st) \in RunRow /\ saved(st).pc = "save" /\ saved(st).status = st
         /\ saved(st).kind = next.kind /\ saved(st).todo = next.todo /\ saved(st).cur = next.cur
  <2>1. {"PENDING", "ERROR"} \subseteq Statuses /\ "none" \in Endpoints
    BY DEF Statuses, Endpoints
  <2> QED BY <1>3, <2>1, AnswerRow
<1>5. \A pc \in {"maj_pass", "rech_individu"} :
         /\ goto(pc) \in RunRow /\ goto(pc).pc = pc
         /\ goto(pc).kind = next.kind /\ goto(pc).todo = next.todo /\ goto(pc).cur = next.cur
  BY <1>3 DEF RunRow, Steps, Calling
<1>6. \/ \E st \in {"PENDING", "ERROR"} : x = saved(st)
      \/ \E pc \in {"maj_pass", "rech_individu"} : x = goto(pc)
  <2> HIDE DEF saved, goto
  <2> QED BY DEF x
<1> HIDE DEF saved, goto, x
<1>7. /\ x \in RunRow /\ x.pc \in Calling /\ (x.pc = "save" => x.status # "SUCCESS")
      /\ x.kind = run[r].kind /\ x.todo = run[r].todo \ {i} /\ x.cur = i
  BY <1>3, <1>4, <1>5, <1>6 DEF Calling
<1>8. mode # "overlap" => \A s \in Runs \ {r} : run[s] = Off
  BY UnderWay DEF Notify
<1>9. RunGoes(r, x)
  BY <1>1, <1>2, <1>7, <1>8 DEF RunGoes, Calling
<1>10. Works(x, run[r])
  <2>1. Held(x) \in SUBSET Held(run[r])
    BY <1>1, <1>7 DEF Held
  <2> QED BY <1>0, <1>2, <1>7, <2>1 DEF Works
<1> QED BY <1>9, <1>10 DEF RunEffect

LEMMA CallEffect ==
    ASSUME IInv, NEW r \in Runs, SearchAnswer(r) \/ MajAnswer(r) \/ CallFails(r)
    PROVE  RunEffect(r)
<1>0. TypeOK /\ run[r] \in RunRow /\ row \in [Passes -> PassRow] /\ run \in [Runs -> RunRow]
  BY DEF IInv, TypeOK
<1>1. /\ run[r].pc \in {"rech_individu", "maj_pass"} /\ run[r].cur \in Item
      /\ UNCHANGED <<row, mode, editor, begun>>
  BY <1>0 DEF SearchAnswer, MajAnswer, CallFails, World, TypeOK, Calling
<1>2. mode # "overlap" => \A s \in Runs \ {r} : run[s] = Off
  BY <1>1, UnderWay
<1>3. CASE /\ run[r].pc = "rech_individu" /\ run' = [run EXCEPT ![r].pc = "maj_pass"] /\ ft' = ft
  <2> DEFINE x == [run[r] EXCEPT !.pc = "maj_pass"]
  <2>1. /\ x \in RunRow /\ x.pc = "maj_pass" /\ x.kind = run[r].kind /\ x.todo = run[r].todo
        /\ x.cur = run[r].cur
    BY <1>0 DEF RunRow, Steps, Calling
  <2>2. run' = [run EXCEPT ![r] = x]
    BY <1>3
  <2> HIDE DEF x
  <2>3. RunGoes(r, x)
    BY <1>1, <1>2, <2>1, <2>2 DEF RunGoes, Calling
  <2>4. Held(x) = Held(run[r])
    BY <1>3, <2>1 DEF Held, Calling
  <2>5. Works(x, run[r])
    BY <1>0, <1>1, <1>3, <2>1, <2>4 DEF Works
  <2> QED BY <2>3, <2>5 DEF RunEffect
<1>4. ASSUME NEW st \in Statuses, NEW ep \in Endpoints, Answered(r, st, ep),
             \/ ft' = ft /\ st # "SUCCESS"
             \/ ft' = Told(r) /\ run[r].pc = "maj_pass"
      PROVE  RunEffect(r)
  <2> DEFINE x == AnswerOf(run[r], st, ep)
  <2>1. run' = [run EXCEPT ![r] = x]
    BY <1>0, <1>4, AnsweredIs
  <2>2. /\ x \in RunRow /\ x.pc = "save" /\ x.status = st
        /\ x.kind = run[r].kind /\ x.todo = run[r].todo /\ x.cur = run[r].cur
    BY <1>0, AnswerRow
  <2> HIDE DEF x
  <2>3. RunGoes(r, x)
    BY <1>1, <1>2, <2>1, <2>2 DEF RunGoes
  <2>4. CASE ft' = ft /\ st # "SUCCESS"
    <3>1. Held(x) = Held(run[r])
      BY <1>1, <2>2 DEF Held, Calling
    <3>2. Works(x, run[r])
      BY <1>0, <1>1, <2>2, <2>4, <3>1 DEF Works
    <3> QED BY <2>3, <3>2 DEF RunEffect
  <2>5. CASE ft' = Told(r) /\ run[r].pc = "maj_pass"
    <3>1. Hears(r, x)
      BY <1>1, <2>2, <2>5 DEF Hears
    <3> QED BY <2>3, <3>1 DEF RunEffect
  <2> QED BY <1>4, <2>4, <2>5
<1>5. {"SUCCESS", "ERROR", "SHOULD_RETRY"} \subseteq Statuses
      /\ {"none", "rech_individu", "maj_pass"} \subseteq Endpoints
  BY DEF Statuses, Endpoints
<1>6. CASE SearchAnswer(r)
  BY <1>3, <1>4, <1>5, <1>6 DEF SearchAnswer
<1>7. CASE MajAnswer(r)
  BY <1>4, <1>5, <1>7 DEF MajAnswer
<1>8. CASE CallFails(r)
  BY <1>4, <1>5, <1>8 DEF CallFails
<1> QED BY <1>6, <1>7, <1>8

LEMMA SaveEffect ==
    ASSUME IInv, NEW r \in Runs, SaveStatus(r)
    PROVE  RunEffect(r)
<1>0. /\ TypeOK /\ run[r] \in RunRow /\ row \in [Passes -> PassRow]
      /\ run[r].kind \in Kinds /\ run[r].todo \in SUBSET Item /\ run[r].room \in Int
      /\ run[r].status \in Statuses /\ run[r].endpoint \in Endpoints
  BY DEF IInv, TypeOK, RunRow
<1>1. run[r].cur \in Item /\ run[r].cur.p \in Passes /\ run[r].pc = "save"
  BY <1>0 DEF SaveStatus, TypeOK, Calling, Item
<1> DEFINE x == Loaded(run[r].kind, run[r].todo, run[r].room)
           p == run[r].cur.p
           new == [row[p] EXCEPT !.status = run[r].status, !.endpoint = run[r].endpoint]
<1>2. run' = [run EXCEPT ![r] = x] /\ UNCHANGED <<ft, mode, editor, begun>>
  BY DEF SaveStatus, World, Loaded
<1>3. /\ x \in RunRow /\ x.pc = "notify" /\ x.kind = run[r].kind /\ x.todo = run[r].todo
  BY <1>0, LoadedRow
<1>4. row' = IF row[p].kind # run[r].kind THEN row ELSE [row EXCEPT ![p] = new]
  BY <1>0, <1>1 DEF SaveStatus
<1>5. new \in PassRow /\ new.kind = row[p].kind /\ new.dates = row[p].dates /\ new.status = run[r].status
  <2>1. row[p] \in PassRow
    BY <1>0, <1>1
  <2>2. /\ \A y \in PassRow : [y EXCEPT !.status = run[r].status] \in PassRow
        /\ \A y \in PassRow : [y EXCEPT !.endpoint = run[r].endpoint] \in PassRow
    BY <1>0 DEF PassRow
  <2>3. [[row[p] EXCEPT !.status = run[r].status] EXCEPT !.endpoint = run[r].endpoint] \in PassRow
    BY <2>1, <2>2, Zenon
  <2>4. new \in PassRow
    BY <2>3, Zenon
  <2>5. new.kind = row[p].kind /\ new.dates = row[p].dates /\ new.status = run[r].status
    BY <2>1 DEF PassRow
  <2> QED BY <2>4, <2>5
<1>6. mode # "overlap" => \A s \in Runs \ {r} : run[s] = Off
  BY <1>1, UnderWay
<1> HIDE DEF x, new
<1>7. RunGoes(r, x)
  BY <1>2, <1>3, <1>6 DEF RunGoes, Calling
<1>8. Saves(r, x)
  BY <1>1, <1>2, <1>3, <1>4, <1>5 DEF Saves
<1> QED BY <1>7, <1>8 DEF RunEffect

LEMMA EndEffect ==
    ASSUME IInv, NEW r \in Runs, EndBatch(r) \/ Crash(r)
    PROVE  RunEffect(r)
<1>0. TypeOK /\ run[r] \in RunRow /\ row \in [Passes -> PassRow] /\ run[r].room \in Int
  BY DEF IInv, TypeOK, RunRow
<1>1. UNCHANGED <<row, ft, mode, editor, begun>>
  BY DEF EndBatch, Crash, World
<1>2. mode # "overlap" => \A s \in Runs \ {r} : run[s] = Off
  <2>1. run[r].pc # "off"
    BY DEF EndBatch, Crash, IInv, OneRun
  <2> QED BY <2>1, UnderWay
<1> DEFINE x == [Off EXCEPT !.pc = "cselect", !.room = run[r].room]
<1>3. x \in RunRow /\ x.pc = "cselect" /\ x.todo = {}
  <2>1. /\ \A y \in RunRow : [y EXCEPT !.pc = "cselect"] \in RunRow
        /\ \A y \in RunRow : [y EXCEPT !.room = run[r].room] \in RunRow
    BY <1>0 DEF RunRow, Steps
  <2>2. [[Off EXCEPT !.pc = "cselect"] EXCEPT !.room = run[r].room] \in RunRow
    BY <2>1, OffType, Zenon
  <2>3. x \in RunRow
    BY <2>2, Zenon
  <2>4. x.pc = "cselect" /\ x.todo = {}
    BY DEF Off
  <2> QED BY <2>3, <2>4
<1>4. \E y \in {x, Off} : run' = [run EXCEPT ![r] = y]
  BY DEF EndBatch, Crash
<1> HIDE DEF x
<1>5. PICK y \in {x, Off} : run' = [run EXCEPT ![r] = y]
  BY <1>4
<1>6. Held(y) = {} /\ y.pc \notin Calling /\ y \in RunRow /\ (y.pc = "off" => y = Off)
  BY <1>3, <1>5, OffType DEF Held, Calling
<1>7. RunGoes(r, y)
  BY <1>1, <1>2, <1>5, <1>6 DEF RunGoes
<1>8. Works(y, run[r])
  BY <1>0, <1>1, <1>6 DEF Works, Calling
<1> QED BY <1>7, <1>8 DEF RunEffect

(***************************************************************************)
(* What the rest of the application does.                                  *)
(***************************************************************************)
(* The row of the live PASS p becomes new: SUCCESS only stays with the     *)
(* dates that France Travail was told.                                     *)
Changes(p, new) ==
    /\ Quiet /\ UNCHANGED <<mode, ft, run, begun>>
    /\ new \in PassRow /\ row' = [row EXCEPT ![p] = new] /\ row[p].kind = "live"
    /\ new.kind = "cancelled" => new.status # "SUCCESS"
    /\ new.kind = "live" /\ new.status = "SUCCESS" =>
          /\ new.dates = row[p].dates
          /\ row[p].status = "SUCCESS" \/ (mode # "during" => ft[p] = new.dates)
    /\ \/ editor' = NoPass
       \/ /\ editor' = editor
          /\ new.dates = row[p].dates \/ (/\ new.dates.start = row[p].dates.start
                                          /\ new.dates.end = row[p].dates.end + 1)
ReadsOrGivesUp ==
    /\ UNCHANGED <<mode, ft, run, row>> /\ begun' \in [Passes -> BOOLEAN]
    /\ \/ editor' \in {editor, NoPass}
       \/ /\ mode = "stale"
          /\ \E p \in Passes : /\ row[p].kind = "live" /\ editor' \in Edit /\ editor'.p = p
                               /\ editor'.dates = row[p].dates /\ editor'.status = row[p].status
WorldEffect == ReadsOrGivesUp \/ \E p \in Passes : \E new : Changes(p, new)

Rewritten(y, d, st) == [y EXCEPT !.dates = d, !.status = st]

LEMMA RewrittenRow ==
    ASSUME NEW y \in PassRow, NEW d \in Period, NEW st \in Statuses
    PROVE  /\ Rewritten(y, d, st) \in PassRow /\ Rewritten(y, d, st).kind = y.kind
           /\ Rewritten(y, d, st).dates = d /\ Rewritten(y, d, st).status = st
<1> DEFINE x == [y EXCEPT !.dates = d, !.status = st]
<1>1. /\ \A z \in PassRow : [z EXCEPT !.status = st] \in PassRow
      /\ \A z \in PassRow : [z EXCEPT !.dates = d] \in PassRow
  BY DEF PassRow
<1>2. [[y EXCEPT !.dates = d] EXCEPT !.status = st] \in PassRow
  BY <1>1, Zenon
<1>3. x \in PassRow
  BY <1>2, Zenon
<1>4. x.kind = y.kind /\ x.dates = d /\ x.status = st
  BY DEF PassRow
<1> QED BY <1>3, <1>4 DEF Rewritten

(* The trigger: the dates change and the status is PENDING, or the status  *)
(* changes alone.                                                          *)
LEMMA TriggerEffect ==
    ASSUME TypeOK, NEW p \in Passes, NEW d \in Period, NEW st \in Statuses, UpdateRow(p, d, st)
    PROVE  \E new \in PassRow :
              /\ row' = [row EXCEPT ![p] = new] /\ new.kind = row[p].kind /\ new.dates = d
              /\ \/ d = row[p].dates /\ new.status = st
                 \/ d # row[p].dates /\ new.status = "PENDING"
<1>0. row \in [Passes -> PassRow] /\ row[p] \in PassRow /\ "PENDING" \in Statuses
  BY DEF TypeOK, Statuses
<1>1. CASE d = row[p].dates /\ row' = [row EXCEPT ![p].status = st]
  <2> DEFINE new == [row[p] EXCEPT !.status = st]
  <2>1. row' = [row EXCEPT ![p] = new]
    BY <1>0, <1>1
  <2>2. new \in PassRow /\ new.kind = row[p].kind /\ new.dates = row[p].dates /\ new.status = st
    BY <1>0 DEF PassRow
  <2> HIDE DEF new
  <2> QED BY <1>1, <2>1, <2>2
<1>2. CASE d # row[p].dates /\ row' = [row EXCEPT ![p].dates = d, ![p].status = "PENDING"]
  <2> DEFINE new == Rewritten(row[p], d, "PENDING")
  <2>1. row' = [row EXCEPT ![p] = new]
    BY <1>0, <1>2 DEF Rewritten
  <2>2. new \in PassRow /\ new.kind = row[p].kind /\ new.dates = d /\ new.status = "PENDING"
    BY <1>0, RewrittenRow
  <2> HIDE DEF new
  <2> QED BY <1>2, <2>1, <2>2
<1> QED BY <1>1, <1>2 DEF UpdateRow

LEMMA WorldEffects ==
    ASSUME IInv,
           \/ \E p \in Changing : ShiftEnd(p) \/ ReadToSave(p) \/ Delete(p) \/ Begin(p) \/ EditProfile(p)
           \/ SaveWhole
    PROVE  WorldEffect
<1>0. /\ TypeOK /\ row \in [Passes -> PassRow] /\ begun \in [Passes -> BOOLEAN]
      /\ Changing \subseteq Passes
  BY PEAssumption DEF IInv, TypeOK
<1>1. ASSUME NEW p \in Passes, ShiftEnd(p) PROVE WorldEffect
  <2> DEFINE d == [row[p].dates EXCEPT !.end = @ + 1]
  <2>1. row[p].dates \in Period /\ row[p].status \in Statuses
    BY <1>0 DEF PassRow
  <2>2. /\ d \in Period /\ d # row[p].dates /\ d.start = row[p].dates.start
        /\ d.end = row[p].dates.end + 1
    BY <2>1 DEF Period
  <2>3. UpdateRow(p, d, row[p].status)
    BY <1>1 DEF ShiftEnd
  <2> HIDE DEF d
  <2>4. PICK new \in PassRow :
              /\ row' = [row EXCEPT ![p] = new] /\ new.kind = row[p].kind /\ new.dates = d
              /\ new.status = "PENDING"
    BY <1>0, <2>1, <2>2, <2>3, TriggerEffect
  <2>5. Changes(p, new)
    BY <1>1, <2>2, <2>4 DEF ShiftEnd, Changes
  <2> QED BY <2>5 DEF WorldEffect
<1>2. ASSUME NEW p \in Passes, ReadToSave(p) PROVE WorldEffect
  <2>1. row[p].dates \in Period /\ row[p].status \in Statuses
    BY <1>0 DEF PassRow
  <2>2. editor' = [p |-> p, dates |-> row[p].dates, status |-> row[p].status]
    BY <1>2 DEF ReadToSave
  <2>3. /\ editor' \in Edit /\ editor'.p = p /\ editor'.dates = row[p].dates
        /\ editor'.status = row[p].status
    BY <2>1, <2>2 DEF Edit
  <2>4. /\ mode = "stale" /\ row[p].kind = "live" /\ UNCHANGED <<mode, ft, run, row, begun>>
    BY <1>2 DEF ReadToSave
  <2> QED BY <1>0, <2>3, <2>4 DEF WorldEffect, ReadsOrGivesUp
<1>3. ASSUME NEW p \in Passes, Delete(p) PROVE WorldEffect
  <2> DEFINE new == [row[p] EXCEPT !.kind = "cancelled", !.status = "PENDING", !.endpoint = "none"]
  <2>1. row' = [row EXCEPT ![p] = new] /\ row[p] \in PassRow
    BY <1>0, <1>3 DEF Delete
  <2>2. new \in PassRow
    <3>1. /\ \A y \in PassRow : [y EXCEPT !.kind = "cancelled"] \in PassRow
          /\ \A y \in PassRow : [y EXCEPT !.status = "PENDING"] \in PassRow
          /\ \A y \in PassRow : [y EXCEPT !.endpoint = "none"] \in PassRow
      BY DEF PassRow, Kinds, Statuses, Endpoints
    <3>2. [[[row[p] EXCEPT !.kind = "cancelled"] EXCEPT !.status = "PENDING"]
              EXCEPT !.endpoint = "none"] \in PassRow
      BY <2>1, <3>1, Zenon
    <3> QED BY <3>2, Zenon
  <2>3. new.kind = "cancelled" /\ new.status = "PENDING" /\ new.dates = row[p].dates
    BY <2>1 DEF PassRow
  <2> HIDE DEF new
  <2>4. Changes(p, new)
    BY <1>3, <2>1, <2>2, <2>3 DEF Delete, Changes
  <2> QED BY <2>4 DEF WorldEffect
<1>4. ASSUME NEW p \in Passes, Begin(p) \/ EditProfile(p) PROVE WorldEffect
  <2>1. UNCHANGED <<mode, ft, run, row, editor>> /\ begun' \in [Passes -> BOOLEAN]
    BY <1>0, <1>4 DEF Begin, EditProfile
  <2> QED BY <2>1 DEF WorldEffect, ReadsOrGivesUp
<1>5. ASSUME SaveWhole PROVE WorldEffect
  <2> DEFINE p == editor.p
  <2>1. /\ editor \in Edit /\ p \in Passes /\ editor.dates \in Period /\ editor.status \in Statuses
        /\ EditorIsHarmless /\ editor # NoPass
    BY <1>0, <1>5 DEF SaveWhole, TypeOK, Edit, IInv
  <2>2. editor' = NoPass /\ UNCHANGED <<mode, ft, run, begun>> /\ Quiet
    BY <1>5 DEF SaveWhole
  <2>3. CASE row' = row
    BY <1>0, <2>2, <2>3 DEF WorldEffect, ReadsOrGivesUp
  <2>4. ASSUME NEW start \in {editor.dates.start, editor.dates.start + 1} \cap (1..MaxDates),
               row[p].kind = "live", UpdateRow(p, Dates(start, editor.dates.end), editor.status)
        PROVE  WorldEffect
    <3> DEFINE d == Dates(start, editor.dates.end)
    <3>1. d \in Period /\ d.start = start /\ d.end = editor.dates.end
      BY <2>1, <2>4, PEAssumption DEF Dates, Period
    <3>2. UpdateRow(p, d, editor.status)
      BY <2>4
    <3> HIDE DEF d
    <3>3. PICK new \in PassRow :
              /\ row' = [row EXCEPT ![p] = new] /\ new.kind = row[p].kind /\ new.dates = d
              /\ \/ d = row[p].dates /\ new.status = editor.status
                 \/ d # row[p].dates /\ new.status = "PENDING"
      BY <1>0, <2>1, <3>1, <3>2, TriggerEffect
    <3>4. ASSUME new.status = "SUCCESS" PROVE new.dates = row[p].dates /\ ft[p] = new.dates
      <4>1. d = row[p].dates /\ editor.status = "SUCCESS"
        BY <3>3, <3>4
      <4>2. editor.dates.start = row[p].dates.start
        BY <2>1, <2>4 DEF EditorIsHarmless
      <4>3. editor.dates = d
        BY <2>1, <3>1, <4>1, <4>2 DEF Period
      <4> QED BY <2>1, <2>4, <3>3, <4>1, <4>3 DEF EditorIsHarmless
    <3>5. Changes(p, new)
      BY <2>2, <2>4, <3>3, <3>4 DEF Changes
    <3> QED BY <2>1, <3>5 DEF WorldEffect
  <2> QED BY <1>5, <2>3, <2>4 DEF SaveWhole
<1> QED BY <1>0, <1>1, <1>2, <1>3, <1>4, <1>5

LEMMA Effects ==
    ASSUME IInv, Next
    PROVE  WorldEffect \/ \E r \in Runs : RunEffect(r)
  BY StartEffect, PrepareEffect, SelectEffect, NotifyEffect, CallEffect, SaveEffect, EndEffect,
     WorldEffects DEF Next, Command

(***************************************************************************)
(* The invariant is inductive.                                             *)
(***************************************************************************)
LEMMA WorldPreserves ==
    ASSUME IInv, WorldEffect
    PROVE  IInv'
<1>0. /\ TypeOK /\ OneRun /\ ReadIsCurrent /\ CancelledIsLast /\ AnswerIsHeard
      /\ EditorIsHarmless /\ SuccessMeansKnown /\ CancelledStays
  BY DEF IInv
<1>1. CASE ReadsOrGivesUp
  <2>1. UNCHANGED <<mode, ft, run, row>>
    BY <1>1 DEF ReadsOrGivesUp
  <2>2. TypeOK'
    BY <1>0, <1>1 DEF TypeOK, ReadsOrGivesUp
  <2>3. OneRun' /\ ReadIsCurrent' /\ CancelledIsLast' /\ AnswerIsHeard'
        /\ SuccessMeansKnown' /\ CancelledStays'
    BY <1>0, <2>1 DEF OneRun, ReadIsCurrent, CancelledIsLast, AnswerIsHeard, SuccessMeansKnown,
       CancelledStays
  <2>4. EditorIsHarmless'
    <3>1. CASE editor' \in {editor, NoPass}
      BY <1>0, <2>1, <3>1 DEF EditorIsHarmless
    <3>2. ASSUME mode = "stale",
                 NEW p \in Passes, row[p].kind = "live", editor' \in Edit, editor'.p = p,
                 editor'.dates = row[p].dates, editor'.status = row[p].status
          PROVE  EditorIsHarmless'
      <4>1. row[p].dates.end \in Nat
        BY <1>0 DEF TypeOK, PassRow, Period
      <4>2. row[p].status = "SUCCESS" => ft[p] = row[p].dates
        BY <1>0, <3>2 DEF SuccessMeansKnown
      <4> QED BY <2>1, <3>2, <4>1, <4>2 DEF EditorIsHarmless
    <3> QED BY <1>1, <3>1, <3>2 DEF ReadsOrGivesUp
  <2> QED BY <2>2, <2>3, <2>4 DEF IInv
<1>2. ASSUME NEW p \in Passes, NEW new, Changes(p, new)
      PROVE  IInv'
  <2>1. /\ UNCHANGED <<mode, ft, run, begun>> /\ row' = [row EXCEPT ![p] = new] /\ new \in PassRow
        /\ row[p].kind = "live" /\ Quiet /\ row'[p] = new
        /\ \A q \in Passes \ {p} : row'[q] = row[q]
    BY <1>0, <1>2 DEF Changes, TypeOK
  <2>2. TypeOK'
    BY <1>0, <1>2, <2>1 DEF TypeOK, Changes
  <2>3. mode # "during" => \A r \in Runs : Held(run[r]) = {}
    BY <2>1, OffType DEF Quiet
  <2>4. OneRun' /\ AnswerIsHeard'
    BY <1>0, <2>1 DEF OneRun, AnswerIsHeard
  <2>5. ReadIsCurrent'
    BY <2>1, <2>3 DEF ReadIsCurrent
  <2>6. \A r \in Runs : \A i \in Held(run[r]) : i.p \in Passes
    BY <1>0 DEF TypeOK, RunRow, Item, Held
  <2>7. CancelledIsLast'
    <3> SUFFICES ASSUME NEW r \in Runs, NEW i \in Held(run[r]), row'[i.p].kind # run[r].kind
                 PROVE  run[r].kind = "live" /\ row'[i.p].status # "SUCCESS"
      BY <2>1 DEF CancelledIsLast
    <3>1. CASE i.p # p
      BY <1>0, <2>1, <2>6, <3>1 DEF CancelledIsLast
    <3>2. CASE i.p = p
      <4>1. run[r].kind = "live"
        BY <1>0, <2>1, <3>2 DEF CancelledIsLast
      <4>2. new.kind = "cancelled"
        BY <2>1, <3>2, <4>1 DEF PassRow, Kinds
      <4> QED BY <1>2, <2>1, <3>2, <4>1, <4>2 DEF Changes
    <3> QED BY <3>1, <3>2
  <2>8. EditorIsHarmless'
    <3> SUFFICES ASSUME editor' # NoPass, editor' = editor
                 PROVE  EditorIsHarmless'
      BY <1>2 DEF Changes, EditorIsHarmless
    <3>1. editor \in Edit /\ editor.p \in Passes /\ mode' = mode /\ mode = "stale"
      BY <1>0, <2>1 DEF TypeOK, Edit, EditorIsHarmless
    <3>2. CASE editor.p # p
      BY <1>0, <2>1, <3>1, <3>2 DEF EditorIsHarmless
    <3>3. CASE editor.p = p
      <4>1. /\ editor.dates.start = row[p].dates.start /\ editor.dates.end <= row[p].dates.end
            /\ editor.status = "SUCCESS" /\ editor.dates = row[p].dates => ft[p] = row[p].dates
        BY <1>0, <2>1, <3>3 DEF EditorIsHarmless
      <4>2. \/ new.dates = row[p].dates
            \/ new.dates.start = row[p].dates.start /\ new.dates.end = row[p].dates.end + 1
        BY <1>2 DEF Changes, NoPass
      <4>3. editor.dates.end \in Nat /\ row[p].dates.end \in Nat
        BY <1>0, <3>1 DEF TypeOK, PassRow, Period, Edit
      <4>4. /\ editor.dates.start = new.dates.start /\ editor.dates.end <= new.dates.end
            /\ editor.dates = new.dates => new.dates = row[p].dates
        BY <4>1, <4>2, <4>3
      <4> QED BY <2>1, <3>1, <3>3, <4>1, <4>4 DEF EditorIsHarmless
    <3> QED BY <3>2, <3>3
  <2>9. SuccessMeansKnown' /\ CancelledStays'
    <3>1. ASSUME mode # "during", new.status = "SUCCESS", new.kind = "live"
          PROVE  ft[p] = new.dates
      BY <1>0, <1>2, <2>1, <3>1 DEF Changes, SuccessMeansKnown
    <3>2. new.kind = "cancelled" => new.status # "SUCCESS"
      BY <1>2 DEF Changes
    <3> QED BY <1>0, <2>1, <3>1, <3>2 DEF SuccessMeansKnown, CancelledStays
  <2> QED BY <2>2, <2>4, <2>5, <2>7, <2>8, <2>9 DEF IInv
<1> QED BY <1>1, <1>2 DEF WorldEffect

(* What a run does to the runs, whatever it does to the rest.              *)
LEMMA RunsStay ==
    ASSUME IInv, NEW r \in Runs, NEW x, RunGoes(r, x)
    PROVE  /\ run' \in [Runs -> RunRow] /\ OneRun' /\ UNCHANGED <<mode, editor, begun>>
           /\ run'[r] = x /\ \A s \in Runs \ {r} : run'[s] = run[s]
           /\ \A s \in Runs : run'[s].pc \in Calling => run'[s].cur \in Item
           /\ \A s \in Runs : \A i \in Held(run[s]) : i \in Item /\ i.p \in Passes
           /\ mode # "overlap" => \A s \in Runs \ {r} : Held(run[s]) = {} /\ run[s].pc = "off"
<1>0. TypeOK /\ OneRun
  BY DEF IInv
<1>1. run' \in [Runs -> RunRow] /\ run'[r] = x /\ \A s \in Runs \ {r} : run'[s] = run[s]
  BY <1>0 DEF RunGoes, TypeOK
<1>2. \A s \in Runs : run'[s].pc \in Calling => run'[s].cur \in Item
  BY <1>0, <1>1 DEF RunGoes, TypeOK
<1>3. mode # "overlap" => \A s \in Runs \ {r} : run[s] = Off
  BY DEF RunGoes
<1>4. OneRun'
  <2>1. \A s \in Runs : run'[s].pc = "off" => run'[s] = Off
    BY <1>0, <1>1 DEF OneRun, RunGoes
  <2>2. mode' # "overlap" => \A s, t \in Runs : run'[s] # Off /\ run'[t] # Off => s = t
    BY <1>1, <1>3 DEF RunGoes
  <2> QED BY <2>1, <2>2 DEF OneRun
<1>5. \A s \in Runs : \A i \in Held(run[s]) : i \in Item /\ i.p \in Passes
  <2>1. \A s \in Runs : Held(run[s]) \in SUBSET Item
    BY <1>0 DEF TypeOK, RunRow, Held
  <2>2. \A i \in Item : i.p \in Passes
    BY DEF Item
  <2> QED BY <2>1, <2>2
<1> QED BY <1>1, <1>2, <1>3, <1>4, <1>5, OffType DEF RunGoes

LEMMA WorkPreserves ==
    ASSUME IInv, NEW r \in Runs, NEW x, RunGoes(r, x), Works(x, run[r])
    PROVE  IInv'
<1>0. /\ TypeOK /\ OneRun /\ ReadIsCurrent /\ CancelledIsLast /\ AnswerIsHeard
      /\ EditorIsHarmless /\ SuccessMeansKnown /\ CancelledStays
  BY DEF IInv
<1>1. /\ ft' = ft /\ UNCHANGED <<mode, editor, begun>> /\ row' \in [Passes -> PassRow]
      /\ \A p \in Passes :
          /\ row'[p].kind = row[p].kind /\ row'[p].dates = row[p].dates
          /\ row'[p].status = "SUCCESS" => row[p].status = "SUCCESS"
  BY DEF Works, RunGoes
<1>2. /\ run' \in [Runs -> RunRow] /\ OneRun'
      /\ run'[r] = x /\ \A s \in Runs \ {r} : run'[s] = run[s]
      /\ \A s \in Runs : run'[s].pc \in Calling => run'[s].cur \in Item
      /\ \A s \in Runs : \A i \in Held(run[s]) : i \in Item /\ i.p \in Passes
  BY RunsStay
<1>3. TypeOK'
  BY <1>0, <1>1, <1>2 DEF TypeOK
<1>4. \A i \in Held(x) : i.p \in Passes
  BY <1>2 DEF Works, Item
<1>5. ReadIsCurrent'
  <2> SUFFICES ASSUME mode # "during", NEW s \in Runs, NEW i \in Held(run'[s])
               PROVE  row'[i.p].kind = run'[s].kind /\ row'[i.p].dates = i.dates
    BY <1>1 DEF ReadIsCurrent
  <2>1. CASE s # r
    BY <1>0, <1>1, <1>2, <2>1 DEF ReadIsCurrent
  <2>2. CASE s = r
    <3>1. row[i.p].kind = x.kind /\ row[i.p].dates = i.dates
      BY <1>0, <1>2, <2>2 DEF ReadIsCurrent, Works
    <3> QED BY <1>1, <1>2, <1>4, <2>2, <3>1
  <2> QED BY <2>1, <2>2
<1>6. CancelledIsLast'
  <2> SUFFICES ASSUME NEW s \in Runs, NEW i \in Held(run'[s]), row'[i.p].kind # run'[s].kind
               PROVE  run'[s].kind = "live" /\ row'[i.p].status # "SUCCESS"
    BY DEF CancelledIsLast
  <2>1. CASE s # r
    BY <1>0, <1>1, <1>2, <2>1 DEF CancelledIsLast
  <2>2. CASE s = r
    <3>1. row[i.p].kind # x.kind
      BY <1>1, <1>2, <1>4, <2>2
    <3>2. i \in Held(run[r]) /\ x.kind = run[r].kind
      BY <1>2, <2>2, <3>1 DEF Works
    <3> QED BY <1>0, <1>1, <1>2, <1>4, <2>2, <3>1, <3>2 DEF CancelledIsLast
  <2> QED BY <2>1, <2>2
<1>7. AnswerIsHeard'
  <2>1. x.pc = "save" => x.status # "SUCCESS"
    BY DEF Works
  <2> QED BY <1>0, <1>1, <1>2, <2>1 DEF AnswerIsHeard
<1>8. EditorIsHarmless'
  <2>1. editor # NoPass => editor.p \in Passes
    BY <1>0 DEF TypeOK, Edit
  <2> QED BY <1>0, <1>1, <2>1 DEF EditorIsHarmless
<1>9. SuccessMeansKnown' /\ CancelledStays'
  BY <1>0, <1>1 DEF SuccessMeansKnown, CancelledStays
<1> QED BY <1>2, <1>3, <1>5, <1>6, <1>7, <1>8, <1>9 DEF IInv

LEMMA HearPreserves ==
    ASSUME IInv, NEW r \in Runs, NEW x, RunGoes(r, x), Hears(r, x)
    PROVE  IInv'
<1>0. /\ TypeOK /\ OneRun /\ ReadIsCurrent /\ CancelledIsLast /\ AnswerIsHeard
      /\ EditorIsHarmless /\ SuccessMeansKnown /\ CancelledStays
  BY DEF IInv
<1>1. row' = row /\ UNCHANGED <<mode, editor, begun>>
  BY DEF Hears, RunGoes
<1>2. /\ run' \in [Runs -> RunRow] /\ OneRun'
      /\ run'[r] = x /\ \A s \in Runs \ {r} : run'[s] = run[s]
      /\ \A s \in Runs : run'[s].pc \in Calling => run'[s].cur \in Item
      /\ \A s \in Runs : \A i \in Held(run[s]) : i \in Item /\ i.p \in Passes
      /\ mode # "overlap" => \A s \in Runs \ {r} : Held(run[s]) = {} /\ run[s].pc = "off"
  BY RunsStay
<1> DEFINE i == run[r].cur
           p == i.p
           told == IF run[r].kind = "live" THEN i.dates ELSE Cancelled
<1>3. /\ i \in Held(run[r]) /\ i \in Item /\ p \in Passes /\ run[r].kind \in Kinds
      /\ x.cur = i /\ x.kind = run[r].kind /\ x.pc = "save" /\ Held(x) = Held(run[r])
  BY <1>0, <1>2 DEF Hears, Held, Calling, TypeOK, RunRow
<1>4. told \in Period
  BY <1>3 DEF Item, Cancelled, Dates, Period
<1>5. /\ ft' \in [Passes -> Period] /\ \A q \in Passes \ {p} : ft'[q] = ft[q]
      /\ ft'[p] = told \/ ft'[p] = ft[p]
      /\ x.status = "SUCCESS" => ft'[p] = told
  <2>1. ft' = [ft EXCEPT ![p] = told] \/ (ft' = ft /\ x.status # "SUCCESS")
    BY DEF Hears, Told
  <2> HIDE DEF told, p
  <2> QED BY <1>0, <1>3, <1>4, <2>1 DEF TypeOK
<1>6. TypeOK'
  BY <1>0, <1>1, <1>2, <1>5 DEF TypeOK
<1>7. ReadIsCurrent' /\ CancelledIsLast'
  <2>1. \A s \in Runs : Held(run'[s]) = Held(run[s]) /\ run'[s].kind = run[s].kind
    BY <1>2, <1>3
  <2> QED BY <1>0, <1>1, <2>1 DEF ReadIsCurrent, CancelledIsLast
<1>8. AnswerIsHeard'
  <2> SUFFICES ASSUME NEW s \in Runs, run'[s].pc = "save", run'[s].status = "SUCCESS"
               PROVE  IF run'[s].kind = "cancelled" THEN ft'[run'[s].cur.p] = Cancelled
                      ELSE mode # "during" => ft'[run'[s].cur.p] = run'[s].cur.dates
    BY <1>1 DEF AnswerIsHeard
  <2>1. CASE s = r
    <3>1. ft'[p] = told
      BY <1>2, <1>5, <2>1
    <3> QED BY <1>2, <1>3, <2>1, <3>1 DEF Kinds
  <2>2. CASE s # r
    <3>1. mode = "overlap" /\ run'[s] = run[s] /\ run[s].cur \in Held(run[s])
      BY <1>2, <2>2 DEF Held, Calling
    <3>2. IF run[s].kind = "cancelled" THEN ft[run[s].cur.p] = Cancelled
          ELSE ft[run[s].cur.p] = run[s].cur.dates
      BY <1>0, <3>1 DEF AnswerIsHeard
    <3>3. run[s].cur.p = p => run[s].kind = run[r].kind /\ run[s].cur.dates = i.dates
      BY <1>0, <1>3, <3>1 DEF ReadIsCurrent
    <3>4. run[s].cur.p \in Passes
      BY <1>2, <3>1
    <3>5. CASE run[s].cur.p # p
      BY <1>5, <3>1, <3>2, <3>4, <3>5
    <3>6. CASE run[s].cur.p = p
      BY <1>3, <1>5, <3>1, <3>2, <3>3, <3>6 DEF Kinds
    <3> QED BY <3>5, <3>6
  <2> QED BY <2>1, <2>2
<1>9. EditorIsHarmless'
  <2> SUFFICES ASSUME editor # NoPass, mode = "stale", row[editor.p].kind = "live",
                      editor.status = "SUCCESS", editor.dates = row[editor.p].dates
               PROVE  ft'[editor.p] = row[editor.p].dates
    BY <1>0, <1>1 DEF EditorIsHarmless
  <2>1. ft[editor.p] = row[editor.p].dates /\ editor.p \in Passes
    BY <1>0 DEF EditorIsHarmless, TypeOK, Edit
  <2>2. editor.p = p => told = row[p].dates
    BY <1>0, <1>3 DEF ReadIsCurrent
  <2> HIDE DEF told, p
  <2> QED BY <1>5, <2>1, <2>2
<1>10. SuccessMeansKnown'
  <2>1. mode # "during" /\ row[p].kind = "live" => told = row[p].dates
    BY <1>0, <1>3 DEF ReadIsCurrent
  <2> HIDE DEF told, p
  <2> QED BY <1>0, <1>1, <1>5, <2>1 DEF SuccessMeansKnown
<1>11. CancelledStays'
  <2>1. row[p].kind = "cancelled" /\ row[p].status = "SUCCESS" => told = Cancelled
    BY <1>0, <1>3 DEF CancelledIsLast, Kinds
  <2> HIDE DEF told, p
  <2> QED BY <1>0, <1>1, <1>5, <2>1 DEF CancelledStays
<1> QED BY <1>2, <1>6, <1>7, <1>8, <1>9, <1>10, <1>11 DEF IInv

LEMMA SavePreserves ==
    ASSUME IInv, NEW r \in Runs, NEW x, RunGoes(r, x), Saves(r, x)
    PROVE  IInv'
<1>0. /\ TypeOK /\ OneRun /\ ReadIsCurrent /\ CancelledIsLast /\ AnswerIsHeard
      /\ EditorIsHarmless /\ SuccessMeansKnown /\ CancelledStays
  BY DEF IInv
<1>1. ft' = ft /\ UNCHANGED <<mode, editor, begun>>
  BY DEF Saves, RunGoes
<1>2. /\ run' \in [Runs -> RunRow] /\ OneRun'
      /\ run'[r] = x /\ \A s \in Runs \ {r} : run'[s] = run[s]
      /\ \A s \in Runs : run'[s].pc \in Calling => run'[s].cur \in Item
      /\ \A s \in Runs : \A i \in Held(run[s]) : i \in Item /\ i.p \in Passes
      /\ mode # "overlap" => \A s \in Runs \ {r} : Held(run[s]) = {} /\ run[s].pc = "off"
  BY RunsStay
<1> DEFINE p == run[r].cur.p
<1>3. /\ run[r].cur \in Held(run[r]) /\ p \in Passes /\ run[r].kind \in Kinds
      /\ x.kind = run[r].kind /\ x.pc = "notify" /\ Held(x) \in SUBSET Held(run[r])
  BY <1>0, <1>2 DEF Saves, Held, Calling, TypeOK, RunRow
<1>4. /\ row' \in [Passes -> PassRow] /\ \A q \in Passes \ {p} : row'[q] = row[q]
      /\ row'[p].kind = row[p].kind /\ row'[p].dates = row[p].dates
      /\ \/ row'[p] = row[p]
         \/ row[p].kind = run[r].kind /\ row'[p].status = run[r].status
  <2>1. CASE row' = row
    BY <1>0, <2>1 DEF TypeOK
  <2>2. ASSUME NEW new \in PassRow, row' = [row EXCEPT ![p] = new], row[p].kind = run[r].kind,
               new.kind = row[p].kind, new.dates = row[p].dates, new.status = run[r].status
        PROVE  <1>4!:
    <3> HIDE DEF p
    <3> QED BY <1>0, <1>3, <2>2 DEF TypeOK
  <2> QED BY <2>1, <2>2 DEF Saves
<1>5. TypeOK'
  BY <1>0, <1>1, <1>2, <1>4 DEF TypeOK
<1>6. \A q \in Passes : row'[q].kind = row[q].kind /\ row'[q].dates = row[q].dates
  BY <1>4
<1>7. \A s \in Runs : Held(run'[s]) \in SUBSET Held(run[s]) /\ run'[s].kind = run[s].kind
  BY <1>2, <1>3
<1>8. ReadIsCurrent'
  BY <1>0, <1>1, <1>2, <1>6, <1>7 DEF ReadIsCurrent
<1>9. CancelledIsLast'
  <2> SUFFICES ASSUME NEW s \in Runs, NEW i \in Held(run'[s]), row'[i.p].kind # run'[s].kind
               PROVE  run'[s].kind = "live" /\ row'[i.p].status # "SUCCESS"
    BY DEF CancelledIsLast
  <2>1. /\ i \in Held(run[s]) /\ i.p \in Passes /\ run'[s].kind = run[s].kind
        /\ row[i.p].kind # run[s].kind
    BY <1>2, <1>6, <1>7
  <2>2. run[s].kind = "live" /\ row[i.p].status # "SUCCESS"
    BY <1>0, <2>1 DEF CancelledIsLast
  <2>3. mode # "overlap"
    BY <1>0, <2>1 DEF ReadIsCurrent
  <2>4. s = r
    BY <1>2, <2>1, <2>3
  <2>5. row'[i.p] = row[i.p]
    BY <1>4, <2>1, <2>4
  <2> QED BY <2>1, <2>2, <2>5
<1>10. AnswerIsHeard'
  BY <1>0, <1>1, <1>2, <1>3 DEF AnswerIsHeard
<1>11. EditorIsHarmless'
  <2>1. editor # NoPass => editor.p \in Passes
    BY <1>0 DEF TypeOK, Edit
  <2> QED BY <1>0, <1>1, <1>6, <2>1 DEF EditorIsHarmless
<1>12. ASSUME row'[p] # row[p], run[r].status = "SUCCESS"
       PROVE  /\ row[p].kind = "cancelled" => ft[p] = Cancelled
              /\ row[p].kind = "live" /\ mode # "during" => ft[p] = row[p].dates
  <2>1. row[p].kind = run[r].kind /\ run[r].pc = "save"
    BY <1>4, <1>12 DEF Saves
  <2> QED BY <1>0, <1>3, <1>12, <2>1 DEF AnswerIsHeard, ReadIsCurrent
<1>13. SuccessMeansKnown' /\ CancelledStays'
  <2> HIDE DEF p
  <2> QED BY <1>0, <1>1, <1>4, <1>12 DEF SuccessMeansKnown, CancelledStays
<1> QED BY <1>2, <1>5, <1>8, <1>9, <1>10, <1>11, <1>13 DEF IInv

(* The invariant of the notifications holds for any number of PASS, of     *)
(* runs, of dates, of crashes and of changes.                              *)
THEOREM Inductive == Spec => []IInv
<1>1. Init => IInv
  <2> SUFFICES ASSUME Init PROVE IInv
    OBVIOUS
  <2>1. TypeOK
    <3>1. row \in [Passes -> PassRow] /\ ft \in [Passes -> Period]
      BY DEF Init, PassRow, Period, Dates, Unknown, Kinds, Statuses, Endpoints
    <3>2. run \in [Runs -> RunRow] /\ \A r \in Runs : run[r].pc \notin Calling
      BY OffType DEF Init, Calling
    <3> QED BY <3>1, <3>2 DEF Init, TypeOK
  <2>2. \A r \in Runs : run[r] = Off /\ Held(run[r]) = {} /\ run[r].pc = "off"
    BY OffType DEF Init
  <2>3. \A p \in Passes : row[p].status = "PENDING"
    BY DEF Init
  <2> QED BY <2>1, <2>2, <2>3 DEF IInv, OneRun, ReadIsCurrent, CancelledIsLast, AnswerIsHeard,
             EditorIsHarmless, SuccessMeansKnown, CancelledStays, Init
<1>2. IInv /\ [Next]_vars => IInv'
  <2>1. ASSUME IInv, Next PROVE IInv'
    BY <2>1, Effects, WorldPreserves, WorkPreserves, HearPreserves, SavePreserves DEF RunEffect
  <2>2. ASSUME IInv, UNCHANGED vars PROVE IInv'
    BY <2>2 DEF vars, IInv, TypeOK, OneRun, ReadIsCurrent, CancelledIsLast, AnswerIsHeard,
       EditorIsHarmless, SuccessMeansKnown, CancelledStays
  <2> QED BY <2>1, <2>2
<1> QED BY <1>1, <1>2, PTL DEF Spec

(* While no PASS changes during a run, a PASS in SUCCESS is known to       *)
(* France Travail with its dates, across overlapping runs, crashes, lost   *)
(* answers and stale saves (send_approvals_to_pe, notify_pole_emploi and   *)
(* the trigger plan_pe_notification_on_date_updates).                      *)
THEOREM SuccessIsTrue == Spec => []SuccessMeansKnown
<1>1. IInv => SuccessMeansKnown
  BY DEF IInv
<1> QED BY <1>1, Inductive, PTL

(* A cancelled PASS in SUCCESS stays cancelled for France Travail, even    *)
(* when PASS change during a run (Approval.delete, CancelledApproval).     *)
THEOREM CancellationIsFinal == Spec => []CancelledStays
<1>1. IInv => CancelledStays
  BY DEF IInv
<1> QED BY <1>1, Inductive, PTL
=============================================================================
