------------------------ MODULE ApprovalPeriodsProofs ------------------------
(***************************************************************************)
(* Proofs about the dates of a PASS IAE: the end of the PASS is its own    *)
(* days plus those of its periods, for every number of requests, rows and  *)
(* days and every duration; the triggers implement PassCredit; what holds  *)
(* of prolongations when requests do not overlap.                          *)
(***************************************************************************)
EXTENDS ApprovalPeriods, FiniteSetTheorems, TLAPS

(***************************************************************************)
(* Sums over finite sets.  A sum is computed by a recursive function; it   *)
(* is known through the additive functions, that agree with it.  The       *)
(* inductions take a smallest counterexample (WFMin).                      *)
(***************************************************************************)
Additive(F, g, S) ==
    /\ F \in [SUBSET S -> Int]
    /\ F[{}] = 0
    /\ \A T \in SUBSET S : \A x \in T : F[T] = g[x] + F[T \ {x}]

(* A nonempty set of subsets of a finite set has a minimal element.        *)
LEMMA SubsetMin ==
    ASSUME NEW S, IsFiniteSet(S), NEW C \in SUBSET SUBSET S, C # {}
    PROVE  \E T \in C : \A U \in C : U \subseteq T => U = T
<1>1. IsWellFoundedOn(StrictSubsetOrdering(S), SUBSET S)
  BY FS_StrictSubsetOrderingWellFounded, FS_FiniteSubsetsOfFinite
<1>2. PICK T \in C : \A U \in C : <<U, T>> \notin StrictSubsetOrdering(S)
  BY <1>1, WFMin
<1>3. ASSUME NEW U \in C, U \subseteq T PROVE U = T
  BY <1>2, <1>3 DEF StrictSubsetOrdering
<1> QED BY <1>2, <1>3

(* Every integer function on a finite set has an additive function.        *)
LEMMA AdditiveExists ==
    ASSUME NEW S, IsFiniteSet(S), NEW g \in [S -> Int]
    PROVE  \E F : Additive(F, g, S)
<1> DEFINE C == {T \in SUBSET S : ~\E F : Additive(F, g, T)}
<1> SUFFICES ASSUME C # {} PROVE FALSE
  OBVIOUS
<1>1. PICK T \in C : \A U \in C : U \subseteq T => U = T
  <2> HIDE DEF C
  <2>1. C \in SUBSET SUBSET S
    BY DEF C
  <2> QED BY <2>1, SubsetMin
<1>2. T # {}
  <2>1. Additive([s \in SUBSET {} |-> 0], g, {})
    BY DEF Additive
  <2> QED BY <2>1
<1>3. PICK x \in T : TRUE
  BY <1>2
<1>4. PICK F : Additive(F, g, T \ {x})
  <2>1. T \ {x} \notin C
    BY <1>1, <1>3
  <2> QED BY <2>1, <1>1
<1> DEFINE H == [s \in SUBSET T |-> IF x \in s THEN g[x] + F[s \ {x}] ELSE F[s]]
<1>5. H \in [SUBSET T -> Int] /\ H[{}] = 0
  BY <1>1, <1>3, <1>4 DEF Additive
<1>6. ASSUME NEW s \in SUBSET T, NEW y \in s
      PROVE  H[s] = g[y] + H[s \ {y}]
  <2>1. CASE y = x
    <3>1. x \notin s \ {x} /\ s \ {x} \in SUBSET T
      OBVIOUS
    <3> QED BY <2>1, <3>1
  <2>2. CASE y # x /\ x \in s
    <3>1. F[s \ {x}] = g[y] + F[(s \ {x}) \ {y}]
      BY <1>4, <2>2 DEF Additive
    <3>2. (s \ {x}) \ {y} = (s \ {y}) \ {x}
      OBVIOUS
    <3>3. H[s] = g[x] + (g[y] + F[(s \ {y}) \ {x}])
      BY <2>2, <3>1, <3>2
    <3>4. H[s \ {y}] = g[x] + F[(s \ {y}) \ {x}]
      BY <2>2
    <3>5. g[x] \in Int /\ g[y] \in Int /\ F[(s \ {y}) \ {x}] \in Int
      BY <1>1, <1>3, <1>4 DEF Additive
    <3>6. g[x] + (g[y] + F[(s \ {y}) \ {x}]) = g[y] + (g[x] + F[(s \ {y}) \ {x}])
      BY <3>5
    <3> QED BY <3>3, <3>4, <3>6, Zenon
  <2>3. CASE x \notin s
    <3>1. F[s] = g[y] + F[s \ {y}]
      BY <1>4, <2>3 DEF Additive
    <3> QED BY <2>3, <3>1
  <2> QED BY <2>1, <2>2, <2>3
<1>7. Additive(H, g, T)
  BY <1>5, <1>6 DEF Additive
<1> QED BY <1>1, <1>7

(* The days of the rows of L; Days(rows) are those of the live ones.       *)
DaysOf(rows, L) == MapThenSumSet(LAMBDA k : Length(rows[k]), L)
Measured(rows, L) == IsFiniteSet(L) /\ \A k \in L : Length(rows[k]) \in Int

(* An additive function agrees with the sum.                               *)
LEMMA DaysOfIs ==
    ASSUME NEW rows, NEW L, IsFiniteSet(L), NEW F, NEW g,
           \A k \in L : g[k] = Length(rows[k]), Additive(F, g, L)
    PROVE  DaysOf(rows, L) = F[L]
<1> DEFINE Len(k) == Length(rows[k])
           Body(G, s) == IF s = {} THEN 0
                         ELSE Len(CHOOSE x \in s : TRUE) + G[s \ {CHOOSE x \in s : TRUE}]
<1>1. F = [s \in SUBSET L |-> Body(F, s)]
  BY DEF Additive
<1>2. PICK G : G = [s \in SUBSET L |-> Body(G, s)] /\ DaysOf(rows, L) = G[L]
  BY <1>1, Zenon DEF DaysOf, MapThenSumSet, MapThenFoldSet
<1> DEFINE C == {s \in SUBSET L : G[s] # F[s]}
<1>3. ASSUME C # {} PROVE FALSE
  <2>1. PICK s \in C : \A t \in C : t \subseteq s => t = s
    <3> HIDE DEF C
    <3>1. C \in SUBSET SUBSET L
      BY DEF C
    <3> QED BY <1>3, <3>1, SubsetMin
  <2>2. s # {}
    BY <1>2, <2>1 DEF Additive
  <2> DEFINE x == CHOOSE x \in s : TRUE
  <2>3. x \in s
    BY <2>2
  <2>4. s \ {x} \notin C
    BY <2>1, <2>3
  <2>5. G[s] = Len(x) + G[s \ {x}]
    BY <1>2, <2>1, <2>2
  <2>6. F[s] = Len(x) + F[s \ {x}]
    BY <1>1, <2>1, <2>2
  <2> QED BY <2>1, <2>4, <2>5, <2>6
<1> QED BY <1>2, <1>3

(* The sum over the subsets of L is an additive function.                  *)
LEMMA DaysAdditive ==
    ASSUME NEW rows, NEW L, Measured(rows, L)
    PROVE  \E F : /\ Additive(F, [k \in L |-> Length(rows[k])], L)
                  /\ \A T \in SUBSET L : F[T] = DaysOf(rows, T)
<1> DEFINE g == [k \in L |-> Length(rows[k])]
<1>1. g \in [L -> Int] /\ IsFiniteSet(L)
  BY DEF Measured
<1>2. PICK F : Additive(F, g, L)
  <2> HIDE DEF g
  <2> QED BY <1>1, AdditiveExists
<1>3. ASSUME NEW T \in SUBSET L PROVE F[T] = DaysOf(rows, T)
  <2> DEFINE H == [s \in SUBSET T |-> F[s]]
  <2>1. Additive(H, g, T)
    BY <1>2 DEF Additive
  <2>2. IsFiniteSet(T) /\ \A k \in T : g[k] = Length(rows[k])
    BY <1>1, FS_Subset
  <2>3. DaysOf(rows, T) = H[T]
    <3> HIDE DEF g, H
    <3> QED BY <2>1, <2>2, DaysOfIs
  <2> QED BY <2>3
<1> QED BY <1>2, <1>3

LEMMA DaysType ==
    ASSUME NEW rows, NEW L, Measured(rows, L)
    PROVE  DaysOf(rows, L) \in Int
<1>1. PICK F : /\ Additive(F, [k \in L |-> Length(rows[k])], L)
               /\ \A T \in SUBSET L : F[T] = DaysOf(rows, T)
  BY DaysAdditive
<1> QED BY <1>1 DEF Additive

LEMMA DaysEmpty ==
    ASSUME NEW rows
    PROVE  DaysOf(rows, {}) = 0
<1>1. Measured(rows, {})
  BY FS_EmptySet DEF Measured
<1>2. PICK F : /\ Additive(F, [k \in {} |-> Length(rows[k])], {})
               /\ \A T \in SUBSET {} : F[T] = DaysOf(rows, T)
  BY <1>1, DaysAdditive
<1> QED BY <1>2 DEF Additive

(* One more row adds its days.                                             *)
LEMMA DaysAdd ==
    ASSUME NEW rows, NEW L, Measured(rows, L), NEW x \in L
    PROVE  DaysOf(rows, L) = Length(rows[x]) + DaysOf(rows, L \ {x})
<1>1. PICK F : /\ Additive(F, [k \in L |-> Length(rows[k])], L)
               /\ \A T \in SUBSET L : F[T] = DaysOf(rows, T)
  BY DaysAdditive
<1> QED BY <1>1 DEF Additive

(* Only the rows of L count.                                               *)
LEMMA DaysSame ==
    ASSUME NEW rows, NEW others, NEW L, Measured(rows, L),
           \A k \in L : others[k] = rows[k]
    PROVE  DaysOf(others, L) = DaysOf(rows, L)
<1> DEFINE g == [k \in L |-> Length(rows[k])]
<1>1. PICK F : Additive(F, g, L) /\ \A T \in SUBSET L : F[T] = DaysOf(rows, T)
  BY DaysAdditive
<1>2. IsFiniteSet(L) /\ \A k \in L : g[k] = Length(others[k])
  BY DEF Measured, Length
<1>3. DaysOf(others, L) = F[L]
  <2> HIDE DEF g
  <2> QED BY <1>1, <1>2, DaysOfIs
<1> QED BY <1>1, <1>3

(* Rows of at least no day: the sum grows with the set.                    *)
LEMMA DaysGrow ==
    ASSUME NEW rows, NEW L, Measured(rows, L), \A k \in L : Length(rows[k]) >= 0,
           NEW M \in SUBSET L
    PROVE  DaysOf(rows, M) <= DaysOf(rows, L)
<1> DEFINE C == {T \in SUBSET L : M \subseteq T /\ ~(DaysOf(rows, M) <= DaysOf(rows, T))}
<1> SUFFICES ASSUME C # {} PROVE FALSE
  OBVIOUS
<1>1. PICK T \in C : \A U \in C : U \subseteq T => U = T
  <2> HIDE DEF C
  <2>1. C \in SUBSET SUBSET L /\ IsFiniteSet(L)
    BY DEF C, Measured
  <2> QED BY <2>1, SubsetMin
<1>2. \A U \in SUBSET L : Measured(rows, U)
  BY FS_Subset DEF Measured
<1>3. DaysOf(rows, M) \in Int /\ DaysOf(rows, T) \in Int
  BY <1>1, <1>2, DaysType
<1>4. PICK x \in T : x \notin M
  <2>1. T # M
    BY <1>1, <1>3
  <2>2. M \subseteq T
    BY <1>1
  <2> QED BY <2>1, <2>2
<1>5. DaysOf(rows, T) = Length(rows[x]) + DaysOf(rows, T \ {x})
  BY <1>1, <1>2, DaysAdd
<1>6. T \ {x} \notin C
  BY <1>1, <1>4
<1>7. DaysOf(rows, M) <= DaysOf(rows, T \ {x})
  BY <1>1, <1>4, <1>6
<1>8. DaysOf(rows, T \ {x}) \in Int
  BY <1>1, <1>2, DaysType
<1>9. Length(rows[x]) \in Int /\ Length(rows[x]) >= 0
  BY <1>1 DEF Measured
<1> QED BY <1>1, <1>3, <1>5, <1>7, <1>8, <1>9

(***************************************************************************)
(* The rows of periods.                                                    *)
(***************************************************************************)
(* The lengths of the live rows are numbers.                               *)
Rows(rows, n) ==
    /\ DOMAIN rows = 1..n
    /\ \A k \in 1..n : rows[k].st = "live" => Length(rows[k]) \in Int

LEMMA LiveMeasured ==
    ASSUME NEW n \in Nat, NEW rows, Rows(rows, n), NEW L \in SUBSET Live(rows)
    PROVE  Measured(rows, L) /\ Days(rows) = DaysOf(rows, Live(rows))
<1>1. IsFiniteSet(1..n)
  BY FS_Interval
<1>2. L \in SUBSET (1..n)
  BY DEF Rows, Live
<1>3. IsFiniteSet(L)
  BY <1>1, <1>2, FS_Subset
<1>4. \A k \in L : Length(rows[k]) \in Int
  BY <1>2 DEF Rows, Live
<1> QED BY <1>3, <1>4 DEF Measured, Days, DaysOf

(* The trigger adds what the change of one row changes in the total.       *)
LEMMA DaysChange ==
    ASSUME NEW n \in Nat, NEW rows, Rows(rows, n), NEW k \in 1..n, NEW row,
           row.st = "live" => Length(row) \in Int
    PROVE  /\ Days(rows) \in Int
           /\ update_approval_end_at(rows[k], row) \in Int
           /\ Rows([rows EXCEPT ![k] = row], n)
           /\ Days([rows EXCEPT ![k] = row]) = Days(rows) + update_approval_end_at(rows[k], row)
<1> DEFINE new == [rows EXCEPT ![k] = row]
           others == Live(rows) \ {k}
<1>1. Rows(new, n)
  BY DEF Rows
<1>2. others = Live(new) \ {k} /\ \A j \in others : new[j] = rows[j]
  BY DEF Rows, Live
<1>3. /\ Measured(rows, Live(rows)) /\ Days(rows) = DaysOf(rows, Live(rows))
      /\ Measured(rows, others)
  BY LiveMeasured
<1>4. /\ Measured(new, Live(new)) /\ Days(new) = DaysOf(new, Live(new))
      /\ Measured(new, others)
  <2> HIDE DEF new
  <2>1. others \in SUBSET Live(new)
    BY <1>2
  <2> HIDE DEF others
  <2> QED BY <1>1, <2>1, LiveMeasured
<1>5. DaysOf(new, others) = DaysOf(rows, others) /\ DaysOf(rows, others) \in Int
  <2> HIDE DEF new, others
  <2> QED BY <1>2, <1>3, DaysSame, DaysType
<1>6. Days(rows) = DaysOf(rows, others) + (IF rows[k].st = "live" THEN Length(rows[k]) ELSE 0)
  <2>1. CASE rows[k].st = "live"
    <3>1. k \in Live(rows) /\ Length(rows[k]) \in Int
      BY <2>1 DEF Rows, Live
    <3>2. DaysOf(rows, Live(rows)) = Length(rows[k]) + DaysOf(rows, others)
      BY <1>3, <3>1, DaysAdd
    <3> HIDE DEF others
    <3> QED BY <1>3, <1>5, <2>1, <3>1, <3>2
  <2>2. CASE rows[k].st # "live"
    <3>1. others = Live(rows)
      BY <2>2 DEF Live
    <3> HIDE DEF others
    <3> QED BY <1>3, <1>5, <2>2, <3>1
  <2> QED BY <2>1, <2>2
<1>7. Days(new) = DaysOf(rows, others) + (IF row.st = "live" THEN Length(row) ELSE 0)
  <2>0. new[k] = row
    BY DEF Rows
  <2>1. CASE row.st = "live"
    <3>1. k \in Live(new)
      BY <2>0, <2>1 DEF Rows, Live
    <3>2. DaysOf(new, Live(new)) = Length(new[k]) + DaysOf(new, Live(new) \ {k})
      <4> HIDE DEF new
      <4> QED BY <1>4, <3>1, DaysAdd
    <3> HIDE DEF others, new
    <3> QED BY <1>2, <1>4, <1>5, <2>0, <2>1, <3>2
  <2>2. CASE row.st # "live"
    <3>1. others = Live(new)
      BY <1>2, <2>0, <2>2 DEF Live
    <3> HIDE DEF others, new
    <3> QED BY <1>4, <1>5, <2>2, <3>1
  <2> QED BY <2>1, <2>2
<1>8. rows[k].st = "live" => Length(rows[k]) \in Int
  BY DEF Rows
<1> HIDE DEF others, new
<1> QED BY <1>1, <1>5, <1>6, <1>7, <1>8 DEF update_approval_end_at, new

(***************************************************************************)
(* The inductive invariant.                                                *)
(***************************************************************************)
Dates == [start: Int, end: Int]
OnPass == {"suspend", "declare"}
OnSuspension == {"update", "enddate", "delete"}
OnRequest == {"grant", "deny"}

(* What a request in flight has read.                                      *)
WorkOK ==
    \A w \in Workers :
        /\ work[w].op \in {"idle"} \cup OnPass \cup OnSuspension \cup OnRequest
        /\ work[w].op = "idle" => work[w] = Idle
        /\ work[w].op \in OnPass \cup OnSuspension => work[w].pass \in Dates
        /\ work[w].op \in OnSuspension =>
              /\ work[w].id \in SuspIds /\ work[w].row \in SuspRow
              /\ work[w].row.start <= work[w].row.end
        /\ work[w].op \in OnRequest =>
              /\ work[w].id \in ReqIds /\ work[w].row \in ReqRow /\ reqs[work[w].id] # None
              /\ work[w].row.start < work[w].row.end

(* Periods have their ends in order, and no suspension is to come.         *)
Ordered ==
    /\ \A k \in Live(susp) : susp[k].start <= susp[k].end /\ susp[k].start <= today
    /\ \A k \in Live(prol) : prol[k].start < prol[k].end
    /\ \A r \in ReqIds : reqs[r] # None => reqs[r].start < reqs[r].end

(* The support works alone, and last.                                      *)
Alone == support # "none" => \A w \in Workers : work[w] = Idle

(* A PASS that has not begun has no period, no request and nothing in      *)
(* flight, so that issuing it anew loses nothing.                          *)
Begun ==
    support = "none" /\ (HasPeriods \/ \E w \in Workers : work[w] # Idle) => pass.start <= today

(* When requests do not overlap, what was read is still so.                *)
Current ==
    serial => \A w \in Workers : work[w] # Idle =>
        /\ \A v \in Workers : work[v] # Idle => v = w
        /\ work[w].op \in OnPass \cup OnSuspension => work[w].pass = pass
        /\ work[w].op \in OnSuspension =>
              work[w].id \in InProgress(susp) /\ susp[work[w].id] = work[w].row
        /\ work[w].op = "declare" => InProgress(susp) = {} /\ PendingRequests = {}
        /\ work[w].op \in OnRequest => reqs[work[w].id] = work[w].row
        /\ work[w].op = "grant" => work[w].row.st # "granted"

(* A request is pending at a time, and a refusal has its reasons.          *)
OnePending ==
    /\ \A r, q \in PendingRequests : r = q
    /\ \A r \in ReqIds : reqs[r].st = "denied" => reqs[r].info

IInv ==
    /\ TypeOK /\ WorkOK /\ Ordered /\ Alone /\ Begun /\ Current /\ OnePending
    /\ EndAddsUp /\ GrantedIsProlonged

(* What the suspensions that may still change have added to the end of the *)
(* PASS lies beyond its prolongations and its requests.                    *)
OpenSuspensions == {k \in Live(susp) : today <= susp[k].end}
OpenDays == DaysOf(susp, OpenSuspensions)
Slack ==
    serial /\ support = "none" =>
        /\ \A k \in Live(prol) :
              /\ pass.start <= prol[k].start
              /\ prol[k].end + OpenDays <= pass.end
        /\ \A r \in ReqIds : reqs[r] # None =>
              /\ pass.start <= reqs[r].start
              /\ reqs[r].start + OpenDays <= pass.end

(* A pending request comes after every prolongation and fits in what they  *)
(* left.                                                                   *)
PendingFits ==
    serial /\ support = "none" /\ NoSecondThought =>
        \A r \in PendingRequests :
            /\ Length(reqs[r]) + Days(prol) <= CumulativeMax
            /\ \A k \in Live(prol) : prol[k].end <= reqs[r].start

(* CumulativeBound, with a name for the sum.                               *)
UpTo(k) == {j \in Live(prol) : prol[j].start <= prol[k].start}
Limit ==
    serial /\ support = "none" /\ NoSecondThought =>
        \A k \in Live(prol) : prol[k].reason = "opinion" => DaysOf(prol, UpTo(k)) <= CumulativeMax

SInv == Slack /\ ProlongationsWithinPass /\ PendingFits /\ Limit

(* What the saves make of a row they have read.                            *)
LEMMA SuspRowTypes ==
    /\ \A row \in SuspRow, i \in Int : [row EXCEPT !.start = i] \in SuspRow
    /\ \A row \in SuspRow, i \in Int : [row EXCEPT !.end = i] \in SuspRow
<1>1. ASSUME NEW row \in SuspRow, NEW i \in Int
      PROVE  [row EXCEPT !.start = i] \in SuspRow /\ [row EXCEPT !.end = i] \in SuspRow
  BY DEF SuspRow
<1> QED BY <1>1

LEMMA ReqRowTypes ==
    ASSUME NEW row \in ReqRow
    PROVE  /\ [row EXCEPT !.st = "granted"] \in ReqRow
           /\ [row EXCEPT !.st = "granted"].st = "granted"
           /\ [row EXCEPT !.st = "granted"].start = row.start
           /\ [row EXCEPT !.st = "granted"].end = row.end
           /\ [row EXCEPT !.st = "granted"].info = row.info
           /\ [row EXCEPT !.st = "denied", !.info = TRUE] \in ReqRow
           /\ [row EXCEPT !.st = "denied", !.info = TRUE].st = "denied"
           /\ [row EXCEPT !.st = "denied", !.info = TRUE].start = row.start
           /\ [row EXCEPT !.st = "denied", !.info = TRUE].end = row.end
           /\ [row EXCEPT !.st = "denied", !.info = TRUE].info
<1>1. \A r \in ReqRow : /\ [r EXCEPT !.st = "granted"] \in ReqRow
                        /\ [r EXCEPT !.st = "denied"] \in ReqRow
                        /\ [r EXCEPT !.info = TRUE] \in ReqRow
  BY DEF ReqRow
<1>2. [[row EXCEPT !.st = "denied"] EXCEPT !.info = TRUE] \in ReqRow
  BY <1>1, Zenon
<1>3. /\ [row EXCEPT !.st = "granted"].st = "granted"
      /\ [row EXCEPT !.st = "granted"].start = row.start
      /\ [row EXCEPT !.st = "granted"].end = row.end
      /\ [row EXCEPT !.st = "denied", !.info = TRUE].st = "denied"
      /\ [row EXCEPT !.st = "denied", !.info = TRUE].start = row.start
      /\ [row EXCEPT !.st = "denied", !.info = TRUE].end = row.end
  BY DEF ReqRow
<1>4. [row EXCEPT !.st = "granted"].info = row.info
  BY DEF ReqRow
<1>5. [row EXCEPT !.st = "denied", !.info = TRUE].info = TRUE
  BY DEF ReqRow
<1> QED BY <1>1, <1>2, <1>3, <1>4, <1>5, Zenon

(***************************************************************************)
(* What a step does to the rows and to the PASS, whoever takes it.         *)
(***************************************************************************)
Frame == UNCHANGED <<today, serial, support>> /\ support = "none"

(* One suspension is inserted, changed or deleted.  When requests do not   *)
(* overlap, it is a new one or one in progress.                            *)
SuspEffect(k, row) ==
    /\ Frame /\ pass.start <= today
    /\ row \in SuspRow \cup Gone
    /\ row.st = "live" => row.start <= row.end /\ row.start <= today
    /\ serial /\ susp[k].st = "live" => k \in InProgress(susp)
    /\ susp' = [susp EXCEPT ![k] = row]
    /\ pass' = [pass EXCEPT !.end = @ + update_approval_end_at(susp[k], row)]
    /\ UNCHANGED <<prol, reqs>>

(* One prolongation is inserted, directly or with the grant of a request.  *)
ProlEffect(k, row) ==
    /\ Frame /\ pass.start <= today
    /\ row \in ProlRow /\ row.start < row.end
    /\ prol[k] = None /\ NoOverlapProlongation(prol, row.start, row.end)
    /\ prol' = [prol EXCEPT ![k] = row]
    /\ pass' = [pass EXCEPT !.end = @ + update_approval_end_at(prol[k], row)]
    /\ UNCHANGED susp
Direct(row) ==
    /\ row.reason = "direct" /\ UNCHANGED reqs
    /\ serial => row.start = pass.end /\ InProgress(susp) = {} /\ PendingRequests = {}
Grants(row, r, old) ==
    /\ row.req = r /\ old \in ReqRow /\ reqs[r] # None
    /\ row.start = old.start /\ row.end = old.end
    /\ reqs' = [reqs EXCEPT ![r] = [reqs[r] EXCEPT !.st = "granted"]]
    /\ serial => reqs[r] = old /\ old.st # "granted"

(* One request is made or refused.                                         *)
Asks(r, start, end) ==
    /\ Frame /\ pass.start <= today
    /\ reqs[r] = None /\ PendingRequests = {}
    /\ start \in Int /\ end \in ProlongationEnds(start, "opinion")
    /\ reqs' = [reqs EXCEPT ![r] = [st |-> "pending", start |-> start, end |-> end, info |-> FALSE]]
    /\ serial => start = pass.end /\ InProgress(susp) = {}
    /\ UNCHANGED <<pass, susp, prol>>
Refuses(r) ==
    /\ Frame /\ pass.start <= today
    /\ reqs[r] # None /\ ~reqs[r].info
    /\ reqs' = [reqs EXCEPT ![r] = [reqs[r] EXCEPT !.st = "denied", !.info = TRUE]]
    /\ UNCHANGED <<pass, susp, prol>>

(* The PASS begins another day, as if it were issued that day.             *)
MoveEffect(d) ==
    /\ Frame /\ ~HasPeriods /\ d \in Int
    /\ UNCHANGED work /\ \A w \in Workers : work[w] = Idle
    /\ pass' = [start |-> d, end |-> get_default_end_date(d)]
    /\ UNCHANGED <<susp, prol, reqs>>

Quiet ==
    /\ today <= today' /\ UNCHANGED <<serial, support, pass, susp, prol, reqs>>

Effect ==
    \/ \E k \in SuspIds : \E row : SuspEffect(k, row)
    \/ \E k \in ProlIds : \E row :
          ProlEffect(k, row) /\ (Direct(row) \/ \E r \in ReqIds : \E old : Grants(row, r, old))
    \/ \E r \in ReqIds : \E start, end : Asks(r, start, end)
    \/ \E r \in ReqIds : Refuses(r)
    \/ \E d : MoveEffect(d)
    \/ \E d : AdminSaveModel(d) /\ HasPeriods /\ d \in Int
    \/ terminate_approval
    \/ Quiet

LEMMA InFlight ==
    ASSUME IInv, NEW w \in Workers, work[w].op # "idle"
    PROVE  support = "none" /\ pass.start <= today /\ work[w] # Idle
<1>1. work[w] # Idle
  BY DEF Idle
<1> QED BY <1>1 DEF IInv, Alone, Begun

LEMMA SuspensionSaves ==
    ASSUME IInv, NEW w \in Workers,
           suspend(w) \/ suspension_update(w) \/ suspension_update_enddate(w) \/ suspension_delete(w)
    PROVE  Effect
<1>1. CASE suspend(w)
  <2>1. PICK k \in SuspIds, start \in 0..today : \E end \in start..Suspension_get_max_end_at(start) :
          /\ FreeId(susp, k)
          /\ SaveSuspensionRow(k, [st |-> "live", start |-> start, end |-> end, created |-> today])
    BY <1>1 DEF suspend
  <2>2. PICK end \in start..Suspension_get_max_end_at(start) :
          /\ FreeId(susp, k)
          /\ SaveSuspensionRow(k, [st |-> "live", start |-> start, end |-> end, created |-> today])
    BY <2>1
  <2> DEFINE row == [st |-> "live", start |-> start, end |-> end, created |-> today]
  <2>3. today \in Int /\ start \in Int /\ Suspension_get_max_end_at(start) \in Int
    BY DurationsAssumption DEF IInv, TypeOK, Suspension_get_max_end_at
  <2>4. row \in SuspRow /\ row.start <= row.end
    BY <2>2, <2>3 DEF SuspRow
  <2>5. Frame /\ pass.start <= today /\ UNCHANGED <<prol, reqs>>
    BY <1>1, InFlight DEF suspend, Finish, Frame
  <2>6. susp[k].st # "live"
    BY <2>2 DEF FreeId, None
  <2>7. SuspEffect(k, row)
    BY <2>2, <2>4, <2>5, <2>6 DEF SuspEffect, SaveSuspensionRow
  <2> QED BY <2>7 DEF Effect
<1>2. CASE suspension_update(w)
  <2> DEFINE k == work[w].id  old == work[w].row
  <2>1. PICK start \in 0..today : \E end \in start..Suspension_get_max_end_at(start) :
          SaveSuspensionRow(k, [old EXCEPT !.start = start, !.end = end])
    BY <1>2 DEF suspension_update
  <2>2. PICK end \in start..Suspension_get_max_end_at(start) :
          SaveSuspensionRow(k, [old EXCEPT !.start = start, !.end = end])
    BY <2>1
  <2> DEFINE row == [old EXCEPT !.start = start, !.end = end]
  <2>3. today \in Int /\ start \in Int /\ end \in Int /\ start <= end
    BY DurationsAssumption DEF IInv, TypeOK, Suspension_get_max_end_at
  <2>4. k \in SuspIds /\ old \in SuspRow
    BY <1>2 DEF suspension_update, IInv, WorkOK, OnSuspension
  <2>5. row \in SuspRow /\ row.start <= row.end
    <3>1. [[old EXCEPT !.start = start] EXCEPT !.end = end] \in SuspRow
      BY <2>3, <2>4, SuspRowTypes, Zenon
    <3>2. row.start = start /\ row.end = end
      BY <2>4 DEF SuspRow
    <3> QED BY <2>3, <3>1, <3>2
  <2>6. Frame /\ pass.start <= today /\ UNCHANGED <<prol, reqs>> /\ work[w] # Idle
    BY <1>2, InFlight DEF suspension_update, Finish, Frame
  <2>7. serial => k \in InProgress(susp)
    BY <1>2, <2>6 DEF suspension_update, IInv, Current, OnSuspension
  <2>8. SuspEffect(k, row)
    <3> HIDE DEF row, k
    <3> QED BY <2>2, <2>5, <2>6, <2>7 DEF SuspEffect, SaveSuspensionRow, row
  <2> QED BY <2>4, <2>8 DEF Effect
<1>3. CASE suspension_update_enddate(w)
  <2> DEFINE k == work[w].id  old == work[w].row
  <2>1. PICK back \in SuspensionEndDateForm(old) : SaveSuspensionRow(k, [old EXCEPT !.end = back - 1])
    BY <1>3 DEF suspension_update_enddate
  <2> DEFINE row == [old EXCEPT !.end = back - 1]
  <2>2. k \in SuspIds /\ old \in SuspRow
    BY <1>3 DEF suspension_update_enddate, IInv, WorkOK, OnSuspension
  <2>3. back \in Int /\ back - 1 \in Int /\ old.start <= back - 1 /\ old.start \in Int
    BY <2>2 DEF SuspensionEndDateForm, SuspRow
  <2>4. row \in SuspRow /\ row.start <= row.end
    BY <2>2, <2>3 DEF SuspRow
  <2>5. Frame /\ pass.start <= today /\ UNCHANGED <<prol, reqs>> /\ work[w] # Idle
    BY <1>3, InFlight DEF suspension_update_enddate, Finish, Frame
  <2>6. serial => k \in InProgress(susp)
    BY <1>3, <2>5 DEF suspension_update_enddate, IInv, Current, OnSuspension
  <2>7. SuspEffect(k, row)
    <3> HIDE DEF row, k
    <3> QED BY <2>1, <2>4, <2>5, <2>6 DEF SuspEffect, SaveSuspensionRow, row
  <2> QED BY <2>2, <2>7 DEF Effect
<1>4. CASE suspension_delete(w)
  <2> DEFINE k == work[w].id  row == [st |-> "gone"]
  <2>1. k \in SuspIds
    BY <1>4 DEF suspension_delete, IInv, WorkOK, OnSuspension
  <2>2. Frame /\ pass.start <= today /\ UNCHANGED <<prol, reqs>> /\ work[w] # Idle
    BY <1>4, InFlight DEF suspension_delete, Finish, Frame
  <2>3. CASE susp[k].st = "live"
    <3>1. SaveSuspensionRow(k, row)
      BY <1>4, <2>3 DEF suspension_delete, DeleteSuspensionRow
    <3>2. serial => k \in InProgress(susp)
      BY <1>4, <2>2 DEF suspension_delete, IInv, Current, OnSuspension
    <3>3. SuspEffect(k, row)
      BY <2>2, <3>1, <3>2 DEF SuspEffect, SaveSuspensionRow, Gone
    <3> QED BY <2>1, <3>3 DEF Effect
  <2>4. CASE susp[k].st # "live"
    <3>1. UNCHANGED <<susp, pass>>
      BY <1>4, <2>4 DEF suspension_delete, DeleteSuspensionRow
    <3>2. today <= today
      BY DEF IInv, TypeOK
    <3> QED BY <2>2, <3>1, <3>2 DEF Effect, Quiet, Frame
  <2> QED BY <2>3, <2>4
<1> QED BY <1>1, <1>2, <1>3, <1>4

LEMMA RowsOK ==
    ASSUME TypeOK
    PROVE  /\ Rows(susp, NumSuspensions) /\ NumSuspensions \in Nat
           /\ Rows(prol, NumProlongations) /\ NumProlongations \in Nat
<1>1. /\ DOMAIN susp = 1..NumSuspensions
      /\ \A k \in 1..NumSuspensions : susp[k].st = "live" => Length(susp[k]) \in Int
  BY DEF TypeOK, SuspIds, SuspRow, Gone, Length
<1>2. /\ DOMAIN prol = 1..NumProlongations
      /\ \A k \in 1..NumProlongations : prol[k].st = "live" => Length(prol[k]) \in Int
  BY DEF TypeOK, ProlIds, ProlRow, Gone, Length
<1> QED BY <1>1, <1>2, DurationsAssumption DEF Rows

LEMMA DaysInt ==
    ASSUME TypeOK
    PROVE  Days(susp) \in Int /\ Days(prol) \in Int
<1>1. /\ Measured(susp, Live(susp)) /\ Days(susp) = DaysOf(susp, Live(susp))
      /\ Measured(prol, Live(prol)) /\ Days(prol) = DaysOf(prol, Live(prol))
  BY RowsOK, LiveMeasured
<1> QED BY <1>1, DaysType

(* The end of a prolongation that may be asked for.                        *)
LEMMA Ends ==
    ASSUME TypeOK, NEW start \in Int, NEW reason \in Reasons,
           NEW end \in ProlongationEnds(start, reason)
    PROVE  /\ end \in Int /\ start < end
           /\ reason = "opinion" => end <= start + (CumulativeMax - Days(prol))
<1> DEFINE pair == {RequestMax, CumulativeMax - Days(prol)}
<1>1. RequestMax \in Int /\ CumulativeMax - Days(prol) \in Int /\ DirectMax \in Int
  BY DaysInt, DurationsAssumption
<1>2. \E x \in pair : \A y \in pair : x <= y
  BY <1>1
<1>3. Min(pair) \in pair /\ \A y \in pair : Min(pair) <= y
  <2> HIDE DEF pair
  <2> QED BY <1>2 DEF Min
<1>4. Min(pair) \in Int /\ Min(pair) <= CumulativeMax - Days(prol)
  BY <1>1, <1>3
<1>5. CASE reason = "direct"
  BY <1>1, <1>5 DEF ProlongationEnds, get_max_end_at
<1>6. CASE reason = "opinion"
  <2>1. end \in (start + 1)..(start + Min(pair))
    BY <1>6 DEF ProlongationEnds, get_max_end_at
  <2> HIDE DEF pair
  <2> QED BY <1>1, <1>4, <2>1
<1> QED BY <1>5, <1>6 DEF Reasons

LEMMA ProlongationSaves ==
    ASSUME IInv, NEW w \in Workers, declare_prolongation(w) \/ grant(w) \/ deny(w)
    PROVE  Effect
<1>0. TypeOK /\ WorkOK /\ Current
  BY DEF IInv
<1>1. CASE declare_prolongation(w)
  <2> DEFINE start == work[w].pass.end
  <2>1. Frame /\ pass.start <= today /\ work[w] # Idle /\ UNCHANGED susp
    BY <1>1, InFlight DEF declare_prolongation, Finish, Frame
  <2>2. start \in Int
    BY <1>0, <1>1 DEF declare_prolongation, WorkOK, OnPass, Dates
  <2>3. serial => start = pass.end /\ InProgress(susp) = {} /\ PendingRequests = {}
    BY <1>0, <1>1, <2>1 DEF declare_prolongation, Current, OnPass
  <2>4. ASSUME NEW k \in ProlIds, NEW end \in ProlongationEnds(start, "direct"),
               InsertProlongation(k, start, end, "direct", 0), UNCHANGED reqs
        PROVE  Effect
    <3> DEFINE row == [st |-> "live", start |-> start, end |-> end, reason |-> "direct", req |-> 0]
    <3>1. end \in Int /\ start < end
      BY <1>0, <2>2, Ends DEF Reasons
    <3>2. row \in ProlRow /\ row.start = start /\ row.end = end /\ row.reason = "direct"
      BY <2>2, <3>1 DEF ProlRow, Reasons
    <3>3. /\ prol[k] = None /\ NoOverlapProlongation(prol, start, end)
          /\ prol' = [prol EXCEPT ![k] = row]
          /\ pass' = [pass EXCEPT !.end = @ + update_approval_end_at(None, row)]
      BY <2>4 DEF InsertProlongation, FreeId
    <3> HIDE DEF row, start
    <3>4. ProlEffect(k, row) /\ Direct(row)
      BY <2>1, <2>3, <2>4, <3>1, <3>2, <3>3 DEF ProlEffect, Direct
    <3> QED BY <3>4 DEF Effect
  <2>5. ASSUME RequestProlongation(start), UNCHANGED <<prol, pass>>
        PROVE  Effect
    <3> HIDE DEF start
    <3>1. PICK r \in ReqIds, end \in ProlongationEnds(start, "opinion") :
             /\ FreeId(reqs, r)
             /\ reqs' = [reqs EXCEPT ![r] = [st |-> "pending", start |-> start, end |-> end, info |-> FALSE]]
      BY <2>5 DEF RequestProlongation
    <3>2. Asks(r, start, end)
      BY <2>1, <2>2, <2>3, <2>5, <3>1 DEF Asks, RequestProlongation, FreeId
    <3> QED BY <3>2 DEF Effect
  <2> QED BY <1>1, <2>4, <2>5 DEF declare_prolongation
<1>2. CASE grant(w)
  <2> DEFINE r == work[w].id  old == work[w].row
  <2>1. Frame /\ pass.start <= today /\ work[w] # Idle /\ UNCHANGED susp
    BY <1>2, InFlight DEF grant, Finish, Frame
  <2>2. r \in ReqIds /\ old \in ReqRow /\ reqs[r] # None /\ old.start < old.end
    BY <1>0, <1>2 DEF grant, WorkOK, OnRequest
  <2>3. serial => reqs[r] = old /\ old.st # "granted"
    BY <1>0, <1>2, <2>1 DEF grant, Current, OnRequest
  <2>4. PICK k \in ProlIds : InsertProlongation(k, old.start, old.end, "opinion", r)
    BY <1>2 DEF grant
  <2>5. reqs' = [reqs EXCEPT ![r] = [reqs[r] EXCEPT !.st = "granted"]]
    BY <1>2 DEF grant
  <2> DEFINE row == [st |-> "live", start |-> old.start, end |-> old.end, reason |-> "opinion", req |-> r]
  <2>6. row \in ProlRow /\ row.start = old.start /\ row.end = old.end /\ row.req = r
    BY <2>2 DEF ProlRow, Reasons, ReqRow
  <2>7. /\ prol[k] = None /\ NoOverlapProlongation(prol, old.start, old.end)
        /\ prol' = [prol EXCEPT ![k] = row]
        /\ pass' = [pass EXCEPT !.end = @ + update_approval_end_at(None, row)]
    BY <2>4 DEF InsertProlongation, FreeId
  <2> HIDE DEF row, r, old
  <2>8. ProlEffect(k, row) /\ Grants(row, r, old)
    BY <2>1, <2>2, <2>3, <2>5, <2>6, <2>7 DEF ProlEffect, Grants
  <2> QED BY <2>2, <2>8 DEF Effect
<1>3. CASE deny(w)
  <2> DEFINE r == work[w].id
  <2>1. Frame /\ pass.start <= today /\ UNCHANGED <<susp, prol, pass>>
    BY <1>3, InFlight DEF deny, Finish, Frame
  <2>2. r \in ReqIds /\ reqs[r] # None
    BY <1>0, <1>3 DEF deny, WorkOK, OnRequest
  <2>3. ~reqs[r].info /\ reqs' = [reqs EXCEPT ![r] = [reqs[r] EXCEPT !.st = "denied", !.info = TRUE]]
    BY <1>3 DEF deny
  <2> HIDE DEF r
  <2>4. Refuses(r)
    BY <2>1, <2>2, <2>3 DEF Refuses
  <2> QED BY <2>2, <2>4 DEF Effect
<1> QED BY <1>1, <1>2, <1>3

(* No live period, no day.                                                 *)
LEMMA NoPeriods ==
    ASSUME TypeOK, ~HasPeriods
    PROVE  Days(susp) = 0 /\ Days(prol) = 0
<1>1. Live(susp) = {} /\ Live(prol) = {}
  BY DEF HasPeriods
<1>2. Days(susp) = DaysOf(susp, Live(susp)) /\ Days(prol) = DaysOf(prol, Live(prol))
  BY RowsOK, LiveMeasured
<1> QED BY <1>1, <1>2, DaysEmpty

LEMMA Unsuspends ==
    ASSUME IInv, NEW d \in Int, today <= d, support = "none", unsuspend(d),
           UNCHANGED <<today, serial, prol, reqs, support>>
    PROVE  Effect
<1>0. TypeOK /\ Ordered /\ Begun
  BY DEF IInv
<1>1. CASE ~is_suspended
  BY <1>0, <1>1 DEF unsuspend, Effect, Quiet, TypeOK
<1>2. CASE is_suspended
  <2> DEFINE k == CHOOSE j \in InProgress(susp) : TRUE
  <2>1. k \in InProgress(susp)
    BY <1>2 DEF is_suspended
  <2>2. IF susp[k].start = d THEN DeleteSuspensionRow(k)
        ELSE SaveSuspensionRow(k, [susp[k] EXCEPT !.end = d - 1])
    BY <1>2 DEF unsuspend
  <2> HIDE DEF k
  <2>3. k \in SuspIds /\ k \in Live(susp) /\ susp[k].st = "live" /\ susp[k].start <= today
    BY <1>0, <2>1 DEF InProgress, Live, TypeOK
  <2>4. Frame /\ pass.start <= today
    BY <1>0, <2>3 DEF Frame, Begun, HasPeriods
  <2>5. CASE susp[k].start = d
    <3>1. SaveSuspensionRow(k, [st |-> "gone"])
      BY <2>2, <2>3, <2>5 DEF DeleteSuspensionRow
    <3>2. SuspEffect(k, [st |-> "gone"])
      BY <2>1, <2>4, <3>1 DEF SuspEffect, SaveSuspensionRow, Gone
    <3> QED BY <2>3, <3>2 DEF Effect
  <2>6. CASE susp[k].start # d
    <3> DEFINE row == [susp[k] EXCEPT !.end = d - 1]
    <3>1. susp[k] \in SuspRow
      BY <1>0, <2>3 DEF TypeOK, Gone
    <3>2. susp[k].start \in Int /\ today \in Int
      BY <1>0, <3>1 DEF SuspRow, TypeOK
    <3>3. row \in SuspRow /\ row.start = susp[k].start /\ row.end = d - 1
      BY <3>1 DEF SuspRow
    <3>4. SaveSuspensionRow(k, row)
      BY <2>2, <2>6
    <3> HIDE DEF row
    <3>5. row.start <= row.end /\ row.start <= today
      BY <2>3, <2>6, <3>2, <3>3
    <3>6. SuspEffect(k, row)
      BY <2>1, <2>4, <3>3, <3>4, <3>5 DEF SuspEffect, SaveSuspensionRow
    <3> QED BY <2>3, <3>6 DEF Effect
  <2> QED BY <2>5, <2>6
<1> QED BY <1>1, <1>2

LEMMA WholeSaves ==
    ASSUME IInv, NEW d \in 0..(MaxDay + HireWindow),
           accept(d) \/ edit_contract_start_date(d) \/ AdminSaveModel(d)
    PROVE  Effect
<1>0. /\ TypeOK /\ Ordered /\ Begun /\ EndAddsUp
      /\ d \in Int /\ today \in Int /\ pass.start \in Int /\ pass.end \in Int
  BY DurationsAssumption DEF IInv, TypeOK
<1>1. ASSUME support = "none", pass.start > today, pass' = update_start_date(pass, d),
             UNCHANGED <<today, serial, susp, prol, reqs, support, work>>
      PROVE  MoveEffect(d)
  <2>1. ~HasPeriods /\ \A w \in Workers : work[w] = Idle
    BY <1>0, <1>1 DEF Begun
  <2> QED BY <1>0, <1>1, <2>1 DEF MoveEffect, Frame, update_start_date, can_postpone_start_date
<1>2. CASE accept(d)
  <2>1. support = "none" /\ today <= d /\ UNCHANGED <<today, serial, prol, reqs, support, work>>
    BY <1>0, <1>2 DEF accept, Whole, Untouched
  <2>2. CASE pass.start > d
    <3>1. MoveEffect(d)
      BY <1>0, <1>1, <1>2, <2>1, <2>2 DEF accept
    <3> QED BY <3>1 DEF Effect
  <2>3. CASE ~(pass.start > d)
    <3>1. unsuspend(d) \/ UNCHANGED <<susp, pass>>
      BY <1>2, <2>3 DEF accept
    <3>2. CASE unsuspend(d)
      BY <1>0, <2>1, <3>2, Unsuspends
    <3>3. CASE UNCHANGED <<susp, pass>>
      BY <1>0, <2>1, <3>3 DEF Effect, Quiet
    <3> QED BY <3>1, <3>2, <3>3
  <2> QED BY <2>2, <2>3
<1>3. CASE edit_contract_start_date(d)
  <2>1. support = "none" /\ UNCHANGED <<today, serial, susp, prol, reqs, support, work>>
    BY <1>3 DEF edit_contract_start_date, Whole, Untouched
  <2>2. CASE pass.start > today
    <3>1. MoveEffect(d)
      BY <1>1, <1>3, <2>1, <2>2 DEF edit_contract_start_date
    <3> QED BY <3>1 DEF Effect
  <2>3. CASE ~(pass.start > today)
    <3>1. pass' = pass
      BY <1>3, <2>3 DEF edit_contract_start_date, update_start_date, can_postpone_start_date
    <3> QED BY <1>0, <2>1, <3>1 DEF Effect, Quiet
  <2> QED BY <2>2, <2>3
<1>4. CASE AdminSaveModel(d)
  <2>1. CASE HasPeriods
    BY <1>0, <1>4, <2>1 DEF Effect
  <2>2. CASE ~HasPeriods
    <3>1. pass.end = pass.start + PassDays - 1
      BY <1>0, <1>4, <2>2, NoPeriods, DurationsAssumption
         DEF EndAddsUp, get_default_end_date, AdminSaveModel, Support, Untouched
    <3>2. pass' = [start |-> d, end |-> pass.end + d - pass.start]
      BY <1>4 DEF AdminSaveModel
    <3>3. pass.end + d - pass.start = get_default_end_date(d)
      BY <1>0, <3>1, DurationsAssumption DEF get_default_end_date
    <3>4. MoveEffect(d)
      BY <1>0, <1>4, <2>2, <3>2, <3>3 DEF MoveEffect, Frame, AdminSaveModel, Support, Untouched
    <3> QED BY <3>4 DEF Effect
  <2> QED BY <2>1, <2>2
<1> QED BY <1>2, <1>3, <1>4

(* Every step has one of the effects.                                      *)
LEMMA Effects ==
    ASSUME IInv, Next
    PROVE  Effect
<1>1. today \in Int
  BY DEF IInv, TypeOK
<1>2. ASSUME NEW w \in Workers, NEW read, Start(w, read)
      PROVE  Effect
  BY <1>1, <1>2 DEF Start, Effect, Quiet
<1>3. ASSUME NEW w \in Workers, GiveUp(w)
      PROVE  Effect
  BY <1>1, <1>3 DEF GiveUp, Finish, Effect, Quiet
<1>4. ASSUME NewDay
      PROVE  Effect
  BY <1>1, <1>4 DEF NewDay, Effect, Quiet
<1>5. ASSUME terminate_approval
      PROVE  Effect
  BY <1>5 DEF Effect
<1>6. ASSUME NEW w \in Workers,
             \/ ReadForSuspend(w) \/ ReadForProlongation(w)
             \/ \E op \in {"update", "enddate", "delete"} : ReadSuspension(w, op)
             \/ \E op \in {"grant", "deny"} : ReadRequest(w, op)
      PROVE  Effect
  BY <1>2, <1>6 DEF ReadForSuspend, ReadForProlongation, ReadSuspension, ReadRequest
<1> QED
  BY <1>3, <1>4, <1>5, <1>6, SuspensionSaves, ProlongationSaves, WholeSaves DEF Next

(***************************************************************************)
(* What a step does to the requests in flight.                             *)
(***************************************************************************)
(* What a request that begins has read.                                    *)
ReadOK(read) ==
    /\ read.op \in OnPass \cup OnSuspension \cup OnRequest
    /\ read.op \in OnPass \cup OnSuspension => read.pass = pass
    /\ read.op \in OnSuspension => read.id \in InProgress(susp) /\ susp[read.id] = read.row
    /\ read.op = "declare" => InProgress(susp) = {} /\ PendingRequests = {}
    /\ read.op \in OnRequest =>
          read.id \in ReqIds /\ reqs[read.id] # None /\ reqs[read.id] = read.row
    /\ read.op = "grant" => read.row.st # "granted"

Finishes(w) == work[w] # Idle /\ work' = [work EXCEPT ![w] = Idle]
WorkEffect ==
    \/ \E w \in Workers : \E read : Start(w, read) /\ ReadOK(read) /\ pass.start <= today
    \/ \E w \in Workers : Finishes(w)
    \/ UNCHANGED work /\ (serial => \A w \in Workers : work[w] = Idle)

(* A PASS that is open to a prolongation has begun.                        *)
LEMMA OpenHasBegun ==
    ASSUME IInv, support = "none", is_open_to_prolongation
    PROVE  pass.start <= today
<1>0. TypeOK /\ Ordered /\ EndAddsUp
  BY DEF IInv
<1>1. /\ Measured(susp, Live(susp)) /\ Days(susp) = DaysOf(susp, Live(susp))
      /\ Measured(prol, Live(prol)) /\ Days(prol) = DaysOf(prol, Live(prol))
  BY <1>0, RowsOK, LiveMeasured
<1>2. \A k \in Live(susp) : Length(susp[k]) >= 0
  BY <1>0 DEF Ordered, TypeOK, Live, SuspRow, Gone, Length
<1>3. \A k \in Live(prol) : Length(prol[k]) >= 0
  BY <1>0 DEF Ordered, TypeOK, Live, ProlRow, Gone, Length
<1>4. DaysOf(susp, {}) <= Days(susp) /\ DaysOf(prol, {}) <= Days(prol)
  BY <1>1, <1>2, <1>3, DaysGrow
<1>5. 0 <= Days(susp) /\ 0 <= Days(prol) /\ Days(susp) \in Int /\ Days(prol) \in Int
  BY <1>0, <1>4, DaysEmpty, DaysInt
<1>6. pass.start \in Int /\ pass.end \in Int /\ today \in Int
  BY <1>0 DEF TypeOK
<1>7. pass.end = pass.start + PassDays - 1 + Days(susp) + Days(prol)
  BY <1>0 DEF EndAddsUp, get_default_end_date
<1>8. OpenBefore \in Nat /\ PassDays \in Nat /\ OpenBefore < PassDays /\ pass.end - OpenBefore <= today
  BY DurationsAssumption DEF is_open_to_prolongation
<1> QED BY <1>5, <1>6, <1>7, <1>8

LEMMA WorkEffects ==
    ASSUME IInv, Next
    PROVE  WorkEffect
<1>0. TypeOK /\ Begun
  BY DEF IInv
<1>1. ASSUME NEW w \in Workers, ReadForSuspend(w) PROVE WorkEffect
  <2> DEFINE read == [op |-> "suspend", pass |-> pass]
  <2>1. Start(w, read) /\ pass.start <= today
    BY <1>1 DEF ReadForSuspend, can_be_suspended, is_in_progress
  <2>2. ReadOK(read)
    BY DEF ReadOK, OnPass, OnSuspension, OnRequest
  <2> QED BY <2>1, <2>2 DEF WorkEffect
<1>2. ASSUME NEW w \in Workers, ReadForProlongation(w) PROVE WorkEffect
  <2> DEFINE read == [op |-> "declare", pass |-> pass]
  <2>1. Start(w, read) /\ can_be_prolonged /\ support = "none"
    BY <1>2 DEF ReadForProlongation, Start, Untouched
  <2>2. ReadOK(read)
    BY <2>1 DEF ReadOK, OnPass, OnSuspension, OnRequest, can_be_prolonged, is_suspended
  <2>3. pass.start <= today
    BY <2>1, OpenHasBegun DEF can_be_prolonged
  <2> QED BY <2>1, <2>2, <2>3 DEF WorkEffect
<1>3. ASSUME NEW w \in Workers, NEW op \in OnSuspension, ReadSuspension(w, op) PROVE WorkEffect
  <2>1. PICK k \in InProgress(susp) : Start(w, [op |-> op, id |-> k, row |-> susp[k], pass |-> pass])
    BY <1>3 DEF ReadSuspension
  <2> DEFINE read == [op |-> op, id |-> k, row |-> susp[k], pass |-> pass]
  <2>2. ReadOK(read)
    BY <1>3, <2>1 DEF ReadOK, OnPass, OnSuspension, OnRequest
  <2>3. pass.start <= today
    BY <1>0, <2>1 DEF Begun, HasPeriods, Start, Untouched, InProgress
  <2> QED BY <2>1, <2>2, <2>3 DEF WorkEffect
<1>4. ASSUME NEW w \in Workers, NEW op \in OnRequest, ReadRequest(w, op) PROVE WorkEffect
  <2>1. PICK r \in ReqIds : /\ reqs[r] # None
                            /\ op = "grant" => reqs[r].st # "granted"
                            /\ Start(w, [op |-> op, id |-> r, row |-> reqs[r]])
    BY <1>4 DEF ReadRequest
  <2> DEFINE read == [op |-> op, id |-> r, row |-> reqs[r]]
  <2>2. ReadOK(read)
    BY <1>4, <2>1 DEF ReadOK, OnPass, OnSuspension, OnRequest
  <2>3. pass.start <= today
    BY <1>0, <2>1 DEF Begun, HasPeriods, Start, Untouched
  <2> QED BY <2>1, <2>2, <2>3 DEF WorkEffect
<1>5. ASSUME NEW w \in Workers,
             \/ suspend(w) \/ suspension_update(w) \/ suspension_update_enddate(w)
             \/ suspension_delete(w) \/ declare_prolongation(w) \/ grant(w) \/ deny(w) \/ GiveUp(w)
      PROVE  WorkEffect
  <2>1. work' = [work EXCEPT ![w] = Idle]
    BY <1>5 DEF suspend, suspension_update, suspension_update_enddate, suspension_delete,
                declare_prolongation, grant, deny, GiveUp, Finish
  <2>2. work[w] # Idle
    <3>1. CASE GiveUp(w)
      BY <3>1 DEF GiveUp
    <3>2. CASE ~GiveUp(w)
      <4>1. work[w].op # "idle"
        BY <1>5, <3>2 DEF suspend, suspension_update, suspension_update_enddate,
                          suspension_delete, declare_prolongation, grant, deny
      <4> QED BY <4>1 DEF Idle
    <3> QED BY <3>1, <3>2
  <2> QED BY <2>1, <2>2 DEF WorkEffect, Finishes
<1>6. ASSUME \/ \E d \in 0..(MaxDay + HireWindow) :
                   accept(d) \/ edit_contract_start_date(d) \/ AdminSaveModel(d)
             \/ terminate_approval \/ NewDay
      PROVE  WorkEffect
  BY <1>6 DEF WorkEffect, accept, edit_contract_start_date, AdminSaveModel, terminate_approval,
              NewDay, Whole, Support
<1> QED BY <1>1, <1>2, <1>3, <1>4, <1>5, <1>6 DEF Next, OnSuspension, OnRequest

(***************************************************************************)
(* The invariant is inductive.                                             *)
(***************************************************************************)
LEMMA ClipTypes ==
    ASSUME TypeOK
    PROVE  /\ _clip_approval_dependency(susp) \in [SuspIds -> SuspRow \cup Gone]
           /\ _clip_approval_dependency(prol) \in [ProlIds -> ProlRow \cup Gone]
<1>1. ASSUME NEW k \in SuspIds PROVE ClipRow(susp, k) \in SuspRow \cup Gone
  <2>1. susp[k] \in SuspRow => [susp[k] EXCEPT !.end = today] \in SuspRow
    BY DEF TypeOK, SuspRow
  <2>2. susp[k] \in SuspRow \cup Gone /\ (susp[k].st = "live" => susp[k] \in SuspRow)
    BY DEF TypeOK, Gone
  <2> QED BY <2>1, <2>2 DEF ClipRow, Gone
<1>2. ASSUME NEW k \in ProlIds PROVE ClipRow(prol, k) \in ProlRow \cup Gone
  <2>1. prol[k] \in ProlRow => [prol[k] EXCEPT !.end = today] \in ProlRow
    BY DEF TypeOK, ProlRow
  <2>2. prol[k] \in ProlRow \cup Gone /\ (prol[k].st = "live" => prol[k] \in ProlRow)
    BY DEF TypeOK, Gone
  <2> QED BY <2>1, <2>2 DEF ClipRow, Gone
<1>3. DOMAIN susp = SuspIds /\ DOMAIN prol = ProlIds
  BY DEF TypeOK
<1> QED BY <1>1, <1>2, <1>3 DEF _clip_approval_dependency

LEMMA TypePreserved ==
    ASSUME IInv, Next, Effect
    PROVE  TypeOK'
<1>0. TypeOK /\ Ordered
  BY DEF IInv
<1>1. today' \in 0..MaxDay /\ serial' = serial /\ support' \in {"none", "moved", "closed"}
  <2>1. CASE NewDay
    BY <1>0, <2>1, DurationsAssumption DEF NewDay, TypeOK
  <2>2. CASE ~NewDay
    <3>1. today' = today /\ serial' = serial
      BY <2>2 DEF Next, ReadForSuspend, suspend, ReadSuspension, suspension_update,
         suspension_update_enddate, suspension_delete, ReadForProlongation, declare_prolongation,
         ReadRequest, grant, deny, GiveUp, Start, Finish, accept, edit_contract_start_date,
         AdminSaveModel, terminate_approval
    <3>2. support' \in {"none", "moved", "closed"}
      BY <1>0 DEF Effect, SuspEffect, ProlEffect, Asks, Refuses, MoveEffect, Frame, Quiet,
         AdminSaveModel, terminate_approval, TypeOK
    <3> QED BY <1>0, <3>1, <3>2 DEF TypeOK
  <2> QED BY <2>1, <2>2
<1>2. hire' \in Int /\ DOMAIN work' = Workers
  <2>1. hire' \in Int
    <3>1. CASE \E d \in 0..(MaxDay + HireWindow) : accept(d) \/ edit_contract_start_date(d)
      BY <3>1, DurationsAssumption DEF accept, edit_contract_start_date
    <3>2. CASE ~\E d \in 0..(MaxDay + HireWindow) : accept(d) \/ edit_contract_start_date(d)
      <4>1. hire' = hire
        BY <3>2 DEF Next, ReadForSuspend, suspend, ReadSuspension, suspension_update,
           suspension_update_enddate, suspension_delete, ReadForProlongation,
           declare_prolongation, ReadRequest, grant, deny, GiveUp, Start, Finish, AdminSaveModel,
           terminate_approval, NewDay
      <4> QED BY <1>0, <4>1 DEF TypeOK
    <3> QED BY <3>1, <3>2
  <2>2. DOMAIN work' = Workers
    BY <1>0, WorkEffects DEF WorkEffect, Start, Finishes, TypeOK
  <2> QED BY <2>1, <2>2
<1>3. susp' \in [SuspIds -> SuspRow \cup Gone]
  <2>1. CASE terminate_approval
    BY <1>0, <2>1, ClipTypes DEF terminate_approval
  <2>2. ASSUME NEW k \in SuspIds, NEW row, SuspEffect(k, row)
        PROVE  susp' \in [SuspIds -> SuspRow \cup Gone]
    BY <1>0, <2>2 DEF SuspEffect, TypeOK
  <2>3. ASSUME susp' = susp
        PROVE  susp' \in [SuspIds -> SuspRow \cup Gone]
    BY <1>0, <2>3 DEF TypeOK
  <2> QED BY <2>1, <2>2, <2>3 DEF Effect, ProlEffect, Asks, Refuses, MoveEffect, Quiet,
             AdminSaveModel
<1>4. prol' \in [ProlIds -> ProlRow \cup Gone]
  <2>1. CASE terminate_approval
    BY <1>0, <2>1, ClipTypes DEF terminate_approval
  <2>2. ASSUME NEW k \in ProlIds, NEW row, ProlEffect(k, row)
        PROVE  prol' \in [ProlIds -> ProlRow \cup Gone]
    BY <1>0, <2>2 DEF ProlEffect, TypeOK
  <2>3. ASSUME prol' = prol
        PROVE  prol' \in [ProlIds -> ProlRow \cup Gone]
    BY <1>0, <2>3 DEF TypeOK
  <2> QED BY <2>1, <2>2, <2>3 DEF Effect, SuspEffect, Asks, Refuses, MoveEffect, Quiet,
             AdminSaveModel
<1>5. reqs' \in [ReqIds -> ReqRow \cup {None}]
  <2>1. ASSUME NEW k, NEW row, NEW r \in ReqIds, NEW old, ProlEffect(k, row), Grants(row, r, old)
        PROVE  reqs' \in [ReqIds -> ReqRow \cup {None}]
    <3>1. reqs[r] \in ReqRow
      BY <1>0, <2>1 DEF Grants, TypeOK
    <3>2. [reqs[r] EXCEPT !.st = "granted"] \in ReqRow
      BY <3>1, ReqRowTypes
    <3> QED BY <1>0, <2>1, <3>2 DEF Grants, TypeOK
  <2>2. ASSUME NEW r \in ReqIds, NEW start, NEW end, Asks(r, start, end)
        PROVE  reqs' \in [ReqIds -> ReqRow \cup {None}]
    <3>1. start \in Int /\ end \in Int
      BY <1>0, <2>2, Ends DEF Asks, Reasons
    <3>2. [st |-> "pending", start |-> start, end |-> end, info |-> FALSE] \in ReqRow
      BY <3>1 DEF ReqRow
    <3> QED BY <1>0, <2>2, <3>2 DEF Asks, TypeOK
  <2>3. ASSUME NEW r \in ReqIds, Refuses(r)
        PROVE  reqs' \in [ReqIds -> ReqRow \cup {None}]
    <3> DEFINE row == [reqs[r] EXCEPT !.st = "denied", !.info = TRUE]
    <3>0. reqs[r] \in ReqRow
      BY <1>0, <2>3 DEF Refuses, TypeOK
    <3>1. row \in ReqRow /\ reqs' = [reqs EXCEPT ![r] = row]
      BY <2>3, <3>0, ReqRowTypes DEF Refuses
    <3> HIDE DEF row
    <3> QED BY <1>0, <3>1 DEF TypeOK
  <2>4. ASSUME reqs' = reqs
        PROVE  reqs' \in [ReqIds -> ReqRow \cup {None}]
    BY <1>0, <2>4 DEF TypeOK
  <2> QED BY <2>1, <2>2, <2>3, <2>4 DEF Effect, SuspEffect, Direct, MoveEffect, Quiet,
             AdminSaveModel, terminate_approval
<1>6. pass' \in [start: Int, end: Int]
  <2>0. pass \in [start: Int, end: Int] /\ today \in Int
    BY <1>0 DEF TypeOK
  <2>1. ASSUME NEW k \in SuspIds, NEW row, SuspEffect(k, row)
        PROVE  pass' \in [start: Int, end: Int]
    <3>1. row.st = "live" => Length(row) \in Int
      BY <2>1 DEF SuspEffect, SuspRow, Gone, Length
    <3>2. update_approval_end_at(susp[k], row) \in Int
      BY <1>0, <3>1, RowsOK, DaysChange DEF SuspIds
    <3> QED BY <2>0, <2>1, <3>2 DEF SuspEffect
  <2>2. ASSUME NEW k \in ProlIds, NEW row, ProlEffect(k, row)
        PROVE  pass' \in [start: Int, end: Int]
    <3>1. row.st = "live" => Length(row) \in Int
      BY <2>2 DEF ProlEffect, ProlRow, Length
    <3>2. update_approval_end_at(prol[k], row) \in Int
      BY <1>0, <3>1, RowsOK, DaysChange DEF ProlIds
    <3> QED BY <2>0, <2>2, <3>2 DEF ProlEffect
  <2>3. ASSUME NEW d, MoveEffect(d)
        PROVE  pass' \in [start: Int, end: Int]
    BY <2>3, DurationsAssumption DEF MoveEffect, get_default_end_date
  <2>4. ASSUME NEW d \in Int, AdminSaveModel(d)
        PROVE  pass' \in [start: Int, end: Int]
    BY <2>0, <2>4 DEF AdminSaveModel
  <2>5. ASSUME terminate_approval
        PROVE  pass' \in [start: Int, end: Int]
    BY <2>0, <2>5 DEF terminate_approval
  <2>6. ASSUME pass' = pass
        PROVE  pass' \in [start: Int, end: Int]
    BY <2>0, <2>6
  <2> QED BY <2>1, <2>2, <2>3, <2>4, <2>5, <2>6 DEF Effect, Asks, Refuses, Quiet
<1> QED BY <1>0, <1>1, <1>2, <1>3, <1>4, <1>5, <1>6 DEF TypeOK

LEMMA OrderedPreserved ==
    ASSUME IInv, Effect, TypeOK', today <= today'
    PROVE  Ordered'
<1>0. TypeOK /\ Ordered /\ today \in Int /\ today' \in Int
  BY DEF IInv, TypeOK
<1>1. ASSUME NEW k \in Live(susp')
      PROVE  susp'[k].start <= susp'[k].end /\ susp'[k].start <= today'
  <2>0. k \in SuspIds /\ susp'[k].st = "live" /\ susp'[k] \in SuspRow
    BY DEF Live, TypeOK, Gone
  <2>1. CASE terminate_approval
    <3>1. susp'[k] = ClipRow(susp, k)
      BY <1>0, <2>0, <2>1 DEF terminate_approval, _clip_approval_dependency, TypeOK
    <3>2. susp[k].st = "live"
      BY <2>0, <3>1 DEF ClipRow
    <3>3. susp[k] \in SuspRow /\ susp[k].start <= susp[k].end /\ susp[k].start <= today
      BY <1>0, <2>0, <3>2 DEF TypeOK, Gone, Ordered, Live
    <3>4. susp[k].start >= today => FALSE
      BY <2>0, <3>1, <3>2 DEF ClipRow
    <3>5. /\ [susp[k] EXCEPT !.end = today].start = susp[k].start
          /\ [susp[k] EXCEPT !.end = today].end = today
      BY <3>3 DEF SuspRow
    <3>6. susp'[k] = susp[k] \/ susp'[k] = [susp[k] EXCEPT !.end = today]
      BY <3>1, <3>2, <3>4 DEF ClipRow
    <3>7. today' = today
      BY <2>1 DEF terminate_approval
    <3> QED BY <3>3, <3>5, <3>6, <3>7
  <2>2. ASSUME NEW j \in SuspIds, NEW row, SuspEffect(j, row)
        PROVE  susp'[k].start <= susp'[k].end /\ susp'[k].start <= today'
    <3>1. CASE k = j
      <4>1. susp'[k] = row
        BY <1>0, <2>2, <3>1 DEF SuspEffect, TypeOK
      <4> QED BY <2>0, <2>2, <4>1 DEF SuspEffect, Frame
    <3>2. CASE k # j
      <4>1. susp'[k] = susp[k] /\ k \in Live(susp)
        BY <1>0, <2>0, <2>2, <3>2 DEF SuspEffect, TypeOK, Live
      <4> QED BY <1>0, <2>2, <4>1 DEF SuspEffect, Frame, Ordered
    <3> QED BY <3>1, <3>2
  <2>3. ASSUME susp' = susp
        PROVE  susp'[k].start <= susp'[k].end /\ susp'[k].start <= today'
    <3>1. susp[k].start \in Int /\ susp[k].start <= susp[k].end /\ susp[k].start <= today
      BY <1>0, <2>0, <2>3 DEF Ordered, SuspRow
    <3> QED BY <1>0, <2>3, <3>1
  <2> QED BY <2>1, <2>2, <2>3 DEF Effect, ProlEffect, Asks, Refuses, MoveEffect, Quiet,
             AdminSaveModel
<1>2. ASSUME NEW k \in Live(prol')
      PROVE  prol'[k].start < prol'[k].end
  <2>0. k \in ProlIds /\ prol'[k].st = "live" /\ prol'[k] \in ProlRow
    BY DEF Live, TypeOK, Gone
  <2>1. CASE terminate_approval
    <3>1. prol'[k] = ClipRow(prol, k)
      BY <1>0, <2>0, <2>1 DEF terminate_approval, _clip_approval_dependency, TypeOK
    <3>2. prol[k].st = "live"
      BY <2>0, <3>1 DEF ClipRow
    <3>3. prol[k] \in ProlRow /\ prol[k].start < prol[k].end
      BY <1>0, <2>0, <3>2 DEF TypeOK, Gone, Ordered, Live
    <3>4. prol[k].start >= today => FALSE
      BY <2>0, <3>1, <3>2 DEF ClipRow
    <3>5. /\ [prol[k] EXCEPT !.end = today].start = prol[k].start
          /\ [prol[k] EXCEPT !.end = today].end = today
          /\ prol[k].start \in Int
      BY <3>3 DEF ProlRow
    <3>6. prol'[k] = prol[k] \/ prol'[k] = [prol[k] EXCEPT !.end = today]
      BY <3>1, <3>2, <3>4 DEF ClipRow
    <3>7. prol[k].start < today
      BY <1>0, <3>4, <3>5
    <3>8. CASE prol'[k] = [prol[k] EXCEPT !.end = today]
      <4>1. prol'[k].start = prol[k].start /\ prol'[k].end = today
        BY <3>5, <3>8
      <4> QED BY <3>7, <4>1
    <3> QED BY <3>3, <3>6, <3>8
  <2>2. ASSUME NEW j \in ProlIds, NEW row, ProlEffect(j, row)
        PROVE  prol'[k].start < prol'[k].end
    <3>1. CASE k = j
      BY <1>0, <2>2, <3>1 DEF ProlEffect, TypeOK
    <3>2. CASE k # j
      <4>1. prol'[k] = prol[k] /\ k \in Live(prol)
        BY <1>0, <2>0, <2>2, <3>2 DEF ProlEffect, TypeOK, Live
      <4> QED BY <1>0, <4>1 DEF Ordered
    <3> QED BY <3>1, <3>2
  <2>3. ASSUME prol' = prol
        PROVE  prol'[k].start < prol'[k].end
    BY <1>0, <2>3 DEF Ordered
  <2> QED BY <2>1, <2>2, <2>3 DEF Effect, SuspEffect, Asks, Refuses, MoveEffect, Quiet,
             AdminSaveModel
<1>3. ASSUME NEW q \in ReqIds, reqs'[q] # None
      PROVE  reqs'[q].start < reqs'[q].end
  <2>1. ASSUME NEW k, NEW row, NEW r \in ReqIds, NEW old, ProlEffect(k, row), Grants(row, r, old)
        PROVE  reqs'[q].start < reqs'[q].end
    <3>0. reqs[r] \in ReqRow /\ reqs[r].start < reqs[r].end
      BY <1>0, <2>1 DEF Grants, TypeOK, Ordered
    <3>1. /\ [reqs[r] EXCEPT !.st = "granted"].start = reqs[r].start
          /\ [reqs[r] EXCEPT !.st = "granted"].end = reqs[r].end
      BY <3>0, ReqRowTypes
    <3>2. reqs'[q] = reqs[q] \/ reqs'[q] = [reqs[r] EXCEPT !.st = "granted"]
      BY <1>0, <2>1 DEF Grants, TypeOK
    <3> QED BY <1>0, <1>3, <3>0, <3>1, <3>2 DEF Ordered
  <2>2. ASSUME NEW r \in ReqIds, NEW start, NEW end, Asks(r, start, end)
        PROVE  reqs'[q].start < reqs'[q].end
    <3> DEFINE row == [st |-> "pending", start |-> start, end |-> end, info |-> FALSE]
    <3>1. row.start = start /\ row.end = end /\ start < end
      BY <1>0, <2>2, Ends DEF Asks, Reasons
    <3>2. reqs'[q] = reqs[q] \/ reqs'[q] = row
      BY <1>0, <2>2 DEF Asks, TypeOK
    <3> HIDE DEF row
    <3> QED BY <1>0, <1>3, <3>1, <3>2 DEF Ordered
  <2>3. ASSUME NEW r \in ReqIds, Refuses(r)
        PROVE  reqs'[q].start < reqs'[q].end
    <3> DEFINE row == [reqs[r] EXCEPT !.st = "denied", !.info = TRUE]
    <3>0. reqs[r] \in ReqRow /\ reqs[r].start < reqs[r].end
      BY <1>0, <2>3 DEF Refuses, TypeOK, Ordered
    <3>1. row.start = reqs[r].start /\ row.end = reqs[r].end
      BY <3>0, ReqRowTypes
    <3>2. reqs'[q] = reqs[q] \/ reqs'[q] = row
      BY <1>0, <2>3 DEF Refuses, TypeOK
    <3> HIDE DEF row
    <3> QED BY <1>0, <1>3, <3>0, <3>1, <3>2 DEF Ordered
  <2>4. ASSUME reqs' = reqs
        PROVE  reqs'[q].start < reqs'[q].end
    BY <1>0, <1>3, <2>4 DEF Ordered
  <2> QED BY <2>1, <2>2, <2>3, <2>4 DEF Effect, SuspEffect, Direct, MoveEffect, Quiet,
             AdminSaveModel, terminate_approval
<1> QED BY <1>1, <1>2, <1>3 DEF Ordered

(* The change of the total and that of the end of the PASS, for a change   *)
(* of a suspension and for a new prolongation.                             *)
LEMMA SuspDays ==
    ASSUME TypeOK, NEW k \in SuspIds, NEW row, SuspEffect(k, row)
    PROVE  /\ update_approval_end_at(susp[k], row) \in Int
           /\ Days(susp') = Days(susp) + update_approval_end_at(susp[k], row)
           /\ pass'.end = pass.end + update_approval_end_at(susp[k], row)
           /\ pass'.start = pass.start
<1>1. row.st = "live" => Length(row) \in Int
  BY DEF SuspEffect, SuspRow, Gone, Length
<1>2. susp' = [susp EXCEPT ![k] = row]
  BY DEF SuspEffect
<1>3. /\ update_approval_end_at(susp[k], row) \in Int
      /\ Days([susp EXCEPT ![k] = row]) = Days(susp) + update_approval_end_at(susp[k], row)
  BY <1>1, RowsOK, DaysChange DEF SuspIds
<1>4. pass'.end = pass.end + update_approval_end_at(susp[k], row) /\ pass'.start = pass.start
  BY DEF SuspEffect, TypeOK
<1> QED BY <1>2, <1>3, <1>4

LEMMA ProlDays ==
    ASSUME TypeOK, NEW k \in ProlIds, NEW row, ProlEffect(k, row)
    PROVE  /\ update_approval_end_at(prol[k], row) = Length(row) /\ Length(row) \in Int
           /\ Days(prol') = Days(prol) + Length(row)
           /\ pass'.end = pass.end + Length(row)
           /\ pass'.start = pass.start
<1>1. row.st = "live" /\ Length(row) \in Int
  BY DEF ProlEffect, ProlRow, Length
<1>2. prol' = [prol EXCEPT ![k] = row] /\ prol[k].st # "live"
  BY DEF ProlEffect, None
<1>3. update_approval_end_at(prol[k], row) = Length(row)
  BY <1>1, <1>2 DEF update_approval_end_at
<1>4. Days([prol EXCEPT ![k] = row]) = Days(prol) + update_approval_end_at(prol[k], row)
  BY <1>1, RowsOK, DaysChange DEF ProlIds
<1>5. /\ pass'.end = pass.end + update_approval_end_at(prol[k], row)
      /\ pass'.start = pass.start
  BY DEF ProlEffect, TypeOK
<1> QED BY <1>1, <1>2, <1>3, <1>4, <1>5

LEMMA EndPreserved ==
    ASSUME IInv, Effect
    PROVE  EndAddsUp'
<1>0. /\ TypeOK /\ EndAddsUp /\ Days(susp) \in Int /\ Days(prol) \in Int
      /\ pass.start \in Int /\ pass.end \in Int /\ PassDays \in Int
  BY DaysInt, DurationsAssumption DEF IInv, TypeOK
<1> SUFFICES ASSUME support' = "none"
             PROVE  pass'.end = pass'.start + PassDays - 1 + Days(susp') + Days(prol')
  BY DEF EndAddsUp, get_default_end_date
<1>1. support = "none" => pass.end = pass.start + PassDays - 1 + Days(susp) + Days(prol)
  BY <1>0 DEF EndAddsUp, get_default_end_date
<1>2. ASSUME NEW k \in SuspIds, NEW row, SuspEffect(k, row)
      PROVE  pass'.end = pass'.start + PassDays - 1 + Days(susp') + Days(prol')
  <2>1. support = "none" /\ prol' = prol
    BY <1>2 DEF SuspEffect, Frame
  <2> DEFINE add == update_approval_end_at(susp[k], row)
  <2>2. /\ add \in Int /\ Days(susp') = Days(susp) + add
        /\ pass'.end = pass.end + add /\ pass'.start = pass.start
    BY <1>0, <1>2, SuspDays
  <2> HIDE DEF add
  <2> QED BY <1>0, <1>1, <2>1, <2>2
<1>3. ASSUME NEW k \in ProlIds, NEW row, ProlEffect(k, row)
      PROVE  pass'.end = pass'.start + PassDays - 1 + Days(susp') + Days(prol')
  <2>1. support = "none" /\ susp' = susp
    BY <1>3 DEF ProlEffect, Frame
  <2>2. /\ Length(row) \in Int /\ Days(prol') = Days(prol) + Length(row)
        /\ pass'.end = pass.end + Length(row) /\ pass'.start = pass.start
    BY <1>0, <1>3, ProlDays
  <2> QED BY <1>0, <1>1, <2>1, <2>2
<1>4. ASSUME NEW d, MoveEffect(d)
      PROVE  pass'.end = pass'.start + PassDays - 1 + Days(susp') + Days(prol')
  <2>1. Days(susp) = 0 /\ Days(prol) = 0 /\ susp' = susp /\ prol' = prol /\ d \in Int
    BY <1>0, <1>4, NoPeriods DEF MoveEffect
  <2>2. pass'.start = d /\ pass'.end = d + PassDays - 1
    BY <1>4 DEF MoveEffect, get_default_end_date
  <2> QED BY <1>0, <2>1, <2>2
<1>5. ASSUME UNCHANGED <<support, pass, susp, prol>>
      PROVE  pass'.end = pass'.start + PassDays - 1 + Days(susp') + Days(prol')
  BY <1>1, <1>5
<1>6. ASSUME NEW d, AdminSaveModel(d), HasPeriods
      PROVE  FALSE
  BY <1>6 DEF AdminSaveModel
<1>7. ASSUME terminate_approval
      PROVE  FALSE
  BY <1>7 DEF terminate_approval
<1> QED BY <1>2, <1>3, <1>4, <1>5, <1>6, <1>7 DEF Effect, Asks, Refuses, Frame, Quiet

LEMMA GrantedPreserved ==
    ASSUME IInv, Effect
    PROVE  GrantedIsProlonged'
<1>0. TypeOK /\ GrantedIsProlonged
  BY DEF IInv
<1> SUFFICES ASSUME NEW q \in ReqIds, reqs'[q].st = "granted", support' # "closed"
             PROVE  \E k \in Live(prol') : prol'[k].req = q
  BY DEF GrantedIsProlonged, Live
<1>1. ASSUME reqs[q].st = "granted", UNCHANGED prol, support # "closed"
      PROVE  \E k \in Live(prol') : prol'[k].req = q
  BY <1>0, <1>1 DEF GrantedIsProlonged
<1>2. ASSUME UNCHANGED <<reqs, prol>>, support # "closed"
      PROVE  \E k \in Live(prol') : prol'[k].req = q
  BY <1>1, <1>2
<1>3. ASSUME NEW k \in ProlIds, NEW row, ProlEffect(k, row), reqs[q].st = "granted"
      PROVE  \E j \in Live(prol') : prol'[j].req = q
  <2>1. PICK j \in Live(prol) : prol[j].req = q
    BY <1>0, <1>3 DEF GrantedIsProlonged, ProlEffect, Frame
  <2>2. j # k /\ prol'[j] = prol[j] /\ j \in Live(prol')
    BY <1>0, <1>3 DEF ProlEffect, Live, None, TypeOK
  <2> QED BY <2>1, <2>2
<1>4. ASSUME NEW k \in ProlIds, NEW row, ProlEffect(k, row), NEW r \in ReqIds, NEW old,
             Grants(row, r, old)
      PROVE  \E j \in Live(prol') : prol'[j].req = q
  <2>1. CASE q = r
    <3>1. k \in Live(prol') /\ prol'[k] = row /\ row.req = q
      BY <1>0, <1>4, <2>1 DEF ProlEffect, Grants, Live, ProlRow, TypeOK
    <3> QED BY <3>1
  <2>2. CASE q # r
    BY <1>0, <1>3, <1>4, <2>2 DEF Grants, TypeOK
  <2> QED BY <2>1, <2>2
<1>5. ASSUME NEW r \in ReqIds, NEW start, NEW end, Asks(r, start, end)
      PROVE  \E j \in Live(prol') : prol'[j].req = q
  <2>1. reqs[q].st = "granted"
    BY <1>0, <1>5 DEF Asks, TypeOK
  <2> QED BY <1>1, <1>5, <2>1 DEF Asks, Frame
<1>6. ASSUME NEW r \in ReqIds, Refuses(r)
      PROVE  \E j \in Live(prol') : prol'[j].req = q
  <2>0. [reqs[r] EXCEPT !.st = "denied", !.info = TRUE].st = "denied"
    <3>1. reqs[r] \in ReqRow
      BY <1>0, <1>6 DEF Refuses, TypeOK
    <3> QED BY <3>1, ReqRowTypes
  <2>1. reqs'[q] = reqs[q] \/ reqs'[q] = [reqs[r] EXCEPT !.st = "denied", !.info = TRUE]
    BY <1>0, <1>6 DEF Refuses, TypeOK
  <2>2. reqs[q].st = "granted"
    BY <2>0, <2>1
  <2> QED BY <1>1, <1>6, <2>2 DEF Refuses, Frame
<1>7. CASE terminate_approval
  BY <1>7 DEF terminate_approval
<1>8. ASSUME NEW d, AdminSaveModel(d)
      PROVE  \E k \in Live(prol') : prol'[k].req = q
  BY <1>2, <1>8 DEF AdminSaveModel, Support, Untouched
<1>9. CASE Quiet
  BY <1>2, <1>9 DEF Quiet
<1>10. ASSUME NEW k \in SuspIds, NEW row, SuspEffect(k, row)
       PROVE  \E j \in Live(prol') : prol'[j].req = q
  BY <1>2, <1>10 DEF SuspEffect, Frame
<1>11. ASSUME NEW d, MoveEffect(d)
       PROVE  \E j \in Live(prol') : prol'[j].req = q
  BY <1>2, <1>11 DEF MoveEffect, Frame
<1> QED BY <1>3, <1>4, <1>5, <1>6, <1>7, <1>8, <1>9, <1>10, <1>11 DEF Effect, Direct

LEMMA PendingPreserved ==
    ASSUME IInv, Effect
    PROVE  OnePending'
<1>0. TypeOK /\ OnePending /\ DOMAIN reqs = ReqIds
  BY DEF IInv, TypeOK
<1>1. ASSUME NEW r \in ReqIds, NEW row, reqs' = [reqs EXCEPT ![r] = row], row.st # "pending",
             row.st = "denied" => row.info
      PROVE  OnePending'
  <2>1. \A q \in ReqIds : reqs'[q] = reqs[q] \/ reqs'[q] = row
    BY <1>0, <1>1
  <2>2. DOMAIN reqs' = ReqIds
    BY <1>0, <1>1
  <2>3. \A q, p \in PendingRequests' : q = p
    BY <1>0, <1>1, <2>1, <2>2 DEF OnePending, PendingRequests
  <2>4. \A q \in ReqIds : reqs'[q].st = "denied" => reqs'[q].info
    BY <1>0, <1>1, <2>1 DEF OnePending
  <2> QED BY <2>3, <2>4 DEF OnePending
<1>2. ASSUME NEW k, NEW row, NEW r \in ReqIds, NEW old, ProlEffect(k, row), Grants(row, r, old)
      PROVE  OnePending'
  <2> DEFINE new == [reqs[r] EXCEPT !.st = "granted"]
  <2>1. reqs[r] \in ReqRow /\ reqs' = [reqs EXCEPT ![r] = new]
    BY <1>0, <1>2 DEF Grants, TypeOK
  <2>2. new.st = "granted"
    BY <2>1, ReqRowTypes
  <2> HIDE DEF new
  <2> QED BY <1>1, <2>1, <2>2
<1>3. ASSUME NEW r \in ReqIds, Refuses(r)
      PROVE  OnePending'
  <2> DEFINE new == [reqs[r] EXCEPT !.st = "denied", !.info = TRUE]
  <2>1. reqs[r] \in ReqRow /\ reqs' = [reqs EXCEPT ![r] = new]
    BY <1>0, <1>3 DEF Refuses, TypeOK
  <2>2. new.st = "denied" /\ new.info
    BY <2>1, ReqRowTypes
  <2> HIDE DEF new
  <2> QED BY <1>1, <2>1, <2>2
<1>4. ASSUME NEW r \in ReqIds, NEW start, NEW end, Asks(r, start, end)
      PROVE  OnePending'
  <2>1. /\ DOMAIN reqs' = ReqIds /\ \A q \in ReqIds \ {r} : reqs'[q] = reqs[q]
        /\ reqs'[r].st = "pending"
    BY <1>0, <1>4 DEF Asks
  <2>2. \A q \in ReqIds : reqs[q].st # "pending"
    BY <1>0, <1>4 DEF Asks, PendingRequests
  <2>3. \A q \in ReqIds : reqs'[q].st = "denied" => reqs'[q].info
    BY <1>0, <2>1 DEF OnePending
  <2> QED BY <2>1, <2>2, <2>3 DEF OnePending, PendingRequests
<1>5. ASSUME reqs' = reqs
      PROVE  OnePending'
  BY <1>0, <1>5 DEF OnePending, PendingRequests
<1> QED BY <1>2, <1>3, <1>4, <1>5 DEF Effect, SuspEffect, Direct, MoveEffect, Quiet,
           AdminSaveModel, terminate_approval

(* A request that was made stays.                                          *)
LEMMA RequestsStay ==
    ASSUME TypeOK, Effect, NEW q \in ReqIds, reqs[q] # None
    PROVE  reqs'[q] # None
<1>0. \A row \in ReqRow : row # None
  BY DEF ReqRow, None
<1>1. ASSUME NEW k, NEW row, NEW r \in ReqIds, NEW old, ProlEffect(k, row), Grants(row, r, old)
      PROVE  reqs'[q] # None
  <2>1. [reqs[r] EXCEPT !.st = "granted"] \in ReqRow
    <3>1. reqs[r] \in ReqRow
      BY <1>1 DEF Grants, TypeOK
    <3> QED BY <3>1, ReqRowTypes
  <2>2. reqs'[q] = reqs[q] \/ reqs'[q] = [reqs[r] EXCEPT !.st = "granted"]
    BY <1>1 DEF Grants, TypeOK
  <2> QED BY <1>0, <2>1, <2>2
<1>2. ASSUME NEW r \in ReqIds, Refuses(r)
      PROVE  reqs'[q] # None
  <2> DEFINE row == [reqs[r] EXCEPT !.st = "denied", !.info = TRUE]
  <2>0. reqs[r] \in ReqRow
    BY <1>2 DEF Refuses, TypeOK
  <2>1. row \in ReqRow /\ reqs' = [reqs EXCEPT ![r] = row]
    BY <1>2, <2>0, ReqRowTypes DEF Refuses
  <2> HIDE DEF row
  <2> QED BY <1>0, <2>1 DEF TypeOK
<1>3. ASSUME NEW r \in ReqIds, NEW start, NEW end, Asks(r, start, end)
      PROVE  reqs'[q] # None
  BY <1>3 DEF Asks, TypeOK
<1> QED BY <1>1, <1>2, <1>3 DEF Effect, SuspEffect, Direct, MoveEffect, Quiet, AdminSaveModel,
           terminate_approval

LEMMA WorkPreserved ==
    ASSUME IInv, Effect, WorkEffect, TypeOK'
    PROVE  WorkOK' /\ Alone' /\ Begun' /\ Current'
<1>0. TypeOK /\ WorkOK /\ Ordered /\ Alone /\ Begun /\ Current /\ DOMAIN work = Workers
  BY DEF IInv, TypeOK
<1>1. WorkOK'
  <2> DEFINE OK(f) ==
        /\ f.op \in {"idle"} \cup OnPass \cup OnSuspension \cup OnRequest
        /\ f.op = "idle" => f = Idle
        /\ f.op \in OnPass \cup OnSuspension => f.pass \in Dates
        /\ f.op \in OnSuspension =>
              f.id \in SuspIds /\ f.row \in SuspRow /\ f.row.start <= f.row.end
        /\ f.op \in OnRequest =>
              /\ f.id \in ReqIds /\ f.row \in ReqRow /\ reqs[f.id] # None
              /\ f.row.start < f.row.end
  <2>1. \A v \in Workers : OK(work[v])
    BY <1>0, Zenon DEF WorkOK
  <2>2. OK(Idle)
    BY DEF Idle, OnPass, OnSuspension, OnRequest
  <2>3. ASSUME NEW read, ReadOK(read) PROVE OK(read)
    <3>1. /\ read.op \in {"idle"} \cup OnPass \cup OnSuspension \cup OnRequest
          /\ read.op # "idle"
      BY <2>3 DEF ReadOK, OnPass, OnSuspension, OnRequest
    <3>2. read.op \in OnPass \cup OnSuspension => read.pass \in Dates
      BY <1>0, <2>3 DEF ReadOK, TypeOK, Dates
    <3>3. ASSUME read.op \in OnSuspension
          PROVE  read.id \in SuspIds /\ read.row \in SuspRow /\ read.row.start <= read.row.end
      <4>1. read.id \in Live(susp) /\ read.row = susp[read.id]
        BY <2>3, <3>3 DEF ReadOK, InProgress
      <4>2. read.id \in SuspIds /\ susp[read.id] \in SuspRow
        BY <1>0, <4>1 DEF Live, TypeOK, Gone
      <4> QED BY <1>0, <4>1, <4>2 DEF Ordered
    <3>4. ASSUME read.op \in OnRequest
          PROVE  /\ read.id \in ReqIds /\ read.row \in ReqRow /\ reqs[read.id] # None
                 /\ read.row.start < read.row.end
      BY <1>0, <2>3, <3>4 DEF ReadOK, TypeOK, Ordered
    <3> QED BY <3>1, <3>2, <3>3, <3>4
  <2>4. \A v \in Workers : OK(work'[v])
    <3> HIDE DEF OK
    <3> QED BY <1>0, <2>1, <2>2, <2>3 DEF WorkEffect, Start, Finishes
  <2>5. \A r \in ReqIds : reqs[r] # None => reqs'[r] # None
    BY <1>0, RequestsStay
  <2> QED BY <2>4, <2>5, Zenon DEF WorkOK
<1>2. Alone'
  <2> SUFFICES ASSUME support' # "none", NEW v \in Workers PROVE work'[v] = Idle
    BY DEF Alone
  <2>1. \A w \in Workers : work[w] = Idle
    BY <1>0 DEF Effect, SuspEffect, ProlEffect, Asks, Refuses, MoveEffect, Frame, Quiet, Alone,
       AdminSaveModel, terminate_approval, Support
  <2>2. ASSUME NEW w \in Workers, NEW read, Start(w, read) PROVE FALSE
    BY <2>2 DEF Start, Untouched
  <2> QED BY <2>1, <2>2 DEF WorkEffect, Finishes
<1>3. Begun'
  <2> SUFFICES ASSUME support' = "none", HasPeriods' \/ \E w \in Workers : work'[w] # Idle
               PROVE  pass'.start <= today'
    BY DEF Begun
  <2>0. pass.start \in Int /\ today \in Int /\ today' \in Int
    BY <1>0 DEF TypeOK
  <2>1. ASSUME NEW k \in SuspIds, NEW row, SuspEffect(k, row) PROVE pass'.start <= today'
    BY <1>0, <2>1, SuspDays DEF SuspEffect, Frame
  <2>2. ASSUME NEW k \in ProlIds, NEW row, ProlEffect(k, row) PROVE pass'.start <= today'
    BY <1>0, <2>2, ProlDays DEF ProlEffect, Frame
  <2>3. ASSUME NEW d, MoveEffect(d) PROVE FALSE
    <3>1. ~HasPeriods'
      BY <2>3 DEF MoveEffect, HasPeriods
    <3> QED BY <2>3, <3>1 DEF MoveEffect
  <2>4. CASE Quiet
    <3>1. support = "none" /\ pass' = pass /\ today <= today' /\ HasPeriods' = HasPeriods
      BY <2>4 DEF Quiet, HasPeriods
    <3>2. pass.start <= today
      <4>1. CASE HasPeriods
        BY <1>0, <3>1, <4>1 DEF Begun
      <4>2. ASSUME NEW w \in Workers, work'[w] # Idle PROVE pass.start <= today
        BY <1>0, <3>1, <4>2 DEF Begun, WorkEffect, Finishes
      <4> QED BY <3>1, <4>1, <4>2
    <3> QED BY <2>0, <3>1, <3>2
  <2>5. ASSUME NEW r \in ReqIds, NEW start, NEW end, Asks(r, start, end) PROVE pass'.start <= today'
    BY <2>5 DEF Asks, Frame
  <2>6. ASSUME NEW r \in ReqIds, Refuses(r) PROVE pass'.start <= today'
    BY <2>6 DEF Refuses, Frame
  <2>7. ASSUME NEW d, AdminSaveModel(d), HasPeriods PROVE FALSE
    BY <2>7 DEF AdminSaveModel
  <2>8. ASSUME terminate_approval PROVE FALSE
    BY <2>8 DEF terminate_approval
  <2> QED BY <2>1, <2>2, <2>3, <2>4, <2>5, <2>6, <2>7, <2>8 DEF Effect
<1>4. Current'
  <2> SUFFICES ASSUME serial', NEW v \in Workers, work'[v] # Idle
               PROVE  /\ \A u \in Workers : work'[u] # Idle => u = v
                      /\ work'[v].op \in OnPass \cup OnSuspension => work'[v].pass = pass'
                      /\ work'[v].op \in OnSuspension =>
                            /\ work'[v].id \in InProgress(susp)'
                            /\ susp'[work'[v].id] = work'[v].row
                      /\ work'[v].op = "declare" => InProgress(susp)' = {} /\ PendingRequests' = {}
                      /\ work'[v].op \in OnRequest => reqs'[work'[v].id] = work'[v].row
                      /\ work'[v].op = "grant" => work'[v].row.st # "granted"
    BY DEF Current
  <2>0. serial
    BY DEF Effect, SuspEffect, ProlEffect, Asks, Refuses, MoveEffect, Frame, Quiet,
       AdminSaveModel, terminate_approval
  <2>1. ASSUME NEW w \in Workers, Finishes(w) PROVE FALSE
    BY <1>0, <2>0, <2>1 DEF Finishes, Current
  <2>2. PICK w \in Workers : \E read : Start(w, read) /\ ReadOK(read)
    BY <2>0, <2>1 DEF WorkEffect
  <2>3. PICK read : Start(w, read) /\ ReadOK(read)
    BY <2>2
  <2>4. /\ \A u \in Workers : u # w => work'[u] = Idle
        /\ work'[w] = read /\ v = w
    BY <1>0, <2>0, <2>3 DEF Start
  <2>5. /\ UNCHANGED <<pass, susp, reqs, today>>
        /\ InProgress(susp)' = InProgress(susp) /\ PendingRequests' = PendingRequests
    BY <2>3 DEF Start, InProgress, PendingRequests
  <2> QED BY <2>3, <2>4, <2>5 DEF ReadOK
<1> QED BY <1>1, <1>2, <1>3, <1>4

(* The invariant of the dates of a PASS holds for any number of requests,  *)
(* rows and days.                                                          *)
THEOREM Inductive == Spec => []IInv
<1>1. Init => IInv
  <2> SUFFICES ASSUME Init PROVE IInv
    OBVIOUS
  <2>1. TypeOK
    BY DurationsAssumption DEF Init, TypeOK, get_default_end_date, None, Gone
  <2>2. /\ \A k \in SuspIds : susp[k].st # "live"
        /\ \A k \in ProlIds : prol[k].st # "live"
        /\ \A r \in ReqIds : reqs[r] = None /\ reqs[r].st = "none"
        /\ \A w \in Workers : work[w] = Idle /\ work[w].op = "idle"
    BY DEF Init, None, Idle
  <2>3. ~HasPeriods
    BY <2>1, <2>2 DEF HasPeriods, Live, TypeOK
  <2>4. WorkOK /\ Ordered /\ Alone /\ Begun /\ Current
    <3>1. WorkOK
      BY <2>2 DEF WorkOK, OnPass, OnSuspension, OnRequest
    <3>2. Ordered
      BY <2>1, <2>2 DEF Ordered, Live, TypeOK
    <3>3. Alone /\ Begun /\ Current
      BY <2>2, <2>3 DEF Alone, Begun, Current
    <3> QED BY <3>1, <3>2, <3>3
  <2>5. OnePending /\ GrantedIsProlonged
    BY <2>1, <2>2 DEF OnePending, PendingRequests, GrantedIsProlonged, TypeOK
  <2>6. EndAddsUp
    <3>1. pass.end = get_default_end_date(pass.start) /\ get_default_end_date(pass.start) \in Int
      BY <2>1, DurationsAssumption DEF Init, TypeOK, get_default_end_date
    <3> QED BY <2>1, <2>3, <3>1, NoPeriods DEF EndAddsUp
  <2> QED BY <2>1, <2>4, <2>5, <2>6 DEF IInv
<1>2. IInv /\ [Next]_vars => IInv'
  <2>1. ASSUME IInv, Next PROVE IInv'
    <3>1. Effect /\ WorkEffect
      BY <2>1, Effects, WorkEffects
    <3>2. TypeOK'
      BY <2>1, <3>1, TypePreserved
    <3>3. today <= today'
      <4>1. today \in Int
        BY <2>1 DEF IInv, TypeOK
      <4>2. today' = today \/ Quiet
        BY <3>1 DEF Effect, SuspEffect, ProlEffect, Asks, Refuses, MoveEffect, Frame,
           AdminSaveModel, terminate_approval
      <4> QED BY <4>1, <4>2 DEF Quiet
    <3>4. Ordered' /\ EndAddsUp' /\ GrantedIsProlonged' /\ OnePending'
      BY <2>1, <3>1, <3>2, <3>3, OrderedPreserved, EndPreserved, GrantedPreserved, PendingPreserved
    <3>5. WorkOK' /\ Alone' /\ Begun' /\ Current'
      BY <2>1, <3>1, <3>2, WorkPreserved
    <3> QED BY <3>2, <3>4, <3>5 DEF IInv
  <2>2. ASSUME IInv, UNCHANGED vars PROVE IInv'
    <3> USE <2>2 DEF vars
    <3>1. TypeOK' /\ Ordered' /\ Alone' /\ OnePending' /\ GrantedIsProlonged'
      BY DEF IInv, TypeOK, Ordered, Alone, OnePending, GrantedIsProlonged, Live, PendingRequests
    <3>2. WorkOK' /\ Begun' /\ Current'
      BY DEF IInv, WorkOK, Begun, Current, HasPeriods, InProgress, PendingRequests, Live
    <3>3. EndAddsUp'
      BY DEF IInv, EndAddsUp
    <3> QED BY <3>1, <3>2, <3>3 DEF IInv
  <2> QED BY <2>1, <2>2
<1> QED BY <1>1, <1>2, PTL DEF Spec

(* The end of the PASS is its own days plus those of its periods, whatever *)
(* stale instances are saved in whatever order (the two triggers           *)
(* update_approval_end_at).                                                *)
THEOREM TriggersAddUp == Spec => []EndAddsUp
<1>1. IInv => EndAddsUp
  BY DEF IInv
<1> QED BY <1>1, Inductive, PTL

(* A granted request has its prolongation, although grants and refusals of *)
(* the same request overlap (ProlongationRequest.grant and deny).          *)
THEOREM GrantsProlong == Spec => []GrantedIsProlonged
<1>1. IInv => GrantedIsProlonged
  BY DEF IInv
<1> QED BY <1>1, Inductive, PTL

(***************************************************************************)
(* The triggers implement PassCredit.                                      *)
(***************************************************************************)
Worth(row) == IF row.st = "live" THEN Length(row) ELSE 0

LEMMA GivenIs ==
    /\ Given = [p \in Periods |-> Given[p]]
    /\ \A k \in SuspIds : <<"s", k>> \in Periods /\ Given[<<"s", k>>] = Worth(susp[k])
    /\ \A k \in ProlIds : <<"p", k>> \in Periods /\ Given[<<"p", k>>] = Worth(prol[k])
    /\ \A p \in Periods : \/ \E k \in SuspIds : p = <<"s", k>>
                          \/ \E k \in ProlIds : p = <<"p", k>>
<1>1. Given = [p \in Periods |-> Given[p]]
  BY DEF Given
<1>2. ASSUME NEW k \in SuspIds
      PROVE  <<"s", k>> \in Periods /\ Given[<<"s", k>>] = Worth(susp[k])
  BY DEF Given, Periods, Worth
<1>3. ASSUME NEW k \in ProlIds
      PROVE  <<"p", k>> \in Periods /\ Given[<<"p", k>>] = Worth(prol[k])
  BY DEF Given, Periods, Worth
<1>4. \A p \in Periods : \/ \E k \in SuspIds : p = <<"s", k>>
                         \/ \E k \in ProlIds : p = <<"p", k>>
  BY DEF Periods
<1> QED BY <1>1, <1>2, <1>3, <1>4

AllWorth ==
    /\ \A k \in SuspIds : Worth(susp[k]) \in Nat
    /\ \A k \in ProlIds : Worth(prol[k]) \in Nat
LEMMA WorthNat ==
    ASSUME TypeOK, Ordered
    PROVE  AllWorth
<1>1. ASSUME NEW k \in SuspIds PROVE Worth(susp[k]) \in Nat
  <2>1. CASE susp[k].st = "live"
    <3>1. susp[k] \in SuspRow /\ susp[k].start <= susp[k].end
      BY <2>1 DEF TypeOK, Gone, Ordered, Live
    <3> QED BY <2>1, <3>1 DEF Worth, Length, SuspRow
  <2>2. CASE susp[k].st # "live"
    BY <2>2 DEF Worth
  <2> QED BY <2>1, <2>2
<1>2. ASSUME NEW k \in ProlIds PROVE Worth(prol[k]) \in Nat
  <2>1. CASE prol[k].st = "live"
    <3>1. prol[k] \in ProlRow /\ prol[k].start < prol[k].end
      BY <2>1 DEF TypeOK, Gone, Ordered, Live
    <3> QED BY <2>1, <3>1 DEF Worth, Length, ProlRow
  <2>2. CASE prol[k].st # "live"
    BY <2>2 DEF Worth
  <2> QED BY <2>1, <2>2
<1> QED BY <1>1, <1>2 DEF AllWorth

(* The triggers update_approval_end_at and the requests that move a PASS   *)
(* implement PassCredit: no step gives a day that no period accounts for.  *)
THEOREM ImplementsPassCredit == Spec => EveryDayIsGiven
<1>1. Init => Credit!CreditInit
  <2> SUFFICES ASSUME Init PROVE Credit!CreditInit
    OBVIOUS
  <2>1. hire \in Int /\ pass.start = hire /\ pass.end = hire + PassDays - 1 /\ PassDays \in Int
    BY DurationsAssumption DEF Init, get_default_end_date
  <2>2. Given = [p \in Periods |-> 0]
    BY DEF Init, Given, Periods, None
  <2>3. (support # "none") = FALSE
    BY DEF Init
  <2>4. pass.end - pass.start + 1 = PassDays
    BY <2>1
  <2> QED BY <2>1, <2>2, <2>3, <2>4 DEF Credit!CreditInit
<1>2. (TypeOK /\ Ordered => AllWorth)'
  <2>1. TypeOK /\ Ordered => AllWorth
    BY WorthNat
  <2> QED BY <2>1, PTL
<1>3. IInv /\ IInv' /\ [Next]_vars => [Credit!CreditNext]_Credit!creditVars
  <2> SUFFICES ASSUME IInv, IInv', Next
               PROVE  Credit!CreditNext \/ UNCHANGED Credit!creditVars
    <3>1. UNCHANGED vars => UNCHANGED Credit!creditVars
      BY DEF vars, Credit!creditVars, Given
    <3> QED BY <3>1
  <2>0. /\ TypeOK /\ Ordered /\ TypeOK' /\ Ordered' /\ EndAddsUp /\ Effect
        /\ pass.start \in Int /\ pass.end \in Int /\ pass'.start \in Int /\ pass'.end \in Int
    BY Effects DEF IInv, TypeOK
  <2>9. AllWorth /\ AllWorth'
    BY <1>2, <2>0, WorthNat
  <2>1. ASSUME NEW p \in Periods, Given'[p] \in Nat, Given[p] \in Nat,
               \A q \in Periods \ {p} : Given'[q] = Given[q],
               pass'.start = pass.start, pass'.end = pass.end + Given'[p] - Given[p],
               support' = support
        PROVE  Credit!CreditNext \/ UNCHANGED Credit!creditVars
    <3>1. Given' = [Given EXCEPT ![p] = Given'[p]]
      <4>1. Given' = [q \in Periods |-> Given'[q]] /\ Given = [q \in Periods |-> Given[q]]
        BY DEF Given
      <4> QED BY <2>1, <4>1
    <3>2. pass'.end - pass'.start + 1 = (pass.end - pass.start + 1) + Given'[p] - Given[p]
      BY <2>0, <2>1
    <3>3. CASE Given'[p] = Given[p]
      <4>1. Given' = Given
        <5>1. Given' = [q \in Periods |-> Given'[q]] /\ Given = [q \in Periods |-> Given[q]]
          BY DEF Given
        <5> QED BY <2>1, <3>3, <5>1
      <4>2. pass'.end - pass'.start + 1 = pass.end - pass.start + 1
        BY <2>0, <2>1, <3>3
      <4> QED BY <2>1, <4>1, <4>2 DEF Credit!creditVars
    <3>4. CASE Given'[p] # Given[p]
      <4>1. Credit!Adjust(p)
        BY <2>1, <3>1, <3>2, <3>4 DEF Credit!Adjust
      <4> QED BY <4>1 DEF Credit!CreditNext
    <3> QED BY <3>3, <3>4
  <2>2. ASSUME NEW k \in SuspIds, NEW row, SuspEffect(k, row)
        PROVE  Credit!CreditNext \/ UNCHANGED Credit!creditVars
    <3> DEFINE p == <<"s", k>>
    <3>1. p \in Periods /\ Given[p] = Worth(susp[k])
      BY GivenIs
    <3>2. Given'[p] = Worth(susp'[k])
      BY DEF Given, Periods, Worth
    <3>3. \A q \in Periods \ {p} : Given'[q] = Given[q]
      BY <2>0, <2>2 DEF Given, Periods, SuspEffect, TypeOK
    <3>4. Given[p] \in Nat /\ Given'[p] \in Nat
      BY <2>9, <3>1, <3>2 DEF AllWorth
    <3>5. susp'[k] = row
      BY <2>0, <2>2 DEF SuspEffect, TypeOK
    <3>6. update_approval_end_at(susp[k], row) = Worth(row) - Worth(susp[k])
      BY DEF update_approval_end_at, Worth
    <3>7. pass'.end = pass.end + (Given'[p] - Given[p]) /\ pass'.start = pass.start
      BY <2>0, <2>2, <3>1, <3>2, <3>5, <3>6, SuspDays
    <3>8. pass'.end = pass.end + Given'[p] - Given[p]
      BY <2>0, <3>4, <3>7
    <3> QED BY <2>1, <2>2, <3>1, <3>3, <3>4, <3>7, <3>8 DEF SuspEffect, Frame
  <2>3. ASSUME NEW k \in ProlIds, NEW row, ProlEffect(k, row)
        PROVE  Credit!CreditNext \/ UNCHANGED Credit!creditVars
    <3> DEFINE p == <<"p", k>>
    <3>1. p \in Periods /\ Given[p] = Worth(prol[k])
      BY GivenIs
    <3>2. Given'[p] = Worth(prol'[k])
      BY DEF Given, Periods, Worth
    <3>3. \A q \in Periods \ {p} : Given'[q] = Given[q]
      BY <2>0, <2>3 DEF Given, Periods, ProlEffect, TypeOK
    <3>4. Given[p] \in Nat /\ Given'[p] \in Nat
      BY <2>9, <3>1, <3>2 DEF AllWorth
    <3>5. prol'[k] = row
      BY <2>0, <2>3 DEF ProlEffect, TypeOK
    <3>6. Length(row) = Worth(row) /\ Worth(prol[k]) = 0
      BY <2>3 DEF ProlEffect, ProlRow, Worth, None
    <3>7. pass'.end = pass.end + Given'[p] /\ pass'.start = pass.start
      BY <2>0, <2>3, <3>2, <3>5, <3>6, ProlDays
    <3>8. pass'.end = pass.end + Given'[p] - Given[p]
      BY <2>0, <3>1, <3>4, <3>6, <3>7
    <3> QED BY <2>1, <2>3, <3>1, <3>3, <3>4, <3>7, <3>8 DEF ProlEffect, Frame
  <2>4. ASSUME NEW d, MoveEffect(d)
        PROVE  Credit!CreditNext \/ UNCHANGED Credit!creditVars
    <3>1. pass'.start = d /\ pass'.end = d + PassDays - 1 /\ PassDays \in Int
      BY <2>4, DurationsAssumption DEF MoveEffect, get_default_end_date
    <3>2. pass.end = pass.start + PassDays - 1
      BY <2>0, <2>4, <3>1, NoPeriods DEF MoveEffect, Frame, EndAddsUp, get_default_end_date
    <3>3. pass'.end - pass'.start + 1 = pass.end - pass.start + 1
      BY <2>0, <3>1, <3>2
    <3>4. Given' = Given /\ support' = support
      BY <2>4 DEF MoveEffect, Given, Frame
    <3>5. CASE pass'.start # pass.start
      <4>1. Credit!Move
        BY <3>3, <3>4, <3>5 DEF Credit!Move
      <4> QED BY <4>1 DEF Credit!CreditNext
    <3>6. CASE pass'.start = pass.start
      BY <3>3, <3>4, <3>6 DEF Credit!creditVars
    <3> QED BY <3>5, <3>6
  <2>5. ASSUME support' # "none"
        PROVE  Credit!CreditNext
    <3>1. (support' # "none") = TRUE
      BY <2>5
    <3>2. Credit!Close
      BY <3>1 DEF Credit!Close
    <3> QED BY <3>2 DEF Credit!CreditNext
  <2>6. ASSUME UNCHANGED <<pass, susp, prol, support>>
        PROVE  UNCHANGED Credit!creditVars
    BY <2>6 DEF Credit!creditVars, Given
  <2>7. ASSUME NEW d, AdminSaveModel(d), HasPeriods PROVE support' # "none"
    BY <2>7 DEF AdminSaveModel
  <2>8. ASSUME terminate_approval PROVE support' # "none"
    BY <2>8 DEF terminate_approval
  <2> QED BY <2>0, <2>2, <2>3, <2>4, <2>5, <2>6, <2>7, <2>8 DEF Effect, Asks, Refuses, Frame, Quiet
<1> QED BY <1>1, <1>3, Inductive, PTL DEF Spec, EveryDayIsGiven, Credit!CreditSpec

(***************************************************************************)
(* Requests that do not overlap.                                           *)
(***************************************************************************)
(* No period has a negative length, and the sets that are summed are       *)
(* finite.                                                                 *)
LEMMA Lengths ==
    ASSUME TypeOK, Ordered
    PROVE  /\ \A L \in SUBSET Live(susp) : Measured(susp, L) /\ 0 <= DaysOf(susp, L)
           /\ \A L \in SUBSET Live(prol) : Measured(prol, L) /\ 0 <= DaysOf(prol, L)
           /\ \A k \in Live(susp) : Length(susp[k]) \in Nat
           /\ \A k \in Live(prol) : Length(prol[k]) \in Nat
           /\ Days(susp) = DaysOf(susp, Live(susp)) /\ Days(prol) = DaysOf(prol, Live(prol))
<1>1. \A k \in Live(susp) : Length(susp[k]) \in Nat
  BY DEF Ordered, TypeOK, Live, SuspRow, Gone, Length
<1>2. \A k \in Live(prol) : Length(prol[k]) \in Nat
  BY DEF Ordered, TypeOK, Live, ProlRow, Gone, Length
<1>3. ASSUME NEW L \in SUBSET Live(susp) PROVE Measured(susp, L) /\ 0 <= DaysOf(susp, L)
  <2>1. Measured(susp, L)
    BY RowsOK, LiveMeasured
  <2>2. \A k \in L : Length(susp[k]) >= 0
    BY <1>1
  <2>3. DaysOf(susp, {}) <= DaysOf(susp, L)
    BY <2>1, <2>2, DaysGrow
  <2> QED BY <2>1, <2>3, DaysEmpty
<1>4. ASSUME NEW L \in SUBSET Live(prol) PROVE Measured(prol, L) /\ 0 <= DaysOf(prol, L)
  <2>1. Measured(prol, L)
    BY RowsOK, LiveMeasured
  <2>2. \A k \in L : Length(prol[k]) >= 0
    BY <1>2
  <2>3. DaysOf(prol, {}) <= DaysOf(prol, L)
    BY <2>1, <2>2, DaysGrow
  <2> QED BY <2>1, <2>3, DaysEmpty
<1>5. Days(susp) = DaysOf(susp, Live(susp)) /\ Days(prol) = DaysOf(prol, Live(prol))
  BY RowsOK, LiveMeasured
<1> QED BY <1>1, <1>2, <1>3, <1>4, <1>5

LEMMA OpenDaysNat ==
    ASSUME TypeOK, Ordered
    PROVE  OpenDays \in Int /\ 0 <= OpenDays
<1>1. OpenSuspensions \in SUBSET Live(susp)
  BY DEF OpenSuspensions
<1> QED BY <1>1, Lengths, DaysType DEF OpenDays

(* Nothing is left to give back when no suspension is in progress.         *)
LEMMA NothingOpen ==
    ASSUME TypeOK, Ordered, InProgress(susp) = {}
    PROVE  OpenDays = 0
<1>1. OpenSuspensions = {}
  BY DEF OpenSuspensions, InProgress, Ordered
<1> QED BY <1>1, DaysEmpty DEF OpenDays

(* No step takes the end of the PASS back further than the days of the     *)
(* suspensions in progress.                                                *)
LEMMA OpenChange ==
    ASSUME IInv, IInv', Effect, OpenDays' \in Int, serial, support' = "none",
           \A d : ~MoveEffect(d)
    PROVE  /\ pass'.start = pass.start
           /\ OpenDays' - OpenDays <= pass'.end - pass.end
<1>0. /\ TypeOK /\ Ordered /\ TypeOK' /\ Ordered'
      /\ pass.end \in Int /\ today \in Int /\ today' \in Int /\ OpenDays \in Int
  BY OpenDaysNat DEF IInv, TypeOK
<1> DEFINE O == OpenSuspensions
<1>1. O \in SUBSET Live(susp)
  BY DEF OpenSuspensions
<1>2. ASSUME NEW k \in SuspIds, NEW row, SuspEffect(k, row)
      PROVE  OpenDays' - OpenDays <= pass'.end - pass.end
  <2>0. /\ susp' = [susp EXCEPT ![k] = row] /\ today' = today /\ susp'[k] = row
        /\ DOMAIN susp = SuspIds /\ DOMAIN susp' = SuspIds
    BY <1>0, <1>2 DEF SuspEffect, Frame, TypeOK
  <2> DEFINE rest == O \ {k}
  <2>1. rest = O' \ {k} /\ \A j \in rest : susp'[j] = susp[j]
    BY <2>0 DEF OpenSuspensions, Live
  <2>2. Measured(susp, O) /\ Measured(susp, rest) /\ DaysOf(susp, rest) \in Int
    BY <1>0, <1>1, Lengths, DaysType
  <2>3. OpenDays = DaysOf(susp, rest) + Worth(susp[k]) /\ Worth(susp[k]) \in Int
    <3>1. CASE susp[k].st = "live"
      <4>1. k \in O
        BY <1>0, <1>2, <3>1 DEF SuspEffect, InProgress, OpenSuspensions
      <4>2. DaysOf(susp, O) = Length(susp[k]) + DaysOf(susp, rest)
        BY <2>2, <4>1, DaysAdd
      <4>3. Length(susp[k]) \in Int
        BY <1>1, <2>2, <4>1 DEF Measured
      <4> HIDE DEF rest, O
      <4> QED BY <2>2, <3>1, <4>2, <4>3 DEF Worth, OpenDays, O
    <3>2. CASE susp[k].st # "live"
      <4>1. rest = O
        BY <3>2 DEF OpenSuspensions, Live
      <4> HIDE DEF rest, O
      <4> QED BY <2>2, <3>2, <4>1 DEF Worth, OpenDays, O
    <3> QED BY <3>1, <3>2
  <2>4. DaysOf(susp', rest) = DaysOf(susp, rest)
    <3> HIDE DEF rest
    <3> QED BY <2>1, <2>2, DaysSame
  <2>5. Worth(row) \in Int /\ 0 <= Worth(row)
    <3>1. CASE row.st = "live"
      BY <1>2, <3>1 DEF SuspEffect, Worth, Length, SuspRow, Gone
    <3>2. CASE row.st # "live"
      BY <3>2 DEF Worth
    <3> QED BY <3>1, <3>2
  <2>6. OpenDays' <= DaysOf(susp, rest) + Worth(row)
    <3>1. OpenDays' = DaysOf(susp', O')
      BY DEF OpenDays
    <3>2. CASE k \in O'
      <4>1. row.st = "live"
        BY <2>0, <3>2 DEF OpenSuspensions, Live
      <4>2. IsFiniteSet(O') /\ \A j \in O' : Length(susp'[j]) \in Int
        <5>1. IsFiniteSet(SuspIds) /\ O' \in SUBSET SuspIds
          BY <2>0, FS_Interval, DurationsAssumption DEF OpenSuspensions, Live, SuspIds
        <5>2. IsFiniteSet(O')
          BY <5>1, FS_Subset
        <5>3. ASSUME NEW j \in O' PROVE Length(susp'[j]) \in Int
          <6>1. j \in SuspIds /\ susp'[j].st = "live"
            BY <2>0 DEF OpenSuspensions, Live
          <6> QED BY <1>0, <6>1 DEF TypeOK, SuspRow, Gone, Length
        <5> QED BY <5>2, <5>3
      <4>3. Measured(susp', O')
        BY <4>2 DEF Measured
      <4>4. DaysOf(susp', O') = Length(susp'[k]) + DaysOf(susp', O' \ {k})
        BY <3>2, <4>3, DaysAdd
      <4>5. O' \ {k} = rest
        BY <2>1
      <4>6. OpenDays' = Length(row) + DaysOf(susp, rest) /\ Length(row) = Worth(row)
        BY <2>0, <2>4, <3>1, <4>1, <4>4, <4>5 DEF Worth
      <4> HIDE DEF rest
      <4> QED BY <2>2, <2>5, <4>6
    <3>3. CASE k \notin O'
      <4>1. O' = rest
        BY <2>1, <3>3
      <4>2. OpenDays' = DaysOf(susp, rest)
        BY <2>4, <3>1, <4>1
      <4> HIDE DEF rest
      <4> QED BY <2>2, <2>5, <4>2
    <3> QED BY <3>2, <3>3
  <2>7. pass'.end = pass.end + (Worth(row) - Worth(susp[k]))
    BY <1>0, <1>2, SuspDays DEF update_approval_end_at, Worth
  <2> HIDE DEF rest, O
  <2> QED BY <1>0, <2>2, <2>3, <2>5, <2>6, <2>7
<1>3. ASSUME NEW k \in ProlIds, NEW row, ProlEffect(k, row)
      PROVE  OpenDays' - OpenDays <= pass'.end - pass.end
  <2>1. OpenDays' = OpenDays
    BY <1>3 DEF ProlEffect, Frame, OpenDays, OpenSuspensions
  <2>2. pass'.end = pass.end + Length(row) /\ Length(row) \in Int
    BY <1>0, <1>3, ProlDays
  <2>3. 0 <= Length(row)
    BY <1>3 DEF ProlEffect, Length, ProlRow
  <2> QED BY <1>0, <2>1, <2>2, <2>3
<1>4. ASSUME UNCHANGED <<susp, pass>>, today <= today'
      PROVE  OpenDays' - OpenDays <= pass'.end - pass.end
  <2>1. O' \in SUBSET O
    BY <1>0, <1>4 DEF OpenSuspensions, Live, TypeOK, SuspRow, Gone
  <2>2. Measured(susp, O) /\ \A k \in O : Length(susp[k]) >= 0
    BY <1>0, <1>1, Lengths
  <2>3. DaysOf(susp, O') <= DaysOf(susp, O)
    <3> HIDE DEF O
    <3> QED BY <2>1, <2>2, DaysGrow
  <2>4. OpenDays' = DaysOf(susp, O') /\ OpenDays = DaysOf(susp, O)
    BY <1>4 DEF OpenDays
  <2> HIDE DEF O
  <2> QED BY <1>0, <1>4, <2>3, <2>4
<1>5. ASSUME NEW d, AdminSaveModel(d), HasPeriods PROVE FALSE
  BY <1>5 DEF AdminSaveModel
<1>6. ASSUME terminate_approval PROVE FALSE
  BY <1>6 DEF terminate_approval
<1>7. pass'.start = pass.start
  BY <1>0, <1>5, <1>6, SuspDays, ProlDays DEF Effect, Asks, Refuses, Quiet
<1>8. OpenDays' - OpenDays <= pass'.end - pass.end
  <2>1. ASSUME \/ \E r \in ReqIds : \E start, end : Asks(r, start, end)
               \/ \E r \in ReqIds : Refuses(r)
        PROVE  UNCHANGED <<susp, pass, today>>
    BY <2>1 DEF Asks, Refuses, Frame
  <2>2. ASSUME Quiet PROVE UNCHANGED <<susp, pass>> /\ today <= today'
    BY <2>2 DEF Quiet
  <2>3. ASSUME UNCHANGED <<susp, pass, today>> PROVE UNCHANGED <<susp, pass>> /\ today <= today'
    BY <1>0, <2>3
  <2> QED BY <1>2, <1>3, <1>4, <1>5, <1>6, <2>1, <2>2, <2>3 DEF Effect
<1> QED BY <1>7, <1>8

LEMMA SlackPreserved ==
    ASSUME IInv, IInv', Effect, OpenDays' \in Int, Slack
    PROVE  Slack'
<1>0. /\ TypeOK /\ Ordered /\ TypeOK' /\ OpenDays \in Int /\ 0 <= OpenDays
      /\ pass.start \in Int /\ pass.end \in Int /\ pass'.end \in Int
  BY OpenDaysNat DEF IInv, TypeOK
<1> SUFFICES ASSUME serial', support' = "none"
             PROVE  /\ \A k \in Live(prol') :
                          /\ pass'.start <= prol'[k].start
                          /\ prol'[k].end + OpenDays' <= pass'.end
                    /\ \A r \in ReqIds : reqs'[r] # None =>
                          /\ pass'.start <= reqs'[r].start
                          /\ reqs'[r].start + OpenDays' <= pass'.end
  BY DEF Slack, Live
<1>1. serial /\ support = "none"
  BY DEF Effect, SuspEffect, ProlEffect, Asks, Refuses, MoveEffect, Frame, Quiet,
     AdminSaveModel, terminate_approval, Support, Untouched
<1>2. CASE \E d : MoveEffect(d)
  BY <1>2 DEF MoveEffect, HasPeriods
<1>3. CASE \A d : ~MoveEffect(d)
  <2>1. pass'.start = pass.start /\ OpenDays' - OpenDays <= pass'.end - pass.end
    BY <1>1, <1>3, OpenChange
  (* A day at which the slack was kept keeps it.                           *)
  <2>2. ASSUME NEW i \in Int, pass.start <= i, i + OpenDays <= pass.end
        PROVE  pass'.start <= i /\ i + OpenDays' <= pass'.end
    BY <1>0, <2>1, <2>2
  <2>3. pass.start <= pass.end
    <3>1. pass.end = pass.start + PassDays - 1 + Days(susp) + Days(prol)
      BY <1>1 DEF IInv, EndAddsUp, get_default_end_date
    <3>2. 0 <= Days(susp) /\ 0 <= Days(prol) /\ Days(susp) \in Int /\ Days(prol) \in Int
      BY <1>0, Lengths, DaysInt
    <3>3. PassDays \in Int /\ 1 <= PassDays
      BY DurationsAssumption
    <3> QED BY <1>0, <3>1, <3>2, <3>3
  <2>4. ASSUME NEW k \in Live(prol')
        PROVE  pass'.start <= prol'[k].start /\ prol'[k].end + OpenDays' <= pass'.end
    <3>0. k \in ProlIds /\ prol'[k] \in ProlRow /\ prol'[k].start \in Int /\ prol'[k].end \in Int
      BY <1>0 DEF Live, TypeOK, Gone, ProlRow
    <3>1. CASE k \in Live(prol) /\ prol'[k] = prol[k]
      <4>1. pass.start <= prol[k].start /\ prol[k].end + OpenDays <= pass.end
        BY <1>1, <3>1 DEF Slack
      <4> QED BY <1>0, <2>1, <3>0, <3>1, <4>1
    <3>2. CASE ~(k \in Live(prol) /\ prol'[k] = prol[k])
      <4>1. prol' # prol
        BY <3>2
      <4>2. PICK j \in ProlIds : \E row : ProlEffect(j, row) /\ (Direct(row) \/ \E r \in ReqIds : \E old : Grants(row, r, old))
        BY <1>3, <4>1 DEF Effect, SuspEffect, Asks, Refuses, Quiet, AdminSaveModel,
           terminate_approval
      <4>3. PICK row : ProlEffect(j, row) /\ (Direct(row) \/ \E r \in ReqIds : \E old : Grants(row, r, old))
        BY <4>2
      <4>4. k = j /\ prol'[k] = row
        BY <1>0, <3>0, <3>2, <4>3 DEF ProlEffect, TypeOK, Live
      <4>5. /\ pass'.end = pass.end + Length(row) /\ Length(row) = row.end - row.start
            /\ row.start \in Int /\ row.end \in Int /\ OpenDays' = OpenDays
        BY <1>0, <3>0, <4>3, <4>4, ProlDays DEF Length, ProlEffect, Frame, OpenDays, OpenSuspensions
      <4>6. pass.start <= row.start /\ row.start + OpenDays <= pass.end
        <5>1. CASE Direct(row)
          <6>1. row.start = pass.end /\ OpenDays = 0
            BY <1>0, <1>1, <5>1, NothingOpen DEF Direct
          <6> QED BY <1>0, <2>3, <6>1
        <5>2. ASSUME NEW r \in ReqIds, NEW old, Grants(row, r, old)
              PROVE  pass.start <= row.start /\ row.start + OpenDays <= pass.end
          BY <1>1, <5>2 DEF Grants, Slack
        <5> QED BY <4>3, <5>1, <5>2
      <4> QED BY <1>0, <2>1, <4>4, <4>5, <4>6
    <3> QED BY <3>1, <3>2
  <2>5. ASSUME NEW q \in ReqIds, reqs'[q] # None
        PROVE  pass'.start <= reqs'[q].start /\ reqs'[q].start + OpenDays' <= pass'.end
    <3>0. reqs'[q].start \in Int
      BY <1>0, <2>5 DEF TypeOK, ReqRow
    <3>1. CASE reqs[q] # None /\ reqs'[q].start = reqs[q].start
      <4>1. pass.start <= reqs[q].start /\ reqs[q].start + OpenDays <= pass.end
        BY <1>1, <3>1 DEF Slack
      <4> QED BY <2>2, <3>0, <3>1, <4>1
    <3>2. ASSUME NEW r \in ReqIds, NEW start, NEW end, Asks(r, start, end), q = r
          PROVE  pass'.start <= reqs'[q].start /\ reqs'[q].start + OpenDays' <= pass'.end
      <4>1. reqs'[q].start = start /\ start = pass.end /\ OpenDays = 0
        BY <1>0, <1>1, <3>2, NothingOpen DEF Asks, TypeOK
      <4> QED BY <1>0, <2>2, <2>3, <4>1
    <3>3. ASSUME reqs'[q] = reqs[q]
          PROVE  reqs[q] # None /\ reqs'[q].start = reqs[q].start
      BY <2>5, <3>3
    <3>4. ASSUME NEW r \in ReqIds, Refuses(r), q = r
          PROVE  reqs[q] # None /\ reqs'[q].start = reqs[q].start
      <4>1. reqs[q] # None /\ reqs[q] \in ReqRow
        BY <1>0, <3>4 DEF Refuses, TypeOK
      <4>2. reqs'[q] = [reqs[q] EXCEPT !.st = "denied", !.info = TRUE]
        BY <1>0, <3>4 DEF Refuses, TypeOK
      <4>3. [reqs[q] EXCEPT !.st = "denied", !.info = TRUE].start = reqs[q].start
        BY <4>1, ReqRowTypes
      <4> QED BY <4>1, <4>2, <4>3
    <3>5. ASSUME NEW row, NEW r \in ReqIds, NEW old, Grants(row, r, old), q = r
          PROVE  reqs[q] # None /\ reqs'[q].start = reqs[q].start
      <4>1. reqs[q] # None /\ reqs[q] \in ReqRow
        BY <1>0, <3>5 DEF Grants, TypeOK
      <4>2. reqs'[q] = [reqs[q] EXCEPT !.st = "granted"]
        BY <1>0, <3>5 DEF Grants, TypeOK
      <4> QED BY <4>1, <4>2, ReqRowTypes
    <3>6. \/ reqs'[q] = reqs[q]
          \/ \E r \in ReqIds : \E start, end : Asks(r, start, end) /\ q = r
          \/ \E r \in ReqIds : Refuses(r) /\ q = r
          \/ \E row : \E r \in ReqIds : \E old : Grants(row, r, old) /\ q = r
      BY <1>0, <1>3 DEF Effect, SuspEffect, Direct, Quiet, AdminSaveModel, terminate_approval,
         Asks, Refuses, Grants, TypeOK
    <3> QED BY <3>1, <3>2, <3>3, <3>4, <3>5, <3>6
  <2> QED BY <2>4, <2>5
<1> QED BY <1>2, <1>3

LEMMA WithinPreserved ==
    ASSUME IInv, IInv', Effect, OpenDays' \in Int, 0 <= OpenDays', Slack, Slack',
           ProlongationsWithinPass
    PROVE  ProlongationsWithinPass'
<1>0. /\ TypeOK /\ TypeOK' /\ pass.start \in Int /\ pass.end \in Int /\ pass'.end \in Int
      /\ today \in Int /\ DOMAIN prol = ProlIds
  BY DEF IInv, TypeOK
<1> SUFFICES ASSUME serial', support' # "moved", NEW k \in Live(prol')
             PROVE  pass'.start <= prol'[k].start /\ prol'[k].end <= pass'.end
  BY DEF ProlongationsWithinPass, Live
<1>1. CASE support' = "none"
  <2>1. pass'.start <= prol'[k].start /\ prol'[k].end + OpenDays' <= pass'.end
    BY <1>1 DEF Slack, Live
  <2>2. prol'[k].end \in Int
    BY <1>0 DEF Live, TypeOK, Gone, ProlRow
  <2> QED BY <1>0, <2>1, <2>2
<1>2. CASE terminate_approval
  <2>1. /\ serial /\ support = "none" /\ pass'.start = pass.start /\ pass'.end = today
        /\ prol' = _clip_approval_dependency(prol)
    BY <1>0, <1>2 DEF terminate_approval, Support, Untouched, TypeOK
  <2>2. k \in ProlIds /\ prol'[k] = ClipRow(prol, k) /\ prol'[k].st = "live"
    BY <1>0, <2>1 DEF _clip_approval_dependency, Live
  <2>3. prol[k].st = "live" /\ prol[k] \in ProlRow /\ k \in Live(prol)
    BY <1>0, <2>2 DEF ClipRow, Live, TypeOK, Gone
  <2>4. prol'[k].start = prol[k].start /\ prol'[k].end <= today
    BY <1>0, <2>2, <2>3 DEF ClipRow, ProlRow
  <2>5. pass.start <= prol[k].start
    BY <2>1, <2>3 DEF Slack
  <2> QED BY <2>1, <2>4, <2>5
<1>3. CASE Quiet
  BY <1>3 DEF Quiet, ProlongationsWithinPass
<1> QED BY <1>1, <1>2, <1>3 DEF Effect, SuspEffect, ProlEffect, Asks, Refuses, MoveEffect,
           Frame, AdminSaveModel

(* A request that was refused and then granted stays so.                   *)
LEMMA SecondThoughtStays ==
    ASSUME IInv, Effect, serial, NoSecondThought'
    PROVE  NoSecondThought
<1>0. TypeOK /\ OnePending
  BY DEF IInv
<1> SUFFICES ASSUME NEW q \in ReqIds, reqs[q].st = "granted", reqs[q].info
             PROVE  FALSE
  BY DEF NoSecondThought
<1>1. reqs[q] \in ReqRow
  BY <1>0 DEF TypeOK, None
<1>2. ~(reqs'[q].st = "granted" /\ reqs'[q].info)
  BY DEF NoSecondThought
<1>3. reqs'[q] # reqs[q]
  BY <1>2
<1>4. ASSUME NEW row, NEW r \in ReqIds, NEW old, Grants(row, r, old) PROVE FALSE
  BY <1>0, <1>3, <1>4 DEF Grants, TypeOK
<1>5. ASSUME NEW r \in ReqIds, Refuses(r) PROVE FALSE
  BY <1>0, <1>3, <1>5 DEF Refuses, TypeOK
<1>6. ASSUME NEW r \in ReqIds, NEW start, NEW end, Asks(r, start, end) PROVE FALSE
  BY <1>0, <1>3, <1>6 DEF Asks, TypeOK, None
<1> QED BY <1>3, <1>4, <1>5, <1>6 DEF Effect, SuspEffect, Direct, MoveEffect, Quiet,
           AdminSaveModel, terminate_approval

(* Otherwise the request that is granted was the pending one.              *)
LEMMA GrantsThePending ==
    ASSUME IInv, serial, NoSecondThought', NEW row, NEW r \in ReqIds, NEW old,
           Grants(row, r, old)
    PROVE  /\ r \in PendingRequests /\ PendingRequests' = {}
           /\ row.start = reqs[r].start /\ row.end = reqs[r].end
<1>0. TypeOK /\ OnePending /\ DOMAIN reqs = ReqIds
  BY DEF IInv, TypeOK
<1>1. reqs[r] \in ReqRow /\ reqs[r] = old /\ reqs[r].st # "granted"
  BY <1>0 DEF Grants
<1>2. reqs' = [reqs EXCEPT ![r] = [reqs[r] EXCEPT !.st = "granted"]]
  BY DEF Grants
<1>3. reqs'[r].st = "granted" /\ reqs'[r].info = reqs[r].info
  BY <1>0, <1>1, <1>2, ReqRowTypes
<1>4. ~reqs[r].info
  BY <1>3 DEF NoSecondThought
<1>5. reqs[r].st = "pending"
  <2>1. reqs[r].st # "denied"
    BY <1>0, <1>4 DEF OnePending
  <2> QED BY <1>1, <2>1 DEF ReqRow
<1>6. \A q \in ReqIds \ {r} : reqs'[q] = reqs[q] /\ reqs[q].st # "pending"
  BY <1>0, <1>2, <1>5 DEF OnePending, PendingRequests
<1>7. DOMAIN reqs' = ReqIds
  BY <1>0, <1>2
<1>8. \A q \in ReqIds : reqs'[q].st # "pending"
  BY <1>3, <1>6
<1> QED BY <1>0, <1>1, <1>5, <1>7, <1>8 DEF PendingRequests, Grants

LEMMA PendingFitsPreserved ==
    ASSUME IInv, IInv', Effect, Slack, PendingFits
    PROVE  PendingFits'
<1>0. /\ TypeOK /\ Ordered /\ OnePending /\ DOMAIN reqs = ReqIds /\ Days(prol) \in Int
      /\ pass.end \in Int /\ OpenDays \in Int /\ 0 <= OpenDays
  BY OpenDaysNat, DaysInt DEF IInv, TypeOK
<1> SUFFICES ASSUME serial', support' = "none", NoSecondThought', NEW q \in PendingRequests'
             PROVE  /\ Length(reqs'[q]) + Days(prol') <= CumulativeMax
                    /\ \A k \in Live(prol') : prol'[k].end <= reqs'[q].start
  BY DEF PendingFits, Length, Live, PendingRequests
<1>1. serial /\ support = "none"
  BY DEF Effect, SuspEffect, ProlEffect, Asks, Refuses, MoveEffect, Frame, Quiet,
     AdminSaveModel, terminate_approval, Support, Untouched
<1>2. NoSecondThought
  BY <1>1, SecondThoughtStays
<1>3. CASE q \in PendingRequests /\ reqs'[q] = reqs[q] /\ prol' = prol
  BY <1>1, <1>2, <1>3 DEF PendingFits
<1>4. ASSUME NEW r \in ReqIds, NEW start, NEW end, Asks(r, start, end)
      PROVE  /\ Length(reqs'[q]) + Days(prol') <= CumulativeMax
             /\ \A k \in Live(prol') : prol'[k].end <= reqs'[q].start
  <2>1. prol' = prol /\ start = pass.end /\ start \in Int /\ InProgress(susp) = {}
    BY <1>1, <1>4 DEF Asks
  <2>2. q = r /\ reqs'[r].start = start /\ reqs'[r].end = end
    BY <1>0, <1>4 DEF Asks, PendingRequests
  <2>3. "opinion" \in Reasons /\ end \in ProlongationEnds(start, "opinion")
    BY <1>4 DEF Asks, Reasons
  <2>4. end \in Int /\ end <= start + (CumulativeMax - Days(prol))
    BY <1>0, <2>1, <2>3, Ends
  <2>5. CumulativeMax \in Int
    BY DurationsAssumption
  <2>6. Length(reqs'[q]) = end - start
    BY <2>2 DEF Length
  <2>7. Length(reqs'[q]) + Days(prol') <= CumulativeMax
    BY <1>0, <2>1, <2>4, <2>5, <2>6
  <2>8. OpenDays = 0
    BY <1>0, <2>1, NothingOpen
  <2>9. ASSUME NEW k \in Live(prol) PROVE prol[k].end <= start
    <3>1. prol[k].end + OpenDays <= pass.end
      BY <1>1 DEF Slack
    <3>2. prol[k].end \in Int
      BY <1>0 DEF Live, TypeOK, ProlRow, Gone
    <3> QED BY <1>0, <2>1, <2>8, <3>1, <3>2
  <2> QED BY <2>1, <2>2, <2>7, <2>9
<1>5. ASSUME NEW r \in ReqIds, Refuses(r)
      PROVE  q \in PendingRequests /\ reqs'[q] = reqs[q] /\ prol' = prol
  <2> DEFINE new == [reqs[r] EXCEPT !.st = "denied", !.info = TRUE]
  <2>1. reqs[r] \in ReqRow /\ reqs' = [reqs EXCEPT ![r] = new] /\ prol' = prol
    BY <1>0, <1>5 DEF Refuses, TypeOK
  <2>2. new.st = "denied"
    BY <2>1, ReqRowTypes
  <2> HIDE DEF new
  <2>3. q \in ReqIds /\ reqs'[q].st = "pending" /\ reqs'[r].st = "denied"
    BY <1>0, <2>1, <2>2 DEF PendingRequests
  <2>4. q # r
    BY <2>3
  <2> QED BY <1>0, <2>1, <2>3, <2>4 DEF PendingRequests
<1>6. ASSUME NEW row, NEW r \in ReqIds, NEW old, Grants(row, r, old)
      PROVE  FALSE
  BY <1>1, <1>6, GrantsThePending
<1>7. ASSUME NEW row, Direct(row)
      PROVE  FALSE
  BY <1>1, <1>7 DEF Direct, PendingRequests
<1>8. CASE UNCHANGED <<reqs, prol>>
  BY <1>3, <1>8 DEF PendingRequests
<1> QED BY <1>3, <1>4, <1>5, <1>6, <1>7, <1>8 DEF Effect, SuspEffect, MoveEffect, Quiet,
           AdminSaveModel, terminate_approval

LEMMA LimitPreserved ==
    ASSUME IInv, IInv', Effect, Slack, PendingFits, Limit
    PROVE  Limit'
<1>0. /\ TypeOK /\ Ordered /\ TypeOK' /\ Ordered' /\ DOMAIN prol = ProlIds /\ Days(prol) \in Int
      /\ CumulativeMax \in Int /\ pass.end \in Int
  BY DaysInt, DurationsAssumption DEF IInv, TypeOK
<1> SUFFICES ASSUME serial', support' = "none", NoSecondThought', NEW k \in Live(prol'),
                    prol'[k].reason = "opinion"
             PROVE  DaysOf(prol', UpTo(k)') <= CumulativeMax
  BY DEF Limit, Live
<1>1. serial /\ support = "none"
  BY DEF Effect, SuspEffect, ProlEffect, Asks, Refuses, MoveEffect, Frame, Quiet,
     AdminSaveModel, terminate_approval, Support, Untouched
<1>2. NoSecondThought
  BY <1>1, SecondThoughtStays
<1>3. ASSUME NEW i \in Live(prol), prol[i].reason = "opinion"
      PROVE  DaysOf(prol, UpTo(i)) <= CumulativeMax
  BY <1>1, <1>2, <1>3 DEF Limit
<1>4. CASE prol' = prol
  BY <1>3, <1>4 DEF UpTo
<1>5. ASSUME NEW j \in ProlIds, NEW row, ProlEffect(j, row),
             Direct(row) \/ \E r \in ReqIds : \E old : Grants(row, r, old)
      PROVE  DaysOf(prol', UpTo(k)') <= CumulativeMax
  <2>0. /\ prol' = [prol EXCEPT ![j] = row] /\ prol'[j] = row /\ row \in ProlRow
        /\ j \notin Live(prol) /\ row.start < row.end
        /\ Live(prol') = Live(prol) \cup {j}
    BY <1>0, <1>5 DEF ProlEffect, Live, None, ProlRow
  <2>1. CASE k # j
    (* The new one begins after the others have ended.                     *)
    <3>1. k \in Live(prol) /\ prol'[k] = prol[k]
      BY <1>0, <2>0, <2>1 DEF Live
    <3>2. prol[k] \in ProlRow /\ prol[k].start < prol[k].end
      BY <1>0, <3>1 DEF TypeOK, Live, Gone, Ordered
    <3>3. prol[k].end <= row.start
      <4>1. CASE Direct(row)
        <5>1. row.start = pass.end /\ OpenDays = 0
          BY <1>0, <1>1, <4>1, NothingOpen DEF Direct
        <5>2. prol[k].end + OpenDays <= pass.end
          BY <1>1, <3>1 DEF Slack
        <5> QED BY <1>0, <3>2, <5>1, <5>2 DEF ProlRow
      <4>2. ASSUME NEW r \in ReqIds, NEW old, Grants(row, r, old)
            PROVE  prol[k].end <= row.start
        <5>1. r \in PendingRequests /\ row.start = reqs[r].start
          BY <1>1, <4>2, GrantsThePending
        <5> QED BY <1>1, <1>2, <3>1, <5>1 DEF PendingFits
      <4> QED BY <1>5, <4>1, <4>2
    <3>4. UpTo(k)' = UpTo(k)
      BY <1>0, <2>0, <3>1, <3>2, <3>3 DEF UpTo, ProlRow, Live
    <3>5. \A i \in UpTo(k) : prol'[i] = prol[i]
      BY <2>0 DEF UpTo
    <3>6. Measured(prol, UpTo(k))
      BY <1>0, Lengths DEF UpTo
    <3>7. DaysOf(prol', UpTo(k)) = DaysOf(prol, UpTo(k))
      BY <3>5, <3>6, DaysSame
    <3> QED BY <1>3, <2>0, <2>1, <3>1, <3>4, <3>7
  <2>2. CASE k = j
    <3>1. row.reason # "direct"
      BY <2>0, <2>2
    <3>2. PICK r \in ReqIds : \E old : Grants(row, r, old)
      BY <1>5, <3>1 DEF Direct
    <3>3. r \in PendingRequests /\ row.start = reqs[r].start /\ row.end = reqs[r].end
      BY <1>1, <3>2, GrantsThePending
    <3>4. Length(row) + Days(prol) <= CumulativeMax
      BY <1>1, <1>2, <3>3 DEF PendingFits, Length
    <3>5. Days(prol') = Days(prol) + Length(row) /\ Length(row) \in Int
      BY <1>0, <1>5, ProlDays
    <3>6. DaysOf(prol', UpTo(k)') <= Days(prol') /\ DaysOf(prol', UpTo(k)') \in Int
      <4> DEFINE new == prol'
                 L == UpTo(k)'
      <4>1. Rows(new, NumProlongations)
        <5>1. new \in [ProlIds -> ProlRow \cup Gone]
          BY <1>0 DEF TypeOK
        <5> HIDE DEF new
        <5> QED BY <5>1 DEF Rows, ProlIds, ProlRow, Gone, Length
      <4>2. \A i \in Live(new) : Length(new[i]) >= 0
        <5>1. \A i \in Live(new) : new[i].start < new[i].end /\ new[i] \in ProlRow
          BY <1>0 DEF Ordered, TypeOK, Live, Gone
        <5> HIDE DEF new
        <5> QED BY <5>1 DEF ProlRow, Length
      <4>3. L \in SUBSET Live(new)
        BY DEF UpTo
      <4> HIDE DEF new, L
      <4>4. /\ Measured(new, L) /\ Measured(new, Live(new))
            /\ Days(new) = DaysOf(new, Live(new))
        BY <4>1, <4>3, LiveMeasured, DurationsAssumption
      <4>5. DaysOf(new, L) <= DaysOf(new, Live(new)) /\ DaysOf(new, L) \in Int
        BY <4>2, <4>3, <4>4, DaysGrow, DaysType
      <4> QED BY <4>4, <4>5 DEF new, L
    <3> QED BY <1>0, <3>4, <3>5, <3>6
  <2> QED BY <2>1, <2>2
<1> QED BY <1>4, <1>5 DEF Effect, SuspEffect, Asks, Refuses, MoveEffect, Quiet, AdminSaveModel,
           terminate_approval

(* The invariant of the requests that do not overlap.                      *)
THEOREM Serial == Spec => []SInv
<1>1. Init => SInv
  <2> SUFFICES ASSUME Init PROVE SInv
    OBVIOUS
  <2>1. Live(prol) = {} /\ PendingRequests = {} /\ \A r \in ReqIds : reqs[r] = None
    BY DEF Init, Live, None, PendingRequests
  <2> QED BY <2>1 DEF SInv, Slack, ProlongationsWithinPass, PendingFits, Limit
<1>2. IInv => OpenDays \in Int /\ 0 <= OpenDays
  BY OpenDaysNat DEF IInv
<1>3. (IInv => OpenDays \in Int /\ 0 <= OpenDays)'
  BY <1>2, PTL
<1>4. IInv /\ IInv' /\ SInv /\ [Next]_vars => SInv'
  <2>1. ASSUME IInv, IInv', SInv, Next PROVE SInv'
    <3>1. Effect /\ OpenDays' \in Int /\ 0 <= OpenDays'
      BY <1>3, <2>1, Effects
    <3>2. Slack'
      BY <2>1, <3>1, SlackPreserved DEF SInv
    <3>3. ProlongationsWithinPass'
      BY <2>1, <3>1, <3>2, WithinPreserved DEF SInv
    <3>4. PendingFits' /\ Limit'
      BY <2>1, <3>1, PendingFitsPreserved, LimitPreserved DEF SInv
    <3> QED BY <3>2, <3>3, <3>4 DEF SInv
  <2>2. ASSUME SInv, UNCHANGED vars PROVE SInv'
    <3> USE <2>2 DEF vars
    <3>1. Slack'
      BY DEF SInv, Slack, OpenDays, OpenSuspensions, Live
    <3>2. ProlongationsWithinPass'
      BY DEF SInv, ProlongationsWithinPass
    <3>3. PendingFits'
      BY DEF SInv, PendingFits, NoSecondThought, PendingRequests
    <3>4. Limit'
      BY DEF SInv, Limit, NoSecondThought, UpTo
    <3> QED BY <3>1, <3>2, <3>3, <3>4 DEF SInv
  <2> QED BY <2>1, <2>2
<1> QED BY <1>1, <1>4, Inductive, PTL DEF Spec

(* As long as requests do not overlap, no suspension that is shortened or  *)
(* deleted takes the end of the PASS back before a prolongation.           *)
THEOREM NoProlongationOutside == Spec => []ProlongationsWithinPass
<1>1. SInv => ProlongationsWithinPass
  BY DEF SInv
<1> QED BY <1>1, Serial, PTL

(* The maximum of a reason holds although it is computed when the request  *)
(* is made (CommonProlongation.get_max_end_at) and not when it is granted, *)
(* as long as no refused request is granted.                               *)
THEOREM RenewalsAreBounded == Spec => []CumulativeBound
<1>1. SInv => CumulativeBound
  BY DEF SInv, Limit, DaysOf, UpTo, CumulativeBound, RenewalsWithinLimit
<1> QED BY <1>1, Serial, PTL
=============================================================================
