----------------------------- MODULE PassCredit -----------------------------
(***************************************************************************)
(* What the dates of a PASS IAE promise, without suspensions, requests or  *)
(* triggers: a PASS has a number of days of its own, every period (of      *)
(* suspension or of prolongation) adds its length to them, and nothing     *)
(* else does.  ApprovalPeriods implements this specification.              *)
(***************************************************************************)
EXTENDS Integers

CONSTANTS Periods,   \* the periods a PASS may ever have
          OwnDays    \* what a PASS is worth when it is issued

VARIABLES length,    \* days from the first to the last day of the PASS
          begin,     \* its first day
          given,     \* days that each period adds
          closed     \* the support has taken its dates in hand

creditVars == <<length, begin, given, closed>>

CreditInit ==
    /\ length = OwnDays
    /\ begin \in Int
    /\ given = [p \in Periods |-> 0]
    /\ closed = FALSE

(* A period appears, disappears or changes: its days and no others.        *)
Adjust(p) ==
    /\ UNCHANGED <<begin, closed>>
    /\ given'[p] \in Nat \ {given[p]}
    /\ given' = [given EXCEPT ![p] = given'[p]]
    /\ length' = length + given'[p] - given[p]

(* The PASS begins another day: it keeps its length.                       *)
Move ==
    /\ begin' # begin /\ length' = length
    /\ UNCHANGED <<given, closed>>

(* The support takes its dates in hand: nothing is promised from then on.  *)
Close == closed' = TRUE

CreditNext == Move \/ Close \/ \E p \in Periods : Adjust(p)

CreditSpec == CreditInit /\ [][CreditNext]_creditVars
=============================================================================
