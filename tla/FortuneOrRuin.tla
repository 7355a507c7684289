---------------------------- MODULE FortuneOrRuin ----------------------------
(***************************************************************************)
(* fortuneOrRuin.py: one test case (cash, lower, upper) solved by the     *)
(* class FortuneOrRuin (printresult, which calls findp) and by            *)
(* findOutcome.  Every cash value a game reaches is cash * (3/2)^k, so    *)
(* the state of a game is the integer k (a win is k+1, a loss k-1).  The  *)
(* bounds become lattice indices: lo is the least k with                  *)
(* cash * (3/2)^k >= lower, so `cash < self.lower` is k < lo, and hi is    *)
(* the greatest k with cash * (3/2)^k <= upper, so `cash > self.upper` is  *)
(* k > hi.  lowerOn (upperOn) says the bound is exactly on the lattice,    *)
(* cash * (3/2)^lo = lower (cash * (3/2)^hi = upper), the case in which    *)
(* the logarithms of findOutcome are whole numbers.  findp's floats are    *)
(* exact rationals <<numerator, denominator>> here.                        *)
(***************************************************************************)
EXTENDS Integers, FiniteSets, TLC

CONSTANTS
  MaxLosses, \* the most losses a test case needs to fall below lower
  MaxWins,   \* the most wins a test case needs to exceed upper
  Methods   \* which of "printresult", "findOutcome" the script calls

ASSUME MaxLosses \in Nat /\ MaxWins \in Nat
ASSUME Methods \subseteq {"printresult", "findOutcome"} /\ Methods # {}

VARIABLES
  lo, hi, lowerOn, upperOn, \* the test case, on the lattice
  seenprobs, scales,        \* the object's fields after findp(self.cash, 0)
  p,                        \* what findp returned
  verdict,                  \* verdict[m]: what method m printed
  pc

vars == <<lo, hi, lowerOn, upperOn, seenprobs, scales, p, verdict, pc>>

Verdicts == {"fair", "fortune", "ruin", "ZeroDivisionError"}

-----------------------------------------------------------------------------
(* Exact rationals. *)
RECURSIVE GCD(_, _)
GCD(a, b) == IF b = 0 THEN a ELSE GCD(b, a % b)
Abs(x) == IF x < 0 THEN -x ELSE x
Q(n, d) ==
  LET s == IF d < 0 THEN -1 ELSE 1
      g == GCD(Abs(n), Abs(d))
  IN  <<(s * n) \div g, (s * d) \div g>>
QAdd(a, b) == Q(a[1] * b[2] + b[1] * a[2], a[2] * b[2])
QSub(a, b) == Q(a[1] * b[2] - b[1] * a[2], a[2] * b[2])
QDiv(a, b) == Q(a[1] * b[2], a[2] * b[1])
QHalf(a)   == Q(a[1], 2 * a[2])
Q0 == <<0, 1>>
Q1 == <<1, 1>>

-----------------------------------------------------------------------------
(* findp(cash, depth), lines 33-50, on the state st = [val, seen, scales, *)
(* err] it threads through the recursion: st.seen and st.scales are       *)
(* self.seenprobs and self.scales, val the value returned, err a raised   *)
(* ZeroDivisionError unwinding the calls.  Line 48 calls the win branch   *)
(* first, then the loss branch, then reads scales[cash].                  *)
RECURSIVE FindP(_, _, _)
FindP(k, depth, st) ==
  IF st.err THEN st
  ELSE IF k < lo THEN [st EXCEPT !.val = Q0]
  ELSE IF k > hi THEN [st EXCEPT !.val = Q1]
  ELSE IF k \in DOMAIN st.seen
       THEN IF st.seen[k][1] >= 0
            THEN [st EXCEPT !.val = st.seen[k]]
            ELSE [st EXCEPT !.scales = [@ EXCEPT ![k] = QSub(@, <<1, 2^depth>>)],
                            !.val = Q0]
  ELSE LET s0   == [st EXCEPT !.seen = (k :> <<-1, 1>>) @@ @,
                              !.scales = (k :> Q1) @@ @]
           win  == FindP(k + 1, depth + 1, s0)
           loss == FindP(k - 1, depth + 1, win)
           sum  == QAdd(QHalf(win.val), QHalf(loss.val))
       IN  IF loss.err THEN loss
           ELSE IF loss.scales[k] = Q0 THEN [loss EXCEPT !.err = TRUE]
           ELSE LET v == QDiv(sum, loss.scales[k])
                IN  [loss EXCEPT !.seen = [@ EXCEPT ![k] = v], !.val = v]

(* The verdict of lines 54-59 on a probability q of fortune. *)
VerdictOf(q) ==
  IF 2 * q[1] = q[2] THEN "fair" ELSE IF 2 * q[1] > q[2] THEN "fortune" ELSE "ruin"

(* The values math.ceil(log(r) / log(b)) can take when r = b^x, x in       *)
(* [n-1, n), and on says x = n-1.  Off the lattice x is far from a whole   *)
(* number and the ceiling is n.  On it the float quotient is n-1 to within *)
(* rounding (1.9999999999999998 for 9, 4: log(4/9)/log(2/3)), and its      *)
(* ceiling is n-1 or n; log(1.0) is 0.0 exactly.                            *)
LogCeil(n, on) ==
  IF ~on THEN {n} ELSE IF n = 1 THEN {0} ELSE {n - 1, n}

(* What the script calls first, after the case is read (lines 84-86). *)
After(m) ==
  IF m = "printresult" /\ "findOutcome" \in Methods THEN "findOutcome" ELSE "done"

Init ==
  \* 1 - lo losses and hi + 1 wins end the game
  /\ lo \in 1 - MaxLosses..1 /\ hi \in -1..MaxWins - 1
  /\ lowerOn \in BOOLEAN /\ upperOn \in BOOLEAN
  \* lower <= upper: with lo = hi + 1 both lie strictly between two lattice points
  /\ lo <= hi + 1
  /\ lo = hi + 1 => ~lowerOn /\ ~upperOn
  /\ seenprobs = <<>> /\ scales = <<>> /\ p = Q0
  /\ verdict = <<>>
  /\ pc = IF "printresult" \in Methods THEN "printresult" ELSE "findOutcome"

(* printresult (lines 52-59) with findp(self.cash, 0). *)
PrintResult ==
  /\ pc = "printresult"
  /\ LET r == FindP(0, 0, [val |-> Q0, seen |-> <<>>, scales |-> <<>>, err |-> FALSE])
     IN  /\ seenprobs' = r.seen
         /\ scales' = r.scales
         /\ p' = r.val
         /\ verdict' = ("printresult" :> IF r.err THEN "ZeroDivisionError"
                                         ELSE VerdictOf(r.val)) @@ verdict
  /\ pc' = After("printresult")
  /\ UNCHANGED <<lo, hi, lowerOn, upperOn>>

(* findOutcome (lines 70-78): losses to fall below lower against wins to  *)
(* exceed upper.  log(lower/cash)/log(2/3) is -x for lower = cash*(3/2)^x, *)
(* x in (lo-1, lo], so in [-lo, 1-lo); log(upper/cash)/log(3/2) is x for    *)
(* upper = cash*(3/2)^x, x in [hi, hi+1).  1 - lo losses and hi + 1 wins   *)
(* end the game.                                                            *)
FindOutcome ==
  /\ pc = "findOutcome"
  /\ \E lcount \in LogCeil(1 - lo, lowerOn), ucount \in LogCeil(hi + 1, upperOn) :
       verdict' = ("findOutcome" :> IF lcount = ucount THEN "fair"
                                     ELSE IF lcount > ucount THEN "fortune"
                                     ELSE "ruin") @@ verdict
  /\ pc' = "done"
  /\ UNCHANGED <<lo, hi, lowerOn, upperOn, seenprobs, scales, p>>

Next == PrintResult \/ FindOutcome

Spec == Init /\ [][Next]_vars

-----------------------------------------------------------------------------
(* The odds of the game: a fair walk on k from 0, absorbed below lo       *)
(* (ruin) and above hi (fortune), reaches hi + 1 first with probability   *)
(* (1 - lo) / (hi - lo + 2), the losses needed over the whole span.        *)
Odds ==
  IF 0 < lo THEN Q0 ELSE IF 0 > hi THEN Q1 ELSE Q(1 - lo, hi - lo + 2)

TypeOK ==
  /\ pc \in Methods \cup {"done"}
  /\ \A m \in DOMAIN verdict : m \in Methods /\ verdict[m] \in Verdicts

(* The question of the file: whichever solution the script runs, it       *)
(* prints which of ruin and fortune is more probable, or that the game is *)
(* fair, as the odds of the game say.                                      *)
VerdictIsOdds == \A m \in DOMAIN verdict : verdict[m] = VerdictOf(Odds)
=============================================================================
