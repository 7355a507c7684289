----------------------------- MODULE Levenshtein -----------------------------
(***************************************************************************)
(* LevenshteinDistance.py: Solution(w1, w2).solve(method) by recursiveLD,  *)
(* iterativeLD or optimalLD.  recursiveLD is a RECURSIVE operator, called  *)
(* in one step; the two tables are filled one cell per step, in the       *)
(* code's loop order.  Words are sequences of letters; i and j count       *)
(* letters as in the code (a[i] of the code is a[i+1] here).              *)
(***************************************************************************)
EXTENDS Integers, Sequences, FiniteSets

CONSTANTS
  Letters,  \* the letters words are made of
  MaxLen,   \* the longest word
  Methods   \* the values of solve's `method` argument the caller may pass

ASSUME MaxLen \in Nat
ASSUME Methods \subseteq {"recursive", "iterative", "optimal"}

Words == UNION {[1..m -> Letters] : m \in 0..MaxLen}

Min2(x, y) == IF x <= y THEN x ELSE y
Min3(x, y, z) == Min2(Min2(x, y), z)

VARIABLES
  a, b,        \* self.a, self.b
  method,      \* solve's argument
  M,           \* iterativeLD's table, M[<<i, j>>]
  A, B,        \* optimalLD's longer and shorter word
  previous, current, \* optimalLD's two rows, functions of 0..Len(B)
  i, j,        \* loop indices
  ans,         \* the answer solve prints
  pc

vars == <<a, b, method, M, A, B, previous, current, i, j, ans, pc>>

(* A bug variant of Rest that ignores how far the other word has got. *)
RestWhole(w, k) == Len(w)

(* len(self.b) - j and len(self.a) - i: the letters left of a word. *)
Rest(w, k) == Len(w) - k

RECURSIVE RecursiveLD(_, _, _, _)
(* recursiveLD(i, j) on the words x = self.a and y = self.b. *)
RecursiveLD(x, y, k, l) ==
  IF k = Len(x) THEN Rest(y, l)
  ELSE IF l = Len(y) THEN Rest(x, k)
  ELSE IF x[k + 1] = y[l + 1] THEN RecursiveLD(x, y, k + 1, l + 1)
  ELSE 1 + Min3(RecursiveLD(x, y, k + 1, l + 1), RecursiveLD(x, y, k + 1, l),
                RecursiveLD(x, y, k, l + 1))

(* A bug variant of MinEdit that decrements instead of adding one. *)
MinEditMinusOne(left, up, diag) == Min3(left, up, diag) - 1

(* min(M[i][j-1], M[i-1][j], prev) + 1, and the same on the two rows. *)
MinEdit(left, up, diag) == Min3(left, up, diag) + 1

Init ==
  /\ a \in Words /\ b \in Words
  /\ method \in Methods
  /\ M = <<>> /\ A = <<>> /\ B = <<>>
  /\ previous = <<>> /\ current = <<>>
  /\ i = 0 /\ j = 0 /\ ans = -1
  /\ pc = method

(* solve('recursive'): ans = self.recursiveLD(0, 0). *)
Recursive ==
  /\ pc = "recursive"
  /\ ans' = RecursiveLD(a, b, 0, 0)
  /\ pc' = "done"
  /\ UNCHANGED <<a, b, method, M, A, B, previous, current, i, j>>

-----------------------------------------------------------------------------
(* iterativeLD *)

(* Lines 41-45: the zero table with its first row and column, then the   *)
(* head of the double loop.                                                *)
IterInit ==
  /\ pc = "iterative"
  /\ M' = [c \in (0..Len(a)) \X (0..Len(b)) |->
             IF c[1] = 0 THEN c[2] ELSE IF c[2] = 0 THEN c[1] ELSE 0]
  /\ i' = 1 /\ j' = 1
  /\ pc' = "iter_cell"
  /\ UNCHANGED <<a, b, method, A, B, previous, current, ans>>

(* Lines 48-52: cell (i, j), then the next j, or the next row. *)
IterCell ==
  /\ pc = "iter_cell"
  /\ i <= Len(a) /\ j <= Len(b)
  /\ LET prev == M[<<i - 1, j - 1>>]
     IN  M' = [M EXCEPT ![<<i, j>>] =
                 IF a[i] = b[j] THEN prev
                 ELSE MinEdit(M[<<i, j - 1>>], M[<<i - 1, j>>], prev)]
  /\ IF j < Len(b) THEN j' = j + 1 /\ i' = i ELSE j' = 1 /\ i' = i + 1
  /\ UNCHANGED <<a, b, method, A, B, previous, current, ans, pc>>

(* Line 53, once the loops are done (at once when a word is empty). *)
IterReturn ==
  /\ pc = "iter_cell"
  /\ i > Len(a) \/ Len(b) = 0
  /\ ans' = M[<<Len(a), Len(b)>>]
  /\ pc' = "done"
  /\ UNCHANGED <<a, b, method, M, A, B, previous, current, i, j>>

-----------------------------------------------------------------------------
(* optimalLD *)

(* Lines 56-64: equal words, else the longer word as A and row 0. *)
OptBegin ==
  /\ pc = "optimal"
  /\ IF a = b
     THEN ans' = 0 /\ pc' = "done" /\ UNCHANGED <<A, B, previous, i>>
     ELSE LET swap == Len(a) < Len(b)
              bb   == IF swap THEN a ELSE b
          IN  /\ A' = IF swap THEN b ELSE a
              /\ B' = bb
              /\ previous' = [c \in 0..Len(bb) |-> c]
              /\ i' = 1
              /\ pc' = "opt_row"
              /\ UNCHANGED ans
  /\ UNCHANGED <<a, b, method, M, current, j>>

(* A bug variant of RowStart that starts every row at 0. *)
RowStartZero(r) == 0

(* current = [i] + [0]*len(B): the first cell of row i. *)
RowStart(r) == r

(* Line 66 and the head of the j loop. *)
OptRow ==
  /\ pc = "opt_row"
  /\ i <= Len(A)
  /\ current' = [c \in 0..Len(B) |-> IF c = 0 THEN RowStart(i) ELSE 0]
  /\ j' = 1
  /\ pc' = "opt_cell"
  /\ UNCHANGED <<a, b, method, M, A, B, previous, i, ans>>

(* Lines 68-72: cell j of the current row. *)
OptCell ==
  /\ pc = "opt_cell"
  /\ j <= Len(B)
  /\ LET prev == previous[j - 1]
     IN  current' = [current EXCEPT ![j] =
                       IF A[i] = B[j] THEN prev
                       ELSE MinEdit(current[j - 1], previous[j], prev)]
  /\ j' = j + 1
  /\ UNCHANGED <<a, b, method, M, A, B, previous, i, ans, pc>>

(* Line 73: the row is done and becomes previous. *)
OptRowEnd ==
  /\ pc = "opt_cell"
  /\ j > Len(B)
  /\ previous' = current
  /\ i' = i + 1
  /\ pc' = "opt_row"
  /\ UNCHANGED <<a, b, method, M, A, B, current, j, ans>>

(* Line 74. *)
OptReturn ==
  /\ pc = "opt_row"
  /\ i > Len(A)
  /\ ans' = current[Len(B)]
  /\ pc' = "done"
  /\ UNCHANGED <<a, b, method, M, A, B, previous, current, i, j>>

Next ==
  \/ Recursive
  \/ IterInit \/ IterCell \/ IterReturn
  \/ OptBegin \/ OptRow \/ OptCell \/ OptRowEnd \/ OptReturn

Spec == Init /\ [][Next]_vars

-----------------------------------------------------------------------------
(* The definition of the Levenshtein distance of the prefixes of length k *)
(* and l: the fewest insertions, deletions and substitutions.             *)
RECURSIVE EditDistance(_, _, _, _)
EditDistance(x, y, k, l) ==
  IF k = 0 THEN l
  ELSE IF l = 0 THEN k
  ELSE Min3(EditDistance(x, y, k - 1, l) + 1,
            EditDistance(x, y, k, l - 1) + 1,
            EditDistance(x, y, k - 1, l - 1) + IF x[k] = y[l] THEN 0 ELSE 1)

TypeOK ==
  /\ pc \in Methods \cup {"iter_cell", "opt_row", "opt_cell", "done"}
  /\ ans \in -1..2 * MaxLen
  /\ M # <<>> => \A c \in DOMAIN M : M[c] \in Nat
  /\ current # <<>> => \A c \in DOMAIN current : current[c] \in Nat

(* The docstring's meaning of the tables: every cell the loops have       *)
(* filled, M[i][j] of iterativeLD and the cells of optimalLD's two rows,   *)
(* is the distance between the first i letters of one word and the first  *)
(* j of the other.                                                         *)
TableCellsAreDistances ==
  /\ pc = "iter_cell" =>
       \A c \in DOMAIN M :
         (c[1] = 0 \/ c[2] = 0 \/ c[1] < i \/ (c[1] = i /\ c[2] < j))
           => M[c] = EditDistance(a, b, c[1], c[2])
  /\ pc \in {"opt_row", "opt_cell"} =>
       \A c \in 0..Len(B) : previous[c] = EditDistance(A, B, i - 1, c)
  /\ pc = "opt_cell" =>
       \A c \in 0..j-1 : current[c] = EditDistance(A, B, i, c)

(* Whichever method solve() runs, the answer it prints is the Levenshtein *)
(* distance of the two words.                                              *)
AnswerIsEditDistance == pc = "done" => ans = EditDistance(a, b, Len(a), Len(b))
=============================================================================
