---------------------------- MODULE SmallestRange ----------------------------
(***************************************************************************)
(* find_smallest_range.py: the smallest range holding one number of each  *)
(* of k sorted lists, by a min-heap of (value, list #, index) triples, one *)
(* per list.  The globals smallest, largest and pointer are the state.     *)
(* The heap is the set of its triples: heapq keeps pointer[0] the least   *)
(* triple in tuple order, and that is all the code reads of its layout.    *)
(* Python indices are kept 0-based; list element i is l[lnum][i+1].        *)
(***************************************************************************)
EXTENDS Integers, Sequences, FiniteSets, FiniteSetsExt

CONSTANTS
  K,       \* the global k: the number of lists
  Vals,    \* the integers the lists may hold
  MaxLen   \* the longest list

ASSUME K \in Nat \ {0} /\ MaxLen \in Nat \ {0} /\ Vals \subseteq Int /\ Vals # {}

Lists == 0..K-1

(* float("inf") and float("-inf"): beyond every range and every value. *)
Inf    == Max(Vals) - Min(Vals) + 1
NegInf == Min(Vals) - 1

VARIABLES
  l,         \* the input lists
  pointer,   \* the heap, as a set of <<value, list #, index>>
  smallest,  \* the smallest range recorded so far
  largest,   \* the largest value pushed so far
  pc,        \* "init" | "loop" | "done"
  result     \* the pair find_smallest_range returns, once done

vars == <<l, pointer, smallest, largest, pc, result>>

(* Tuple order of Python on the heap's triples. *)
TupleLess(a, b) ==
  \/ a[1] < b[1]
  \/ a[1] = b[1] /\ a[2] < b[2]
  \/ a[1] = b[1] /\ a[2] = b[2] /\ a[3] < b[3]

(* pointer[0]: the least triple. *)
HeapTop(p) == CHOOSE e \in p : \A f \in p \ {e} : TupleLess(e, f)

(* heapq.nlargest(1, pointer)[0][0]: the value of the greatest triple. *)
HeapMaxVal(p) == Max({e[1] : e \in p})

(* A bug variant of GetRange that subtracts the wrong way round. *)
GetRangeSwapped(p, lg, sm) ==
  LET r == HeapTop(p)[1] - lg IN IF r < sm THEN r ELSE sm

(* get_range(): lower smallest to largest - pointer[0][0]. *)
GetRange(p, lg, sm) ==
  LET r == lg - HeapTop(p)[1] IN IF r < sm THEN r ELSE sm

(* A bug variant of HasNext that treats the last-but-one index as the end. *)
HasNextOffByOne(s, i) == i < Len(s) - 2

(* update's test: the list s has an element after index i. *)
HasNext(s, i) == i < Len(s) - 1

(* A bug variant of RaiseLargest that always takes the new value. *)
RaiseLargestAlways(val, lg) == val

(* if val > largest: largest = val *)
RaiseLargest(val, lg) == IF val > lg THEN val ELSE lg

SortedLists ==
  UNION {{s \in [1..n -> Vals] : \A j \in 1..n-1 : s[j] <= s[j+1]} : n \in 1..MaxLen}

Init ==
  /\ l \in [Lists -> SortedLists]
  /\ pointer = {}
  /\ smallest = Inf
  /\ largest = NegInf
  /\ pc = "init"
  /\ result = <<>>

(* Lines 54-57: push the head of every list, take the largest, record the *)
(* first range.                                                            *)
Start ==
  /\ pc = "init"
  /\ LET p  == {<<l[i][1], i, 0>> : i \in Lists}
         lg == HeapMaxVal(p)
     IN  /\ pointer' = p
         /\ largest' = lg
         /\ smallest' = GetRange(p, lg, smallest)
  /\ pc' = "loop"
  /\ UNCHANGED <<l, result>>

(* One pass of the while loop (lines 59-63) with update(): advance the    *)
(* list of the least head and record the new range, or, at the end of     *)
(* that list, break and return (line 65).                                  *)
Step ==
  /\ pc = "loop"
  /\ LET top  == HeapTop(pointer)
         lnum == top[2]
         i    == top[3]
     IN  IF HasNext(l[lnum], i)
         THEN LET val == l[lnum][i + 2]
                  lg  == RaiseLargest(val, largest)
                  p   == (pointer \ {top}) \cup {<<val, lnum, i + 1>>}
              IN  /\ largest' = lg
                  /\ pointer' = p
                  /\ smallest' = GetRange(p, lg, smallest)
                  /\ UNCHANGED <<pc, result>>
         ELSE /\ result' = <<top[1], HeapMaxVal(pointer)>>
              /\ pc' = "done"
              /\ UNCHANGED <<pointer, smallest, largest>>
  /\ UNCHANGED l

Next == Start \/ Step

Spec == Init /\ [][Next]_vars

-----------------------------------------------------------------------------
(* The problem's definition: the least max - min over every choice of one *)
(* element from each list.                                                 *)
Elems(s) == {s[j] : j \in DOMAIN s}
Picks  == {c \in [Lists -> Vals] : \A i \in Lists : c[i] \in Elems(l[i])}
Spread(c) == Max({c[i] : i \in Lists}) - Min({c[i] : i \in Lists})
Optimum  == Min({Spread(c) : c \in Picks})

TypeOK ==
  /\ pc \in {"init", "loop", "done"}
  /\ smallest \in 0..Inf
  /\ largest \in Vals \cup {NegInf}
  /\ \A e \in pointer : e[2] \in Lists /\ e[3] \in 0..Len(l[e[2]]) - 1

(* largest, raised only when a pushed value exceeds it, is the greatest   *)
(* value in the heap at every pass of the loop: pops of the least triple  *)
(* never take the maximum away while another list still holds it.         *)
LargestIsHeapMax == pc = "loop" => largest = HeapMaxVal(pointer)

(* Every range get_range records is one of an actual choice, and when the *)
(* loop breaks the recorded `smallest` is the smallest range there is.     *)
SmallestIsOptimal ==
  /\ pc # "init" => smallest >= Optimum
  /\ pc = "done" => smallest = Optimum

(* The question at the top of the file: find_smallest_range returns the    *)
(* smallest range.                                                          *)
ReturnsSmallestRange == pc = "done" => result[2] - result[1] = Optimum
=============================================================================
