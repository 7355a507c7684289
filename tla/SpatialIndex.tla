---------------------------- MODULE SpatialIndex ----------------------------
(***************************************************************************)
(* The spatial index of Cartogram.make (dorlingcartogram.py): the          *)
(* alternating-axis binary tree self.tree that is rebuilt from scratch at  *)
(* the start of every iteration (add_point) and queried once per unit      *)
(* (get_point) to find the circles within self.widest_radius +             *)
(* obj['radius'] of it.                                                    *)
(*                                                                         *)
(* Positions are points of a small integer grid; the integrator that moves *)
(* them between iterations is abstracted to Move, which may put every unit *)
(* anywhere.  The tree is the dict self.tree with slots 1..N, a node's     *)
(* 'id' is the unit index + 1 (0 marks an empty slot), and a child pointer *)
(* 0 means no child.  Python's recursion in add_point/get_point is a       *)
(* RECURSIVE operator; each call of the code is one action.               *)
(***************************************************************************)
EXTENDS Integers, Sequences, FiniteSets

CONSTANTS
  N,          \* number of units (self.n); units are the indices 0..N-1
  Coord,      \* the coordinates a position may take on either axis
  Radius,     \* Radius[i] = self.radius_values[i], a positive integer
  MaxIter     \* bound on the iterations of the outer loop (self.iterations)

ASSUME N \in Nat \ {0}
ASSUME Coord \subseteq Int /\ Coord # {}
ASSUME Radius \in [0..N-1 -> Nat \ {0}]
ASSUME MaxIter \in Nat \ {0}

Units == 0..N-1
Slots == 1..N

VARIABLES
  x_values,     \* self.x_values
  y_values,     \* self.y_values
  tree,         \* self.tree
  end_pointer,  \* self.end_pointer
  items,        \* iteration order of self.queryset (fixed for the run)
  inserted,     \* how many units add_point has inserted this iteration
  queried,      \* how many units get_point has been called for
  mylist,       \* self.mylist: position in the result -> unit index
  neighbors_within_distance,  \* length of the current result in mylist
  qunit,        \* the unit of the latest get_point call
  iteration,    \* the loop variable of `for iteration in range(...)`
  pc,           \* "rebuild" | "insert" | "query" | "move" | "done"
  status        \* "ok" | "KeyError" (add_point indexed past the dict)

vars == <<x_values, y_values, tree, end_pointer, items, inserted, queried,
          mylist, neighbors_within_distance, qunit, iteration, pc, status>>

NoNode == [id |-> 0, left |-> 0, right |-> 0, xpos |-> 0, ypos |-> 0]

Node == [id : 0..N, left : 0..N+1, right : 0..N+1, xpos : Coord, ypos : Coord]

(* self.widest_radius: the largest radius of all units. *)
WidestRadius == CHOOSE r \in {Radius[i] : i \in Units} :
                  \A i \in Units : Radius[i] <= r

(* The query range `distance` of make() for unit i. *)
QueryRange(i) == WidestRadius + Radius[i]

(* The coordinate of unit i, and of a tree node, on axis 1 (x) or 2 (y). *)
UnitCoord(i, axis) == IF axis = 1 THEN x_values[i] ELSE y_values[i]
NodeCoord(node, axis) == IF axis = 1 THEN node.xpos ELSE node.ypos

(***************************************************************************)
(* add_point(pointer, axis, obj) on tree t with end pointer ep: the result *)
(* is <<tree, end_pointer, ok>>, ok FALSE when the descent reaches a slot  *)
(* that is not a key of self.tree (a KeyError).                            *)
(***************************************************************************)
(* A bug variant of NewNode that stores the unit index itself as 'id', so *)
(* the node of unit 0 reads as an empty slot.                              *)
NewNodeIdUnshifted(i) ==
  [id |-> i, left |-> 0, right |-> 0, xpos |-> x_values[i], ypos |-> y_values[i]]

(* The node add_point writes into an empty slot for unit i. *)
NewNode(i) ==
  [id |-> i + 1, left |-> 0, right |-> 0, xpos |-> x_values[i], ypos |-> y_values[i]]

RECURSIVE AddPointRec(_, _, _, _, _)
AddPointRec(t, ep, pointer, axis, i) ==
  IF pointer \notin DOMAIN t THEN <<t, ep, FALSE>>
  ELSE IF t[pointer].id = 0
  THEN <<[t EXCEPT ![pointer] = NewNode(i)], ep, TRUE>>
  ELSE LET side  == IF UnitCoord(i, axis) >= NodeCoord(t[pointer], axis)
                    THEN "left" ELSE "right"
           fresh == t[pointer][side] = 0
           ep2   == IF fresh THEN ep + 1 ELSE ep
           t2    == IF fresh THEN [t EXCEPT ![pointer][side] = ep2] ELSE t
       IN  AddPointRec(t2, ep2, t2[pointer][side], 3 - axis, i)

(***************************************************************************)
(* get_point(pointer, axis, obj, distance) on tree t: the units it appends *)
(* to self.mylist, in order.  It searches the right subtree (coordinates   *)
(* below the node's) when the range reaches below the node, then the left  *)
(* one, then reports the node itself if it lies in the box.                *)
(***************************************************************************)
(* A bug variant of ReportedUnit that forgets the id offset of add_point. *)
ReportedUnitRaw(node) == node.id

(* The unit index get_point appends to mylist for a node: its 'id' - 1. *)
ReportedUnit(node) == node.id - 1

RECURSIVE GetPointRec(_, _, _, _, _)
GetPointRec(t, pointer, axis, i, d) ==
  IF pointer = 0 \/ t[pointer].id = 0 THEN <<>>
  ELSE LET node    == t[pointer]
           reachesBelow(a) == UnitCoord(i, a) - d < NodeCoord(node, a)
           reachesAbove(a) == UnitCoord(i, a) + d >= NodeCoord(node, a)
           right == IF reachesBelow(axis)
                    THEN GetPointRec(t, node.right, 3 - axis, i, d) ELSE <<>>
           left  == IF reachesAbove(axis)
                    THEN GetPointRec(t, node.left, 3 - axis, i, d) ELSE <<>>
           here  == IF /\ reachesBelow(1) /\ reachesAbove(1)
                       /\ reachesBelow(2) /\ reachesAbove(2)
                    THEN <<ReportedUnit(node)>> ELSE <<>>
       IN  right \o left \o here

(* Writes sequence s into the dict m from key `start` on. *)
WriteList(m, start, s) ==
  [k \in DOMAIN m \cup {start + j - 1 : j \in 1..Len(s)} |->
     IF k >= start /\ k < start + Len(s) THEN s[k - start + 1] ELSE m[k]]

Permutations == {f \in [1..N -> Units] : \A a, b \in 1..N : f[a] = f[b] => a = b}

Init ==
  /\ x_values \in [Units -> Coord]
  /\ y_values \in [Units -> Coord]
  /\ tree = [p \in Slots |-> NoNode]
  /\ end_pointer = 1
  /\ items \in Permutations
  /\ inserted = 0
  /\ queried = 0
  /\ mylist = <<>>
  /\ neighbors_within_distance = 0
  /\ qunit = 0
  /\ iteration = 0
  /\ pc = "rebuild"
  /\ status = "ok"

(* A bug variant of ResetPointer that keeps end_pointer. *)
ResetPointerKeep(ep) == ep

(* Line 261: self.end_pointer = 1 before the tree is rebuilt. *)
ResetPointer(ep) == 1

(* Start of an iteration: the tree is emptied and end_pointer reset. *)
Rebuild ==
  /\ pc = "rebuild"
  /\ end_pointer' = ResetPointer(end_pointer)
  /\ tree' = [p \in Slots |-> NoNode]
  /\ inserted' = 0
  /\ queried' = 0
  /\ pc' = "insert"
  /\ UNCHANGED <<x_values, y_values, items, mylist,
                 neighbors_within_distance, qunit, iteration, status>>

(* add_point(1, 1, obj) for the next unit in queryset order. *)
AddPoint ==
  /\ pc = "insert"
  /\ LET r == AddPointRec(tree, end_pointer, 1, 1, items[inserted + 1])
     IN  /\ tree' = r[1]
         /\ end_pointer' = r[2]
         /\ status' = IF r[3] THEN status ELSE "KeyError"
         /\ inserted' = inserted + 1
         /\ pc' = IF ~r[3] THEN "done"
                  ELSE IF inserted + 1 = N THEN "query" ELSE "insert"
  /\ UNCHANGED <<x_values, y_values, items, queried, mylist,
                 neighbors_within_distance, qunit, iteration>>

(* A bug variant of ResetCount that keeps the count, so the results of *)
(* earlier queries stay in the list.                                     *)
ResetCountKeep(n) == n

(* Line 272: self.neighbors_within_distance = 0 before get_point. *)
ResetCount(n) == 0

(* For the next unit: reset the result counter and call get_point. *)
GetPoint ==
  /\ pc = "query"
  /\ LET i   == items[queried + 1]
         res == GetPointRec(tree, 1, 1, i, QueryRange(i))
         base == ResetCount(neighbors_within_distance)
     IN  /\ mylist' = WriteList(mylist, base, res)
         /\ neighbors_within_distance' = base + Len(res)
         /\ qunit' = i
  /\ queried' = queried + 1
  /\ pc' = IF queried + 1 = N THEN "move" ELSE "query"
  /\ UNCHANGED <<x_values, y_values, tree, end_pointer, items, inserted,
                 iteration, status>>

(* The position update of the iteration, abstracted to any new positions, *)
(* and the loop's advance to the next iteration.                          *)
Move ==
  /\ pc = "move"
  /\ x_values' \in [Units -> Coord]
  /\ y_values' \in [Units -> Coord]
  /\ iteration' = iteration + 1
  /\ pc' = IF iteration + 1 < MaxIter THEN "rebuild" ELSE "done"
  /\ UNCHANGED <<tree, end_pointer, items, inserted, queried, mylist,
                 neighbors_within_distance, qunit, status>>

Next == Rebuild \/ AddPoint \/ GetPoint \/ Move

Spec == Init /\ [][Next]_vars

-----------------------------------------------------------------------------
(* The units of the latest query result. *)
Found == {mylist[k] : k \in 0..neighbors_within_distance - 1}

(* Reference definition: the units whose position lies in the box that    *)
(* get_point tests, (x-d, x+d] x (y-d, y+d] around unit i.               *)
InBox(j, i, d) ==
  /\ x_values[i] - d < x_values[j] /\ x_values[j] <= x_values[i] + d
  /\ y_values[i] - d < y_values[j] /\ y_values[j] <= y_values[i] + d

TypeOK ==
  /\ x_values \in [Units -> Coord]
  /\ y_values \in [Units -> Coord]
  /\ tree \in [Slots -> Node]
  /\ end_pointer \in 1..N+1
  /\ items \in Permutations
  /\ inserted \in 0..N
  /\ queried \in 0..N
  /\ \A k \in DOMAIN mylist : mylist[k] \in Units
  /\ neighbors_within_distance \in Nat
  /\ qunit \in Units
  /\ iteration \in 0..MaxIter
  /\ pc \in {"rebuild", "insert", "query", "move", "done"}
  /\ status \in {"ok", "KeyError"}

(* add_point never runs past the N slots of self.tree: every insertion     *)
(* finds a free slot, and end_pointer, reset every iteration, never        *)
(* exceeds N.                                                              *)
NoKeyError == status = "ok" /\ end_pointer <= N

(* Once the tree is built, every unit sits in exactly one node: no node    *)
(* was overwritten, lost or inserted twice across the per-iteration        *)
(* rebuilds.                                                               *)
TreeHoldsEveryUnitOnce ==
  pc \in {"query", "move"} =>
    /\ \A p \in Slots : tree[p].id # 0
    /\ {tree[p].id - 1 : p \in Slots} = Units

(* Each get_point call, with the counter reset before it, reports exactly  *)
(* the units inside its box at the current positions, each once, although *)
(* the tree was built by pruned descents from positions that change every *)
(* iteration.                                                              *)
QueryMatchesBox ==
  queried > 0 /\ pc \in {"query", "move"} =>
    /\ Found = {j \in Units : InBox(j, qunit, QueryRange(qunit))}
    /\ Cardinality(Found) = neighbors_within_distance

=============================================================================
