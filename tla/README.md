# TLA+ models of CodeSamples

This directory holds TLA+ models of the repository's Python code. Most of them
cover the Dorling cartogram engine (`src/DorlingAlgProj/script/dorlingcartogram.py`,
class `Cartogram`). Five small algorithm programs under `src/OtherCoding/`
have a module each. Each model is checked with TLC.

## 1. Inventory

### Dorling cartogram engine (`dorlingcartogram.py`)

The engine runs on one thread. `make()` runs a fixed sequence of phases. The
program has no concurrency. What makes it hard is the order of the phases, a
set of object-wide accumulators, index arithmetic at boundaries, and real
arithmetic that can divide by zero.

| Component | State it keeps | Operations | Interacts with |
|---|---|---|---|
| Unit store (`__init__`) | `queryset`, `index_to_key`, `x_values`, `y_values`, `x_vectors`, `y_vectors`, `data_values` | loading, index assignment (97-133) | read by every other component |
| Proximity weight table (`__init__` 138-158) | `proximities[(i, j)]` | built once: normalised inverse anchor distance | read by the attraction force |
| Radius and scale initialisation (`make` 212-254) | `total_distance`, `total_radius`, `scale`, `radius_values`, `widest_radius`, `neighbors` lists | neighbor filtering, scale, radii | radii are used by the index range, the forces and the evaluator |
| Spatial index (`add_point`, `get_point`) | `tree`, `end_pointer`, `mylist`, `neighbors_within_distance` | rebuilt at every iteration (261-263), queried once per unit (272-274) | positions come from the integrator; results go to the repulsion force |
| Force model (`make` 275-354) | per-unit locals: `xrepel`, `xattract`, `closest`, ... | repulsion, attraction, anchor pull, clamp and blend | reads the query result, the proximities and the positions |
| Integrator and loop (`make` 260, 355-383, 432) | `x_vectors`, `y_vectors`, positions, `displacement`, `out_data`, bounding box | velocity update, position update, sampling, convergence break | drives every other component once per iteration |
| Constraint evaluator (`eval_constraints`, `isneighbor`) | none (returns a score) | score of the current layout | called once per iteration (426); its last value is the result of `make()` |
| I/O and drivers (`load_data_from_json`, `make_json_from_dict`, `main`, `objectivefn`) | files; `objectivefn`'s `optimal`, `best` | read the dataset, write the results; `objectivefn` runs `make()` on a new `Cartogram` per candidate `positionratio` and returns the best | the I/O is out of scope (spec section 1); `objectivefn` is modelled (`ObjectiveSearch`) |

What is hard in this code, and what makes each part correct:

* **Spatial index.** The tree lives in a dict with exactly `n` slots. Slots are
  allocated by `end_pointer`. A node's id is the index + 1, because 0 marks an
  empty slot. The tree is rebuilt from the moved positions at every
  iteration. Every query writes into the object-wide `mylist` and counter.
  The counter must be reset before each query.
  *Correct when:* insertion never runs past the `n` slots; after a build,
  every unit is in the tree exactly once; every query returns exactly the units
  in its box at the current positions.
* **Force model.** The repulsion divides by `dist`, which is 0 for coincident
  units. `closest` is lowered by every candidate in the box. The clamp
  rescales a vector to `closest*v/(|v|+1)` and then sets `repdst = closest`.
  The blend is asymmetric.
  *Correct when:* no step is longer than `closest`; no division by zero happens
  inside the loop (the spec says none can).
* **Integrator and loop.** Velocities are updated inside the per-unit force
  loop, but positions only in the later loop. Every force must therefore see
  the positions at the start of the iteration. Convergence is decided on forces
  computed before the final move. `optimize_value` is only bound once the loop
  has run at least once. Snapshots are taken every `ANIMATION_STEPS`
  iterations, and the bounding box covers only those.
  *Correct when:* the loop stops by the cap or by convergence, and `make()`
  then returns a score; forces come from one snapshot; the bounding box covers
  every recorded position.
* **Radius and scale.** `scale = total_distance / total_radius` divides by zero
  when no unit has a neighbor. Spec section 8 uses that case as a scenario.
* **Constraint evaluator.** The pair loops run `i` over `0..n-2` and `j` over
  `i+1..n-1`. The anchor test sits in the outer loop. `isneighbor` is
  directional.
  *Correct when:* it counts each pair once and every unit's anchor deviation,
  as spec section 4.6 says.

### Other programs (`src/OtherCoding/`)

Each is a single-threaded script holding one algorithm. Its state is that
algorithm's loop variables and tables:

* `LevenshteinDistance.py`: recursive, full-table and two-row DP.
* `longest_increasing_subsequence.py`: O(n^2) DP, and binary search over `M`
  with predecessor links.
* `maximize_gold.py`: a minimax DP over spans, then replaying the strategy.
* `find_smallest_range.py`: a heap of the k list heads. It returns the window
  where the loop stops, not the smallest one it recorded: for `[[1,2],[1,100]]`
  it returns `(2, 100)`.
* `fortuneOrRuin.py`: a memoised recursion over float cash values
  (`findp`, called by `printresult`), and a closed form with logarithms
  (`findOutcome`, the one the script runs).

*Correct when:* each result equals the definition of the problem. This is
checked against a reference definition over bounded inputs.

## 2. Plan

The modules, in order of importance:

1. `SpatialIndex` (done): the tree build, allocation and query over
   iterations, with moves between them.
2. `ConstraintEvaluator` (done): the score.
3. `Engine` (done): the setup and the iteration loop on **collinear layouts**,
   where all latitudes are equal. See section 3. Asymmetric neighbor
   tables are not modelled (see section 5). The loop can stop by
   convergence while units still move: TLC reaches displacement 0 at
   iteration 4 with velocities -35, 18 and 17 (in 1/1024). The spec asks
   only for the stop on displacement, so no property is stated about the
   final layout.
4. `IterationAbstract` (done): the abstract loop is "one atomic Jacobi step
   per iteration". `Engine`'s per-unit steps are shown to implement it under
   `INSTANCE ... WITH` in `MC_Engine`, checked in the `engine` run.
5. `ObjectiveSearch` (done): `objectivefn`'s loop of `make()` calls on
   fresh objects, composed with `Engine` in the same run.
6. The `OtherCoding` algorithms, one module each, as RECURSIVE or loop state
   machines checked against reference definitions: `SmallestRange` (done:
   the return value bug), `LongestIncreasingSubsequence` (done: `solve_dp`
   on one element, recorded as a hazard), `Levenshtein` (done), `PotsOfGold`
   (done: one pot), `FortuneOrRuin` (done: both solutions print wrong
   verdicts).

## 3. Modules and runs

### `SpatialIndex` (+ `MC_SpatialIndex`)

How the model corresponds to the code:

* **Variables.** They are the code's fields: `tree`, `end_pointer`, `mylist`,
  `neighbors_within_distance`, `x_values`, `y_values`. Besides these:
  * `items` is the dict iteration order, chosen at Init as any permutation;
  * `inserted` and `queried` are the two `for k in self.queryset` loops;
  * `pc` is the phase;
  * `status` records a KeyError.
* **Recursion.** `add_point` and `get_point` are RECURSIVE operators
  (`AddPointRec`, `GetPointRec`). Each call of the code is one action:
  * `Rebuild` is lines 260-262;
  * `AddPoint` is line 263 for one unit;
  * `GetPoint` is lines 272-274;
  * `Move` is the position update, abstracted to any new positions on the
    grid.
* **Positions.** They are integers, which is enough: the index only compares
  coordinates.

Runs:

* `index`, with `SpatialIndex.cfg`: 3 units of radius 1 (query range 2), a
  3 x 3 grid, all 6 insertion orders, 2 iterations. The state space has 6.7M
  states. The range of 2 on a grid of width 2 puts a box edge exactly on grid
  points, so both pruning tests take both outcomes. It checks:
  * `NoKeyError`: insertion never runs past the `n` slots;
  * `TreeHoldsEveryUnitOnce`: after a build, every unit is in the tree once;
  * `QueryMatchesBox`: every query returns exactly its box.
* A note on the box. Spec section 4.3 says a query returns the closed box.
  `get_point` uses `x - R < xpos`, so its box is half-open (`InBox`). It
  leaves out a unit exactly `R` below. This has no effect on repulsion,
  because such a unit is at distance `>= R >= r_u + r_o`. It does contradict
  the spec's `R = 0` property. The model states the box the code tests; the
  divergence is recorded here and not as a run of its own.

### `ConstraintEvaluator` (+ `MC_ConstraintEvaluator`)

`eval_constraints` is modelled as one action over a layout chosen at Init. The
layout is any positions on a 4 x 4 grid, with any symmetric neighbor table.
Every distance is compared through its square. The score is kept in tenths.

Runs:

* `evaluator`, with `ConstraintEvaluator.cfg`: the type invariant over
  every layout on the 4x4 grid and every symmetric table. Its pair terms
  are not checked separately: on symmetric tables they would only restate
  that the two loops visit every unordered pair once.
* `evaluator_score`, with `ConstraintEvaluatorScore.cfg`: a violation run.
  Section 4.6 counts every unit off its anchor. The code never tests unit
  `n-1`, because the test sits in the outer pair loop `xrange(n-1)`.

### `Engine` (+ `FixedPoint`, `MC_Engine`)

`Engine` models `__init__`'s proximity table and the whole of `make()` on
collinear datasets, where every unit has the same latitude. There every
y-force is 0 and every distance is `|x_i - x_j|`, so no square root is needed.
A unit's value is `pi * S^2` with `S` in `SChoices`, so `sqrt(value/pi)` is
exactly `S`.

* **Arithmetic.** Floats are modelled as fixed point (`FixedPoint`): a number
  `v` is the integer `v * Unit`, with `Unit = 1024`. Products and quotients are
  truncated toward zero. Exact rationals were tried first; their numerators
  overflow TLC's integers by the second iteration. Truncation toward zero never
  increases a magnitude, so it cannot hide a step longer than `closest`. A
  comparison within `1/1024` of its bound may still go another way than in
  the float code.
* **Variables.** They are the code's fields and locals: `radius`, `widest`,
  `x_values`, `x_vectors`, `displacement`, `out_idx`, the bounding box `box`,
  `optimize_value`. Besides these:
  * `k` is the unit the force loop is at;
  * `step[i]` records unit `i`'s blended force and its `closest`;
  * `sampled` is every longitude written into `out_data`;
  * `status` is the exception `make()` raised, if any.
* **Actions.**
  * `Setup` is lines 207-254: neighbor sums, scale, radii, `widest_radius`.
    When no unit has a neighbor, `total_radius = 0` and it raises.
  * `ForceStep` is one pass of the per-unit loop (270-357): query result,
    repulsion, attraction, anchor pull, clamp and blend, velocity and
    displacement. The query result is the half-open box that `SpatialIndex`
    shows the tree returns.
  * `EndIteration` is 359-433: the moves, the sample and bounding box every
    `Stride` iterations, `eval_constraints`, and the convergence break or
    the cap.
* **Inputs.** `Dataset` enumerates every dataset of `N` units: every anchor
  choice, shared anchors included, every size, and every symmetric neighbor
  table. A shared anchor makes `1.0/dist` of `__init__` (line 146) raise
  (`ProximityRaises`). The spec treats this as a fatal precondition.
* **Construction.** `Constructed(pr)` is the state `__init__` leaves with
  `positionratio = pr`, and `Construct(pr)` is the same construction as a
  caller's step. `positionratio` is a variable because `objectivefn` builds
  one `Cartogram` per candidate.

### `ObjectiveSearch`

`objectivefn(xar)` (lines 26-38) extends `Engine`. It starts from the loaded
dataset and a `Cartogram` for `xar[0]`.

* `MakeStep` is any step of that `make()`.
* `NextCandidate` runs once `make()` has returned. It compares the objective
  with `optimal` using a strict `<`, appends the printed pair
  `<<x, objective>>` to `printed`, and builds a new `Cartogram` for the next
  candidate.
* `Return` does the same after the last candidate and returns `xar[best]`.
  When `best = -1` that is Python's `xar[-1]`.
* An exception of `make()` ends `objectivefn`: no step leaves such a state.

`xar` must not be empty. The list `main`'s choice 2 passes (`range(1, 0)`) is
empty, but that branch is dead code (hazard at line 38).

Runs:

* `engine`, with `Engine.cfg` on `MC_Engine`: `objectivefn` over the
  positionratios `<<1.3, 0>>`. Each is a full `make()` on 3 units, with
  anchors on 4 longitudes, sizes `{1, 3}`, 8 iterations and stride 2.
  * The other constants are those `objectivefn` and `main()`'s choice 1
    pass: friction 0.5, ratio 0.4, tolerances 0.001 and 0.01.
  * Under these bounds the repulsion clamp, the lone-attraction clamp, the
    blend of both forces, convergence, the cap and the setup error all
    occur. The two ratios tie on some datasets and differ on others.
  * The run has 78448 states. It checks:
  * `LoopNeverRaises`: no division by zero inside the loop (spec section 7).
    For shared anchors this rests on `__init__`'s raise: a proximity table
    that skipped zero distances would let the coincident units into the
    loop, and their repulsion divides by zero.
    Inside the loop this is a bounded result, not a general argument: two
    units that each move less than `closest` can still meet. TLC finds no
    such meeting within 8 iterations on these datasets.
  * `StepWithinClosest`: no blended force is longer than `closest`.
  * `RepulsionSeesOverlaps`: the range query of line 273 (`widest_radius`
    plus the unit's own radius, a box open on its lower side) returns every
    unit that overlaps the unit. No overlapping pair escapes the repulsion
    loop. A query with `widest_radius` alone breaks it.
  * `BoxCoversSamples`: the returned bounding box covers every sampled
    position of every sampled iteration.
  * `ReturnsBestRatio`: `objectivefn` returns the candidate with the least
    printed objective, the first of them on a tie. A `<=` in line 34 breaks
    it.
  * `JacobiIterations`: every `make()` implements `IterationAbstract`
    (below), each starting from a new object.
* `engine_scale`, with `EngineScale.cfg` (one candidate, the constants of
  `engine`): a violation run of `ScaleDefined`, "Setup does not raise on a
  dataset of positive values". Spec section 8 runs three units with no shared
  neighbors to the end. In the code, `total_radius` sums only over neighbor
  entries, so such a dataset has `total_radius = 0`. The scale division of
  line 239 then raises before the loop starts. TLC's trace is one Setup step
  on empty neighbor lists.

### `IterationAbstract`, and the refinement in `MC_Engine`

`IterationAbstract` states what the loop of `make()` promises of positions
and velocities, apart from the force model. Each iteration is one atomic
Jacobi step:

* every velocity becomes `friction * (v + force)`, with every force taken on
  the layout the iteration started from;
* every unit then moves by its new velocity;
* the loop stops when the iteration's forces sum to at most
  `displacement_tolerance`, or at the cap.

The force field is an input of the abstract spec: its variables are `force`
and `raising`, and the `Sense` step changes them. `Start` is the setup
(failing or not), and `Raise` is the loop's zero-distance division.
`Restart` is a caller building a new object on the same units after a
`make()` has returned: the velocities and the iteration count start at zero.
`objectivefn`'s `NextCandidate` maps to it. A reused object would keep the
old velocities and break the refinement.

The refinement mapping has two parts:

* **Auxiliary variables in `MC_Engine`.**
  * `vStart` holds the velocities at the start of the current iteration.
    The code overwrites `x_vectors` unit by unit, so the mapping needs them.
  * `fEnd` holds, once the force loop is over, `Force` of every unit on the
    unmoved positions, computed once per iteration.
* **`Abstract`.** This is `INSTANCE IterationAbstract WITH x <- x_values,
  v <- vStart, force <- fEnd`, with `raising` and `phase` computed from
  `pc` and `status`. `raising` keeps its value after a repulsion raise, as
  the abstract `Raise` step requires. The engine run never raises there, so
  the mapping of that path was checked separately: a variant whose query
  returns the unit itself raises in the first force step, and it still
  refines `IterationAbstract`.

The force loop's per-unit steps are stuttering or `Sense` steps.
`EndIteration` is `Iterate`. The property `JacobiIterations` is
`Abstract!Spec`.

What the property shows: no unit's force reads a velocity or a position
updated earlier in the same iteration, and the exit test uses the
snapshot's forces. `ForcePositions` names the positions the force loop
reads. Its mutant `ForcePositionsMoved` moves each unit as soon as its
velocity is known, and TLC finds the refinement broken.

### `SmallestRange`

`find_smallest_range.py` keeps its state in the globals `pointer` (the heap),
`largest` and `smallest`.

* **The heap.** It is the set of its `(value, list #, index)` triples. The code
  reads only `pointer[0]`, the least triple in Python's tuple order
  (`HeapTop`), and the greatest value (`HeapMaxVal`, `nlargest`).
* **Actions.**
  * `Start` is the initialisation, lines 54-57.
  * `Step` is one pass of the `while` loop: `update()` then `get_range()`, or
    the break and the `return` of line 65.
* **Inputs.** `Init` enumerates every 3 sorted lists of length 1 to 3 on the
  values 0..3: 39304 inputs. They include ties between heads, lists of length
  1, and optima at a list's last element.
* **Reference.** `Optimum` is the problem's definition: the least `max - min`
  over every choice of one element from each list.

Runs:

* `smallest_range`, with `SmallestRange.cfg`. It checks:
  * `LargestIsHeapMax`: `largest` is the heap's maximum at every pass;
  * `SmallestIsOptimal`: every recorded range is at least the optimum, and at
    the break the recorded `smallest` equals it. The algorithm's search is
    therefore correct.
* `smallest_range_result`, with `SmallestRangeResult.cfg`: a violation run.
  The function returns the window at the break, not `smallest`. For
  `[1], [1], [0, 3]` it returns `(1, 3)`, although the range 1 was found.

### `LongestIncreasingSubsequence`

A `Solution` object is built on one sequence. It runs `solve_dp` or
`solve_optimal`, chosen at Init, and then `lis()`.

* **Loops.** Every loop of the code is a value of `pc`, and every pass is an
  action:
  * `solve_dp`: `DpBegin`, `DpOuter`, `DpInner` (one `j`), `DpEndI`;
  * `solve_optimal`: `OptOuter`, `OptSearch` (one binary-search pass),
    `OptPlace`, `OptFinish`;
  * `lis()`: `LisBegin`, `LisStep`.
* **Indexing.** Lists are read 0-based. A negative index counts from the end,
  as Python's does.
* **Inputs.** Every sequence of length 1 to 5 on the values 0..3. This covers
  repeats, which the strict comparison must reject, and descending runs.
* **Reference.** `LISLength` is the greatest length of a strictly increasing
  subsequence, taken over all subsequences.

Runs:

* `lis`, with `LongestIncreasingSubsequence.cfg`. It checks:
  * `TailsIncreasing`: the docstring's claim that `X[M[k]]` strictly increases
    with `k`;
  * `LengthIsLIS`: the method returns the LIS length, `solve_optimal` always
    and `solve_dp` on two or more elements;
  * `LisIsIncreasingSubsequence`: `lis()` returns a strictly increasing
    subsequence of that length, after either method;
  * `Termination` (under `FairSpec`): both methods and `lis()` return. This
    covers the binary search, whose `lo = mid + 1` with
    `mid = ceil((lo+hi)/2)` is what makes it end. `lo = mid` spins forever
    once `lo = hi`.

  `solve_dp` returns 0 for a one-element sequence, because `L` is only raised
  inside `for i in xrange(1, n)`. That is why `LengthIsLIS` leaves the case
  out; the hazard at line 36 records it.

### `Levenshtein`

`Solution(w1, w2).solve(method)` is modelled for each of the three methods,
chosen at Init.

* **Methods.**
  * `recursiveLD` is the RECURSIVE operator `RecursiveLD`, evaluated in one
    step (`Recursive`).
  * `iterativeLD` fills its table one cell per step (`IterInit`, `IterCell`,
    `IterReturn`).
  * `optimalLD` does the same on its two rows (`OptBegin` with the equality
    shortcut and the swap, `OptRow`, `OptCell`, `OptRowEnd`, `OptReturn`).
* **Inputs.** Every pair of words of up to 4 letters on two letters. This
  includes empty words, equal words and both length orders.
* **Reference.** `EditDistance` is the textbook recurrence on prefixes, with
  deletion, insertion and substitution.

Run `levenshtein`, with `Levenshtein.cfg`. It checks:

* `TableCellsAreDistances`: the docstring's meaning of the table, for every
  filled cell of either table;
* `AnswerIsEditDistance`: the answer equals the edit distance.

No divergence was found.

### `PotsOfGold`

The script builds `Solution(p, 'A')` and solves it. It then builds a
`Solution` on `p[move[0]:move[1]]` for B and solves that. `PotsOfGold`
models both.

* **Actions.**
  * `MaxCell` is one `(span, i)` of `maximize_coins`.
  * `SolveBegin`, `Replay` and `ReplayEnd` are `solve()`'s printed value and
    its replay of the strategy table.
  * `Return` is the first move, the `return`, and the script's construction
    of B's `Solution`.
* **Inputs.** Every row of 1 to 5 pots of 0-2 coins.
* **Reference.** `FirstGets` is the minimax value of the game, with the turn
  taken from how many pots are gone, not from the code's parity formula.

Runs:

* `pots_of_gold`, with `PotsOfGold.cfg`. It checks:
  * `MemIsMinimax`: every `mem` entry is the minimax value;
  * `CoinsMatchWins`: the replayed strategy marks pots that add up to the
    printed coins;
  * `SplitsTotal`: A's and B's wins add up to all coins, as the script's
    output claims.
* `pots_of_gold_one_pot`, with `PotsOfGoldOnePot.cfg`: a violation run.
  `solve()` reads `strategy[(0, n-1)]`, which is never filled for one pot.
  The script therefore fails for `p` of one pot, and for `p` of two pots,
  where B gets one.

### `FortuneOrRuin`

The script calls only `findOutcome` (line 86); lines 84-85, commented out,
would first solve the test case with the class (`printresult`, which calls
`findp`). `Methods` chooses which of the two the model runs, in that order.

* **Lattice.** Every cash value a game reaches is `cash * (3/2)^k`. A win
  is `k+1` and a loss is `k-1`, so the model tracks the integer `k`.
* **Bounds.** `lo` is the least `k` with `cash*(3/2)^k >= lower`, so
  `cash < lower` is `k < lo`. `hi` is the greatest `k` with
  `cash*(3/2)^k <= upper`, so `cash > upper` is `k > hi`.
* **On-lattice flags.** `lowerOn` and `upperOn` say whether a bound is
  exactly a lattice point.
* **Inputs.** Init enumerates every case up to `MaxLosses` losses and
  `MaxWins` wins from the end, with `lower <= upper`.
* **`findp`.** It is the RECURSIVE operator `FindP`. The operator threads
  `seenprobs`, `scales` and a raised `ZeroDivisionError` through the calls.
  Line 48's order is kept: the win branch, then the loss branch, then the
  read of `scales[cash]`. Its floats are exact rationals.
* **`findOutcome`.** When a bound is on the lattice, its logarithm quotient is
  a whole number only up to rounding. For example,
  `log(4/9)/log(2/3) = 1.9999999999999998`. `LogCeil` therefore lets the
  ceiling take either value rounding can give. `log(1.0)` is exactly 0.
* **Reference.** `Odds` is the gambler's-ruin probability of the fair walk:
  `(1-lo)/(hi-lo+2)`.

Run:

* `fortune_verdict`, with `FortuneOrRuinVerdict.cfg`: a violation run of
  `VerdictIsOdds` for `findOutcome`, the one solution the script calls
  (line 86).
  * **`findOutcome` (line 71).** It counts `ceil(...)` losses, but a loss
    that lands exactly on `lower` does not drop below it. TLC's trace is
    `9 4 14`, which prints "A fair game" where fortune has odds 3/5. By the
    same argument `4 4 5` prints "Player ruin" for a fair game.
  * **`findp` (line 43)** is reached only through `printresult`, which lines
    84-85 comment out. With `Methods = {"printresult"}` TLC finds the
    property broken too: its cycle correction `2**-depth` uses the depth of
    the revisit from the root, and `9 3.5 14` gives `p = 0.5` where the odds
    are 3/5. Running the file's code gives 0.5 as well. This is recorded as
    the hazard at line 43, not as a run.

## 4. Fairness

Each program runs in one thread, one statement after another, with no
waiting. While it has not returned, its next statement runs. So weak fairness
of the whole next-state relation, `WF_vars(Next)`, is what the code
guarantees; no strong fairness or per-action fairness is needed.

* `LongestIncreasingSubsequence` states it as `FairSpec` and checks
  `Termination == <>(pc = "done")`. Without fairness the specification
  would allow stopping anywhere.
* The loops of `make()` and `objectivefn` are bounded `for` loops
  (`range(self.iterations)`, `enumerate(xar)`), which end by construction.
  A termination property there would hold by the shape of the model, so it
  is not stated, and every other run checks safety only.

## 5. Not modelled, and why

* **File I/O and `main`.** These are glue code, out of scope per spec
  section 1. `main` picks a hard-coded `choice` and writes JSON.
  `objectivefn` is modelled, but only on non-empty lists, and every score of
  the model is below its `10e10`. So two of its paths are never reached:
  returning `xar[-1]` when nothing beats `10e10`, and raising on the empty
  list that `main`'s choice 2 builds. The hazard at line 38 records both.
* **Floating-point rounding.** `SpatialIndex` and `ConstraintEvaluator` use
  exact integers. `Engine` uses fixed point with `1/1024` truncation, which
  differs from IEEE rounding in the last bits.
* **General 2-D forces.** These need square roots of arbitrary values.
  `Engine` restricts the force model to collinear layouts, where no root is
  taken.
* **`out_data` layout.** The per-key snapshot dicts and `out_data['radius']`
  are output formatting; `Engine` keeps only the sampled longitudes.
* **Float cash keys in `fortuneOrRuin.py`.** `FortuneOrRuin` assumes that
  every cash value is exact, so that a win followed by a loss returns to the
  same memo key. Inputs whose products round apart in binary floating point
  are outside the model (hazard at line 39).
* **Asymmetric adjacency tables.** Spec section 2 describes the table as the
  adjacency of an undirected graph, so the runs enumerate symmetric tables
  only. With an asymmetric file, `isneighbor(i, j)` with `i < j` counts a
  link only when the higher unit lists it, while attraction reads each
  unit's own list (hazard at line 176).
* **Zero values.** Spec sections 4.2 and 7 make a non-positive `value` a
  fatal configuration error. The code raises for a negative value, in
  `math.sqrt` at line 249. A zero value passes and gives radius 0. The
  anchor pull of line 327 then divides by that radius, in the first
  iteration where the unit is off its anchor. The runs draw values from
  {1, 3}, so they do not reach this; it is listed as the hazard at line 327.
