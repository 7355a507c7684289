------------------------------ MODULE PotsOfGold ------------------------------
(***************************************************************************)
(* maximize_gold.py: the script builds Solution(p, 'A'), solves it, then  *)
(* builds Solution on the pots A's first move leaves, for B, and solves   *)
(* that (lines 86-90).  One Solution is live at a time; its fields are    *)
(* variables.  maximize_coins fills mem and strategy one (span, i) per    *)
(* step, and solve() replays the strategy one pick per step.  Pots are    *)
(* indexed from 0 as in the code: At(q, k) is q[k].                        *)
(***************************************************************************)
EXTENDS Integers, Sequences, FiniteSets, Functions, TLC

CONSTANTS
  Vals,     \* the coin counts a pot may hold
  MaxPots   \* the most pots in the script's list p

ASSUME Vals \subseteq Nat /\ MaxPots \in Nat \ {0}

VARIABLES
  p,          \* the script's list p
  who,        \* the name of the live Solution: "A" or "B"
  pots, player, mem, strategy, coins,  \* its fields
  span, i, j, \* loop variables of maximize_coins, and i, j of solve()
  wins,       \* wins[name]: the coins solve() printed for that name
  pc

vars == <<p, who, pots, player, mem, strategy, coins, span, i, j, wins, pc>>

At(q, k) == q[k + 1]

(* '_', the mark of a pot the Solution does not take. *)
Blank == -1
n == Len(pots)
Total(q) == SumFunctionOnSet(q, DOMAIN q)

(* Solution.__init__ (lines 29-35): the fields of a Solution on pots q. *)
Fields(q) ==
  [pots     |-> q,
   player   |-> Len(q) % 2,
   mem      |-> [c \in {<<k, k>> : k \in 0..Len(q)-1} |-> At(q, c[1]) * (Len(q) % 2)],
   strategy |-> <<>>,
   coins    |-> [k \in 1..Len(q) |-> Blank]]

(* The live Solution becomes f, and maximize_coins starts. *)
Become(f) ==
  /\ pots' = f.pots /\ player' = f.player /\ mem' = f.mem
  /\ strategy' = f.strategy /\ coins' = f.coins
  /\ span' = 1 /\ i' = 0

Init ==
  /\ p \in UNION {[1..m -> Vals] : m \in 1..MaxPots}
  /\ who = "A"
  /\ LET f == Fields(p)
     IN  /\ pots = f.pots /\ player = f.player /\ mem = f.mem
         /\ strategy = f.strategy /\ coins = f.coins
  /\ span = 1 /\ i = 0 /\ j = 0
  /\ wins = <<>>
  /\ pc = "maximize"

-----------------------------------------------------------------------------
(* A bug variant of MaxTurn that reads the parity off span, not span + 1. *)
MaxTurnShifted(s, pl) == s % 2 = pl

(* Line 42: the span of span + 1 pots is the Solution's own turn. *)
MaxTurn(s, pl) == (s + 1) % 2 = pl

(* Lines 42-59 for one (span, i), then the next i or the next span. *)
MaxCell ==
  /\ pc = "maximize"
  /\ span < n
  /\ LET hi  == i + span
         own == MaxTurn(span, player)
         x   == mem[<<i, hi - 1>>] + (IF own THEN At(pots, hi) ELSE 0)
         y   == mem[<<i + 1, hi>>] + (IF own THEN At(pots, i) ELSE 0)
         takeHi == IF own THEN x >= y ELSE x < y
     IN  /\ strategy' = (<<i, hi>> :> IF takeHi THEN hi ELSE i) @@ strategy
         /\ mem' = (<<i, hi>> :> IF takeHi THEN x ELSE y) @@ mem
  /\ IF i + 1 < n - span
     THEN i' = i + 1 /\ span' = span
     ELSE i' = 0 /\ span' = span + 1
  /\ UNCHANGED <<p, who, pots, player, coins, j, wins, pc>>

(* Lines 64-67, once maximize_coins is done: print mem[(0, n-1)]. *)
SolveBegin ==
  /\ pc = "maximize"
  /\ span >= n
  /\ wins' = (who :> mem[<<0, n - 1>>]) @@ wins
  /\ i' = 0
  /\ j' = n - 1
  /\ pc' = "replay"
  /\ UNCHANGED <<p, who, pots, player, mem, strategy, coins, span>>

(* A bug variant of Collects that marks every pick as the Solution's own. *)
CollectsEvery(lo, hi, pl) == TRUE

(* Line 69: the pick at pots i..j is the Solution's own. *)
Collects(lo, hi, pl) == (hi - lo + 1) % 2 = pl

(* A bug variant of PickedPot that reads pots[i], the left end, for pot idx. *)
PickedPotLeft(idx, lo) == lo

(* Line 71: the pot whose coins self.coins[idx] records. *)
PickedPot(idx, lo) == idx

(* Lines 68-77: one pick of the replay, by either side. *)
Replay ==
  /\ pc = "replay"
  /\ i # j
  /\ LET idx == strategy[<<i, j>>]
     IN  /\ coins' = IF Collects(i, j, player)
                     THEN [coins EXCEPT ![idx + 1] = At(pots, PickedPot(idx, i))] ELSE coins
         /\ IF idx = i THEN i' = i + 1 /\ j' = j ELSE j' = j - 1 /\ i' = i
  /\ UNCHANGED <<p, who, pots, player, mem, strategy, span, wins, pc>>

(* Line 78: the last pot goes to the Solution when n is odd. *)
ReplayEnd ==
  /\ pc = "replay"
  /\ i = j
  /\ coins' = IF player = 1 THEN [coins EXCEPT ![i + 1] = At(pots, i)] ELSE coins
  /\ pc' = "return"
  /\ UNCHANGED <<p, who, pots, player, mem, strategy, span, i, j, wins>>

(* A bug variant of NextSlice that keeps the pot A took. *)
NextSliceSwapped(first, len) == IF first = 0 THEN <<0, len - 1>> ELSE <<1, len>>

(* Lines 82-83: the slice bounds of the pots left after the first move. *)
NextSlice(first, len) == IF first = 0 THEN <<1, len>> ELSE <<0, len - 1>>

(* Line 81 and the return, then line 89 for A's move: B's Solution on     *)
(* p[move[0]:move[1]].  strategy[(0, n-1)] is a KeyError for one pot.      *)
Return ==
  /\ pc = "return"
  /\ IF <<0, n - 1>> \notin DOMAIN strategy
     THEN pc' = "KeyError" /\ UNCHANGED <<who, pots, player, mem, strategy, coins, span, i>>
     ELSE LET move == NextSlice(strategy[<<0, n - 1>>], n)
          IN  IF who = "A"
              THEN /\ who' = "B"
                   /\ Become(Fields(SubSeq(p, move[1] + 1, move[2])))
                   /\ pc' = "maximize"
              ELSE /\ pc' = "done"
                   /\ UNCHANGED <<who, pots, player, mem, strategy, coins, span, i>>
  /\ UNCHANGED <<p, j, wins>>

Next == MaxCell \/ SolveBegin \/ Replay \/ ReplayEnd \/ Return

Spec == Init /\ [][Next]_vars

-----------------------------------------------------------------------------
(* The game: the coins the first mover gets from pots lo..hi of q with   *)
(* both sides playing their best, when it is (or is not) its turn.        *)
RECURSIVE FirstGets(_, _, _, _)
FirstGets(q, lo, hi, ownTurn) ==
  IF lo = hi THEN (IF ownTurn THEN At(q, lo) ELSE 0)
  ELSE IF ownTurn
       THEN LET l == At(q, lo) + FirstGets(q, lo + 1, hi, FALSE)
                r == At(q, hi) + FirstGets(q, lo, hi - 1, FALSE)
            IN  IF l >= r THEN l ELSE r
       ELSE LET l == FirstGets(q, lo + 1, hi, TRUE)
                r == FirstGets(q, lo, hi - 1, TRUE)
            IN  IF l <= r THEN l ELSE r

(* The first mover is to move on lo..hi when an even number of pots has   *)
(* been taken from the whole row.                                          *)
OwnTurn(q, lo, hi) == (Len(q) - (hi - lo + 1)) % 2 = 0

Collected == SumFunctionOnSet([k \in {x \in DOMAIN coins : coins[x] # Blank} |-> coins[k]],
                              {x \in DOMAIN coins : coins[x] # Blank})

TypeOK ==
  /\ pc \in {"maximize", "replay", "return", "KeyError", "done"}
  /\ who \in {"A", "B"}
  /\ \A k \in DOMAIN coins : coins[k] \in {Blank, pots[k]}
  /\ \A c \in DOMAIN strategy : strategy[c] \in {c[1], c[2]}

(* The docstring's meaning of mem: every entry mem[(i, j)] is the coins  *)
(* the Solution's player gets from pots[i:j+1] under best play of both,   *)
(* the parity test of line 42 giving the right side the move.              *)
MemIsMinimax ==
  \A c \in DOMAIN mem : mem[c] = FirstGets(pots, c[1], c[2], OwnTurn(pots, c[1], c[2]))

(* The strategy solve() prints is the one that wins the printed coins:     *)
(* replaying the strategy table for both sides, the pots marked in coins   *)
(* add up to mem[(0, n-1)].                                                 *)
CoinsMatchWins == pc = "return" => Collected = wins[who]

(* The script's closing claim: what A wins and what B then wins on the    *)
(* pots A's first move leaves add up to all the coins.                     *)
SplitsTotal == pc = "done" => wins["A"] + wins["B"] = Total(p)

(* The docstring's base case, an array of one pot, is solved like any     *)
(* other: solve() never fails.                                              *)
SolveNeverRaises == pc # "KeyError"
=============================================================================
