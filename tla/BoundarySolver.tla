--------------------------- MODULE BoundarySolver ---------------------------
(***************************************************************************)
(* The dynamic program that chooses the internal boundaries of an episode: *)
(* close to where each was reported, and with the length each subtask      *)
(* usually has.  The plan module runs it on an answer of the model, the    *)
(* calibration tool on the recorded answers it is fitted to.               *)
(***************************************************************************)
EXTENDS Integers, FiniteSets, FiniteSetsExt

CONSTANTS
  GridStep,    \* spacing of the points the solver may choose
  FitCost,     \* price of a tick away from the reported start
  LengthCost   \* price of a tick away from the expected length

ASSUME SolverAssumption ==
  GridStep \in Nat \ {0} /\ FitCost \in Nat \ {0} /\ LengthCost \in Nat

Abs(x) == IF x < 0 THEN -x ELSE x

Grid(first, last) == {t \in first .. last : (t - first) % GridStep = 0}

Fit(aim, t)         == FitCost * Abs(t - aim)
Gap(want, from, to) == LengthCost * Abs(to - from - want)
Minimizers(costs)   ==
  LET least == Min({costs[x] : x \in DOMAIN costs})
  IN  {x \in DOMAIN costs : costs[x] = least}

(* The cheapest way to start label i at t, with every label before it      *)
(* placed no later.  aim has the reported start of every label but label   *)
(* 0, want the expected length of every label.                             *)
Cheapest(grid, aim, want) ==
  LET cost[i \in DOMAIN aim] ==
        [t \in grid |-> Fit(aim[i], t) +
           IF i = 1 THEN Gap(want[0], Min(grid), t)
           ELSE Min({cost[i - 1][u] + Gap(want[i - 1], u, t) : u \in {v \in grid : v <= t}})]
  IN  cost

(* Every start before the last is as cheap as any before the next one.     *)
ReadBack(grid, cost, want, b) ==
  \A i \in DOMAIN b \ {1} :
    b[i - 1] \in Minimizers([u \in {v \in grid : v <= b[i]} |->
                             cost[i - 1][u] + Gap(want[i - 1], u, b[i])])

(* Mistakes in a definition are named Bug...; nothing uses one.            *)
(* The length of the last subtask costs nothing.                           *)
BugFreeTail(first, last, aim, want) ==
  LET grid  == Grid(first, last)
      cost  == Cheapest(grid, aim, want)
      final == Max(DOMAIN aim)
  IN  {b \in [DOMAIN aim -> grid] :
         b[final] \in Minimizers(cost[final]) /\ ReadBack(grid, cost, want, b)}

(* The starts are read back from the last one; which of two equal minima   *)
(* is met first depends on rounding.                                       *)
Solutions(first, last, aim, want) ==
  LET grid  == Grid(first, last)
      cost  == Cheapest(grid, aim, want)
      final == Max(DOMAIN aim)
      ends  == Minimizers([t \in grid |-> cost[final][t] + Gap(want[final], t, last)])
  IN  {b \in [DOMAIN aim -> grid] : b[final] \in ends /\ ReadBack(grid, cost, want, b)}
=============================================================================
