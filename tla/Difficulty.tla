----------------------------- MODULE Difficulty -----------------------------
(***************************************************************************)
(* The retargeting arithmetic of src/core/difficulty.rs.                   *)
(*                                                                         *)
(* A difficulty is a target in 0..MaxTarget (2^256 - 1 in the code): a     *)
(* larger target is easier.  The f64 ratios are given as the integers they *)
(* are truncated to; where binary rounding puts the product one unit below *)
(* the exact quotient the value is listed.                                 *)
(***************************************************************************)
EXTENDS Economics

CONSTANTS
  MaxTarget,     \* max_256_bui()
  Scip2          \* SCIP_2_MIGRATION, the timestamp the new rule starts after

ASSUME DifficultyAssumption ==
  /\ MaxTarget \in Nat
  /\ Scip2 \in Nat

Target == 0..MaxTarget

Clamp(lo, x, hi) == IF x < lo THEN lo ELSE IF x > hi THEN hi ELSE x
SaturatingSub(a, b) == IF a > b THEN a - b ELSE 0

\* (1 - clamp((35 - actual) / 35 / 64, -0.05, 0.05)) * 10^6, as u64.
AdjustScale == 1000000
TimeScaled(actual) ==
  LET rounding == IF actual \in {56, 91, 126} THEN 1 ELSE 0
  IN  Clamp(950000,
            (7 * AdjustScale - 3125 * (TargetTime - actual)) \div 7 - rounding,
            1050000)

\* clamp(elapsed / 20, 0.8, 1.2) * 1000, as u64.
TimeRatio(elapsed) == Clamp(800, 50 * elapsed, 1200)

\* Mutant: the new target is not brought back into range.
NextBlockDifficultyUnclamped(bd, lastTs, ts) ==
  LET elapsed == SaturatingSub(ts, lastTs)
  IN  IF ts > Scip2
      THEN (bd * TimeScaled(IF elapsed > 1 THEN elapsed ELSE 1)) \div AdjustScale
      ELSE (bd * TimeRatio(elapsed)) \div 1000

\* The block target after a block of timestamp ts, the previous one at lastTs.
NextBlockDifficulty(bd, lastTs, ts) ==
  LET elapsed == SaturatingSub(ts, lastTs)
      post == (bd * TimeScaled(IF elapsed > 1 THEN elapsed ELSE 1))
                \div AdjustScale
      pre  == (bd * TimeRatio(elapsed)) \div 1000
  IN  Clamp(0, IF ts > Scip2 THEN post ELSE pre, MaxTarget)

\* clamp(TX_TARGET / max(n, 1), 0.8, 1.2) * 1000, as u64.
TxRatio(n) == Clamp(800, (1000 * TxTarget) \div (IF n > 1 THEN n ELSE 1), 1200)

NextTxDifficulty(td, n) == Clamp(0, (td * TxRatio(n)) \div 1000, MaxTarget)

\* Transaction counts for which (1 + 0.005 * n) * 1000 truncates low in f64.
RoundedDown ==
  {1, 3, 72, 97, 118, 122, 143, 147, 168, 172, 193, 197, 202, 211, 219, 236,
   244, 261, 269, 286, 294, 311, 319, 336, 344, 361, 369, 386, 394}

\* The target a block of n transactions has to meet.
CalculateBlockDifficulty(bd, n) ==
  LET scale == 1000 + 5 * n - (IF n \in RoundedDown THEN 1 ELSE 0)
  IN  Clamp(0, (bd * scale) \div 1000, MaxTarget)
=============================================================================
