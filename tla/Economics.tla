----------------------------- MODULE Economics -----------------------------
(***************************************************************************)
(* The monetary rules of src/core/economics.rs.  Amounts are counted in    *)
(* nano-coins; the real initial reward (10^10 nano) does not fit TLC's     *)
(* integers, so it is a constant, as are the counts of blocks and          *)
(* transactions a small instance has to reach.                             *)
(***************************************************************************)
EXTENDS Integers, Functions

CONSTANTS
  InitialReward,     \* INITIAL_REWARD
  HalvingInterval,   \* HALVING_INTERVAL, blocks per halving
  TxTarget           \* TX_TARGET, transactions aimed at per block

ASSUME EconomicsAssumption ==
  /\ InitialReward \in Nat
  /\ HalvingInterval \in Nat \ {0}
  /\ TxTarget \in Nat

MinReward == 1           \* MIN_REWARD
DevFeePercent == 2       \* DEV_FEE
TargetTime == 35         \* TARGET_TIME, seconds
ExpirationTime == TargetTime * 10

\* `u64 >> n` in a release build takes the shift modulo the width of the word.
U64Bits == 64
ShiftRight(x, n) ==
  LET shifted[k \in 0..(U64Bits - 1)] == IF k = 0 THEN x ELSE shifted[k - 1] \div 2
  IN  shifted[n % U64Bits]

GetBlockReward(height) ==
  LET reward == ShiftRight(InitialReward, height \div HalvingInterval)
  IN  IF reward > MinReward THEN reward ELSE MinReward

CalculateDevFee(reward) == (reward * DevFeePercent) \div 100

\* Sum of the rewards of the heights below `height`.
TotalReward(height) == SumFunction([h \in 0..(height - 1) |-> GetBlockReward(h)])
=============================================================================
