----------------------------- MODULE MCMempool -----------------------------
(* t1 and t2 spend the same coin; t3 spends another one, and its id is too  *)
(* large for a pool that is half full.                                      *)
EXTENDS Mempool

CONSTANTS x, y

MCTx == {"t1", "t2", "t3"}
MCInputs == [t1 |-> {"c1"}, t2 |-> {"c1", "c2"}, t3 |-> {"c3"}]
MCPow == [t1 |-> 10, t2 |-> 10, t3 |-> 60]
MCBlocks == {{"t2", "t3"}}
=============================================================================
