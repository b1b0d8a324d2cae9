------------------------------- MODULE Ledger -------------------------------
(***************************************************************************)
(* What the chain of a node promises to the other nodes, without outputs   *)
(* database, index and difficulty state: a stack of blocks, each of which  *)
(* is accepted by a node that knows the blocks below it and nothing else.  *)
(* How a transaction is checked by itself, and how targets follow from one *)
(* another, is left open.                                                  *)
(***************************************************************************)
EXTENDS Naturals, Sequences

CONSTANTS
  Spends(_),    \* outputs that a transaction takes
  Creates(_),   \* outputs that it brings into being
  IsReward(_),  \* it mints coins
  Lawful(_, _, _), \* it may stand in this block at this height, by its contents
  Mined(_),     \* the block meets the target it names and is not too long
  BlockHash(_),
  GenesisHash,
  StartingDifficulty,
  NextBlockDifficulty(_, _, _),  \* target, timestamps of the last two blocks
  NextTxDifficulty(_, _)         \* target, number of transactions

VARIABLES
  chain         \* the blocks, first to last

TxsIn(c) == UNION {{c[h].body.txs[k] : k \in DOMAIN c[h].body.txs} : h \in DOMAIN c}
CreatedBelow(c) == UNION {Creates(t) : t \in TxsIn(c)}
SpentBelow(c) == UNION {Spends(t) : t \in TxsIn(c)}
Unspent(c) == CreatedBelow(c) \ SpentBelow(c)

Linked(c, b) == b.prev = IF c = <<>> THEN GenesisHash ELSE BlockHash(c[Len(c)])

\* The targets are a function of the blocks, but for the block target of the second
\* block: it depends on whether a first block was popped before.
Retargeted(c, b) ==
  LET n == Len(c) IN
  /\ n = 0 => b.body.bd = StartingDifficulty /\ b.body.td = StartingDifficulty
  /\ n > 0 => b.body.td = NextTxDifficulty(c[n].body.td, Len(c[n].body.txs))
  /\ n > 1 => b.body.bd = NextBlockDifficulty(c[n].body.bd, c[n - 1].body.ts, c[n].body.ts)

\* Every transaction is lawful, new and spends outputs that are unspent below the block
\* and not spent by another one of the block; one at most is a reward.
Payable(c, b) ==
  LET txs == b.body.txs IN
  /\ \A k \in DOMAIN txs : /\ Lawful(txs[k], b, Len(c))
                           /\ txs[k] \notin TxsIn(c)
                           /\ Spends(txs[k]) \subseteq Unspent(c)
  /\ \A k, m \in DOMAIN txs : k # m => /\ txs[k] # txs[m]
                                       /\ Spends(txs[k]) \cap Spends(txs[m]) = {}
                                       /\ ~(IsReward(txs[k]) /\ IsReward(txs[m]))

Init == chain = <<>>

Extend ==
  LET b == chain'[Len(chain')] IN
  /\ chain' # <<>>
  /\ chain' = Append(chain, b)
  /\ Linked(chain, b) /\ Retargeted(chain, b) /\ Mined(b) /\ Payable(chain, b)

Undo ==
  /\ chain # <<>>
  /\ chain' = SubSeq(chain, 1, Len(chain) - 1)

Next == Extend \/ Undo

Spec == Init /\ [][Next]_chain
=============================================================================
