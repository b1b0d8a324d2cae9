----------------------------- MODULE Blockchain -----------------------------
(***************************************************************************)
(* src/core/blockchain.rs: the chain, its unspent outputs and its          *)
(* difficulties, changed by add_block and pop_block only.  A call that     *)
(* returns an error before the first transaction is executed changes       *)
(* nothing and is not an action.                                           *)
(***************************************************************************)
EXTENDS BlockStore

CONSTANTS
  DevWallet,               \* DEV_WALLET
  MaxTransactionsPerBlock, \* MAX_TRANSACTIONS_PER_BLOCK
  TxLists,                 \* transaction lists that blocks are built from
  Timestamps,              \* timestamps blocks are given
  Pows,                    \* hashes, read as numbers, that miners reach
  FreshRewards,            \* reward ids never repeat along a chain
  MaxHeight                \* bound on the height explored

ASSUME BlockchainAssumption ==
  /\ MaxTransactionsPerBlock \in Nat
  /\ \A txs \in TxLists : txs \in Seq(Tx)
  /\ Timestamps \subseteq Nat
  /\ Pows \subseteq Target
  /\ FreshRewards \in BOOLEAN
  /\ MaxHeight \in Nat

VARIABLES
  block_difficulty,        \* DifficultyState
  transaction_difficulty,
  last_timestamp,
  snaps,                   \* history: the state each block was added to
  torn                     \* history: a pop_block stopped halfway

difficultyVars == <<block_difficulty, transaction_difficulty, last_timestamp>>
vars == <<utxos, storeVars, difficultyVars, snaps, torn>>

StartingDifficulty == MaxTarget

SnapshotType ==
  [utxos : SUBSET OutPoint, bd : Target, td : Target, ts : Nat, last : Hash]

\* What a test logs before every block, to compare with after a rollback.
Snapshot ==
  [utxos |-> utxos, bd |-> block_difficulty, td |-> transaction_difficulty,
   ts |-> last_timestamp, last |-> last_block]

Init ==
  /\ StoreInit
  /\ utxos = {}
  /\ block_difficulty = StartingDifficulty
  /\ transaction_difficulty = StartingDifficulty
  /\ last_timestamp = 0
  /\ snaps = <<>>
  /\ torn = FALSE

-----------------------------------------------------------------------------
\* Block::validate_difficulties
ValidDifficulties(b) ==
  /\ b.body.bd = block_difficulty
  /\ b.body.td = transaction_difficulty
  /\ b.body.pow <= CalculateBlockDifficulty(block_difficulty, Len(b.body.txs))

ValidTransactionTimestampInBlock(t, ts) ==
  /\ TxData[t].ts <= ts
  /\ TxData[t].ts + ExpirationTime >= ts

\* A reward transaction mints exactly the reward, and pays the developers.
ValidReward(t) ==
  /\ Len(Outs(t)) >= 2
  /\ OutputSum(t) = GetBlockReward(height)
  /\ \E i \in DOMAIN Outs(t) :
       Outs(t)[i] = [amount   |-> CalculateDevFee(GetBlockReward(height)),
                     receiver |-> DevWallet]

\* Mutant: two transactions of a block may spend the same output.
ValidTransactionsDoubleSpend(txs, ts) ==
  \A k \in DOMAIN txs :
    IF IsReward(txs[k])
    THEN /\ ValidReward(txs[k])
         /\ \A m \in DOMAIN txs : IsReward(txs[m]) => m = k
    ELSE /\ ValidTransaction(txs[k], transaction_difficulty)
         /\ ValidTransactionTimestampInBlock(txs[k], ts)

\* The transactions of a block, each against the state before the block.
ValidTransactions(txs, ts) ==
  /\ \A k \in DOMAIN txs :
       IF IsReward(txs[k])
       THEN /\ ValidReward(txs[k])
            /\ \A m \in DOMAIN txs : IsReward(txs[m]) => m = k
       ELSE /\ ValidTransaction(txs[k], transaction_difficulty)
            /\ ValidTransactionTimestampInBlock(txs[k], ts)
  /\ \A k, m \in DOMAIN txs :
       k # m => Spends(txs[k]) \cap Spends(txs[m]) = {}

ValidBlock(b) ==
  /\ ValidDifficulties(b)
  /\ b.prev = last_block
  /\ Len(b.body.txs) <= MaxTransactionsPerBlock
  /\ ValidTransactions(b.body.txs, b.body.ts)

\* DifficultyState::update_difficulty
UpdateDifficulty(b) ==
  /\ block_difficulty' =
       NextBlockDifficulty(block_difficulty, last_timestamp, b.body.ts)
  /\ transaction_difficulty' =
       NextTxDifficulty(transaction_difficulty, Len(b.body.txs))
  /\ last_timestamp' = b.body.ts

AddBlock(b) ==
  /\ ValidBlock(b)
  /\ ExecuteTransactions(b.body.txs)
  /\ UpdateDifficulty(b)
  /\ StoreAddBlock(b, DiffOf(b.body.txs))
  /\ snaps' = Put(snaps, height, Snapshot)
  /\ UNCHANGED torn

\* Mutants: the timestamp, or the transaction target, is not rolled back.
RecallDifficultyKeepsTimestamp(b) ==
  /\ block_difficulty' = b.body.bd
  /\ transaction_difficulty' = b.body.td
  /\ UNCHANGED last_timestamp
RecallDifficultyKeepsTxTarget(b) ==
  /\ block_difficulty' = b.body.bd
  /\ last_timestamp' = IF height > 1 THEN blockFile[height - 2].body.ts
                                     ELSE b.body.ts
  /\ UNCHANGED transaction_difficulty

\* The recalled block carries the difficulties it was mined at; the timestamp is
\* read from the new last block, if there is one.
RecallDifficulty(b) ==
  /\ block_difficulty' = b.body.bd
  /\ transaction_difficulty' = b.body.td
  /\ last_timestamp' = IF height > 1 THEN blockFile[height - 2].body.ts
                                     ELSE b.body.ts

PopBlock ==
  /\ height > 0
  /\ RecallBlockUtxos(diffFile[height - 1])
  /\ StorePopBlock
  /\ RecallDifficulty(blockFile[height - 1])
  /\ snaps' = Delete(snaps, height - 1)
  /\ UNCHANGED torn

\* pop_block returns the error of recall_block_utxos.
PopBlockFails ==
  /\ height > 0
  /\ RecallFails(diffFile[height - 1])
  /\ torn' = TRUE
  /\ UNCHANGED <<storeVars, difficultyVars, snaps>>

-----------------------------------------------------------------------------
ChainTxs ==
  UNION {{blockFile[h].body.txs[k] : k \in DOMAIN blockFile[h].body.txs} :
           h \in 0..(height - 1)}

\* The state at a height of the current chain, the present one included.
StateAt(h) == IF h = height THEN Snapshot ELSE snaps[h]

\* Miners read the last hash and the two difficulties at different moments, so
\* a block may mix those of any heights p, q, r of the chain.
OfferedBlock(p, q, r, txs, ts, pow) ==
  [prev |-> StateAt(p).last,
   body |-> [txs |-> txs, ts |-> ts, pow |-> pow,
             bd |-> StateAt(q).bd, td |-> StateAt(r).td]]

\* A reward transaction is mined with a random nonce and the current time.
FreshList(txs) ==
  \A k \in DOMAIN txs : IsReward(txs[k]) => txs[k] \notin ChainTxs

ReceiveBlock ==
  /\ height < MaxHeight
  /\ \E txs \in TxLists :
       /\ FreshRewards => FreshList(txs)
       /\ \E p, q, r \in 0..height, ts \in Timestamps, pow \in Pows :
            AddBlock(OfferedBlock(p, q, r, txs, ts, pow))

Next ==
  \/ ReceiveBlock
  \/ PopBlock
  \/ PopBlockFails

Spec == Init /\ [][Next]_vars

-----------------------------------------------------------------------------
\* The store, the unspent outputs and the difficulties have their types, and
\* the files are those of the heights below the current one.
TypeOK ==
  /\ height \in Nat
  /\ last_block \in Hash
  /\ blockFile \in [0..(height - 1) -> Block]
  /\ diffFile \in [0..(height - 1) -> UTXODiff]
  /\ DOMAIN by_hash \subseteq Hash
  /\ by_height \in [0..(height - 1) -> Hash]
  /\ utxos \subseteq OutPoint
  /\ block_difficulty \in Target
  /\ transaction_difficulty \in Target
  /\ last_timestamp \in Nat
  /\ snaps \in [0..(height - 1) -> SnapshotType]
  /\ torn \in BOOLEAN

\* The blocks form one chain from the genesis hash to last_block, and the two
\* index trees are inverse to each other and list exactly these blocks,
\* whatever was added and popped before.
ChainIndexed ==
  /\ \A h \in 0..(height - 1) :
       /\ blockFile[h].prev = IF h = 0 THEN GenesisHash ELSE by_height[h - 1]
       /\ by_height[h] = BlockHash(blockFile[h])
       /\ by_height[h] \in DOMAIN by_hash /\ by_hash[by_height[h]] = h
  /\ DOMAIN by_hash = {by_height[h] : h \in 0..(height - 1)}
  /\ last_block = IF height = 0 THEN GenesisHash ELSE by_height[height - 1]

\* Positions in the chain: block h, k-th transaction of it.
Position ==
  UNION {{<<h, k>> : k \in DOMAIN blockFile[h].body.txs} : h \in 0..(height - 1)}
TxAt(p) == blockFile[p[1]].body.txs[p[2]]

\* No transaction is twice on the chain: a confirmed one cannot be replayed.
NoReplay == \A p, q \in Position : TxAt(p) = TxAt(q) => p = q

CreatedIn(T) == UNION {Creates(t) : t \in T}
SpentIn(T) == UNION {Spends(t) : t \in T}

\* The database holds exactly the outputs created and not spent on the chain.
UtxosExact == utxos = CreatedIn(ChainTxs) \ SpentIn(ChainTxs)

\* pop_block "return[s] the blockchain to the state it was before the last
\* block was added": outputs, difficulties and last hash, and the timestamp
\* unless the first block is popped.
RollbackExact ==
  [][height' < height =>
       LET was == snaps[height']
       IN  /\ utxos' = was.utxos
           /\ block_difficulty' = was.bd
           /\ transaction_difficulty' = was.td
           /\ last_block' = was.last
           /\ height' > 0 => last_timestamp' = was.ts]_vars

\* A block can always be popped: recall_block_utxos never finds a row missing.
AlwaysPoppable == height > 0 => CanRecall(diffFile[height - 1])

\* What a set of outputs is worth.
Worth(outs) == SumFunction([o \in outs |-> OutputAt(o).amount])

\* The unspent coins are worth exactly what the reward transactions of the
\* chain minted at their heights: nothing else creates or destroys a coin.
RewardHeights(h) ==
  {g \in 0..(h - 1) : \E k \in DOMAIN blockFile[g].body.txs : IsReward(blockFile[g].body.txs[k])}

SupplyConserved ==
  Worth(utxos) = SumFunction([h \in RewardHeights(height) |-> GetBlockReward(h)])

\* There are never more coins than total_reward allows at this height, even
\* when a repeated reward transaction overwrites a row, as long as no pop_block
\* stopped halfway: then spent outputs are back and created ones still there.
NeverOverminted == ~torn => Worth(utxos) <= TotalReward(height)

\* The difficulties a node requires are those any other node computes from the
\* same blocks, however the node got there; the block target from the second
\* block on.
DifficultyOfChain ==
  /\ StateAt(0).bd = StartingDifficulty /\ StateAt(0).td = StartingDifficulty
  /\ \A h \in 1..height :
       /\ StateAt(h).td = NextTxDifficulty(blockFile[h - 1].body.td,
                            Len(blockFile[h - 1].body.txs))
       /\ h > 1 => StateAt(h).bd =
            NextBlockDifficulty(blockFile[h - 1].body.bd,
                                blockFile[h - 2].body.ts, blockFile[h - 1].body.ts)

\* What a block and its transactions are held to by themselves: the work for the
\* targets the block names, the reward of its height, signatures and amounts.
Mined(b) ==
  /\ b.body.pow <= CalculateBlockDifficulty(b.body.bd, Len(b.body.txs))
  /\ Len(b.body.txs) <= MaxTransactionsPerBlock

Lawful(t, b, h) ==
  IF IsReward(t)
  THEN OutputSum(t) = GetBlockReward(h)
  ELSE /\ InputSum(t) = OutputSum(t)
       /\ \A i \in DOMAIN Ins(t) : Ins(t)[i].signature = OutputAt(Ins(t)[i].out).receiver
       /\ TxData[t].pow <= b.body.td
       /\ ValidTransactionTimestampInBlock(t, b.body.ts)

\* Whatever was popped and whatever state a block was mined on, the blocks in the
\* files form a chain that a node accepts which has nothing but these blocks: the
\* outputs database, the index and the difficulties never let another one in.
Rules == INSTANCE Ledger WITH chain <- [i \in 1..height |-> blockFile[i - 1]]
LedgerKept == Rules!Spec
=============================================================================
