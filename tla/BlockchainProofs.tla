-------------------------- MODULE BlockchainProofs --------------------------
(***************************************************************************)
(* Proofs about Blockchain, for every set of transactions, every list of   *)
(* them offered in blocks and every height.                                *)
(***************************************************************************)
EXTENDS Blockchain, FiniteSetTheorems, WellFoundedInduction, TLAPS

\* A transaction spends and creates outpoints.
LEMMA SpendsCreatesType ==
  ASSUME NEW t \in Tx
  PROVE  /\ Spends(t) \subseteq OutPoint
         /\ Creates(t) \subseteq OutPoint
         /\ Ins(t) \in Seq(TransactionInput)
         /\ Outs(t) \in Seq(TransactionOutput)
<1>1. /\ Ins(t) \in Seq(TransactionInput)
      /\ Outs(t) \in Seq(TransactionOutput)
  BY TransactionsAssumption DEF Ins, Outs, Transaction
<1>2. Spends(t) \subseteq OutPoint
  <2>1. \A i \in DOMAIN Ins(t) : Ins(t)[i] \in TransactionInput
    BY <1>1
  <2>2. \A i \in DOMAIN Ins(t) : Ins(t)[i].out \in OutPoint
    BY <2>1 DEF TransactionInput
  <2> QED BY <2>2 DEF Spends
<1>3. Creates(t) \subseteq OutPoint
  BY <1>1 DEF Creates, OutPoint
<1> QED BY <1>1, <1>2, <1>3

\* The same for the transactions of a block taken together.
LEMMA ListType ==
  ASSUME NEW txs \in Seq(Tx)
  PROVE  /\ SpentBy(txs) \subseteq OutPoint
         /\ CreatedBy(txs) \subseteq OutPoint
<1>1. \A k \in DOMAIN txs : txs[k] \in Tx
  OBVIOUS
<1> QED BY <1>1, SpendsCreatesType DEF SpentBy, CreatedBy

\* Clamping puts a number between its bounds.
LEMMA ClampType ==
  ASSUME NEW x \in Int
  PROVE  Clamp(0, x, MaxTarget) \in Target
BY DifficultyAssumption DEF Clamp, Target

\* Retargeting yields a target.
LEMMA RetargetType ==
  ASSUME NEW bd \in Target, NEW a \in Nat, NEW b \in Nat
  PROVE  NextBlockDifficulty(bd, a, b) \in Target
<1> DEFINE elapsed == SaturatingSub(b, a)
           actual == IF elapsed > 1 THEN elapsed ELSE 1
           post == (bd * TimeScaled(actual)) \div AdjustScale
           pre  == (bd * TimeRatio(elapsed)) \div 1000
<1>1. bd \in Int /\ elapsed \in Nat /\ actual \in Nat
  BY DifficultyAssumption DEF Target, SaturatingSub
<1>2. TimeScaled(actual) \in Int
  <2> DEFINE rounding == IF actual \in {56, 91, 126} THEN 1 ELSE 0
             exact == 7 * AdjustScale - 3125 * (TargetTime - actual)
  <2>1. rounding \in Int
    OBVIOUS
  <2>2. exact \in Int
    BY <1>1 DEF AdjustScale, TargetTime
  <2> HIDE DEF exact, rounding, actual
  <2>3. exact \div 7 - rounding \in Int
    BY <2>1, <2>2
  <2>4. Clamp(950000, exact \div 7 - rounding, 1050000) \in Int
    BY <2>3 DEF Clamp
  <2> QED BY <2>4 DEF TimeScaled, exact, rounding
<1>3. TimeRatio(elapsed) \in Int
  <2> HIDE DEF elapsed
  <2> QED BY <1>1 DEF TimeRatio, Clamp
<1>4. post \in Int
  <2> HIDE DEF actual
  <2>1. bd * TimeScaled(actual) \in Int
    BY <1>1, <1>2
  <2> QED BY <2>1 DEF AdjustScale
<1>5. pre \in Int
  <2> HIDE DEF elapsed
  <2>1. bd * TimeRatio(elapsed) \in Int
    BY <1>1, <1>3
  <2> QED BY <2>1
<1>6. (IF b > Scip2 THEN post ELSE pre) \in Int
  BY <1>4, <1>5
<1> HIDE DEF post, pre
<1>7. Clamp(0, IF b > Scip2 THEN post ELSE pre, MaxTarget) \in Target
  BY <1>6, ClampType
<1> QED BY <1>7 DEF NextBlockDifficulty, post, pre, actual, elapsed

\* Retargeting the transactions yields a target.
LEMMA TxRetargetType ==
  ASSUME NEW td \in Target, NEW n \in Nat
  PROVE  NextTxDifficulty(td, n) \in Target
<1>1. TxRatio(n) \in Int
  <2> DEFINE m == IF n > 1 THEN n ELSE 1
  <2>1. m \in Nat \ {0}
    OBVIOUS
  <2> HIDE DEF m
  <2>2. 1000 * TxTarget \in Int
    BY EconomicsAssumption
  <2>3. (1000 * TxTarget) \div m \in Int
    BY <2>1, <2>2
  <2>4. Clamp(800, (1000 * TxTarget) \div m, 1200) \in Int
    BY <2>3 DEF Clamp
  <2> QED BY <2>4 DEF TxRatio, m
<1>2. td * TxRatio(n) \in Int
  BY <1>1, DifficultyAssumption DEF Target
<1>3. (td * TxRatio(n)) \div 1000 \in Int
  BY <1>2
<1> QED BY <1>3, ClampType DEF NextTxDifficulty

-----------------------------------------------------------------------------
(* What writing and removing a key does to a finite map.                   *)

\* Adding the next height to a map of the heights below n.
LEMMA PutNext ==
  ASSUME NEW S, NEW n \in Nat, NEW f \in [0..(n - 1) -> S], NEW v \in S
  PROVE  /\ Put(f, n, v) \in [0..n -> S]
         /\ Put(f, n, v)[n] = v
         /\ \A h \in 0..(n - 1) : Put(f, n, v)[h] = f[h]
<1>1. 0..(n - 1) \cup {n} = 0..n
  OBVIOUS
<1> QED BY <1>1 DEF Put

\* Removing the last height.
LEMMA DeleteLast ==
  ASSUME NEW S, NEW n \in Nat, n > 0, NEW f \in [0..(n - 1) -> S]
  PROVE  /\ Delete(f, n - 1) \in [0..(n - 2) -> S]
         /\ \A h \in 0..(n - 2) : Delete(f, n - 1)[h] = f[h]
<1>1. 0..(n - 1) \ {n - 1} = 0..(n - 2)
  OBVIOUS
<1> QED BY <1>1 DEF Delete

-----------------------------------------------------------------------------
(* Type correctness.                                                       *)

\* Every height of the chain has a snapshot, the present one included.
LEMMA StateAtType ==
  ASSUME TypeOK, NEW h \in 0..height
  PROVE  StateAt(h) \in SnapshotType
<1>1. Snapshot \in SnapshotType
  BY DEF TypeOK, Snapshot, SnapshotType
<1>2. h # height => h \in 0..(height - 1)
  BY DEF TypeOK
<1> QED BY <1>1, <1>2 DEF StateAt, TypeOK

\* A block that is offered is a block.
LEMMA OfferedType ==
  ASSUME TypeOK, NEW p \in 0..height, NEW q \in 0..height, NEW r \in 0..height,
         NEW txs \in TxLists, NEW ts \in Timestamps, NEW pow \in Pows
  PROVE  OfferedBlock(p, q, r, txs, ts, pow) \in Block
<1>1. /\ StateAt(p).last \in Hash
      /\ StateAt(q).bd \in Target
      /\ StateAt(r).td \in Target
  BY StateAtType DEF SnapshotType
<1>2. txs \in Seq(Tx) /\ ts \in Nat /\ pow \in Target
  BY BlockchainAssumption
<1> QED BY <1>1, <1>2 DEF OfferedBlock, Block, Body

\* A block's hash is a hash.
LEMMA HashType ==
  ASSUME NEW b \in Block
  PROVE  BlockHash(b) \in Hash
BY DEF BlockHash, Block, Hash

\* add_block keeps the types.
LEMMA AddBlockType ==
  ASSUME TypeOK, NEW b \in Block, AddBlock(b)
  PROVE  TypeOK'
<1> USE DEF AddBlock
<1>0. /\ b.prev \in Hash /\ b.body \in Body
      /\ b.body.txs \in Seq(Tx) /\ b.body.ts \in Nat
      /\ Len(b.body.txs) \in Nat
  BY DEF Block, Body
<1>1. height \in Nat /\ height' = height + 1 /\ height' - 1 = height
  BY DEF TypeOK, StoreAddBlock
<1>2. height' \in Nat /\ last_block' \in Hash
  BY <1>1, HashType DEF StoreAddBlock
<1>3. blockFile' \in [0..(height' - 1) -> Block]
  BY <1>1, PutNext DEF TypeOK, StoreAddBlock
<1>4. DiffOf(b.body.txs) \in UTXODiff
  BY <1>0, ListType DEF DiffOf, UTXODiff
<1>5. diffFile' \in [0..(height' - 1) -> UTXODiff]
  BY <1>1, <1>4, PutNext DEF TypeOK, StoreAddBlock
<1>6. by_height' \in [0..(height' - 1) -> Hash]
  BY <1>1, HashType, PutNext DEF TypeOK, StoreAddBlock
<1>7. DOMAIN by_hash' \subseteq Hash
  BY HashType DEF TypeOK, StoreAddBlock, Put
<1>8. utxos' \subseteq OutPoint
  BY <1>0, ListType DEF TypeOK, ExecuteTransactions, AfterExecuting
<1>9. /\ block_difficulty' \in Target
      /\ transaction_difficulty' \in Target
      /\ last_timestamp' \in Nat
  BY <1>0, RetargetType, TxRetargetType DEF TypeOK, UpdateDifficulty
<1>10. snaps' \in [0..(height' - 1) -> SnapshotType]
  <2>1. Snapshot \in SnapshotType
    BY DEF TypeOK, Snapshot, SnapshotType
  <2> QED BY <1>1, <2>1, PutNext DEF TypeOK
<1> QED BY <1>2, <1>3, <1>5, <1>6, <1>7, <1>8, <1>9, <1>10 DEF TypeOK

\* pop_block keeps the types.
LEMMA PopBlockType ==
  ASSUME TypeOK, PopBlock
  PROVE  TypeOK'
<1> USE DEF PopBlock
<1>1. /\ height \in Nat /\ height > 0
      /\ height' = height - 1 /\ height' - 1 = height - 2
  BY DEF TypeOK, StorePopBlock
<1>2. height - 1 \in 0..(height - 1)
  BY <1>1
<1>3. /\ blockFile[height - 1] \in Block
      /\ diffFile[height - 1] \in UTXODiff
      /\ height > 1 => blockFile[height - 2] \in Block
  BY <1>1, <1>2 DEF TypeOK
<1>4. last_block' \in Hash
  <2>1. GenesisHash \in Hash
    BY DEF GenesisHash, Hash
  <2>2. height # 1 => height > 1
    BY <1>1
  <2> QED BY <1>3, <2>1, <2>2, HashType DEF StorePopBlock
<1>5. /\ blockFile' \in [0..(height' - 1) -> Block]
      /\ diffFile' \in [0..(height' - 1) -> UTXODiff]
      /\ by_height' \in [0..(height' - 1) -> Hash]
      /\ snaps' \in [0..(height' - 1) -> SnapshotType]
  BY <1>1, DeleteLast DEF TypeOK, StorePopBlock
<1>6. DOMAIN by_hash' \subseteq Hash
  BY DEF TypeOK, StorePopBlock, Delete
<1>7. utxos' \subseteq OutPoint
  BY <1>3 DEF TypeOK, RecallBlockUtxos, Restored, UTXODiff
<1>8. /\ block_difficulty' \in Target
      /\ transaction_difficulty' \in Target
      /\ last_timestamp' \in Nat
  BY <1>3 DEF RecallDifficulty, Block, Body
<1> QED BY <1>1, <1>4, <1>5, <1>6, <1>7, <1>8 DEF TypeOK

\* What add_block leaves in the files, the index and the history.
LEMMA AddBlockFiles ==
  ASSUME TypeOK, NEW b \in Block, AddBlock(b)
  PROVE  /\ blockFile'[height] = b
         /\ diffFile'[height] = DiffOf(b.body.txs)
         /\ by_height'[height] = BlockHash(b)
         /\ snaps'[height] = Snapshot
         /\ \A h \in 0..(height - 1) : /\ blockFile'[h] = blockFile[h]
                                       /\ diffFile'[h] = diffFile[h]
                                       /\ by_height'[h] = by_height[h]
                                       /\ snaps'[h] = snaps[h]
<1>0. height \in Nat
  BY DEF TypeOK
<1>1. /\ blockFile'[height] = b
      /\ \A h \in 0..(height - 1) : blockFile'[h] = blockFile[h]
  <2>1. /\ blockFile \in [0..(height - 1) -> Block]
        /\ blockFile' = Put(blockFile, height, b)
    BY DEF TypeOK, AddBlock, StoreAddBlock
  <2> QED BY <1>0, <2>1 DEF Put
<1>2. /\ diffFile'[height] = DiffOf(b.body.txs)
      /\ \A h \in 0..(height - 1) : diffFile'[h] = diffFile[h]
  <2>1. /\ diffFile \in [0..(height - 1) -> UTXODiff]
        /\ diffFile' = Put(diffFile, height, DiffOf(b.body.txs))
    BY DEF TypeOK, AddBlock, StoreAddBlock
  <2> QED BY <1>0, <2>1 DEF Put
<1>3. /\ by_height'[height] = BlockHash(b)
      /\ \A h \in 0..(height - 1) : by_height'[h] = by_height[h]
  <2>1. /\ by_height \in [0..(height - 1) -> Hash]
        /\ by_height' = Put(by_height, height, BlockHash(b))
    BY DEF TypeOK, AddBlock, StoreAddBlock
  <2> QED BY <1>0, <2>1 DEF Put
<1>4. /\ snaps'[height] = Snapshot
      /\ \A h \in 0..(height - 1) : snaps'[h] = snaps[h]
  <2>1. /\ snaps \in [0..(height - 1) -> SnapshotType]
        /\ snaps' = Put(snaps, height, Snapshot)
    BY DEF TypeOK, AddBlock
  <2> QED BY <1>0, <2>1 DEF Put
<1> QED BY <1>1, <1>2, <1>3, <1>4

\* What pop_block leaves in them: all but the last entry.
LEMMA PopBlockFiles ==
  ASSUME TypeOK, PopBlock
  PROVE  \A h \in 0..(height - 2) : /\ blockFile'[h] = blockFile[h]
                                    /\ diffFile'[h] = diffFile[h]
                                    /\ by_height'[h] = by_height[h]
                                    /\ snaps'[h] = snaps[h]
<1>0. height \in Nat /\ height > 0
  BY DEF TypeOK, PopBlock
<1>1. \A h \in 0..(height - 2) : blockFile'[h] = blockFile[h]
  <2>1. /\ blockFile \in [0..(height - 1) -> Block]
        /\ blockFile' = Delete(blockFile, height - 1)
    BY DEF TypeOK, PopBlock, StorePopBlock
  <2> QED BY <1>0, <2>1 DEF Delete
<1>2. \A h \in 0..(height - 2) : diffFile'[h] = diffFile[h]
  <2>1. /\ diffFile \in [0..(height - 1) -> UTXODiff]
        /\ diffFile' = Delete(diffFile, height - 1)
    BY DEF TypeOK, PopBlock, StorePopBlock
  <2> QED BY <1>0, <2>1 DEF Delete
<1>3. \A h \in 0..(height - 2) : by_height'[h] = by_height[h]
  <2>1. /\ by_height \in [0..(height - 1) -> Hash]
        /\ by_height' = Delete(by_height, height - 1)
    BY DEF TypeOK, PopBlock, StorePopBlock
  <2> QED BY <1>0, <2>1 DEF Delete
<1>4. \A h \in 0..(height - 2) : snaps'[h] = snaps[h]
  <2>1. /\ snaps \in [0..(height - 1) -> SnapshotType]
        /\ snaps' = Delete(snaps, height - 1)
    BY DEF TypeOK, PopBlock
  <2> QED BY <1>0, <2>1 DEF Delete
<1> QED BY <1>1, <1>2, <1>3, <1>4

\* A recall that fails midway keeps the types.
LEMMA PopBlockFailsType ==
  ASSUME TypeOK, PopBlockFails
  PROVE  TypeOK'
<1>1. diffFile[height - 1] \in UTXODiff
  BY DEF TypeOK, PopBlockFails
<1>2. utxos' \subseteq OutPoint
  BY <1>1 DEF TypeOK, PopBlockFails, RecallFails, Restored, UTXODiff
<1> QED BY <1>2 DEF TypeOK, PopBlockFails, storeVars, difficultyVars

\* The initial state is well typed.
LEMMA InitType == Init => TypeOK
<1> SUFFICES ASSUME Init PROVE TypeOK
  OBVIOUS
<1>1. 0..(height - 1) = {}
  BY DEF Init, StoreInit
<1>2. GenesisHash \in Hash
  BY DEF GenesisHash, Hash
<1>3. \A S : <<>> \in [{} -> S]
  OBVIOUS
<1>4. DOMAIN by_hash = {}
  BY DEF Init, StoreInit
<1>5. block_difficulty \in Target /\ transaction_difficulty \in Target
  BY DifficultyAssumption DEF Init, StartingDifficulty, Target
<1> QED BY <1>1, <1>2, <1>3, <1>4, <1>5 DEF Init, StoreInit, TypeOK

\* TypeOK holds in every behaviour, repeated reward transactions included.
THEOREM TypeCorrect == Spec => []TypeOK
<1>1. Init => TypeOK
  BY InitType
<1>2. TypeOK /\ [Next]_vars => TypeOK'
  <2> SUFFICES ASSUME TypeOK, [Next]_vars PROVE TypeOK'
    OBVIOUS
  <2>1. CASE ReceiveBlock
    BY <2>1, OfferedType, AddBlockType DEF ReceiveBlock
  <2>2. CASE PopBlock
    BY <2>2, PopBlockType
  <2>3. CASE PopBlockFails
    BY <2>3, PopBlockFailsType
  <2>4. CASE UNCHANGED vars
    BY <2>4 DEF TypeOK, vars, storeVars, difficultyVars
  <2> QED BY <2>1, <2>2, <2>3, <2>4 DEF Next
<1> QED BY <1>1, <1>2, PTL DEF Spec

-----------------------------------------------------------------------------
(* The index.  A hash determines the height of its block: it is as long as *)
(* the chain it ends.                                                      *)

HashLengths == \A h \in 0..(height - 1) : Len(by_height[h]) = h + 1

IndexInv == TypeOK /\ ChainIndexed /\ HashLengths

\* The hash of a block that is accepted is longer than those of the chain.
LEMMA NewHashLength ==
  ASSUME IndexInv, NEW b \in Block, b.prev = last_block
  PROVE  Len(BlockHash(b)) = height + 1
<1>1. b.prev \in Seq(Body) /\ b.body \in Body
  BY DEF Block, Hash
<1>2. Len(BlockHash(b)) = Len(b.prev) + 1
  BY <1>1 DEF BlockHash
<1>3. Len(last_block) = height
  <2>1. CASE height = 0
    BY <2>1 DEF IndexInv, ChainIndexed, GenesisHash
  <2>2. CASE height # 0
    <3>1. height - 1 \in 0..(height - 1) /\ height \in Nat
      BY <2>2 DEF IndexInv, TypeOK
    <3>2. Len(by_height[height - 1]) = (height - 1) + 1
      BY <3>1 DEF IndexInv, HashLengths
    <3>3. last_block = by_height[height - 1]
      BY <2>2 DEF IndexInv, ChainIndexed
    <3> QED BY <3>1, <3>2, <3>3
  <2> QED BY <2>1, <2>2
<1> QED BY <1>2, <1>3

\* add_block keeps the index.
LEMMA AddBlockIndex ==
  ASSUME IndexInv, NEW b \in Block, AddBlock(b)
  PROVE  ChainIndexed' /\ HashLengths'
<1> DEFINE n == height
           H == BlockHash(b)
<1>1. n \in Nat /\ height' = n + 1 /\ height' - 1 = n
  BY DEF IndexInv, TypeOK, AddBlock, StoreAddBlock
<1>2. /\ blockFile'[n] = b /\ by_height'[n] = H
      /\ \A h \in 0..(n - 1) : blockFile'[h] = blockFile[h]
                               /\ by_height'[h] = by_height[h]
  BY AddBlockFiles DEF IndexInv
<1>3. b.prev = last_block /\ last_block' = H
  BY DEF AddBlock, ValidBlock, StoreAddBlock
<1>4. Len(H) = n + 1
  BY <1>3, NewHashLength
<1>5. \A h \in 0..(n - 1) : by_height[h] # H
  BY <1>1, <1>4 DEF IndexInv, HashLengths
<1>6. /\ DOMAIN by_hash' = DOMAIN by_hash \cup {H}
      /\ by_hash'[H] = n
      /\ \A x \in DOMAIN by_hash : x # H => by_hash'[x] = by_hash[x]
  BY DEF AddBlock, StoreAddBlock, Put
<1>7. 0..n = 0..(n - 1) \cup {n}
  BY <1>1
<1> HIDE DEF H
<1>8. HashLengths'
  BY <1>1, <1>2, <1>4, <1>7 DEF IndexInv, HashLengths
<1>9. ASSUME NEW h \in 0..n
      PROVE  /\ blockFile'[h].prev = IF h = 0 THEN GenesisHash
                                               ELSE by_height'[h - 1]
             /\ by_height'[h] = BlockHash(blockFile'[h])
             /\ by_height'[h] \in DOMAIN by_hash'
             /\ by_hash'[by_height'[h]] = h
  <2>1. CASE h = n
    <3>1. b.prev = IF n = 0 THEN GenesisHash ELSE by_height[n - 1]
      BY <1>3 DEF IndexInv, ChainIndexed
    <3>2. n # 0 => n - 1 \in 0..(n - 1)
      BY <1>1
    <3> QED BY <2>1, <3>1, <3>2, <1>2, <1>6 DEF H
  <2>2. CASE h \in 0..(n - 1)
    <3>1. h # 0 => h - 1 \in 0..(n - 1)
      BY <2>2, <1>1
    <3> QED BY <2>2, <3>1, <1>2, <1>5, <1>6 DEF IndexInv, ChainIndexed
  <2> QED BY <2>1, <2>2, <1>7
<1>10. DOMAIN by_hash' = {by_height'[h] : h \in 0..n}
  BY <1>2, <1>6, <1>7 DEF IndexInv, ChainIndexed
<1>11. ChainIndexed'
  BY <1>1, <1>2, <1>3, <1>9, <1>10 DEF ChainIndexed
<1> QED BY <1>8, <1>11

\* pop_block keeps the index.
LEMMA PopBlockIndex ==
  ASSUME IndexInv, PopBlock
  PROVE  ChainIndexed' /\ HashLengths'
<1> DEFINE n == height - 1
<1>1. height \in Nat /\ height = n + 1 /\ n \in Nat /\ height' = n
  BY DEF IndexInv, TypeOK, PopBlock, StorePopBlock
<1>2. \A h \in 0..(n - 1) : blockFile'[h] = blockFile[h]
                           /\ by_height'[h] = by_height[h]
  BY <1>1, PopBlockFiles DEF IndexInv
<1>3. last_block = by_height[n]
  BY <1>1 DEF IndexInv, ChainIndexed
<1>4. \A h \in 0..(n - 1) : by_height[h] # last_block
  BY <1>1, <1>3 DEF IndexInv, HashLengths
<1>5. /\ DOMAIN by_hash' = DOMAIN by_hash \ {last_block}
      /\ \A x \in DOMAIN by_hash' : by_hash'[x] = by_hash[x]
  BY DEF PopBlock, StorePopBlock, Delete
<1>6. 0..n = 0..(n - 1) \cup {n}
  BY <1>1
<1>7. HashLengths'
  BY <1>1, <1>2, <1>6 DEF IndexInv, HashLengths
<1>8. last_block' = IF n = 0 THEN GenesisHash ELSE by_height'[n - 1]
  <2>1. CASE n = 0
    BY <1>1, <2>1 DEF PopBlock, StorePopBlock
  <2>2. CASE n # 0
    <3>1. n - 1 \in 0..(n - 1) /\ height - 2 = n - 1 /\ height # 1
          /\ n - 1 \in 0..(height - 1)
      BY <2>2, <1>1
    <3>2. by_height[n - 1] = BlockHash(blockFile[n - 1])
      BY <3>1 DEF IndexInv, ChainIndexed
    <3> QED BY <2>2, <3>1, <3>2, <1>2 DEF PopBlock, StorePopBlock
  <2> QED BY <2>1, <2>2
<1>9. ASSUME NEW h \in 0..(n - 1)
      PROVE  /\ blockFile'[h].prev = IF h = 0 THEN GenesisHash
                                               ELSE by_height'[h - 1]
             /\ by_height'[h] = BlockHash(blockFile'[h])
             /\ by_height'[h] \in DOMAIN by_hash'
             /\ by_hash'[by_height'[h]] = h
  <2>1. (h # 0 => h - 1 \in 0..(n - 1)) /\ h \in 0..(height - 1)
    BY <1>1
  <2> QED BY <2>1, <1>2, <1>4, <1>5 DEF IndexInv, ChainIndexed
<1>10. DOMAIN by_hash' = {by_height'[h] : h \in 0..(n - 1)}
  <2>1. DOMAIN by_hash = {by_height[h] : h \in 0..n}
    BY <1>1 DEF IndexInv, ChainIndexed
  <2> QED BY <2>1, <1>2, <1>3, <1>4, <1>5, <1>6
<1>11. ChainIndexed'
  BY <1>1, <1>8, <1>9, <1>10 DEF ChainIndexed
<1> QED BY <1>7, <1>11

\* The inductive step for the index.
LEMMA IndexStep == IndexInv /\ [Next]_vars => IndexInv'
<1> SUFFICES ASSUME IndexInv, [Next]_vars PROVE IndexInv'
  OBVIOUS
<1>0. TypeOK
  BY DEF IndexInv
<1>1. CASE ReceiveBlock
  <2>1. PICK txs \in TxLists, p \in 0..height, q \in 0..height, r \in 0..height,
             ts \in Timestamps, pow \in Pows :
               AddBlock(OfferedBlock(p, q, r, txs, ts, pow))
    BY <1>1 DEF ReceiveBlock
  <2> DEFINE b == OfferedBlock(p, q, r, txs, ts, pow)
  <2>2. b \in Block /\ AddBlock(b)
    BY <1>0, <2>1, OfferedType
  <2> HIDE DEF b
  <2> QED BY <1>0, <2>2, AddBlockType, AddBlockIndex DEF IndexInv
<1>2. CASE PopBlock
  BY <1>0, <1>2, PopBlockType, PopBlockIndex DEF IndexInv
<1>3. CASE PopBlockFails
  <2>1. TypeOK'
    BY <1>0, <1>3, PopBlockFailsType
  <2> QED BY <2>1, <1>3 DEF IndexInv, ChainIndexed, HashLengths, PopBlockFails,
             storeVars
<1>4. CASE UNCHANGED vars
  <2>1. TypeOK'
    BY <1>0, <1>4 DEF TypeOK, vars, storeVars, difficultyVars
  <2> QED BY <2>1, <1>4 DEF IndexInv, ChainIndexed, HashLengths, vars, storeVars
<1> QED BY <1>1, <1>2, <1>3, <1>4 DEF Next

\* The files, the index trees and last_block describe one chain after any
\* sequence of additions and removals.
THEOREM ChainAlwaysIndexed == Spec => []ChainIndexed
<1>1. Init => ChainIndexed /\ HashLengths
  <2> SUFFICES ASSUME Init PROVE ChainIndexed /\ HashLengths
    OBVIOUS
  <2>1. 0..(height - 1) = {} /\ DOMAIN by_hash = {}
    BY DEF Init, StoreInit
  <2> QED BY <2>1 DEF Init, StoreInit, ChainIndexed, HashLengths
<1>2. Init => IndexInv
  BY <1>1, InitType DEF IndexInv
<1>3. IndexInv => ChainIndexed
  BY DEF IndexInv
<1> QED BY <1>2, <1>3, IndexStep, PTL DEF Spec

-----------------------------------------------------------------------------
(* The unspent outputs, when reward transactions do not repeat.  What pop  *)
(* needs is known about every height of the chain, not only the last: the  *)
(* invariant speaks of the state at all of them.                           *)

Listed(txs) == {txs[k] : k \in DOMAIN txs}
Txs(h) == blockFile[h].body.txs

\* The transactions of the blocks of f below height h.
BelowIn(f, h) == UNION {Listed(f[g].body.txs) : g \in 0..(h - 1)}
Below(h) == BelowIn(blockFile, h)

UAt(h) == IF h = height THEN utxos ELSE snaps[h].utxos

LevelsExact ==
  \A h \in 0..height : UAt(h) = CreatedIn(Below(h)) \ SpentIn(Below(h))
SpendsAvailable == \A h \in 0..(height - 1) : SpentBy(Txs(h)) \subseteq UAt(h)
DiffsMatch == \A h \in 0..(height - 1) : diffFile[h] = DiffOf(Txs(h))
IdsFresh ==
  \A h \in 0..(height - 1) :
    /\ Listed(Txs(h)) \cap Below(h) = {}
    /\ \A k, m \in DOMAIN Txs(h) : Txs(h)[k] = Txs(h)[m] => k = m

LedgerInv == TypeOK /\ LevelsExact /\ SpendsAvailable /\ DiffsMatch /\ IdsFresh

\* Lists and sets of transactions spend and create the same.
LEMMA ListedSpendsCreates ==
  ASSUME NEW txs
  PROVE  SpentBy(txs) = SpentIn(Listed(txs)) /\ CreatedBy(txs) = CreatedIn(Listed(txs))
BY DEF SpentBy, SpentIn, CreatedBy, CreatedIn, Listed

\* An output names the transaction that creates it.
LEMMA CreatorUnique ==
  ASSUME NEW t, NEW u, NEW o \in Creates(t), o \in Creates(u)
  PROVE  t = u
BY DEF Creates

\* Executing new transactions that spend unspent outputs: the result is exact
\* and can be undone, and all they create is unspent.
LEMMA ExecuteExact ==
  ASSUME NEW txs, NEW T,
         utxos = CreatedIn(T) \ SpentIn(T),
         SpentIn(T) \subseteq CreatedIn(T),
         Listed(txs) \cap T = {},
         SpentBy(txs) \subseteq utxos
  PROVE  LET after == AfterExecuting(txs)
             all == T \cup Listed(txs)
         IN  /\ after = CreatedIn(all) \ SpentIn(all)
             /\ utxos = (after \cup SpentBy(txs)) \ CreatedBy(txs)
             /\ CreatedBy(txs) \subseteq after
<1> DEFINE after == AfterExecuting(txs)
           all == T \cup Listed(txs)
           C == CreatedBy(txs)
           S == SpentBy(txs)
<1>1. C \cap CreatedIn(T) = {}
  <2> SUFFICES ASSUME NEW o \in C, o \in CreatedIn(T) PROVE FALSE
    OBVIOUS
  <2>1. PICK k \in DOMAIN txs : o \in Creates(txs[k])
    BY DEF CreatedBy
  <2>2. PICK u \in T : o \in Creates(u)
    BY DEF CreatedIn
  <2>3. txs[k] = u
    BY <2>1, <2>2, CreatorUnique
  <2> QED BY <2>2, <2>3 DEF Listed
<1>2. S \subseteq CreatedIn(T) /\ C \cap S = {} /\ C \cap utxos = {}
      /\ C \cap SpentIn(T) = {}
  BY <1>1
<1>3. after = (utxos \ S) \cup C
  <2>1. ASSUME NEW o \in after PROVE o \in (utxos \ S) \cup C
    BY DEF AfterExecuting, CreatedBy
  <2>2. ASSUME NEW o \in utxos \ S PROVE o \in after
    BY DEF AfterExecuting
  <2>3. ASSUME NEW o \in C PROVE o \in after
    <3>1. PICK k \in DOMAIN txs : o \in Creates(txs[k])
      BY DEF CreatedBy
    <3>2. \A m \in DOMAIN txs : o \notin Spends(txs[m])
      BY <1>2 DEF SpentBy
    <3> QED BY <3>1, <3>2 DEF AfterExecuting
  <2> QED BY <2>1, <2>2, <2>3
<1>4. CreatedIn(all) = CreatedIn(T) \cup C /\ SpentIn(all) = SpentIn(T) \cup S
  <2>1. CreatedIn(all) = CreatedIn(T) \cup CreatedIn(Listed(txs))
    BY DEF CreatedIn
  <2>2. SpentIn(all) = SpentIn(T) \cup SpentIn(Listed(txs))
    BY DEF SpentIn
  <2> QED BY <2>1, <2>2, ListedSpendsCreates
<1> HIDE DEF after, all, C, S
<1>5. after = CreatedIn(all) \ SpentIn(all)
  BY <1>2, <1>3, <1>4
<1>6. utxos = (after \cup S) \ C
  BY <1>2, <1>3 DEF S
<1> QED BY <1>3, <1>5, <1>6 DEF after, all, C, S

\* What is below a height does not depend on the blocks from it on.
LEMMA BelowSame ==
  ASSUME NEW f, NEW g, NEW h, \A i \in 0..(h - 1) : f[i] = g[i]
  PROVE  BelowIn(f, h) = BelowIn(g, h)
BY DEF BelowIn

\* One height more adds the transactions of one block.
LEMMA BelowNext ==
  ASSUME NEW f, NEW h \in Nat
  PROVE  BelowIn(f, h + 1) = BelowIn(f, h) \cup Listed(f[h].body.txs)
<1>1. 0..((h + 1) - 1) = 0..(h - 1) \cup {h}
  OBVIOUS
<1> QED BY <1>1 DEF BelowIn

\* What the chain spends, it created.
LEMMA SpentWasCreated ==
  ASSUME LedgerInv, NEW h \in 0..height
  PROVE  SpentIn(Below(h)) \subseteq CreatedIn(Below(h))
<1> SUFFICES ASSUME NEW o \in SpentIn(Below(h)) PROVE o \in CreatedIn(Below(h))
  OBVIOUS
<1>0. height \in Nat
  BY DEF LedgerInv, TypeOK
<1>1. PICK g \in 0..(h - 1) : \E t \in Listed(Txs(g)) : o \in Spends(t)
  BY DEF SpentIn, Below, BelowIn, Txs
<1>2. g \in 0..(height - 1) /\ g \in 0..height
  BY <1>0
<1>3. o \in SpentBy(Txs(g))
  BY <1>1 DEF SpentBy, Listed
<1>4. o \in UAt(g)
  BY <1>2, <1>3 DEF LedgerInv, SpendsAvailable
<1>5. o \in CreatedIn(Below(g))
  BY <1>2, <1>4 DEF LedgerInv, LevelsExact
<1>6. Below(g) \subseteq Below(h)
  <2>1. 0..(g - 1) \subseteq 0..(h - 1)
    BY <1>0
  <2> QED BY <2>1 DEF Below, BelowIn
<1> QED BY <1>5, <1>6 DEF CreatedIn

\* The transactions of a valid block spend unspent outputs and are different.
LEMMA ValidList ==
  ASSUME NEW b \in Block, ValidBlock(b)
  PROVE  LET txs == b.body.txs
         IN  /\ SpentBy(txs) \subseteq utxos
             /\ \A k \in DOMAIN txs : /\ txs[k] \in Tx
                                      /\ Spends(txs[k]) \subseteq utxos
                                      /\ ~IsReward(txs[k]) => Spends(txs[k]) # {}
             /\ \A k, m \in DOMAIN txs : txs[k] = txs[m] => k = m
<1> DEFINE txs == b.body.txs
<1>0. txs \in Seq(Tx) /\ \A k \in DOMAIN txs : txs[k] \in Tx
  BY DEF Block, Body
<1>1. ValidTransactions(txs, b.body.ts)
  BY DEF ValidBlock
<1>2. \A k \in DOMAIN txs : Spends(txs[k]) \subseteq utxos
  <2> SUFFICES ASSUME NEW k \in DOMAIN txs PROVE Spends(txs[k]) \subseteq utxos
    OBVIOUS
  <2>1. CASE IsReward(txs[k])
    BY <2>1 DEF IsReward, Spends
  <2>2. CASE ~IsReward(txs[k])
    <3>1. ValidTransaction(txs[k], transaction_difficulty)
      BY <1>1, <2>2 DEF ValidTransactions
    <3>2. \A i \in DOMAIN Ins(txs[k]) : Ins(txs[k])[i].out \in utxos
      BY <3>1 DEF ValidTransaction
    <3> QED BY <3>2 DEF Spends
  <2> QED BY <2>1, <2>2
<1>3. SpentBy(txs) \subseteq utxos
  BY <1>2 DEF SpentBy
<1>4. \A k \in DOMAIN txs : ~IsReward(txs[k]) => Spends(txs[k]) # {}
  <2> SUFFICES ASSUME NEW k \in DOMAIN txs, ~IsReward(txs[k])
               PROVE  Spends(txs[k]) # {}
    OBVIOUS
  <2>1. Ins(txs[k]) \in Seq(TransactionInput) /\ Ins(txs[k]) # <<>>
    BY <1>0, SpendsCreatesType DEF IsReward
  <2>2. 1 \in DOMAIN Ins(txs[k])
    BY <2>1
  <2> QED BY <2>2 DEF Spends
<1>5. ASSUME NEW k \in DOMAIN txs, NEW m \in DOMAIN txs, txs[k] = txs[m], k # m
      PROVE  FALSE
  <2>1. CASE IsReward(txs[k])
    BY <1>1, <1>5, <2>1 DEF ValidTransactions
  <2>2. CASE ~IsReward(txs[k])
    <3>1. Spends(txs[k]) \cap Spends(txs[m]) = {}
      BY <1>1, <1>5 DEF ValidTransactions
    <3> QED BY <1>4, <1>5, <2>2, <3>1
  <2> QED BY <2>1, <2>2
<1> QED BY <1>0, <1>2, <1>3, <1>4, <1>5

\* The transactions of an accepted block are also new.
LEMMA AcceptedBlock ==
  ASSUME LedgerInv, NEW b \in Block, ValidBlock(b), FreshList(b.body.txs)
  PROVE  LET txs == b.body.txs
         IN  /\ SpentBy(txs) \subseteq utxos
             /\ Listed(txs) \cap Below(height) = {}
             /\ \A k, m \in DOMAIN txs : txs[k] = txs[m] => k = m
<1> DEFINE txs == b.body.txs
<1>1. /\ SpentBy(txs) \subseteq utxos
      /\ \A k \in DOMAIN txs : Spends(txs[k]) \subseteq utxos
      /\ \A k \in DOMAIN txs : ~IsReward(txs[k]) => Spends(txs[k]) # {}
      /\ \A k, m \in DOMAIN txs : txs[k] = txs[m] => k = m
  BY ValidList
<1>2. Listed(txs) \cap Below(height) = {}
  <2> SUFFICES ASSUME NEW k \in DOMAIN txs, txs[k] \in Below(height) PROVE FALSE
    BY DEF Listed
  <2>1. CASE IsReward(txs[k])
    <3>1. Below(height) = ChainTxs
      BY DEF Below, BelowIn, Listed, ChainTxs
    <3> QED BY <2>1, <3>1 DEF FreshList
  <2>2. CASE ~IsReward(txs[k])
    <3>1. PICK o : o \in Spends(txs[k])
      BY <2>2, <1>1
    <3>2. o \in utxos
      BY <1>1, <3>1
    <3>3. o \in SpentIn(Below(height))
      BY <3>1 DEF SpentIn
    <3>4. utxos = CreatedIn(Below(height)) \ SpentIn(Below(height))
      <4>1. height \in 0..height
        BY DEF LedgerInv, TypeOK
      <4> QED BY <4>1 DEF LedgerInv, LevelsExact, UAt
    <3> QED BY <3>2, <3>3, <3>4
  <2> QED BY <2>1, <2>2
<1> QED BY <1>1, <1>2

\* add_block keeps the ledger invariant.
LEMMA AddBlockLedger ==
  ASSUME LedgerInv, NEW b \in Block, AddBlock(b), FreshList(b.body.txs)
  PROVE  LedgerInv'
<1>0. PICK n : n = height
  OBVIOUS
<1> DEFINE txs == b.body.txs
<1>1. TypeOK /\ TypeOK'
  BY AddBlockType DEF LedgerInv
<1>2. n \in Nat /\ height' = n + 1 /\ 0..(height' - 1) = 0..n /\ n \in 0..n
      /\ 0..n = 0..(n - 1) \cup {n} /\ 0..height' = 0..n \cup {n + 1}
      /\ ~(n + 1 \in 0..n)
  BY <1>0 DEF LedgerInv, TypeOK, AddBlock, StoreAddBlock
<1>3. /\ blockFile'[n] = b
      /\ diffFile'[n] = DiffOf(txs)
      /\ snaps'[n] = Snapshot
      /\ \A h \in 0..(n - 1) : /\ blockFile'[h] = blockFile[h]
                              /\ diffFile'[h] = diffFile[h]
                              /\ snaps'[h] = snaps[h]
  BY <1>0, <1>1, AddBlockFiles
<1>4. \A h \in 0..n : Below(h)' = Below(h)
  <2> SUFFICES ASSUME NEW h \in 0..n PROVE BelowIn(blockFile', h) = BelowIn(blockFile, h)
    BY DEF Below
  <2>1. \A i \in 0..(h - 1) : i \in 0..(n - 1)
    BY <1>2
  <2> QED BY <1>3, <2>1, BelowSame
<1>5. Below(n + 1)' = Below(n) \cup Listed(txs)
  <2>1. BelowIn(blockFile', n + 1)
          = BelowIn(blockFile', n) \cup Listed(blockFile'[n].body.txs)
    BY <1>2, BelowNext
  <2>2. BelowIn(blockFile', n) = BelowIn(blockFile, n)
    BY <1>2, <1>4 DEF Below
  <2> QED BY <2>1, <2>2, <1>3 DEF Below
<1>6. \A h \in 0..n : UAt(h)' = UAt(h)
  <2>1. ASSUME NEW h \in 0..(n - 1) PROVE UAt(h)' = UAt(h)
    <3>1. h # height' /\ h # height
      BY <1>0, <1>2
    <3> QED BY <3>1, <1>3 DEF UAt
  <2>2. UAt(n)' = UAt(n)
    <3>1. n # height'
      BY <1>2
    <3>2. snaps'[n].utxos = utxos
      BY <1>3 DEF Snapshot
    <3> QED BY <1>0, <3>1, <3>2 DEF UAt
  <2> QED BY <2>1, <2>2, <1>2
<1>7. UAt(n + 1)' = AfterExecuting(txs)
  BY <1>2 DEF UAt, AddBlock, ExecuteTransactions
<1>8. UAt(n) = utxos
  BY <1>0 DEF UAt
<1>9. /\ SpentBy(txs) \subseteq utxos
      /\ Listed(txs) \cap Below(n) = {}
      /\ \A k, m \in DOMAIN txs : txs[k] = txs[m] => k = m
  BY <1>0, AcceptedBlock DEF AddBlock
<1>10. LevelsExact'
  <2>1. utxos = CreatedIn(Below(n)) \ SpentIn(Below(n))
    BY <1>0, <1>2, <1>8 DEF LedgerInv, LevelsExact
  <2>2. SpentIn(Below(n)) \subseteq CreatedIn(Below(n))
    BY <1>0, <1>2, SpentWasCreated
  <2>3. AfterExecuting(txs) = CreatedIn(Below(n) \cup Listed(txs))
                                \ SpentIn(Below(n) \cup Listed(txs))
    BY <2>1, <2>2, <1>9, ExecuteExact
  <2>4. UAt(n + 1)' = CreatedIn(Below(n + 1)') \ SpentIn(Below(n + 1)')
    BY <2>3, <1>5, <1>7
  <2>5. \A h \in 0..n : UAt(h)' = CreatedIn(Below(h)') \ SpentIn(Below(h)')
    BY <1>0, <1>2, <1>4, <1>6 DEF LedgerInv, LevelsExact
  <2>6. \A h \in 0..height' : UAt(h)' = CreatedIn(Below(h)') \ SpentIn(Below(h)')
    BY <2>4, <2>5, <1>2
  <2> QED BY <2>6 DEF LevelsExact, CreatedIn, SpentIn
<1>11. \A h \in 0..(n - 1) : Txs(h)' = Txs(h)
  BY <1>3 DEF Txs
<1>12. Txs(n)' = txs
  BY <1>3 DEF Txs
<1>13. SpendsAvailable'
  <2>1. \A h \in 0..(n - 1) : SpentBy(Txs(h)') \subseteq UAt(h)'
    BY <1>0, <1>2, <1>6, <1>11 DEF LedgerInv, SpendsAvailable
  <2>2. SpentBy(Txs(n)') \subseteq UAt(n)'
    BY <1>2, <1>6, <1>8, <1>9, <1>12
  <2>3. \A h \in 0..(height' - 1) : SpentBy(Txs(h)') \subseteq UAt(h)'
    BY <2>1, <2>2, <1>2
  <2> QED BY <2>3 DEF SpendsAvailable, SpentBy, Spends, Ins
<1>14. DiffsMatch'
  <2>1. \A h \in 0..(n - 1) : diffFile'[h] = DiffOf(Txs(h)')
    BY <1>0, <1>3, <1>11 DEF LedgerInv, DiffsMatch
  <2>2. diffFile'[n] = DiffOf(Txs(n)')
    BY <1>3, <1>12
  <2>3. \A h \in 0..(height' - 1) : diffFile'[h] = DiffOf(Txs(h)')
    BY <2>1, <2>2, <1>2
  <2> QED BY <2>3 DEF DiffsMatch, DiffOf, SpentBy, Spends, Ins
<1>15. IdsFresh'
  <2>1. ASSUME NEW h \in 0..(n - 1)
        PROVE  /\ Listed(Txs(h)') \cap Below(h)' = {}
               /\ \A k, m \in DOMAIN Txs(h)' : Txs(h)'[k] = Txs(h)'[m] => k = m
    BY <1>0, <1>2, <1>4, <1>11 DEF LedgerInv, IdsFresh
  <2>2. /\ Listed(Txs(n)') \cap Below(n)' = {}
        /\ \A k, m \in DOMAIN Txs(n)' : Txs(n)'[k] = Txs(n)'[m] => k = m
    BY <1>2, <1>4, <1>9, <1>12
  <2>3. \A h \in 0..(height' - 1) :
          /\ Listed(Txs(h)') \cap Below(h)' = {}
          /\ \A k, m \in DOMAIN Txs(h)' : Txs(h)'[k] = Txs(h)'[m] => k = m
    BY <2>1, <2>2, <1>2
  <2> QED BY <2>3 DEF IdsFresh, Listed
<1> QED BY <1>1, <1>10, <1>13, <1>14, <1>15 DEF LedgerInv

\* Undoing the last block gives the outputs before it, and all it created is
\* still unspent.
LEMMA UndoExact ==
  ASSUME LedgerInv, height > 0
  PROVE  LET txs == Txs(height - 1)
         IN  /\ (utxos \cup SpentBy(txs)) \ CreatedBy(txs) = snaps[height - 1].utxos
             /\ CreatedBy(txs) \subseteq utxos
             /\ diffFile[height - 1] = DiffOf(txs)
<1> DEFINE n == height - 1
           txs == Txs(n)
           T == Below(n)
           C == CreatedBy(txs)
           S == SpentBy(txs)
<1>1. n \in Nat /\ n \in 0..(height - 1) /\ n \in 0..height /\ height \in 0..height
      /\ n + 1 = height /\ n # height
  BY DEF LedgerInv, TypeOK
<1>2. Below(height) = T \cup Listed(txs)
  BY <1>1, BelowNext DEF Below, Txs
<1>3. C = CreatedIn(Listed(txs)) /\ S = SpentIn(Listed(txs))
  BY ListedSpendsCreates
<1>4. C \cap CreatedIn(T) = {}
  <2> SUFFICES ASSUME NEW o \in C, o \in CreatedIn(T) PROVE FALSE
    OBVIOUS
  <2>1. PICK t \in Listed(txs) : o \in Creates(t)
    BY <1>3 DEF CreatedIn
  <2>2. PICK u \in T : o \in Creates(u)
    BY DEF CreatedIn
  <2>3. t = u
    BY <2>1, <2>2, CreatorUnique
  <2>4. Listed(txs) \cap T = {}
    BY <1>1 DEF LedgerInv, IdsFresh
  <2> QED BY <2>3, <2>4
<1>5. UAt(n) = snaps[n].utxos /\ UAt(height) = utxos
  BY <1>1 DEF UAt
<1>6. snaps[n].utxos = CreatedIn(T) \ SpentIn(T)
  BY <1>1, <1>5 DEF LedgerInv, LevelsExact
<1>7. utxos = (CreatedIn(T) \cup C) \ (SpentIn(T) \cup S)
  <2>1. utxos = CreatedIn(Below(height)) \ SpentIn(Below(height))
    BY <1>1, <1>5 DEF LedgerInv, LevelsExact
  <2>2. CreatedIn(T \cup Listed(txs)) = CreatedIn(T) \cup CreatedIn(Listed(txs))
    BY DEF CreatedIn
  <2>3. SpentIn(T \cup Listed(txs)) = SpentIn(T) \cup SpentIn(Listed(txs))
    BY DEF SpentIn
  <2> QED BY <2>1, <2>2, <2>3, <1>2, <1>3
<1>8. S \subseteq snaps[n].utxos
  BY <1>1, <1>5 DEF LedgerInv, SpendsAvailable
<1>9. SpentIn(T) \subseteq CreatedIn(T)
  BY <1>1, SpentWasCreated
<1>10. diffFile[n] = DiffOf(txs)
  BY <1>1 DEF LedgerInv, DiffsMatch
<1> HIDE DEF C, S, T, txs
<1>11. (utxos \cup S) \ C = snaps[n].utxos /\ C \subseteq utxos
  BY <1>4, <1>6, <1>7, <1>8, <1>9
<1> QED BY <1>10, <1>11 DEF C, S, txs

\* recall_block_utxos finds every row it looks for.
LEMMA RecallSucceeds ==
  ASSUME LedgerInv, height > 0
  PROVE  CanRecall(diffFile[height - 1])
<1> DEFINE txs == Txs(height - 1)
<1>1. diffFile[height - 1] = DiffOf(txs) /\ CreatedBy(txs) \subseteq utxos
  BY UndoExact
<1>2. height - 1 \in 0..(height - 1)
  BY DEF LedgerInv, TypeOK
<1>3. txs \in Seq(Tx)
  BY <1>2 DEF LedgerInv, TypeOK, Txs, Block, Body
<1> SUFFICES ASSUME NEW k \in DOMAIN txs, Outs(txs[k]) # <<>>
             PROVE  <<txs[k], Len(Outs(txs[k]))>> \in utxos
  BY <1>1 DEF CanRecall, MissingCreated, Restored, DiffOf
<1>4. Outs(txs[k]) \in Seq(TransactionOutput)
  BY <1>3, SpendsCreatesType
<1>5. Len(Outs(txs[k])) \in DOMAIN Outs(txs[k])
  BY <1>4
<1>6. <<txs[k], Len(Outs(txs[k]))>> \in CreatedBy(txs)
  BY <1>5 DEF CreatedBy, Creates
<1> QED BY <1>1, <1>6

\* pop_block keeps the ledger invariant and restores the outputs.
LEMMA PopBlockLedger ==
  ASSUME LedgerInv, PopBlock
  PROVE  LedgerInv' /\ utxos' = snaps[height'].utxos
<1>0. PICK n : n = height - 1
  OBVIOUS
<1>1. TypeOK /\ TypeOK'
  BY PopBlockType DEF LedgerInv
<1>2. n \in Nat /\ height' = n /\ height = n + 1 /\ n # height
      /\ 0..n = 0..(n - 1) \cup {n} /\ 0..n \subseteq 0..height /\ height > 0
      /\ 0..(n - 1) \subseteq 0..(height - 1)
  BY <1>0 DEF LedgerInv, TypeOK, PopBlock, StorePopBlock
<1>3. \A h \in 0..(n - 1) : /\ blockFile'[h] = blockFile[h]
                           /\ diffFile'[h] = diffFile[h]
                           /\ snaps'[h] = snaps[h]
  BY <1>0, <1>1, <1>2, PopBlockFiles
<1>4. utxos' = snaps[n].utxos
  BY <1>0, <1>2, UndoExact DEF PopBlock, RecallBlockUtxos, Restored, DiffOf
<1>5. \A h \in 0..n : Below(h)' = Below(h)
  <2> SUFFICES ASSUME NEW h \in 0..n PROVE BelowIn(blockFile', h) = BelowIn(blockFile, h)
    BY DEF Below
  <2>1. \A i \in 0..(h - 1) : i \in 0..(n - 1)
    BY <1>2
  <2> QED BY <1>3, <2>1, BelowSame
<1>6. \A h \in 0..n : UAt(h)' = UAt(h)
  <2>1. ASSUME NEW h \in 0..(n - 1) PROVE UAt(h)' = UAt(h)
    <3>1. h # height' /\ h # height
      BY <1>2
    <3> QED BY <3>1, <1>3 DEF UAt
  <2>2. UAt(n)' = UAt(n)
    BY <1>2, <1>4 DEF UAt
  <2> QED BY <2>1, <2>2, <1>2
<1>7. \A h \in 0..(n - 1) : Txs(h)' = Txs(h)
  BY <1>3 DEF Txs
<1>8. LevelsExact'
  <2>1. \A h \in 0..n : UAt(h)' = CreatedIn(Below(h)') \ SpentIn(Below(h)')
    BY <1>2, <1>5, <1>6 DEF LedgerInv, LevelsExact
  <2> QED BY <2>1, <1>2 DEF LevelsExact, CreatedIn, SpentIn
<1>9. SpendsAvailable'
  <2>1. \A h \in 0..(n - 1) : SpentBy(Txs(h)') \subseteq UAt(h)'
    BY <1>2, <1>6, <1>7 DEF LedgerInv, SpendsAvailable
  <2> QED BY <2>1, <1>2 DEF SpendsAvailable, SpentBy, Spends, Ins
<1>10. DiffsMatch'
  <2>1. \A h \in 0..(n - 1) : diffFile'[h] = DiffOf(Txs(h)')
    BY <1>2, <1>3, <1>7 DEF LedgerInv, DiffsMatch
  <2> QED BY <2>1, <1>2 DEF DiffsMatch, DiffOf, SpentBy, Spends, Ins
<1>11. IdsFresh'
  <2>1. \A h \in 0..(n - 1) :
          /\ Listed(Txs(h)') \cap Below(h)' = {}
          /\ \A k, m \in DOMAIN Txs(h)' : Txs(h)'[k] = Txs(h)'[m] => k = m
    BY <1>2, <1>5, <1>7 DEF LedgerInv, IdsFresh
  <2> QED BY <2>1, <1>2 DEF IdsFresh, Listed
<1> QED BY <1>1, <1>2, <1>4, <1>8, <1>9, <1>10, <1>11 DEF LedgerInv

\* The inductive step for the ledger.
LEMMA LedgerStep ==
  ASSUME FreshRewards, LedgerInv, [Next]_vars
  PROVE  LedgerInv'
<1>0. TypeOK
  BY DEF LedgerInv
<1>1. CASE ReceiveBlock
  <2>1. PICK txs \in TxLists :
          /\ FreshList(txs)
          /\ \E p, q, r \in 0..height, ts \in Timestamps, pow \in Pows :
               AddBlock(OfferedBlock(p, q, r, txs, ts, pow))
    BY <1>1 DEF ReceiveBlock
  <2>2. PICK p \in 0..height, q \in 0..height, r \in 0..height,
             ts \in Timestamps, pow \in Pows :
               AddBlock(OfferedBlock(p, q, r, txs, ts, pow))
    BY <2>1
  <2>3. PICK b : b = OfferedBlock(p, q, r, txs, ts, pow)
    OBVIOUS
  <2>4. b \in Block /\ AddBlock(b)
    BY <1>0, <2>2, <2>3, OfferedType
  <2>5. b.body.txs = txs
    BY <2>3 DEF OfferedBlock
  <2> QED BY <2>1, <2>4, <2>5, AddBlockLedger
<1>2. CASE PopBlock
  BY <1>2, PopBlockLedger
<1>3. CASE PopBlockFails
  <2>1. height > 0 /\ RecallFails(diffFile[height - 1])
    BY <1>3 DEF PopBlockFails
  <2>2. CanRecall(diffFile[height - 1])
    BY <2>1, RecallSucceeds
  <2> QED BY <2>1, <2>2 DEF RecallFails, CanRecall
<1>4. CASE UNCHANGED vars
  <2>1. TypeOK'
    BY <1>0, <1>4 DEF TypeOK, vars, storeVars, difficultyVars
  <2>2. /\ height' = height /\ utxos' = utxos /\ snaps' = snaps
        /\ blockFile' = blockFile /\ diffFile' = diffFile
    BY <1>4 DEF vars, storeVars
  <2>3. LevelsExact'
    BY <2>2 DEF LedgerInv, LevelsExact, UAt, Below
  <2>4. SpendsAvailable'
    BY <2>2 DEF LedgerInv, SpendsAvailable, UAt, Txs
  <2>5. DiffsMatch'
    BY <2>2 DEF LedgerInv, DiffsMatch, Txs
  <2>6. IdsFresh'
    BY <2>2 DEF LedgerInv, IdsFresh, Below, Txs
  <2> QED BY <2>1, <2>3, <2>4, <2>5, <2>6 DEF LedgerInv
<1> QED BY <1>1, <1>2, <1>3, <1>4 DEF Next

\* The ledger invariant holds initially.
LEMMA LedgerInit == Init => LedgerInv
<1> SUFFICES ASSUME Init PROVE LedgerInv
  OBVIOUS
<1>1. height = 0 /\ utxos = {} /\ 0..(height - 1) = {} /\ 0..height = {0}
  BY DEF Init, StoreInit
<1>2. Below(0) = {}
  BY DEF Below, BelowIn
<1>3. UAt(0) = CreatedIn(Below(0)) \ SpentIn(Below(0))
  BY <1>1, <1>2 DEF UAt, CreatedIn, SpentIn
<1> QED BY <1>1, <1>3, InitType DEF LedgerInv, LevelsExact, SpendsAvailable,
       DiffsMatch, IdsFresh

\* In every reachable state the ledger invariant holds.
LEMMA LedgerAlways ==
  ASSUME FreshRewards
  PROVE  Spec => []LedgerInv
<1>1. LedgerInv /\ [Next]_vars => LedgerInv'
  BY LedgerStep
<1> QED BY <1>1, LedgerInit, PTL DEF Spec

\* The database holds exactly the outputs the chain created and did not spend,
\* for every chain and after any rollbacks.
THEOREM UtxosAlwaysExact ==
  ASSUME FreshRewards
  PROVE  Spec => []UtxosExact
<1>1. LedgerInv => UtxosExact
  <2> SUFFICES ASSUME LedgerInv PROVE UtxosExact
    OBVIOUS
  <2>1. height \in 0..height
    BY DEF LedgerInv, TypeOK
  <2>2. utxos = CreatedIn(Below(height)) \ SpentIn(Below(height))
    BY <2>1 DEF LedgerInv, LevelsExact, UAt
  <2>3. Below(height) = ChainTxs
    BY DEF Below, BelowIn, Listed, ChainTxs
  <2>4. utxos = CreatedIn(ChainTxs) \ SpentIn(ChainTxs)
    BY <2>2, <2>3
  <2> QED BY <2>4 DEF UtxosExact
<1> QED BY <1>1, LedgerAlways, PTL

\* No transaction is on the chain twice, although add_block compares no ids.
THEOREM NeverReplayed ==
  ASSUME FreshRewards
  PROVE  Spec => []NoReplay
<1>1. LedgerInv => NoReplay
  <2> SUFFICES ASSUME LedgerInv, NEW p \in Position, NEW q \in Position,
                      TxAt(p) = TxAt(q)
               PROVE  p = q
    BY DEF NoReplay
  <2>0. height \in Nat
    BY DEF LedgerInv, TypeOK
  <2>1. PICK g \in 0..(height - 1) : \E k \in DOMAIN Txs(g) : p = <<g, k>>
    BY DEF Position, Txs
  <2>2. PICK k \in DOMAIN Txs(g) : p = <<g, k>>
    BY <2>1
  <2>3. PICK h \in 0..(height - 1) : \E m \in DOMAIN Txs(h) : q = <<h, m>>
    BY DEF Position, Txs
  <2>4. PICK m \in DOMAIN Txs(h) : q = <<h, m>>
    BY <2>3
  <2>5. Txs(g)[k] = Txs(h)[m]
    BY <2>2, <2>4 DEF TxAt, Txs
  <2>6. ASSUME NEW i \in 0..(height - 1), NEW j \in 0..(height - 1), i < j
        PROVE  Listed(Txs(i)) \cap Listed(Txs(j)) = {}
    <3>1. i \in 0..(j - 1)
      BY <2>0, <2>6
    <3>2. Listed(Txs(i)) \subseteq Below(j)
      BY <3>1 DEF Below, BelowIn, Txs
    <3> QED BY <3>2 DEF LedgerInv, IdsFresh
  <2>7. Txs(g)[k] \in Listed(Txs(g)) /\ Txs(h)[m] \in Listed(Txs(h))
    BY DEF Listed
  <2>8. g = h
    <3>1. ~(g < h)
      BY <2>5, <2>6, <2>7
    <3>2. ~(h < g)
      BY <2>5, <2>6, <2>7
    <3> QED BY <2>0, <3>1, <3>2
  <2>9. k = m
    BY <2>5, <2>8 DEF LedgerInv, IdsFresh
  <2> QED BY <2>2, <2>4, <2>8, <2>9
<1> QED BY <1>1, LedgerAlways, PTL

\* pop_block never fails for want of a row.
THEOREM PopNeverStuck ==
  ASSUME FreshRewards
  PROVE  Spec => []AlwaysPoppable
<1>1. LedgerInv => AlwaysPoppable
  BY RecallSucceeds DEF AlwaysPoppable
<1> QED BY <1>1, LedgerAlways, PTL

-----------------------------------------------------------------------------
(* The difficulties, whether or not reward transactions repeat.            *)

\* The history agrees with the metadata of the blocks.
HistoryLinked ==
  /\ \A h \in 0..(height - 1) : /\ snaps[h].bd = blockFile[h].body.bd
                                /\ snaps[h].td = blockFile[h].body.td
                                /\ snaps[h].last = blockFile[h].prev
  /\ \A h \in 1..(height - 1) : snaps[h].ts = blockFile[h - 1].body.ts
  /\ height > 0 => last_timestamp = blockFile[height - 1].body.ts

HistoryInv == IndexInv /\ HistoryLinked /\ DifficultyOfChain

\* add_block keeps the links of the history.
LEMMA AddBlockHistory ==
  ASSUME HistoryInv, NEW b \in Block, AddBlock(b)
  PROVE  HistoryLinked' /\ DifficultyOfChain'
<1>0. PICK n : n = height
  OBVIOUS
<1>1. TypeOK
  BY DEF HistoryInv, IndexInv
<1>2. n \in Nat /\ height' = n + 1 /\ height' - 1 = n
      /\ 0..n = 0..(n - 1) \cup {n}
  BY <1>0, <1>1 DEF TypeOK, AddBlock, StoreAddBlock
<1>3. /\ blockFile'[n] = b
      /\ snaps'[n] = Snapshot
      /\ \A h \in 0..(n - 1) : /\ blockFile'[h] = blockFile[h]
                              /\ snaps'[h] = snaps[h]
  BY <1>0, <1>1, AddBlockFiles
<1>4. /\ b.body.bd = block_difficulty
      /\ b.body.td = transaction_difficulty
      /\ b.prev = last_block
  BY DEF AddBlock, ValidBlock, ValidDifficulties
<1>5. /\ snaps'[n].bd = b.body.bd
      /\ snaps'[n].td = b.body.td
      /\ snaps'[n].last = b.prev
      /\ snaps'[n].ts = last_timestamp
  BY <1>3, <1>4 DEF Snapshot
<1>6. /\ block_difficulty' =
           NextBlockDifficulty(b.body.bd, last_timestamp, b.body.ts)
      /\ transaction_difficulty' = NextTxDifficulty(b.body.td, Len(b.body.txs))
      /\ last_timestamp' = b.body.ts
  BY <1>4 DEF AddBlock, UpdateDifficulty
<1>7. n > 0 => last_timestamp = blockFile'[n - 1].body.ts
  <2>1. n > 0 => n - 1 \in 0..(n - 1)
    BY <1>2
  <2> QED BY <1>0, <1>3, <2>1 DEF HistoryInv, HistoryLinked
<1>8. HistoryLinked'
  <2>1. \A h \in 0..n : /\ snaps'[h].bd = blockFile'[h].body.bd
                        /\ snaps'[h].td = blockFile'[h].body.td
                        /\ snaps'[h].last = blockFile'[h].prev
    BY <1>0, <1>2, <1>3, <1>5 DEF HistoryInv, HistoryLinked
  <2>2. ASSUME NEW h \in 1..n PROVE snaps'[h].ts = blockFile'[h - 1].body.ts
    <3>1. h - 1 \in 0..(n - 1) /\ h \in 0..n
      BY <1>2
    <3>2. CASE h = n
      BY <1>2, <1>5, <1>7, <3>2
    <3>3. CASE h # n
      <4>1. h \in 1..(n - 1) /\ h \in 0..(n - 1)
        BY <3>3, <1>2
      <4> QED BY <1>0, <1>3, <3>1, <4>1 DEF HistoryInv, HistoryLinked
    <3> QED BY <3>2, <3>3
  <2> QED BY <1>2, <1>3, <1>6, <2>1, <2>2 DEF HistoryLinked
<1>9. DifficultyOfChain'
  <2>1. ASSUME NEW h \in 0..n PROVE StateAt(h)' = StateAt(h)
    <3>1. h # height'
      BY <1>2
    <3>2. CASE h = n
      BY <1>0, <1>3, <3>1, <3>2 DEF StateAt
    <3>3. CASE h # n
      <4>1. h \in 0..(n - 1) /\ h # height
        BY <1>0, <1>2, <3>3
      <4> QED BY <1>3, <3>1, <4>1 DEF StateAt
    <3> QED BY <3>2, <3>3
  <2>2. StateAt(0)'.bd = StartingDifficulty /\ StateAt(0)'.td = StartingDifficulty
    <3>1. 0 \in 0..n
      BY <1>2
    <3>2. StateAt(0)' = StateAt(0)
      BY <2>1, <3>1
    <3> QED BY <3>2 DEF HistoryInv, DifficultyOfChain
  <2>3. ASSUME NEW h \in 1..(n + 1)
        PROVE  /\ StateAt(h)'.td = NextTxDifficulty(blockFile'[h - 1].body.td,
                     Len(blockFile'[h - 1].body.txs))
               /\ h > 1 => StateAt(h)'.bd =
                    NextBlockDifficulty(blockFile'[h - 1].body.bd,
                      blockFile'[h - 2].body.ts, blockFile'[h - 1].body.ts)
    <3>1. CASE h = n + 1
      <4>1. h - 1 = n /\ h - 2 = n - 1 /\ (h > 1 => n > 0)
        BY <1>2, <3>1
      <4>2. StateAt(h)' = Snapshot'
        BY <1>2, <3>1 DEF StateAt
      <4>3. StateAt(h)'.bd = block_difficulty' /\ StateAt(h)'.td = transaction_difficulty'
        BY <4>2 DEF Snapshot
      <4> QED BY <1>3, <1>6, <1>7, <4>1, <4>3
    <3>2. CASE h \in 1..n
      <4>1. h - 1 \in 0..(n - 1) /\ h \in 0..n /\ (h > 1 => h - 2 \in 0..(n - 1))
        BY <1>2, <3>2
      <4>2. StateAt(h)' = StateAt(h)
        BY <2>1, <4>1
      <4> QED BY <1>0, <1>3, <3>2, <4>1, <4>2 DEF HistoryInv, DifficultyOfChain
    <3> QED BY <1>2, <3>1, <3>2
  <2> QED BY <1>2, <2>2, <2>3 DEF DifficultyOfChain
<1> QED BY <1>8, <1>9

\* pop_block puts back the difficulties and the last hash the block was added
\* to, and the timestamp unless it was the first block.
LEMMA PopBlockHistory ==
  ASSUME HistoryInv, PopBlock
  PROVE  /\ HistoryLinked' /\ DifficultyOfChain'
         /\ height' = height - 1
         /\ block_difficulty' = snaps[height'].bd
         /\ transaction_difficulty' = snaps[height'].td
         /\ last_block' = snaps[height'].last
         /\ height' > 0 => last_timestamp' = snaps[height'].ts
<1>0. PICK n : n = height - 1
  OBVIOUS
<1>1. TypeOK /\ ChainIndexed
  BY DEF HistoryInv, IndexInv
<1>2. n \in Nat /\ height = n + 1 /\ height' = n /\ n \in 0..(height - 1)
      /\ 0..(n - 1) \subseteq 0..(height - 1) /\ height - 2 = n - 1
      /\ (n > 0 => n - 1 \in 0..(n - 1) /\ n \in 1..(height - 1))
      /\ (height = 1 <=> n = 0) /\ (height > 1 <=> n > 0) /\ (n # 0 => n > 0)
  BY <1>0, <1>1 DEF TypeOK, PopBlock, StorePopBlock
<1>3. \A h \in 0..(n - 1) : /\ blockFile'[h] = blockFile[h]
                           /\ snaps'[h] = snaps[h]
  BY <1>1, <1>2, PopBlockFiles
<1>4. block_difficulty' = snaps[n].bd /\ transaction_difficulty' = snaps[n].td
  BY <1>0, <1>2 DEF PopBlock, RecallDifficulty, HistoryInv, HistoryLinked
<1>5. last_block' = snaps[n].last
  <2>1. snaps[n].last = blockFile[n].prev
    BY <1>2 DEF HistoryInv, HistoryLinked
  <2>2. blockFile[n].prev = IF n = 0 THEN GenesisHash ELSE by_height[n - 1]
    BY <1>1, <1>2 DEF ChainIndexed
  <2>3. n > 0 => by_height[n - 1] = BlockHash(blockFile[n - 1])
    BY <1>1, <1>2 DEF ChainIndexed
  <2> QED BY <1>2, <2>1, <2>2, <2>3 DEF PopBlock, StorePopBlock
<1>6. n > 0 => /\ last_timestamp' = blockFile'[n - 1].body.ts
               /\ last_timestamp' = snaps[n].ts
  BY <1>0, <1>2, <1>3 DEF PopBlock, RecallDifficulty, HistoryInv, HistoryLinked
<1>7. HistoryLinked'
  <2>1. \A h \in 0..(n - 1) : /\ snaps'[h].bd = blockFile'[h].body.bd
                             /\ snaps'[h].td = blockFile'[h].body.td
                             /\ snaps'[h].last = blockFile'[h].prev
    BY <1>2, <1>3 DEF HistoryInv, HistoryLinked
  <2>2. ASSUME NEW h \in 1..(n - 1) PROVE snaps'[h].ts = blockFile'[h - 1].body.ts
    <3>1. h - 1 \in 0..(n - 1) /\ h \in 0..(n - 1) /\ h \in 1..(height - 1)
      BY <1>2
    <3> QED BY <1>3, <3>1 DEF HistoryInv, HistoryLinked
  <2> QED BY <1>2, <1>6, <2>1, <2>2 DEF HistoryLinked
<1>8. DifficultyOfChain'
  <2>1. ASSUME NEW h \in 0..n
        PROVE  StateAt(h)'.bd = StateAt(h).bd /\ StateAt(h)'.td = StateAt(h).td
    <3>0. h # height
      BY <1>2
    <3>1. CASE h = n
      <4>1. StateAt(h)' = Snapshot' /\ StateAt(h) = snaps[n]
        BY <1>2, <3>0, <3>1 DEF StateAt
      <4> QED BY <1>4, <4>1 DEF Snapshot
    <3>2. CASE h # n
      <4>1. h \in 0..(n - 1) /\ h # height'
        BY <1>2, <3>2
      <4> QED BY <1>3, <3>0, <4>1 DEF StateAt
    <3> QED BY <3>1, <3>2
  <2>2. StateAt(0)'.bd = StartingDifficulty /\ StateAt(0)'.td = StartingDifficulty
    <3>1. 0 \in 0..n
      BY <1>2
    <3>2. StateAt(0)'.bd = StateAt(0).bd /\ StateAt(0)'.td = StateAt(0).td
      BY <2>1, <3>1
    <3> QED BY <3>2 DEF HistoryInv, DifficultyOfChain
  <2>3. ASSUME NEW h \in 1..n
        PROVE  /\ StateAt(h)'.td = NextTxDifficulty(blockFile'[h - 1].body.td,
                     Len(blockFile'[h - 1].body.txs))
               /\ h > 1 => StateAt(h)'.bd =
                    NextBlockDifficulty(blockFile'[h - 1].body.bd,
                      blockFile'[h - 2].body.ts, blockFile'[h - 1].body.ts)
    <3>1. /\ h - 1 \in 0..(n - 1) /\ h \in 1..height /\ h \in 0..n
          /\ h > 1 => h - 2 \in 0..(n - 1)
      BY <1>2
    <3>2. StateAt(h)'.bd = StateAt(h).bd /\ StateAt(h)'.td = StateAt(h).td
      BY <2>1, <3>1
    <3> QED BY <1>3, <3>1, <3>2 DEF HistoryInv, DifficultyOfChain
  <2> QED BY <1>2, <2>2, <2>3 DEF DifficultyOfChain
<1> QED BY <1>0, <1>2, <1>4, <1>5, <1>6, <1>7, <1>8

\* The inductive step for the history.
LEMMA HistoryStep == HistoryInv /\ [Next]_vars => HistoryInv'
<1> SUFFICES ASSUME HistoryInv, [Next]_vars PROVE HistoryLinked' /\ DifficultyOfChain'
  BY IndexStep DEF HistoryInv
<1>0. TypeOK
  BY DEF HistoryInv, IndexInv
<1>1. CASE ReceiveBlock
  <2>1. PICK txs \in TxLists, p \in 0..height, q \in 0..height, r \in 0..height,
             ts \in Timestamps, pow \in Pows :
               AddBlock(OfferedBlock(p, q, r, txs, ts, pow))
    BY <1>1 DEF ReceiveBlock
  <2>2. PICK b : b = OfferedBlock(p, q, r, txs, ts, pow)
    OBVIOUS
  <2>3. b \in Block /\ AddBlock(b)
    BY <1>0, <2>1, <2>2, OfferedType
  <2> QED BY <2>3, AddBlockHistory
<1>2. CASE PopBlock
  BY <1>2, PopBlockHistory
<1>3. CASE PopBlockFails
  <2>1. /\ height' = height /\ snaps' = snaps /\ blockFile' = blockFile
        /\ last_timestamp' = last_timestamp
        /\ block_difficulty' = block_difficulty
        /\ transaction_difficulty' = transaction_difficulty
    BY <1>3 DEF PopBlockFails, storeVars, difficultyVars
  <2>2. \A h : StateAt(h)'.bd = StateAt(h).bd /\ StateAt(h)'.td = StateAt(h).td
    BY <2>1 DEF StateAt, Snapshot
  <2>3. HistoryLinked'
    BY <2>1 DEF HistoryInv, HistoryLinked
  <2>4. DifficultyOfChain'
    BY <2>1, <2>2 DEF HistoryInv, DifficultyOfChain
  <2> QED BY <2>3, <2>4
<1>4. CASE UNCHANGED vars
  <2>1. /\ height' = height /\ snaps' = snaps /\ blockFile' = blockFile
        /\ last_timestamp' = last_timestamp
        /\ Snapshot' = Snapshot
    BY <1>4 DEF vars, storeVars, difficultyVars, Snapshot
  <2>2. \A h : StateAt(h)' = StateAt(h)
    BY <2>1 DEF StateAt
  <2>3. HistoryLinked'
    BY <2>1 DEF HistoryInv, HistoryLinked
  <2>4. DifficultyOfChain'
    BY <2>1, <2>2 DEF HistoryInv, DifficultyOfChain
  <2> QED BY <2>3, <2>4
<1> QED BY <1>1, <1>2, <1>3, <1>4 DEF Next

\* In every reachable state the history agrees with the chain.
LEMMA HistoryAlways == Spec => []HistoryInv
<1>1. Init => HistoryInv
  <2> SUFFICES ASSUME Init PROVE HistoryInv
    OBVIOUS
  <2>1. /\ height = 0 /\ 0..(height - 1) = {} /\ 1..(height - 1) = {}
        /\ 1..height = {} /\ DOMAIN by_hash = {}
    BY DEF Init, StoreInit
  <2>2. ChainIndexed /\ HashLengths
    BY <2>1 DEF Init, StoreInit, ChainIndexed, HashLengths
  <2>3. StateAt(0).bd = StartingDifficulty /\ StateAt(0).td = StartingDifficulty
    BY <2>1 DEF Init, StateAt, Snapshot
  <2> QED BY <2>1, <2>2, <2>3, InitType DEF HistoryInv, IndexInv, HistoryLinked,
             DifficultyOfChain
<1> QED BY <1>1, HistoryStep, PTL DEF Spec

\* Nodes that hold the same blocks require the same difficulties, whatever they
\* popped on the way; the block target from the second block on.
THEOREM DifficultyAgreed == Spec => []DifficultyOfChain
<1>1. HistoryInv => DifficultyOfChain
  BY DEF HistoryInv
<1> QED BY <1>1, HistoryAlways, PTL

\* Popping a block restores what it was added to.
THEOREM RollbackRestores ==
  ASSUME FreshRewards
  PROVE  Spec => RollbackExact
<1> DEFINE Restores ==
      height' < height =>
        LET was == snaps[height']
        IN  /\ utxos' = was.utxos
            /\ block_difficulty' = was.bd
            /\ transaction_difficulty' = was.td
            /\ last_block' = was.last
            /\ height' > 0 => last_timestamp' = was.ts
<1>1. LedgerInv /\ HistoryInv /\ [Next]_vars => [Restores]_vars
  <2> SUFFICES ASSUME LedgerInv, HistoryInv, Next, height' < height PROVE Restores
    BY DEF vars, storeVars
  <2>0. height \in Nat
    BY DEF LedgerInv, TypeOK
  <2>1. CASE ReceiveBlock
    <3>1. height' = height + 1
      BY <2>1 DEF ReceiveBlock, AddBlock, StoreAddBlock
    <3> QED BY <2>0, <3>1
  <2>2. CASE PopBlock
    <3>1. utxos' = snaps[height'].utxos
      BY <2>2, PopBlockLedger
    <3> QED BY <2>2, <3>1, PopBlockHistory
  <2>3. CASE PopBlockFails
    BY <2>0, <2>3 DEF PopBlockFails, storeVars
  <2> QED BY <2>1, <2>2, <2>3 DEF Next
<1> QED BY <1>1, LedgerAlways, HistoryAlways, PTL DEF Spec, RollbackExact

-----------------------------------------------------------------------------
(* Finite sets.                                                            *)

\* Every set of natural numbers that is not empty has a least element.
LEMMA Least ==
  ASSUME NEW S \in SUBSET Nat, S # {}
  PROVE  \E m \in S : \A k \in S : m <= k
<1> DEFINE R == StrictSubsetOrdering(Nat)
           T == {1..m : m \in S}
<1>1. T \subseteq FiniteSubsetsOf(Nat)
  <2>1. ASSUME NEW m \in Nat PROVE 1..m \in FiniteSubsetsOf(Nat)
    BY FS_Interval DEF FiniteSubsetsOf
  <2> QED BY <2>1
<1>2. IsWellFoundedOn(R, FiniteSubsetsOf(Nat))
  BY FS_StrictSubsetOrderingWellFounded
<1>3. T # {}
  OBVIOUS
<1> HIDE DEF R
<1>4. \E x \in T : \A y \in T : <<y, x>> \notin R
  <2> HIDE DEF T
  <2> QED BY <1>1, <1>2, <1>3, WFMin
<1>5. PICK m \in S : \A k \in S : <<1..k, 1..m>> \notin R
  BY <1>4
<1>6. ASSUME NEW k \in S, k < m PROVE <<1..k, 1..m>> \in R
  <2>1. 1..k \in SUBSET Nat /\ 1..m \in SUBSET Nat /\ 1..k \subseteq 1..m
    BY <1>6
  <2>2. m \in 1..m /\ m \notin 1..k
    BY <1>6
  <2> QED BY <2>1, <2>2 DEF R, StrictSubsetOrdering
<1>7. \A k \in S : k \in Nat /\ m \in Nat
  OBVIOUS
<1>8. \A k \in S : ~(k < m)
  BY <1>5, <1>6
<1>9. \A k \in S : m <= k
  BY <1>7, <1>8
<1> QED BY <1>9

\* Among the subsets of a finite set that have some property there is one of which no
\* proper subset has it.
LEMMA LeastSubset ==
  ASSUME NEW S, IsFiniteSet(S), NEW B \in SUBSET (SUBSET S), B # {}
  PROVE  \E T \in B : \A R \in SUBSET T : R # T => R \notin B
<1> DEFINE O == StrictSubsetOrdering(S)
<1>1. FiniteSubsetsOf(S) = SUBSET S
  BY FS_Subset DEF FiniteSubsetsOf
<1>2. IsWellFoundedOn(O, SUBSET S)
  BY <1>1, FS_StrictSubsetOrderingWellFounded
<1> HIDE DEF O
<1>3. PICK T \in B : \A R \in B : <<R, T>> \notin O
  BY <1>2, WFMin
<1>4. ASSUME NEW R \in SUBSET T, R # T, R \in B  PROVE FALSE
  <2>1. <<R, T>> \in O
    BY <1>4 DEF O, StrictSubsetOrdering
  <2> QED BY <1>3, <1>4, <2>1
<1> QED BY <1>4

-----------------------------------------------------------------------------
(* Sums over a finite set.                                                 *)

\* The element that a fold of the library takes out first.
Choice(s) == CHOOSE x \in s : TRUE

\* The library sums f over S with a function g that is equal to this one.
Summing(f, S, g) ==
  [s \in SUBSET S |-> IF s = {} THEN 0 ELSE f[Choice(s)] + g[s \ {Choice(s)}]]

\* `it' is such a function, as far as T goes.
Iterates(it, f, T) ==
  \A s \in T : it[s] = IF s = {} THEN 0 ELSE f[Choice(s)] + it[s \ {Choice(s)}]

\* What is chosen from a set that is not empty is in it.
LEMMA ChoiceIn == \A s : s # {} => Choice(s) \in s
  BY DEF Choice

\* There is such a function on the subsets of a finite set, built up by their size.
LEMMA IteratesExists ==
  ASSUME NEW f, NEW S, IsFiniteSet(S)
  PROVE  \E it : it = Summing(f, S, it)
<1> DEFINE K(n) == {s \in SUBSET S : Cardinality(s) <= n}
           Good(n) == \E it : Iterates(it, f, K(n))
           B == {n \in Nat : ~ Good(n)}
<1>1. ASSUME NEW s \in SUBSET S  PROVE IsFiniteSet(s) /\ Cardinality(s) \in Nat
  BY FS_Subset, FS_CardinalityType
<1>2. ASSUME NEW s \in SUBSET S, s # {}
      PROVE  /\ s \ {Choice(s)} \in SUBSET S
             /\ Cardinality(s \ {Choice(s)}) = Cardinality(s) - 1
  BY <1>1, <1>2, ChoiceIn, FS_RemoveElement
<1>3. B = {}
  <2> SUFFICES ASSUME B # {}  PROVE FALSE
    OBVIOUS
  <2>1. PICK n \in B : \A k \in B : n <= k
    BY Least
  <2>2. CASE n = 0
    <3> DEFINE it == [s \in K(0) |-> 0]
    <3>1. ASSUME NEW s \in K(0)  PROVE s = {}
      BY <1>1, FS_EmptySet
    <3>2. Iterates(it, f, K(0))
      BY <3>1 DEF Iterates
    <3> QED BY <2>1, <2>2, <3>2
  <2>3. CASE n # 0
    <3>1. n - 1 \in Nat /\ n \in Nat /\ ~(n <= n - 1)
      BY <2>1, <2>3
    <3>2. Good(n - 1)
      BY <2>1, <3>1
    <3>3. PICK it : Iterates(it, f, K(n - 1))
      BY <3>2
    <3> DEFINE to == [s \in K(n) |-> IF s = {} THEN 0 ELSE f[Choice(s)] + it[s \ {Choice(s)}]]
    <3>4. ASSUME NEW s \in K(n), s # {}
          PROVE  to[s \ {Choice(s)}] = it[s \ {Choice(s)}]
      <4> DEFINE r == s \ {Choice(s)}
      <4>1. r \in K(n - 1) /\ r \in K(n)
        BY <1>1, <1>2, <3>1, <3>4
      <4> HIDE DEF r
      <4> QED BY <3>3, <4>1 DEF Iterates, r
    <3>5. ASSUME NEW s \in K(n)
          PROVE to[s] = IF s = {} THEN 0 ELSE f[Choice(s)] + to[s \ {Choice(s)}]
      BY <3>4
    <3> HIDE DEF to
    <3>6. Iterates(to, f, K(n))
      BY <3>5 DEF Iterates
    <3> QED BY <2>1, <3>6
  <2> QED BY <2>2, <2>3
<1>4. Cardinality(S) \in Nat
  BY FS_CardinalityType
<1>5. K(Cardinality(S)) = SUBSET S
  <2>1. ASSUME NEW s \in SUBSET S  PROVE Cardinality(s) <= Cardinality(S)
    BY FS_Subset
  <2> QED BY <2>1
<1>6. PICK it : Iterates(it, f, SUBSET S)
  BY <1>3, <1>4, <1>5
<1> DEFINE on == [s \in SUBSET S |-> it[s]]
<1>7. on = Summing(f, S, on)
  BY <1>2, <1>6 DEF Iterates, Summing
<1> QED BY <1>7

\* And no two of them differ.
LEMMA IteratesUnique ==
  ASSUME NEW f, NEW S, IsFiniteSet(S), NEW it, Iterates(it, f, SUBSET S),
         NEW ot, Iterates(ot, f, SUBSET S)
  PROVE  it[S] = ot[S]
<1> DEFINE B == {s \in SUBSET S : it[s] # ot[s]}
<1> SUFFICES ASSUME B # {}  PROVE FALSE
  OBVIOUS
<1>1. PICK T \in B : \A R \in SUBSET T : R # T => R \notin B
  <2> HIDE DEF B
  <2>1. B \in SUBSET (SUBSET S)
    BY DEF B
  <2> QED BY <2>1, LeastSubset
<1>2. T # {}
  BY <1>1 DEF Iterates
<1>3. T \ {Choice(T)} \in SUBSET T /\ T \ {Choice(T)} # T /\ T \ {Choice(T)} \in SUBSET S
  BY <1>1, <1>2, ChoiceIn
<1>4. it[T \ {Choice(T)}] = ot[T \ {Choice(T)}]
  BY <1>1, <1>3
<1> QED BY <1>1, <1>2, <1>4 DEF Iterates

\* The library's sum of f over S.
LEMMA SumIterates ==
  ASSUME NEW f, NEW S, IsFiniteSet(S)
  PROVE  \E it : Iterates(it, f, SUBSET S) /\ SumFunctionOnSet(f, S) = it[S]
<1> DEFINE it == CHOOSE g : g = Summing(f, S, g)
<1>1. SumFunctionOnSet(f, S) = it[S]
  BY DEF SumFunctionOnSet, FoldFunctionOnSet, MapThenFoldSet, Summing, Choice
<1>2. \E g : g = Summing(f, S, g)
  BY IteratesExists
<1>3. it = Summing(f, S, it)
  BY <1>2
<1> HIDE DEF it
<1>4. ASSUME NEW s \in SUBSET S
      PROVE  it[s] = IF s = {} THEN 0 ELSE f[Choice(s)] + it[s \ {Choice(s)}]
  BY <1>3 DEF Summing
<1>5. Iterates(it, f, SUBSET S)
  BY <1>4 DEF Iterates
<1> QED BY <1>1, <1>5

\* A sum over nothing, and a sum with the first element taken out.
LEMMA SumFirst ==
  ASSUME NEW f, NEW S, IsFiniteSet(S)
  PROVE  SumFunctionOnSet(f, S) =
           IF S = {} THEN 0
           ELSE f[Choice(S)] + SumFunctionOnSet(f, S \ {Choice(S)})
<1>1. PICK it : Iterates(it, f, SUBSET S) /\ SumFunctionOnSet(f, S) = it[S]
  BY SumIterates
<1>2. CASE S = {}
  BY <1>1, <1>2 DEF Iterates
<1>3. CASE S # {}
  <2> DEFINE T == S \ {Choice(S)}
  <2>1. IsFiniteSet(T) /\ T \subseteq S
    BY FS_Subset
  <2> HIDE DEF T
  <2>2. PICK ot : Iterates(ot, f, SUBSET T) /\ SumFunctionOnSet(f, T) = ot[T]
    BY <2>1, SumIterates
  <2>3. Iterates(it, f, SUBSET T)
    BY <1>1, <2>1 DEF Iterates
  <2>4. it[T] = ot[T]
    BY <2>1, <2>2, <2>3, IteratesUnique
  <2>5. it[S] = f[Choice(S)] + it[T]
    BY <1>1, <1>3 DEF Iterates, T
  <2> QED BY <1>1, <1>3, <2>2, <2>4, <2>5 DEF T
<1> QED BY <1>2, <1>3

\* Nothing sums up to nothing.
LEMMA SumEmpty == \A f : SumFunctionOnSet(f, {}) = 0
  BY SumFirst, FS_EmptySet

\* A sum of natural numbers is one.
LEMMA SumType ==
  ASSUME NEW f, NEW S, IsFiniteSet(S), \A x \in S : f[x] \in Nat
  PROVE  SumFunctionOnSet(f, S) \in Nat
<1> DEFINE B == {T \in SUBSET S : SumFunctionOnSet(f, T) \notin Nat}
<1> SUFFICES ASSUME B # {}  PROVE FALSE
  OBVIOUS
<1> HIDE DEF B
<1>1. B \in SUBSET (SUBSET S)
  BY DEF B
<1>2. PICK T \in B : \A R \in SUBSET T : R # T => R \notin B
  BY <1>1, LeastSubset
<1>3. IsFiniteSet(T) /\ T \subseteq S /\ SumFunctionOnSet(f, T) \notin Nat
  BY <1>1, FS_Subset DEF B
<1>4. CASE T = {}
  BY <1>3, <1>4, SumEmpty
<1>5. CASE T # {}
  <2>1. Choice(T) \in T
    BY <1>5, ChoiceIn
  <2> DEFINE R == T \ {Choice(T)}
  <2>2. R \in SUBSET T /\ R # T /\ R \in SUBSET S
    BY <1>3, <2>1
  <2>3. SumFunctionOnSet(f, T) = f[Choice(T)] + SumFunctionOnSet(f, R)
    BY <1>3, <1>5, SumFirst
  <2> HIDE DEF R
  <2>4. SumFunctionOnSet(f, R) \in Nat
    BY <1>2, <2>2 DEF B
  <2>5. f[Choice(T)] \in Nat
    BY <1>3, <2>1
  <2>6. \A a, b : a \in Nat /\ b \in Nat => a + b \in Nat
    OBVIOUS
  <2> QED BY <1>3, <2>3, <2>4, <2>5, <2>6
<1> QED BY <1>4, <1>5

\* Whichever element is taken out, the sum is that element and the sum of the others.
LEMMA SumRemove ==
  ASSUME NEW f, NEW S, IsFiniteSet(S), \A x \in S : f[x] \in Nat, NEW q \in S
  PROVE  SumFunctionOnSet(f, S) = f[q] + SumFunctionOnSet(f, S \ {q})
<1> DEFINE Taken(T) == \A x \in T : SumFunctionOnSet(f, T) = f[x] + SumFunctionOnSet(f, T \ {x})
           B == {T \in SUBSET S : ~ Taken(T)}
<1> SUFFICES ASSUME B # {}  PROVE FALSE
  OBVIOUS
<1> HIDE DEF B
<1>1. B \in SUBSET (SUBSET S)
  BY DEF B
<1>2. PICK T \in B : \A R \in SUBSET T : R # T => R \notin B
  BY <1>1, LeastSubset
<1>3. PICK x \in T : SumFunctionOnSet(f, T) # f[x] + SumFunctionOnSet(f, T \ {x})
  BY DEF B
<1>4. IsFiniteSet(T) /\ T \subseteq S
  BY <1>1, FS_Subset
<1>5. PICK p \in T : SumFunctionOnSet(f, T) = f[p] + SumFunctionOnSet(f, T \ {p})
  BY <1>3, <1>4, ChoiceIn, SumFirst
<1>6. p # x
  BY <1>3, <1>5
<1> DEFINE P == T \ {p}
           Q == T \ {x}
           R == (T \ {p}) \ {x}
<1>7. Taken(P) /\ Taken(Q)
  <2>1. P \in SUBSET T /\ P # T /\ Q \in SUBSET T /\ Q # T /\ P \in SUBSET S /\ Q \in SUBSET S
    BY <1>4
  <2> HIDE DEF P, Q
  <2> QED BY <1>2, <2>1 DEF B
<1>8. x \in P /\ p \in Q /\ P \ {x} = R /\ Q \ {p} = R
  BY <1>6
<1>9. IsFiniteSet(R) /\ R \subseteq S
  BY <1>4, FS_Subset
<1> HIDE DEF P, Q, R
<1>10. /\ SumFunctionOnSet(f, P) = f[x] + SumFunctionOnSet(f, R)
       /\ SumFunctionOnSet(f, Q) = f[p] + SumFunctionOnSet(f, R)
  BY <1>7, <1>8
<1>11. SumFunctionOnSet(f, R) \in Nat /\ f[x] \in Nat /\ f[p] \in Nat
  BY <1>4, <1>9, SumType
<1>12. \A a, b, c \in Nat : a + (b + c) = b + (a + c)
  OBVIOUS
<1> QED BY <1>3, <1>5, <1>10, <1>11, <1>12 DEF P, Q

\* One element more.
LEMMA SumAdd ==
  ASSUME NEW f, NEW S, IsFiniteSet(S), NEW q, q \notin S, \A x \in S \cup {q} : f[x] \in Nat
  PROVE  SumFunctionOnSet(f, S \cup {q}) = f[q] + SumFunctionOnSet(f, S)
<1> DEFINE T == S \cup {q}
<1>1. IsFiniteSet(T) /\ q \in T /\ T \ {q} = S /\ \A x \in T : f[x] \in Nat
  BY FS_AddElement
<1> HIDE DEF T
<1>2. SumFunctionOnSet(f, T) = f[q] + SumFunctionOnSet(f, T \ {q})
  BY <1>1, SumRemove
<1> QED BY <1>1, <1>2 DEF T

\* The sum over two sets that have nothing in common.
LEMMA SumUnion ==
  ASSUME NEW f, NEW S, IsFiniteSet(S), NEW U, IsFiniteSet(U), S \cap U = {},
         \A x \in S \cup U : f[x] \in Nat
  PROVE  SumFunctionOnSet(f, S \cup U) = SumFunctionOnSet(f, S) + SumFunctionOnSet(f, U)
<1> DEFINE Added(T) == SumFunctionOnSet(f, S \cup T) = SumFunctionOnSet(f, S) + SumFunctionOnSet(f, T)
           B == {T \in SUBSET U : ~ Added(T)}
<1> SUFFICES ASSUME B # {}  PROVE FALSE
  OBVIOUS
<1> HIDE DEF B
<1>1. B \in SUBSET (SUBSET U)
  BY DEF B
<1>2. PICK T \in B : \A R \in SUBSET T : R # T => R \notin B
  BY <1>1, LeastSubset
<1>3. IsFiniteSet(T) /\ T \subseteq U /\ ~ Added(T)
  BY <1>1, FS_Subset DEF B
<1>4. SumFunctionOnSet(f, S) \in Nat /\ \A a \in Nat : a + 0 = a
  BY SumType
<1>5. CASE T = {}
  <2>1. S \cup T = S
    BY <1>5
  <2> QED BY <1>3, <1>4, <1>5, <2>1, SumEmpty
<1>6. CASE T # {}
  <2>1. PICK p : p \in T
    BY <1>6
  <2> DEFINE R == T \ {p}
  <2>2. R \in SUBSET T /\ R # T /\ R \in SUBSET U /\ T = R \cup {p} /\ p \notin R
    BY <1>3, <2>1
  <2>3. IsFiniteSet(R) /\ IsFiniteSet(S \cup R) /\ p \notin S \cup R
        /\ S \cup T = (S \cup R) \cup {p}
    BY <1>3, <2>1, FS_Subset, FS_Union
  <2> HIDE DEF R
  <2>4. Added(R)
    BY <1>2, <2>2 DEF B
  <2>5. /\ SumFunctionOnSet(f, T) = f[p] + SumFunctionOnSet(f, R)
        /\ SumFunctionOnSet(f, S \cup T) = f[p] + SumFunctionOnSet(f, S \cup R)
    <3>1. \A x \in R \cup {p} : f[x] \in Nat
      BY <1>3, <2>2
    <3>2. \A x \in (S \cup R) \cup {p} : f[x] \in Nat
      BY <1>3, <2>2
    <3>3. SumFunctionOnSet(f, R \cup {p}) = f[p] + SumFunctionOnSet(f, R)
      BY <2>2, <2>3, <3>1, SumAdd
    <3>4. SumFunctionOnSet(f, (S \cup R) \cup {p}) = f[p] + SumFunctionOnSet(f, S \cup R)
      BY <2>3, <3>2, SumAdd
    <3> QED BY <2>2, <2>3, <3>3, <3>4
  <2>6. f[p] \in Nat /\ SumFunctionOnSet(f, R) \in Nat
    <3>1. \A x \in R : f[x] \in Nat
      BY <2>2
    <3>2. f[p] \in Nat
      BY <1>3, <2>1
    <3> QED BY <2>3, <3>1, <3>2, SumType
  <2>7. \A a, b, c \in Nat : a + (b + c) = b + (a + c)
    OBVIOUS
  <2> QED BY <1>3, <1>4, <2>4, <2>5, <2>6, <2>7
<1> QED BY <1>5, <1>6

\* A part sums up to no more than the whole.
LEMMA SumPart ==
  ASSUME NEW f, NEW S, IsFiniteSet(S), \A x \in S : f[x] \in Nat, NEW T \in SUBSET S
  PROVE  SumFunctionOnSet(f, T) <= SumFunctionOnSet(f, S)
<1> DEFINE R == S \ T
<1>1. IsFiniteSet(T) /\ IsFiniteSet(R) /\ T \cap R = {} /\ T \cup R = S
  BY FS_Subset
<1>2. (\A x \in T : f[x] \in Nat) /\ (\A x \in R : f[x] \in Nat)
  OBVIOUS
<1> HIDE DEF R
<1>3. SumFunctionOnSet(f, T \cup R) = SumFunctionOnSet(f, T) + SumFunctionOnSet(f, R)
  BY <1>1, SumUnion
<1>4. SumFunctionOnSet(f, T) \in Nat /\ SumFunctionOnSet(f, R) \in Nat
  BY <1>1, <1>2, SumType
<1>5. \A a, b, c : a \in Nat /\ b \in Nat /\ c = a + b => a <= c
  OBVIOUS
<1> QED BY <1>1, <1>3, <1>4, <1>5

\* The sum looks at the values on the set only, and not at where they come from: m
\* names each element of U by one of S.
LEMMA SumRenamed ==
  ASSUME NEW f, NEW g, NEW m, NEW S, IsFiniteSet(S),
         \A x \in S : f[x] \in Nat /\ g[m[x]] = f[x],
         \A x, y \in S : m[x] = m[y] => x = y
  PROVE  /\ IsFiniteSet({m[x] : x \in S})
         /\ SumFunctionOnSet(g, {m[x] : x \in S}) = SumFunctionOnSet(f, S)
<1> DEFINE M(T) == {m[x] : x \in T}
           Same(T) == IsFiniteSet(M(T)) /\ SumFunctionOnSet(g, M(T)) = SumFunctionOnSet(f, T)
           B == {T \in SUBSET S : ~ Same(T)}
<1> SUFFICES ASSUME B # {}  PROVE FALSE
  OBVIOUS
<1> HIDE DEF B
<1>1. B \in SUBSET (SUBSET S)
  BY DEF B
<1>2. PICK T \in B : \A R \in SUBSET T : R # T => R \notin B
  BY <1>1, LeastSubset
<1>3. IsFiniteSet(T) /\ T \subseteq S /\ ~ Same(T)
  BY <1>1, FS_Subset DEF B
<1>4. CASE T = {}
  <2>1. M(T) = {}
    BY <1>4
  <2> HIDE DEF M
  <2> QED BY <1>3, <1>4, <2>1, SumEmpty, FS_EmptySet
<1>5. CASE T # {}
  <2>1. PICK p : p \in T
    BY <1>5
  <2> DEFINE R == T \ {p}
  <2>2. R \in SUBSET T /\ R # T /\ R \in SUBSET S /\ T = R \cup {p} /\ p \notin R
    BY <1>3, <2>1
  <2>3. M(T) = M(R) \cup {m[p]} /\ m[p] \notin M(R)
    BY <1>3, <2>1, <2>2
  <2>4. IsFiniteSet(R)
    BY <1>3, FS_Subset
  <2>5. \A y \in M(R) \cup {m[p]} : g[y] \in Nat
    BY <1>3, <2>1, <2>2
  <2>6. \A x \in R \cup {p} : f[x] \in Nat
    BY <1>3, <2>2
  <2>7. g[m[p]] = f[p]
    BY <1>3, <2>1
  <2> HIDE DEF R
  <2>8. Same(R)
    BY <1>2, <2>2 DEF B
  <2> HIDE DEF M
  <2>9. IsFiniteSet(M(T))
    BY <2>3, <2>8, FS_AddElement
  <2>10. SumFunctionOnSet(f, T) = f[p] + SumFunctionOnSet(f, R)
    BY <2>2, <2>4, <2>6, SumAdd
  <2>11. SumFunctionOnSet(g, M(T)) = g[m[p]] + SumFunctionOnSet(g, M(R))
    BY <2>3, <2>5, <2>8, SumAdd
  <2> QED BY <1>3, <2>7, <2>8, <2>9, <2>10, <2>11
<1> QED BY <1>4, <1>5

\* Two functions that agree on the set have the same sum over it.
LEMMA SumSame ==
  ASSUME NEW f, NEW g, NEW S, IsFiniteSet(S), \A x \in S : f[x] \in Nat /\ g[x] = f[x]
  PROVE  SumFunctionOnSet(g, S) = SumFunctionOnSet(f, S)
<1> DEFINE m == [x \in S |-> x]
<1>1. \A x \in S : f[x] \in Nat /\ g[m[x]] = f[x]
  OBVIOUS
<1>2. \A x, y \in S : m[x] = m[y] => x = y
  OBVIOUS
<1>3. {m[x] : x \in S} = S
  OBVIOUS
<1> HIDE DEF m
<1>4. SumFunctionOnSet(g, {m[x] : x \in S}) = SumFunctionOnSet(f, S)
  BY <1>1, <1>2, SumRenamed
<1> QED BY <1>3, <1>4

\* The sum over sets of which no two meet is the sum of their sums.
LEMMA SumFamily ==
  ASSUME NEW f, NEW K, IsFiniteSet(K), NEW A, \A k \in K : IsFiniteSet(A[k]),
         \A k, l \in K : k # l => A[k] \cap A[l] = {},
         \A k \in K : \A x \in A[k] : f[x] \in Nat,
         NEW s, \A k \in K : s[k] = SumFunctionOnSet(f, A[k])
  PROVE  /\ IsFiniteSet(UNION {A[k] : k \in K})
         /\ SumFunctionOnSet(f, UNION {A[k] : k \in K}) = SumFunctionOnSet(s, K)
<1> DEFINE Un(T) == UNION {A[k] : k \in T}
           Same(T) == IsFiniteSet(Un(T)) /\ SumFunctionOnSet(f, Un(T)) = SumFunctionOnSet(s, T)
           B == {T \in SUBSET K : ~ Same(T)}
<1> SUFFICES ASSUME B # {}  PROVE FALSE
  OBVIOUS
<1>0. \A k \in K : s[k] = SumFunctionOnSet(f, A[k]) /\ s[k] \in Nat
  BY SumType
<1> HIDE DEF B
<1>1. B \in SUBSET (SUBSET K)
  BY DEF B
<1>2. PICK T \in B : \A R \in SUBSET T : R # T => R \notin B
  BY <1>1, LeastSubset
<1>3. IsFiniteSet(T) /\ T \subseteq K /\ ~ Same(T)
  BY <1>1, FS_Subset DEF B
<1>4. CASE T = {}
  <2>1. Un(T) = {}
    BY <1>4
  <2> HIDE DEF Un
  <2> QED BY <1>3, <1>4, <2>1, SumEmpty, FS_EmptySet
<1>5. CASE T # {}
  <2>1. PICK p : p \in T
    BY <1>5
  <2> DEFINE R == T \ {p}
  <2>2. R \in SUBSET T /\ R # T /\ R \in SUBSET K /\ T = R \cup {p} /\ p \notin R
    BY <1>3, <2>1
  <2>3. Un(T) = Un(R) \cup A[p] /\ Un(R) \cap A[p] = {}
    BY <1>3, <2>1, <2>2
  <2>4. IsFiniteSet(R) /\ IsFiniteSet(A[p])
    BY <1>3, <2>1, FS_Subset
  <2>5. \A x \in Un(R) \cup A[p] : f[x] \in Nat
    BY <1>3, <2>1, <2>2
  <2>6. \A k \in R \cup {p} : s[k] \in Nat
    BY <1>0, <1>3, <2>2
  <2>7. s[p] = SumFunctionOnSet(f, A[p]) /\ s[p] \in Nat
    BY <1>0, <1>3, <2>1
  <2> HIDE DEF R
  <2>8. Same(R)
    BY <1>2, <2>2 DEF B
  <2> HIDE DEF Un
  <2>9. IsFiniteSet(Un(T))
    <3>1. IsFiniteSet(Un(R))
      BY <2>8
    <3>2. IsFiniteSet(Un(R) \cup A[p])
      <4> HIDE DEF Same
      <4> QED BY <2>4, <3>1, FS_Union
    <3> QED BY <2>3, <3>2
  <2>10. SumFunctionOnSet(s, T) = s[p] + SumFunctionOnSet(s, R)
    BY <2>2, <2>4, <2>6, SumAdd
  <2>11. SumFunctionOnSet(f, Un(T)) = SumFunctionOnSet(f, Un(R)) + SumFunctionOnSet(f, A[p])
    BY <2>3, <2>4, <2>5, <2>8, SumUnion
  <2>12. SumFunctionOnSet(s, R) \in Nat
    BY <2>2, <2>4, <2>6, SumType
  <2>13. \A a, b \in Nat : a + b = b + a
    OBVIOUS
  <2> QED BY <1>3, <2>7, <2>8, <2>9, <2>10, <2>11, <2>12, <2>13
<1> QED BY <1>4, <1>5

-----------------------------------------------------------------------------
(* What outputs are worth.                                                 *)

\* The outputs that transactions have, and the amount in each outpoint.
Minted == {o \in OutPoint : o[2] \in DOMAIN Outs(o[1])}
Value == [o \in Minted |-> OutputAt(o).amount]

\* An amount is a number.
LEMMA ValueType ==
  ASSUME NEW o \in Minted
  PROVE  OutputAt(o).amount \in Nat /\ Value[o] = OutputAt(o).amount
<1>1. o[1] \in Tx /\ o[2] \in DOMAIN Outs(o[1])
  BY DEF Minted, OutPoint
<1>2. Outs(o[1]) \in Seq(TransactionOutput)
  BY <1>1, SpendsCreatesType
<1>3. OutputAt(o) \in TransactionOutput
  BY <1>1, <1>2 DEF OutputAt
<1> QED BY <1>3 DEF TransactionOutput, Value

\* What a finite set of such outputs is worth is a number, and no part is worth more.
LEMMA WorthType ==
  ASSUME NEW U \in SUBSET Minted, IsFiniteSet(U)
  PROVE  /\ Worth(U) = SumFunctionOnSet(Value, U)
         /\ \A o \in U : Value[o] \in Nat
         /\ Worth(U) \in Nat
         /\ \A T \in SUBSET U : IsFiniteSet(T) /\ Worth(T) <= Worth(U)
<1> DEFINE f(T) == [o \in T |-> OutputAt(o).amount]
<1>1. ASSUME NEW T \in SUBSET Minted, IsFiniteSet(T)
      PROVE  Worth(T) = SumFunctionOnSet(Value, T)
  <2>1. DOMAIN f(T) = T /\ \A o \in T : Value[o] \in Nat /\ f(T)[o] = Value[o]
    BY ValueType
  <2>2. Worth(T) = SumFunctionOnSet(f(T), T)
    BY <2>1 DEF Worth, SumFunction
  <2> HIDE DEF f
  <2> QED BY <1>1, <2>1, <2>2, SumSame
<1>2. \A o \in U : Value[o] \in Nat
  BY ValueType
<1>3. Worth(U) \in Nat
  BY <1>1, <1>2, SumType
<1>4. ASSUME NEW T \in SUBSET U  PROVE IsFiniteSet(T) /\ Worth(T) <= Worth(U)
  <2>1. IsFiniteSet(T)
    BY FS_Subset
  <2> QED BY <1>1, <1>2, <2>1, SumPart
<1> QED BY <1>1, <1>2, <1>3, <1>4

\* The outputs a transaction creates are worth what it says, and so are those it spends,
\* each of them once.
LEMMA OutputsWorth ==
  ASSUME NEW t \in Tx
  PROVE  /\ Creates(t) \subseteq Minted /\ IsFiniteSet(Creates(t))
         /\ SumFunctionOnSet(Value, Creates(t)) = OutputSum(t)
<1> DEFINE I == DOMAIN Outs(t)
           f == [i \in I |-> Outs(t)[i].amount]
           m == [i \in I |-> <<t, i>>]
<1>1. Outs(t) \in Seq(TransactionOutput)
  BY SpendsCreatesType
<1>2. IsFiniteSet(I) /\ I \subseteq Nat
  <2>1. I = 1..Len(Outs(t)) /\ Len(Outs(t)) \in Nat
    BY <1>1
  <2> HIDE DEF I
  <2> QED BY <2>1, FS_Interval
<1>3. ASSUME NEW i \in I  PROVE m[i] \in Minted /\ f[i] \in Nat /\ Value[m[i]] = f[i]
  <2>1. <<t, i>> \in Minted
    BY <1>2, <1>3 DEF Minted, OutPoint
  <2>2. OutputAt(<<t, i>>).amount = f[i]
    BY <1>3 DEF OutputAt
  <2> QED BY <1>3, <2>1, <2>2, ValueType
<1>4. Creates(t) = {m[i] : i \in I}
  BY DEF Creates
<1>5. \A i, j \in I : m[i] = m[j] => i = j
  OBVIOUS
<1>6. OutputSum(t) = SumFunctionOnSet(f, I)
  BY DEF OutputSum, SumFunction
<1> HIDE DEF I, f, m
<1>7. /\ IsFiniteSet({m[i] : i \in I})
      /\ SumFunctionOnSet(Value, {m[i] : i \in I}) = SumFunctionOnSet(f, I)
  <2>1. IsFiniteSet(I)
    BY <1>2
  <2>2. \A i \in I : f[i] \in Nat /\ Value[m[i]] = f[i]
    BY <1>3
  <2> QED BY <1>5, <2>1, <2>2, SumRenamed
<1> QED BY <1>3, <1>4, <1>6, <1>7

\* When no two inputs name the same output, those spent are worth the sum of the inputs.
LEMMA InputsWorth ==
  ASSUME NEW t \in Tx, Spends(t) \subseteq Minted,
         \A i, j \in DOMAIN Ins(t) : Ins(t)[i].out = Ins(t)[j].out => i = j
  PROVE  IsFiniteSet(Spends(t)) /\ SumFunctionOnSet(Value, Spends(t)) = InputSum(t)
<1> DEFINE I == DOMAIN Ins(t)
           f == [i \in I |-> OutputAt(Ins(t)[i].out).amount]
           m == [i \in I |-> Ins(t)[i].out]
<1>1. IsFiniteSet(I)
  <2>1. Ins(t) \in Seq(TransactionInput)
    BY SpendsCreatesType
  <2>2. I = 1..Len(Ins(t)) /\ Len(Ins(t)) \in Nat
    BY <2>1
  <2> HIDE DEF I
  <2> QED BY <2>2, FS_Interval
<1>2. Spends(t) = {m[i] : i \in I}
  BY DEF Spends
<1>3. ASSUME NEW i \in I  PROVE f[i] \in Nat /\ Value[m[i]] = f[i]
  <2>1. m[i] \in Minted /\ f[i] = OutputAt(m[i]).amount
    BY <1>2
  <2> QED BY <2>1, ValueType
<1>4. \A i, j \in I : m[i] = m[j] => i = j
  OBVIOUS
<1>5. InputSum(t) = SumFunctionOnSet(f, I)
  BY DEF InputSum, SumFunction
<1> HIDE DEF I, f, m
<1>6. \A i \in I : f[i] \in Nat /\ Value[m[i]] = f[i]
  BY <1>3
<1>7. /\ IsFiniteSet({m[i] : i \in I})
      /\ SumFunctionOnSet(Value, {m[i] : i \in I}) = SumFunctionOnSet(f, I)
  BY <1>1, <1>4, <1>6, SumRenamed
<1> QED BY <1>2, <1>5, <1>7

\* The block has a reward transaction.
MintsAt(b) == \E k \in DOMAIN b.body.txs : IsReward(b.body.txs[k])

\* A valid block has at most one reward transaction, and spends as much as it creates apart
\* from the reward.
LEMMA BlockWorth ==
  ASSUME NEW b \in Block, ValidBlock(b), utxos \subseteq Minted
  PROVE  LET S == SpentBy(b.body.txs)
             C == CreatedBy(b.body.txs)
         IN  /\ S \subseteq utxos /\ IsFiniteSet(S) /\ C \subseteq Minted /\ IsFiniteSet(C)
             /\ MintsAt(b) => GetBlockReward(height) \in Nat
             /\ SumFunctionOnSet(Value, C) = SumFunctionOnSet(Value, S)
                                               + (IF MintsAt(b) THEN GetBlockReward(height) ELSE 0)
<1> DEFINE txs == b.body.txs
           K == DOMAIN txs
           Cs == [k \in K |-> Creates(txs[k])]
           Ss == [k \in K |-> Spends(txs[k])]
           c == [k \in K |-> SumFunctionOnSet(Value, Cs[k])]
           s == [k \in K |-> SumFunctionOnSet(Value, Ss[k])]
           mint == GetBlockReward(height)
<1>1. /\ SpentBy(txs) \subseteq utxos
      /\ \A k \in K : txs[k] \in Tx /\ Spends(txs[k]) \subseteq utxos
      /\ \A k, m \in K : txs[k] = txs[m] => k = m
  BY ValidList
<1>2. IsFiniteSet(K)
  <2>1. txs \in Seq(Tx)
    BY DEF Block, Body
  <2>2. K = 1..Len(txs) /\ Len(txs) \in Nat
    BY <2>1
  <2> HIDE DEF K
  <2> QED BY <2>2, FS_Interval
<1>3. ValidTransactions(txs, b.body.ts)
  BY DEF ValidBlock
<1>4. ASSUME NEW k \in K
      PROVE  /\ Cs[k] \subseteq Minted /\ IsFiniteSet(Cs[k]) /\ c[k] = OutputSum(txs[k])
             /\ c[k] \in Nat
  <2>1. Creates(txs[k]) \subseteq Minted /\ IsFiniteSet(Creates(txs[k]))
        /\ SumFunctionOnSet(Value, Creates(txs[k])) = OutputSum(txs[k])
    BY <1>1, OutputsWorth
  <2>2. SumFunctionOnSet(Value, Creates(txs[k])) \in Nat
    BY <2>1, WorthType
  <2> QED BY <2>1, <2>2
<1>5. ASSUME NEW k \in K, ~IsReward(txs[k])
      PROVE  IsFiniteSet(Ss[k]) /\ s[k] = c[k] /\ s[k] \in Nat
  <2>1. ValidTransaction(txs[k], transaction_difficulty)
    BY <1>3, <1>5 DEF ValidTransactions
  <2>2. /\ InputSum(txs[k]) = OutputSum(txs[k])
        /\ \A i, j \in DOMAIN Ins(txs[k]) : Ins(txs[k])[i].out = Ins(txs[k])[j].out => i = j
    BY <2>1 DEF ValidTransaction
  <2>3. Spends(txs[k]) \subseteq Minted /\ txs[k] \in Tx
    BY <1>1
  <2>4. /\ IsFiniteSet(Spends(txs[k]))
        /\ SumFunctionOnSet(Value, Spends(txs[k])) = InputSum(txs[k])
    BY <2>2, <2>3, InputsWorth
  <2> QED BY <1>4, <2>2, <2>4
<1>6. ASSUME NEW k \in K, IsReward(txs[k])
      PROVE  /\ Ss[k] = {} /\ IsFiniteSet(Ss[k]) /\ s[k] = 0 /\ c[k] = mint
             /\ \A m \in K : IsReward(txs[m]) => m = k
  <2>1. Spends(txs[k]) = {}
    BY <1>6 DEF IsReward, Spends
  <2>2. IsFiniteSet({}) /\ SumFunctionOnSet(Value, {}) = 0
    BY FS_EmptySet, SumEmpty
  <2>3. OutputSum(txs[k]) = mint /\ \A m \in K : IsReward(txs[m]) => m = k
    BY <1>3, <1>6 DEF ValidTransactions, ValidReward
  <2> QED BY <1>4, <2>1, <2>2, <2>3
<1>7. CreatedBy(txs) = UNION {Cs[k] : k \in K} /\ SpentBy(txs) = UNION {Ss[k] : k \in K}
  BY DEF CreatedBy, SpentBy
<1>8. \A k, l \in K : k # l => Cs[k] \cap Cs[l] = {} /\ Ss[k] \cap Ss[l] = {}
  <2> SUFFICES ASSUME NEW k \in K, NEW l \in K, k # l
               PROVE  Cs[k] \cap Cs[l] = {} /\ Ss[k] \cap Ss[l] = {}
    OBVIOUS
  <2>1. Creates(txs[k]) \cap Creates(txs[l]) = {}
    BY <1>1, CreatorUnique
  <2>2. Spends(txs[k]) \cap Spends(txs[l]) = {}
    BY <1>3 DEF ValidTransactions
  <2> QED BY <2>1, <2>2
<1>9. \A k \in K : /\ IsFiniteSet(Cs[k]) /\ IsFiniteSet(Ss[k])
                   /\ \A o \in Cs[k] : Value[o] \in Nat
                   /\ \A o \in Ss[k] : Value[o] \in Nat
  <2> SUFFICES ASSUME NEW k \in K
               PROVE  /\ IsFiniteSet(Cs[k]) /\ IsFiniteSet(Ss[k])
                      /\ \A o \in Cs[k] : Value[o] \in Nat
                      /\ \A o \in Ss[k] : Value[o] \in Nat
    OBVIOUS
  <2>1. Cs[k] \subseteq Minted /\ Ss[k] \subseteq Minted
    BY <1>1, <1>4
  <2>2. (\A o \in Cs[k] : Value[o] \in Nat) /\ (\A o \in Ss[k] : Value[o] \in Nat)
    BY <2>1, ValueType
  <2>3. IsFiniteSet(Cs[k]) /\ IsFiniteSet(Ss[k])
    BY <1>4, <1>5, <1>6
  <2> QED BY <2>2, <2>3
<1>10. /\ \A k \in K : c[k] = SumFunctionOnSet(Value, Cs[k])
       /\ \A k \in K : s[k] = SumFunctionOnSet(Value, Ss[k])
  OBVIOUS
<1> HIDE DEF K, Cs, Ss, c, s
<1>12. /\ IsFiniteSet(CreatedBy(txs))
       /\ SumFunctionOnSet(Value, CreatedBy(txs)) = SumFunctionOnSet(c, K)
  <2>1. \A k \in K : IsFiniteSet(Cs[k])
    BY <1>9
  <2>2. \A k, l \in K : k # l => Cs[k] \cap Cs[l] = {}
    BY <1>8
  <2>3. \A k \in K : \A o \in Cs[k] : Value[o] \in Nat
    BY <1>9
  <2>4. \A k \in K : c[k] = SumFunctionOnSet(Value, Cs[k])
    BY <1>10
  <2>5. /\ IsFiniteSet(UNION {Cs[k] : k \in K})
        /\ SumFunctionOnSet(Value, UNION {Cs[k] : k \in K}) = SumFunctionOnSet(c, K)
    BY <1>2, <2>1, <2>2, <2>3, <2>4, SumFamily
  <2> QED BY <1>7, <2>5
<1>13. /\ IsFiniteSet(SpentBy(txs))
       /\ SumFunctionOnSet(Value, SpentBy(txs)) = SumFunctionOnSet(s, K)
  <2>1. \A k \in K : IsFiniteSet(Ss[k])
    BY <1>9
  <2>2. \A k, l \in K : k # l => Ss[k] \cap Ss[l] = {}
    BY <1>8
  <2>3. \A k \in K : \A o \in Ss[k] : Value[o] \in Nat
    BY <1>9
  <2>4. \A k \in K : s[k] = SumFunctionOnSet(Value, Ss[k])
    BY <1>10
  <2>5. /\ IsFiniteSet(UNION {Ss[k] : k \in K})
        /\ SumFunctionOnSet(Value, UNION {Ss[k] : k \in K}) = SumFunctionOnSet(s, K)
    BY <1>2, <2>1, <2>2, <2>3, <2>4, SumFamily
  <2> QED BY <1>7, <2>5
<1>14. CreatedBy(txs) \subseteq Minted
  BY <1>4, <1>7
<1>15. \A k \in K : c[k] \in Nat
  BY <1>4
<1>16. CASE ~MintsAt(b)
  <2>1. \A k \in K : ~IsReward(txs[k])
    BY <1>16 DEF MintsAt, K
  <2>2. \A k \in K : c[k] \in Nat /\ s[k] = c[k]
    BY <1>5, <1>15, <2>1
  <2>3. SumFunctionOnSet(s, K) = SumFunctionOnSet(c, K)
    BY <1>2, <2>2, SumSame
  <2>4. SumFunctionOnSet(c, K) \in Nat
    BY <1>2, <1>15, SumType
  <2>5. \A a \in Nat : a = a + 0
    OBVIOUS
  <2> QED BY <1>1, <1>12, <1>13, <1>14, <1>16, <2>3, <2>4, <2>5
<1>17. CASE MintsAt(b)
  <2>1. PICK r \in K : IsReward(txs[r])
    BY <1>17 DEF MintsAt, K
  <2> DEFINE R == K \ {r}
  <2>2. \A k \in R : c[k] \in Nat /\ s[k] = c[k]
    <3> SUFFICES ASSUME NEW k \in R  PROVE c[k] \in Nat /\ s[k] = c[k]
      OBVIOUS
    <3>1. k \in K /\ ~IsReward(txs[k])
      BY <1>6, <2>1
    <3> QED BY <1>5, <1>15, <3>1
  <2>3. IsFiniteSet(R)
    BY <1>2, FS_Subset
  <2>4. s[r] = 0 /\ c[r] = mint /\ mint \in Nat
    BY <1>6, <1>15, <2>1
  <2>5. \A k \in K : s[k] \in Nat
    BY <1>5, <2>2, <2>4
  <2>6. SumFunctionOnSet(c, K) = c[r] + SumFunctionOnSet(c, R)
    BY <1>2, <1>15, <2>1, SumRemove
  <2>7. SumFunctionOnSet(s, K) = s[r] + SumFunctionOnSet(s, R)
    BY <1>2, <2>1, <2>5, SumRemove
  <2> HIDE DEF R
  <2>8. SumFunctionOnSet(s, R) = SumFunctionOnSet(c, R) /\ SumFunctionOnSet(c, R) \in Nat
    BY <2>2, <2>3, SumSame, SumType
  <2>9. \A x, y \in Nat : x + y = (0 + y) + x
    OBVIOUS
  <2>10. SumFunctionOnSet(c, K) = SumFunctionOnSet(s, K) + mint
    BY <2>4, <2>6, <2>7, <2>8, <2>9
  <2> QED BY <1>1, <1>12, <1>13, <1>14, <1>17, <2>4, <2>10
<1> QED BY <1>16, <1>17

\* What executing a valid block does to the worth of the outputs: it grows by the reward,
\* if there is one, and by no more even if an output is created that was there.
LEMMA ExecuteWorth ==
  ASSUME NEW b \in Block, ValidBlock(b), utxos \subseteq Minted, IsFiniteSet(utxos)
  PROVE  LET after == AfterExecuting(b.body.txs)
             minted == IF MintsAt(b) THEN GetBlockReward(height) ELSE 0
         IN  /\ after \subseteq Minted /\ IsFiniteSet(after)
             /\ after \subseteq utxos \cup CreatedBy(b.body.txs)
             /\ minted \in Nat
             /\ Worth(after) <= Worth(utxos) + minted
             /\ CreatedBy(b.body.txs) \cap utxos = {} => Worth(after) = Worth(utxos) + minted
<1> DEFINE txs == b.body.txs
           after == AfterExecuting(txs)
           minted == IF MintsAt(b) THEN GetBlockReward(height) ELSE 0
           S == SpentBy(txs)
           C == CreatedBy(txs)
           kept == utxos \ S
           sum(T) == SumFunctionOnSet(Value, T)
<1>1. /\ S \subseteq utxos /\ IsFiniteSet(S) /\ C \subseteq Minted /\ IsFiniteSet(C)
      /\ minted \in Nat /\ sum(C) = sum(S) + minted
  BY BlockWorth
<1>2. after \subseteq kept \cup C
  BY DEF AfterExecuting, CreatedBy
<1>3. C \cap utxos = {} => after = kept \cup C
  <2> SUFFICES ASSUME C \cap utxos = {}, NEW o \in kept \cup C  PROVE o \in after
    BY <1>2
  <2>1. CASE o \in kept
    BY <2>1 DEF AfterExecuting
  <2>2. CASE o \in C
    <3>1. PICK k \in DOMAIN txs : o \in Creates(txs[k])
      BY <2>2 DEF CreatedBy
    <3>2. \A m \in DOMAIN txs : o \notin Spends(txs[m])
      BY <1>1, <2>2 DEF SpentBy
    <3> QED BY <3>1, <3>2 DEF AfterExecuting
  <2> QED BY <2>1, <2>2
<1> HIDE DEF after, minted, S, C
<1>4. IsFiniteSet(kept) /\ kept \subseteq Minted /\ IsFiniteSet(kept \ C)
  BY FS_Subset
<1>5. IsFiniteSet(kept \cup C) /\ kept \cup C \subseteq Minted
  BY <1>1, <1>4, FS_Union
<1>6. \A o \in Minted : Value[o] \in Nat
  BY ValueType
<1>7. sum(utxos) = sum(S) + sum(kept)
  <2>1. S \cap kept = {} /\ S \cup kept = utxos /\ \A o \in S \cup kept : Value[o] \in Nat
    BY <1>1, <1>6
  <2> HIDE DEF kept
  <2> QED BY <1>1, <1>4, <2>1, SumUnion
<1>8. sum(kept \cup C) = sum(kept \ C) + sum(C)
  <2>1. /\ (kept \ C) \cap C = {} /\ (kept \ C) \cup C = kept \cup C
        /\ \A o \in (kept \ C) \cup C : Value[o] \in Nat
    BY <1>1, <1>4, <1>6
  <2> QED BY <1>1, <1>4, <2>1, SumUnion
<1>9. C \cap utxos = {} => kept \ C = kept
  OBVIOUS
<1> HIDE DEF kept
<1>10. sum(kept \ C) <= sum(kept)
  <2>1. (kept \ C) \in SUBSET kept /\ \A o \in kept : Value[o] \in Nat
    BY <1>4, <1>6
  <2> QED BY <1>4, <2>1, SumPart
<1>11. /\ sum(kept) \in Nat /\ sum(S) \in Nat /\ sum(C) \in Nat /\ sum(kept \ C) \in Nat
  <2>1. /\ \A o \in kept : Value[o] \in Nat
        /\ \A o \in kept \ C : Value[o] \in Nat
        /\ \A o \in C : Value[o] \in Nat
        /\ \A o \in S : Value[o] \in Nat
    BY <1>1, <1>4, <1>6
  <2> QED BY <1>1, <1>4, <2>1, SumType
<1>12. /\ Worth(utxos) = sum(utxos)
       /\ Worth(kept \cup C) = sum(kept \cup C)
       /\ IsFiniteSet(after) /\ Worth(after) <= Worth(kept \cup C) /\ Worth(after) \in Nat
  <2>1. after \in SUBSET Minted
    BY <1>2, <1>5
  <2>2. IsFiniteSet(after) /\ Worth(after) <= Worth(kept \cup C)
    BY <1>2, <1>5, WorthType
  <2> QED BY <1>5, <2>1, <2>2, WorthType
<1> HIDE DEF sum
<1>13. \A x, y, z, w, m, t \in Nat :
         z = y + m /\ w <= x /\ t <= w + z => t <= (y + x) + m
  OBVIOUS
<1>14. \A x, y, z, m \in Nat : z = y + m => x + z = (y + x) + m
  OBVIOUS
<1>15. Worth(after) <= Worth(utxos) + minted
  BY <1>1, <1>7, <1>8, <1>10, <1>11, <1>12, <1>13
<1>16. C \cap utxos = {} => Worth(after) = Worth(utxos) + minted
  <2> SUFFICES ASSUME C \cap utxos = {}  PROVE Worth(after) = Worth(utxos) + minted
    OBVIOUS
  <2>1. after = kept \cup C /\ kept \ C = kept
    BY <1>3, <1>9
  <2>2. sum(kept \cup C) = sum(kept) + sum(C)
    BY <1>8, <2>1
  <2>3. Worth(after) = sum(kept) + sum(C)
    BY <1>12, <2>1, <2>2
  <2>4. sum(kept) + sum(C) = (sum(S) + sum(kept)) + minted
    BY <1>1, <1>11, <1>14
  <2> QED BY <1>7, <1>12, <2>3, <2>4
<1>17. after \subseteq Minted /\ after \subseteq utxos \cup C
  BY <1>1, <1>2, <1>5 DEF kept
<1> QED BY <1>1, <1>12, <1>15, <1>16, <1>17 DEF after, minted, C

-----------------------------------------------------------------------------
(* What the rewards are worth.                                             *)

\* Halving a number, again and again, is what the word's shift does.
Halving(x, g) ==
  [k \in 0..(U64Bits - 1) |-> IF k = 0 THEN x ELSE g[k - 1] \div 2]

\* There are such numbers, for as many halvings as the width of a word allows.
LEMMA HalvingExists ==
  ASSUME NEW x \in Nat
  PROVE  \E g : g = Halving(x, g)
<1> DEFINE Up(g, n) == \A k \in 0..n : g[k] = IF k = 0 THEN x ELSE g[k - 1] \div 2
           B == {n \in Nat : ~ \E g : Up(g, n)}
<1>1. B = {}
  <2> SUFFICES ASSUME B # {}  PROVE FALSE
    OBVIOUS
  <2>1. PICK n \in B : \A k \in B : n <= k
    BY Least
  <2>2. CASE n = 0
    <3> DEFINE g == [k \in 0..0 |-> x]
    <3>1. Up(g, 0)
      OBVIOUS
    <3> QED BY <2>1, <2>2, <3>1
  <2>3. CASE n # 0
    <3>1. n - 1 \in Nat /\ n \in Nat /\ ~(n <= n - 1) /\ 0..n = 0..(n - 1) \cup {n}
          /\ n \notin 0..(n - 1)
      BY <2>1, <2>3
    <3>2. PICK g : Up(g, n - 1)
      BY <2>1, <3>1
    <3> DEFINE to == [k \in 0..n |-> IF k = n THEN g[n - 1] \div 2 ELSE g[k]]
    <3>3. ASSUME NEW k \in 0..n
          PROVE  to[k] = IF k = 0 THEN x ELSE to[k - 1] \div 2
      <4>1. CASE k = n
        <5>1. n - 1 \in 0..n /\ n - 1 # n
          BY <3>1
        <5> QED BY <2>3, <4>1, <5>1
      <4>2. CASE k # n
        <5>1. k \in 0..(n - 1) /\ (k # 0 => k - 1 \in 0..n /\ k - 1 # n)
          BY <3>1, <4>2
        <5>2. g[k] = IF k = 0 THEN x ELSE g[k - 1] \div 2
          BY <3>2, <5>1
        <5> QED BY <4>2, <5>1, <5>2
      <4> QED BY <4>1, <4>2
    <3> HIDE DEF to
    <3>4. Up(to, n)
      BY <3>3
    <3> QED BY <2>1, <3>4
  <2> QED BY <2>2, <2>3
<1>2. PICK g : Up(g, U64Bits - 1)
  <2>1. U64Bits - 1 \in Nat
    BY DEF U64Bits
  <2>2. \A n \in Nat : \E g : Up(g, n)
    BY <1>1
  <2> HIDE DEF Up
  <2> QED BY <2>1, <2>2
<1> DEFINE on == [k \in 0..(U64Bits - 1) |-> g[k]]
<1>3. \A k \in 0..(U64Bits - 1) : k # 0 => k - 1 \in 0..(U64Bits - 1)
  BY DEF U64Bits
<1>4. on = Halving(x, on)
  BY <1>2, <1>3 DEF Halving
<1> QED BY <1>4

\* A number shifted to the right is one.
LEMMA ShiftType ==
  ASSUME NEW x \in Nat, NEW n \in Nat
  PROVE  ShiftRight(x, n) \in Nat
<1> DEFINE g == CHOOSE g : g = Halving(x, g)
<1>1. g = Halving(x, g)
  BY HalvingExists
<1>2. ShiftRight(x, n) = g[n % U64Bits]
  BY DEF ShiftRight, Halving
<1> HIDE DEF g
<1>3. \A k \in 0..(U64Bits - 1) : g[k] = IF k = 0 THEN x ELSE g[k - 1] \div 2
  BY <1>1 DEF Halving
<1> DEFINE B == {k \in 0..(U64Bits - 1) : g[k] \notin Nat}
<1>4. B = {}
  <2> SUFFICES ASSUME B # {}  PROVE FALSE
    OBVIOUS
  <2>0. B \in SUBSET Nat
    BY DEF U64Bits
  <2>1. PICK k \in B : \A m \in B : k <= m
    BY <2>0, Least
  <2>2. k # 0
    BY <1>3, <2>1
  <2>3. k - 1 \in 0..(U64Bits - 1) /\ ~(k <= k - 1)
    BY <2>1, <2>2 DEF U64Bits
  <2>4. g[k - 1] \in Nat
    BY <2>1, <2>3
  <2>5. \A y \in Nat : y \div 2 \in Nat
    OBVIOUS
  <2> QED BY <1>3, <2>1, <2>2, <2>4, <2>5
<1>5. n % U64Bits \in 0..(U64Bits - 1)
  BY DEF U64Bits
<1> QED BY <1>2, <1>4, <1>5

\* A block reward is a number.
LEMMA RewardType == \A h \in Nat : GetBlockReward(h) \in Nat
<1> SUFFICES ASSUME NEW h \in Nat  PROVE GetBlockReward(h) \in Nat
  OBVIOUS
<1>1. h \div HalvingInterval \in Nat
  <2>1. \A d \in Nat \ {0} : h \div d \in Nat
    OBVIOUS
  <2> QED BY <2>1, EconomicsAssumption
<1>2. ShiftRight(InitialReward, h \div HalvingInterval) \in Nat
  BY <1>1, ShiftType, EconomicsAssumption
<1> QED BY <1>2 DEF GetBlockReward, MinReward

Rewards == [h \in Nat |-> GetBlockReward(h)]

\* The rewards of some heights, summed, are a number.
LEMMA RewardsSum ==
  ASSUME NEW H \in SUBSET Nat, IsFiniteSet(H)
  PROVE  /\ SumFunction([h \in H |-> GetBlockReward(h)]) = SumFunctionOnSet(Rewards, H)
         /\ SumFunctionOnSet(Rewards, H) \in Nat
<1> DEFINE f == [h \in H |-> GetBlockReward(h)]
<1>1. DOMAIN f = H
  OBVIOUS
<1>2. \A h \in H : Rewards[h] \in Nat /\ f[h] = Rewards[h]
  BY RewardType DEF Rewards
<1>3. \A h \in H : Rewards[h] \in Nat
  BY <1>2
<1> HIDE DEF f
<1>4. SumFunction(f) = SumFunctionOnSet(f, H)
  BY <1>1 DEF SumFunction
<1>5. SumFunctionOnSet(f, H) = SumFunctionOnSet(Rewards, H)
  BY <1>2, SumSame
<1>6. SumFunctionOnSet(Rewards, H) \in Nat
  BY <1>3, SumType
<1> QED BY <1>4, <1>5, <1>6 DEF f

\* One more height.
LEMMA RewardsNext ==
  ASSUME NEW H \in SUBSET Nat, IsFiniteSet(H), NEW n \in Nat, n \notin H
  PROVE  SumFunctionOnSet(Rewards, H \cup {n}) = SumFunctionOnSet(Rewards, H) + GetBlockReward(n)
<1>1. \A h \in H \cup {n} : Rewards[h] \in Nat
  BY RewardType DEF Rewards
<1>2. SumFunctionOnSet(Rewards, H \cup {n}) = Rewards[n] + SumFunctionOnSet(Rewards, H)
  BY <1>1, SumAdd
<1>3. SumFunctionOnSet(Rewards, H) \in Nat
  BY RewardsSum
<1>4. Rewards[n] = GetBlockReward(n) /\ GetBlockReward(n) \in Nat
  BY RewardType DEF Rewards
<1>5. \A x, y \in Nat : x + y = y + x
  OBVIOUS
<1> QED BY <1>2, <1>3, <1>4, <1>5

\* total_reward grows by the reward of the height.
LEMMA TotalNext ==
  ASSUME NEW n \in Nat
  PROVE  /\ TotalReward(n) \in Nat
         /\ TotalReward(n + 1) = TotalReward(n) + GetBlockReward(n)
<1> DEFINE H == 0..(n - 1)
           J == 0..((n + 1) - 1)
<1>1. H \in SUBSET Nat /\ n \notin H /\ J = H \cup {n} /\ J \in SUBSET Nat
  OBVIOUS
<1>2. IsFiniteSet(H) /\ IsFiniteSet(J)
  <2>1. n - 1 \in Int /\ 0 \in Int /\ (n + 1) - 1 \in Int
    OBVIOUS
  <2> QED BY <2>1, FS_Interval
<1>3. TotalReward(n) = SumFunction([h \in H |-> GetBlockReward(h)])
      /\ TotalReward(n + 1) = SumFunction([h \in J |-> GetBlockReward(h)])
  BY DEF TotalReward
<1> HIDE DEF H, J
<1>4. TotalReward(n) = SumFunctionOnSet(Rewards, H) /\ TotalReward(n) \in Nat
  BY <1>1, <1>2, <1>3, RewardsSum
<1>5. TotalReward(n + 1) = SumFunctionOnSet(Rewards, J)
  BY <1>1, <1>2, <1>3, RewardsSum
<1>6. SumFunctionOnSet(Rewards, J) = SumFunctionOnSet(Rewards, H) + GetBlockReward(n)
  BY <1>1, <1>2, RewardsNext
<1> QED BY <1>4, <1>5, <1>6

-----------------------------------------------------------------------------
(* The supply, repeated reward transactions included.  Each height's       *)
(* outputs are a finite part of what the height below it left and its      *)
(* block created, so going back one height never finds more than there     *)
(* was, unless a pop_block stopped halfway.                                *)

LevelsFinite == \A h \in 0..height : UAt(h) \subseteq Minted /\ IsFiniteSet(UAt(h))
LevelsFollow ==
  \A h \in 0..(height - 1) : UAt(h + 1) \subseteq UAt(h) \cup CreatedBy(Txs(h))
LevelsWorth == \A h \in 0..height : Worth(UAt(h)) <= TotalReward(h)

SupplyInv ==
  /\ TypeOK
  /\ DiffsMatch
  /\ SpendsAvailable
  /\ LevelsFinite
  /\ ~torn => LevelsFollow /\ LevelsWorth

\* The supply invariant holds initially.
LEMMA SupplyInit == Init => SupplyInv
<1> SUFFICES ASSUME Init PROVE SupplyInv
  OBVIOUS
<1>1. height = 0 /\ utxos = {} /\ 0..(height - 1) = {} /\ 0..height = {0}
  BY DEF Init, StoreInit
<1>2. UAt(0) = {} /\ IsFiniteSet({})
  BY <1>1, FS_EmptySet DEF UAt
<1>3. LevelsFinite
  BY <1>1, <1>2 DEF LevelsFinite
<1>4. Worth({}) = 0
  <2>1. Worth({}) = SumFunctionOnSet(Value, {})
    BY <1>2, WorthType
  <2> QED BY <2>1, SumEmpty
<1>5. TotalReward(0) = 0
  <2>1. 0..(0 - 1) = {}
    OBVIOUS
  <2>2. TotalReward(0) = SumFunctionOnSet(Rewards, {})
    BY <1>2, <2>1, RewardsSum DEF TotalReward
  <2> QED BY <2>2, SumEmpty
<1>6. LevelsWorth
  BY <1>1, <1>2, <1>4, <1>5 DEF LevelsWorth
<1>7. LevelsFollow
  BY <1>1 DEF LevelsFollow
<1> QED BY <1>1, <1>3, <1>6, <1>7, InitType DEF SupplyInv, DiffsMatch, SpendsAvailable

\* What the levels of the chain are after add_block.
LEMMA AddBlockLevels ==
  ASSUME TypeOK, NEW b \in Block, AddBlock(b), NEW n, n = height
  PROVE  /\ n \in Nat /\ height' = n + 1
         /\ 0..(height' - 1) = 0..(n - 1) \cup {n}
         /\ 0..height' = 0..n \cup {n + 1}
         /\ \A h \in 0..n : UAt(h)' = UAt(h)
         /\ UAt(n) = utxos
         /\ UAt(n + 1)' = AfterExecuting(b.body.txs)
         /\ \A h \in 0..(n - 1) : Txs(h)' = Txs(h) /\ diffFile'[h] = diffFile[h]
         /\ Txs(n)' = b.body.txs /\ diffFile'[n] = DiffOf(b.body.txs)
<1>1. n \in Nat /\ height' = n + 1 /\ 0..(height' - 1) = 0..(n - 1) \cup {n}
      /\ 0..height' = 0..n \cup {n + 1} /\ 0..n = 0..(n - 1) \cup {n}
      /\ ~(n + 1 \in 0..n) /\ \A h \in 0..(n - 1) : h # n /\ h # n + 1
  BY DEF TypeOK, AddBlock, StoreAddBlock
<1>2. /\ blockFile'[n] = b
      /\ diffFile'[n] = DiffOf(b.body.txs)
      /\ snaps'[n] = Snapshot
      /\ \A h \in 0..(n - 1) : /\ blockFile'[h] = blockFile[h]
                              /\ diffFile'[h] = diffFile[h]
                              /\ snaps'[h] = snaps[h]
  BY AddBlockFiles
<1>3. \A h \in 0..(n - 1) : UAt(h)' = UAt(h)
  BY <1>1, <1>2 DEF UAt
<1>4. UAt(n) = utxos
  BY DEF UAt
<1>5. UAt(n)' = utxos
  <2>1. n # height' /\ snaps'[n].utxos = utxos
    BY <1>1, <1>2 DEF Snapshot
  <2> QED BY <2>1 DEF UAt
<1>6. UAt(n + 1)' = AfterExecuting(b.body.txs)
  BY <1>1 DEF UAt, AddBlock, ExecuteTransactions
<1>7. \A h \in 0..n : UAt(h)' = UAt(h)
  BY <1>1, <1>3, <1>4, <1>5
<1>8. /\ \A h \in 0..(n - 1) : Txs(h)' = Txs(h) /\ diffFile'[h] = diffFile[h]
      /\ Txs(n)' = b.body.txs /\ diffFile'[n] = DiffOf(b.body.txs)
  BY <1>2 DEF Txs
<1> QED BY <1>1, <1>4, <1>6, <1>7, <1>8

\* add_block keeps the supply invariant.
LEMMA AddBlockSupply ==
  ASSUME SupplyInv, NEW b \in Block, AddBlock(b)
  PROVE  SupplyInv'
<1>0. PICK n : n = height
  OBVIOUS
<1> DEFINE txs == b.body.txs
           after == AfterExecuting(txs)
           minted == IF MintsAt(b) THEN GetBlockReward(n) ELSE 0
<1>1. TypeOK /\ TypeOK' /\ torn' = torn
  BY AddBlockType DEF SupplyInv, AddBlock
<1>2. /\ n \in Nat /\ height' = n + 1
      /\ 0..(height' - 1) = 0..(n - 1) \cup {n}
      /\ 0..height' = 0..n \cup {n + 1} /\ n \in 0..n
      /\ \A h \in 0..n : UAt(h)' = UAt(h)
      /\ UAt(n) = utxos
      /\ UAt(n + 1)' = after
      /\ \A h \in 0..(n - 1) : Txs(h)' = Txs(h) /\ diffFile'[h] = diffFile[h]
      /\ Txs(n)' = txs /\ diffFile'[n] = DiffOf(txs)
  <2>1. \A h \in Nat : h \in 0..h
    OBVIOUS
  <2> QED BY <1>0, <1>1, <2>1, AddBlockLevels
<1>3. utxos \subseteq Minted /\ IsFiniteSet(utxos)
  BY <1>0, <1>2 DEF SupplyInv, LevelsFinite
<1>4. /\ after \subseteq Minted /\ IsFiniteSet(after)
      /\ after \subseteq utxos \cup CreatedBy(txs)
      /\ minted \in Nat
      /\ Worth(after) <= Worth(utxos) + minted
  BY <1>0, <1>3, ExecuteWorth DEF AddBlock
<1>5. SpentBy(txs) \subseteq utxos
  BY ValidList DEF AddBlock
<1>6. DiffsMatch'
  <2>1. \A h \in 0..(height' - 1) : diffFile'[h] = DiffOf(Txs(h)')
    BY <1>0, <1>2 DEF SupplyInv, DiffsMatch
  <2> QED BY <2>1 DEF DiffsMatch, DiffOf, SpentBy, Spends, Ins
<1>7. SpendsAvailable'
  <2>1. \A h \in 0..(n - 1) : SpentBy(Txs(h)') \subseteq UAt(h)'
    <3>1. \A h \in 0..(n - 1) : h \in 0..n
      BY <1>2
    <3> QED BY <1>0, <1>2, <3>1 DEF SupplyInv, SpendsAvailable
  <2>2. SpentBy(Txs(n)') \subseteq UAt(n)'
    BY <1>2, <1>5
  <2>3. \A h \in 0..(height' - 1) : SpentBy(Txs(h)') \subseteq UAt(h)'
    BY <1>2, <2>1, <2>2
  <2> QED BY <2>3 DEF SpendsAvailable, SpentBy, Spends, Ins
<1>8. LevelsFinite'
  <2>1. \A h \in 0..n : UAt(h)' \subseteq Minted /\ IsFiniteSet(UAt(h)')
    BY <1>0, <1>2 DEF SupplyInv, LevelsFinite
  <2>2. \A h \in 0..height' : UAt(h)' \subseteq Minted /\ IsFiniteSet(UAt(h)')
    BY <1>2, <1>4, <2>1
  <2> QED BY <2>2 DEF LevelsFinite
<1>9. ASSUME ~torn  PROVE LevelsFollow'
  <2>1. \A h \in 0..(n - 1) : UAt(h + 1)' \subseteq UAt(h)' \cup CreatedBy(Txs(h)')
    <3>1. \A h \in 0..(n - 1) : h \in 0..n /\ h + 1 \in 0..n
      BY <1>2
    <3> QED BY <1>0, <1>2, <1>9, <3>1 DEF SupplyInv, LevelsFollow
  <2>2. UAt(n + 1)' \subseteq UAt(n)' \cup CreatedBy(Txs(n)')
    BY <1>2, <1>4
  <2>3. \A h \in 0..(height' - 1) : UAt(h + 1)' \subseteq UAt(h)' \cup CreatedBy(Txs(h)')
    BY <1>2, <2>1, <2>2
  <2> QED BY <2>3 DEF LevelsFollow, CreatedBy, Creates
<1>10. ASSUME ~torn  PROVE LevelsWorth'
  <2>1. \A h \in 0..n : Worth(UAt(h)') <= TotalReward(h)
    BY <1>0, <1>2, <1>10 DEF SupplyInv, LevelsWorth
  <2>2. Worth(UAt(n + 1)') <= TotalReward(n + 1)
    <3>1. Worth(utxos) <= TotalReward(n)
      BY <1>2, <2>1
    <3>2. /\ TotalReward(n) \in Nat /\ GetBlockReward(n) \in Nat
          /\ TotalReward(n + 1) = TotalReward(n) + GetBlockReward(n)
      BY <1>2, TotalNext, RewardType
    <3>3. minted <= GetBlockReward(n)
      BY <3>2
    <3>4. Worth(after) \in Nat /\ Worth(utxos) \in Nat
      BY <1>3, <1>4, WorthType
    <3> HIDE DEF after, minted
    <3>5. \A a, u, m, t, r \in Nat : a <= u + m /\ u <= t /\ m <= r => a <= t + r
      OBVIOUS
    <3>6. Worth(after) <= TotalReward(n) + GetBlockReward(n)
      BY <1>4, <3>1, <3>2, <3>3, <3>4, <3>5
    <3> QED BY <1>2, <3>2, <3>6
  <2>3. \A h \in 0..height' : Worth(UAt(h)') <= TotalReward(h)
    BY <1>2, <2>1, <2>2
  <2> QED BY <2>3 DEF LevelsWorth
<1> QED BY <1>1, <1>6, <1>7, <1>8, <1>9, <1>10 DEF SupplyInv

\* What the levels of the chain are after pop_block.
LEMMA PopBlockLevels ==
  ASSUME TypeOK, DiffsMatch, PopBlock, NEW n, n = height - 1
  PROVE  /\ n \in Nat /\ height = n + 1 /\ height' = n
         /\ 0..height' = 0..(n - 1) \cup {n}
         /\ n \in 0..(height - 1) /\ n \in 0..height /\ height \in 0..height
         /\ 0..(n - 1) \subseteq 0..(height - 1) /\ 0..(n - 1) \subseteq 0..height
         /\ \A h \in 0..(n - 1) : UAt(h)' = UAt(h)
         /\ UAt(n) = snaps[n].utxos /\ UAt(n + 1) = utxos
         /\ UAt(n)' = (utxos \cup SpentBy(Txs(n))) \ CreatedBy(Txs(n))
         /\ \A h \in 0..(n - 1) : Txs(h)' = Txs(h) /\ diffFile'[h] = diffFile[h]
<1>1. /\ n \in Nat /\ height = n + 1 /\ height' = n
      /\ 0..height' = 0..(n - 1) \cup {n}
      /\ n \in 0..(height - 1) /\ n \in 0..height /\ height \in 0..height
      /\ 0..(n - 1) \subseteq 0..(height - 1) /\ 0..(n - 1) \subseteq 0..height
      /\ n # height /\ n + 1 = height
      /\ \A h \in 0..(n - 1) : h # n /\ h # n + 1
  BY DEF TypeOK, PopBlock, StorePopBlock
<1>2. \A h \in 0..(n - 1) : /\ blockFile'[h] = blockFile[h]
                           /\ diffFile'[h] = diffFile[h]
                           /\ snaps'[h] = snaps[h]
  BY <1>1, PopBlockFiles
<1>3. \A h \in 0..(n - 1) : UAt(h)' = UAt(h)
  BY <1>1, <1>2 DEF UAt
<1>4. UAt(n) = snaps[n].utxos /\ UAt(n + 1) = utxos
  BY <1>1 DEF UAt
<1>5. diffFile[n] = DiffOf(Txs(n))
  BY <1>1 DEF DiffsMatch
<1>6. UAt(n)' = (utxos \cup SpentBy(Txs(n))) \ CreatedBy(Txs(n))
  <2>1. utxos' = Restored(diffFile[n]) \ CreatedBy(diffFile[n].created)
    BY DEF PopBlock, RecallBlockUtxos
  <2>2. UAt(n)' = utxos'
    BY <1>1 DEF UAt
  <2> QED BY <1>5, <2>1, <2>2 DEF Restored, DiffOf
<1>7. \A h \in 0..(n - 1) : Txs(h)' = Txs(h) /\ diffFile'[h] = diffFile[h]
  BY <1>2 DEF Txs
<1> QED BY <1>1, <1>3, <1>4, <1>6, <1>7

\* pop_block keeps the supply invariant.
LEMMA PopBlockSupply ==
  ASSUME SupplyInv, PopBlock
  PROVE  SupplyInv'
<1>0. PICK n : n = height - 1
  OBVIOUS
<1> DEFINE S == SpentBy(Txs(n))
           C == CreatedBy(Txs(n))
           undone == (utxos \cup S) \ C
<1>1. TypeOK /\ TypeOK' /\ DiffsMatch /\ torn' = torn
  BY PopBlockType DEF SupplyInv, PopBlock
<1>2. /\ n \in Nat /\ height = n + 1 /\ height' = n
      /\ 0..height' = 0..(n - 1) \cup {n}
      /\ n \in 0..(height - 1) /\ n \in 0..height /\ height \in 0..height
      /\ 0..(n - 1) \subseteq 0..(height - 1) /\ 0..(n - 1) \subseteq 0..height
      /\ \A h \in 0..(n - 1) : UAt(h)' = UAt(h)
      /\ UAt(n + 1) = utxos
      /\ UAt(n)' = undone
      /\ \A h \in 0..(n - 1) : Txs(h)' = Txs(h) /\ diffFile'[h] = diffFile[h]
  BY <1>0, <1>1, PopBlockLevels
<1>3. S \subseteq UAt(n)
  BY <1>2 DEF SupplyInv, SpendsAvailable
<1>4. /\ utxos \subseteq Minted /\ IsFiniteSet(utxos)
      /\ UAt(n) \subseteq Minted /\ IsFiniteSet(UAt(n))
  BY <1>2 DEF SupplyInv, LevelsFinite
<1>5. undone \subseteq Minted /\ IsFiniteSet(undone)
  <2>1. IsFiniteSet(utxos \cup UAt(n))
    BY <1>4, FS_Union
  <2>2. undone \subseteq utxos \cup UAt(n)
    BY <1>3
  <2> QED BY <1>4, <2>1, <2>2, FS_Subset
<1>6. ASSUME ~torn  PROVE undone \subseteq UAt(n)
  <2>1. utxos \subseteq UAt(n) \cup C
    BY <1>2, <1>6 DEF SupplyInv, LevelsFollow
  <2> QED BY <1>3, <2>1
<1> HIDE DEF undone, S, C
<1>7. DiffsMatch'
  <2>1. \A h \in 0..(height' - 1) : diffFile'[h] = DiffOf(Txs(h)')
    BY <1>2 DEF SupplyInv, DiffsMatch
  <2> QED BY <2>1 DEF DiffsMatch, DiffOf, SpentBy, Spends, Ins
<1>8. SpendsAvailable'
  <2>1. \A h \in 0..(height' - 1) : SpentBy(Txs(h)') \subseteq UAt(h)'
    BY <1>2 DEF SupplyInv, SpendsAvailable
  <2> QED BY <2>1 DEF SpendsAvailable, SpentBy, Spends, Ins
<1>9. LevelsFinite'
  <2>1. \A h \in 0..(n - 1) : UAt(h)' \subseteq Minted /\ IsFiniteSet(UAt(h)')
    BY <1>2 DEF SupplyInv, LevelsFinite
  <2>2. UAt(n)' \subseteq Minted /\ IsFiniteSet(UAt(n)')
    BY <1>2, <1>5
  <2>3. \A h \in 0..height' : UAt(h)' \subseteq Minted /\ IsFiniteSet(UAt(h)')
    BY <1>2, <2>1, <2>2
  <2> QED BY <2>3 DEF LevelsFinite
<1>10. ASSUME ~torn  PROVE LevelsFollow'
  <2> SUFFICES ASSUME NEW h \in 0..(n - 1)
               PROVE  UAt(h + 1)' \subseteq UAt(h)' \cup CreatedBy(Txs(h)')
    BY <1>2 DEF LevelsFollow, CreatedBy, Creates
  <2>1. UAt(h + 1) \subseteq UAt(h) \cup CreatedBy(Txs(h))
    BY <1>2, <1>10 DEF SupplyInv, LevelsFollow
  <2>2. UAt(h + 1)' \subseteq UAt(h + 1)
    <3>1. CASE h = n - 1
      <4>1. h + 1 = n
        BY <1>2, <3>1
      <4>2. UAt(n)' \subseteq UAt(n)
        BY <1>2, <1>6, <1>10
      <4> QED BY <4>1, <4>2
    <3>2. CASE h # n - 1
      <4>1. h + 1 \in 0..(n - 1)
        BY <1>2, <3>2
      <4>2. UAt(h + 1)' = UAt(h + 1)
        BY <1>2, <4>1
      <4> QED BY <4>2
    <3> QED BY <3>1, <3>2
  <2>3. UAt(h)' = UAt(h) /\ Txs(h)' = Txs(h)
    BY <1>2
  <2> QED BY <2>1, <2>2, <2>3
<1>11. ASSUME ~torn  PROVE LevelsWorth'
  <2>1. \A h \in 0..(n - 1) : Worth(UAt(h)') <= TotalReward(h)
    BY <1>2, <1>11 DEF SupplyInv, LevelsWorth
  <2>2. Worth(undone) <= TotalReward(n)
    <3>1. Worth(UAt(n)) <= TotalReward(n)
      BY <1>2, <1>11 DEF SupplyInv, LevelsWorth
    <3>2. undone \in SUBSET UAt(n)
      BY <1>6, <1>11
    <3>3. Worth(undone) <= Worth(UAt(n)) /\ Worth(UAt(n)) \in Nat
      BY <1>4, <3>2, WorthType
    <3>4. Worth(undone) \in Nat /\ TotalReward(n) \in Nat
      BY <1>2, <1>5, WorthType, TotalNext
    <3>5. \A x, y, z \in Nat : x <= y /\ y <= z => x <= z
      OBVIOUS
    <3> QED BY <3>1, <3>3, <3>4, <3>5
  <2>3. \A h \in 0..height' : Worth(UAt(h)') <= TotalReward(h)
    BY <1>2, <2>1, <2>2
  <2> QED BY <2>3 DEF LevelsWorth
<1> QED BY <1>1, <1>7, <1>8, <1>9, <1>10, <1>11 DEF SupplyInv

\* A pop_block that stops halfway leaves outputs that are there or were spent.
LEMMA PopBlockFailsSupply ==
  ASSUME SupplyInv, PopBlockFails
  PROVE  SupplyInv'
<1>0. PICK n : n = height
  OBVIOUS
<1>1. TypeOK /\ TypeOK' /\ DiffsMatch /\ torn' = TRUE
  BY PopBlockFailsType DEF SupplyInv, PopBlockFails
<1>2. /\ height' = n /\ snaps' = snaps /\ blockFile' = blockFile /\ diffFile' = diffFile
      /\ n \in Nat /\ n - 1 \in 0..(n - 1) /\ n - 1 \in 0..n /\ n \in 0..n
      /\ 0..(n - 1) \subseteq 0..n /\ n \notin 0..(n - 1)
      /\ 0..n = 0..(n - 1) \cup {n} /\ n - 1 # n
  BY <1>0, <1>1 DEF TypeOK, PopBlockFails, storeVars
<1>3. \A h \in 0..(n - 1) : UAt(h)' = UAt(h) /\ Txs(h)' = Txs(h)
  BY <1>0, <1>2 DEF UAt, Txs
<1>4. UAt(n)' \subseteq utxos \cup UAt(n - 1)
  <2>1. UAt(n)' = utxos'
    BY <1>2 DEF UAt
  <2>2. utxos' \subseteq utxos \cup diffFile[n - 1].spent
    BY <1>0 DEF PopBlockFails, RecallFails, Restored
  <2>3. diffFile[n - 1].spent = SpentBy(Txs(n - 1))
    <3>1. n - 1 \in 0..(height - 1)
      BY <1>0, <1>2
    <3>2. diffFile[n - 1] = DiffOf(Txs(n - 1))
      BY <1>1, <3>1 DEF DiffsMatch
    <3> QED BY <3>2 DEF DiffOf
  <2>4. SpentBy(Txs(n - 1)) \subseteq UAt(n - 1)
    BY <1>0, <1>2 DEF SupplyInv, SpendsAvailable
  <2> QED BY <2>1, <2>2, <2>3, <2>4
<1>5. DiffsMatch'
  <2>1. \A h \in 0..(height' - 1) : diffFile'[h] = DiffOf(Txs(h)')
    BY <1>0, <1>2, <1>3 DEF SupplyInv, DiffsMatch
  <2> QED BY <2>1 DEF DiffsMatch, DiffOf, SpentBy, Spends, Ins
<1>6. SpendsAvailable'
  <2>1. \A h \in 0..(height' - 1) : SpentBy(Txs(h)') \subseteq UAt(h)'
    BY <1>0, <1>2, <1>3 DEF SupplyInv, SpendsAvailable
  <2> QED BY <2>1 DEF SpendsAvailable, SpentBy, Spends, Ins
<1>7. LevelsFinite'
  <2>1. \A h \in 0..(n - 1) : UAt(h)' \subseteq Minted /\ IsFiniteSet(UAt(h)')
    BY <1>0, <1>2, <1>3 DEF SupplyInv, LevelsFinite
  <2>2. UAt(n)' \subseteq Minted /\ IsFiniteSet(UAt(n)')
    <3>1. /\ utxos \subseteq Minted /\ IsFiniteSet(utxos)
          /\ UAt(n - 1) \subseteq Minted /\ IsFiniteSet(UAt(n - 1))
      <4>1. UAt(n) = utxos
        BY <1>0 DEF UAt
      <4> QED BY <1>0, <1>2, <4>1 DEF SupplyInv, LevelsFinite
    <3>2. IsFiniteSet(utxos \cup UAt(n - 1))
      BY <3>1, FS_Union
    <3> QED BY <1>4, <3>1, <3>2, FS_Subset
  <2>3. \A h \in 0..height' : UAt(h)' \subseteq Minted /\ IsFiniteSet(UAt(h)')
    BY <1>2, <2>1, <2>2
  <2> QED BY <2>3 DEF LevelsFinite
<1> QED BY <1>1, <1>5, <1>6, <1>7 DEF SupplyInv

\* The inductive step for the supply.
LEMMA SupplyStep == SupplyInv /\ [Next]_vars => SupplyInv'
<1> SUFFICES ASSUME SupplyInv, [Next]_vars PROVE SupplyInv'
  OBVIOUS
<1>0. TypeOK
  BY DEF SupplyInv
<1>1. CASE ReceiveBlock
  <2>1. PICK txs \in TxLists, p \in 0..height, q \in 0..height, r \in 0..height,
             ts \in Timestamps, pow \in Pows :
               AddBlock(OfferedBlock(p, q, r, txs, ts, pow))
    BY <1>1 DEF ReceiveBlock
  <2>2. PICK b : b = OfferedBlock(p, q, r, txs, ts, pow)
    OBVIOUS
  <2>3. b \in Block /\ AddBlock(b)
    BY <1>0, <2>1, <2>2, OfferedType
  <2> QED BY <2>3, AddBlockSupply
<1>2. CASE PopBlock
  BY <1>2, PopBlockSupply
<1>3. CASE PopBlockFails
  BY <1>3, PopBlockFailsSupply
<1>4. CASE UNCHANGED vars
  <2>1. TypeOK'
    BY <1>0, <1>4 DEF TypeOK, vars, storeVars, difficultyVars
  <2>2. /\ height' = height /\ utxos' = utxos /\ snaps' = snaps
        /\ blockFile' = blockFile /\ diffFile' = diffFile /\ torn' = torn
    BY <1>4 DEF vars, storeVars
  <2>3. \A h : UAt(h)' = UAt(h) /\ Txs(h)' = Txs(h)
    BY <2>2 DEF UAt, Txs
  <2>4. DiffsMatch'
    BY <2>2, <2>3 DEF SupplyInv, DiffsMatch, Txs
  <2>5. SpendsAvailable'
    BY <2>2 DEF SupplyInv, SpendsAvailable, UAt, Txs
  <2>6. LevelsFinite'
    BY <2>2, <2>3 DEF SupplyInv, LevelsFinite
  <2>7. torn \/ (LevelsFollow' /\ LevelsWorth')
    BY <2>2 DEF SupplyInv, LevelsFollow, LevelsWorth, UAt, Txs
  <2> QED BY <2>1, <2>2, <2>4, <2>5, <2>6, <2>7 DEF SupplyInv
<1> QED BY <1>1, <1>2, <1>3, <1>4 DEF Next

\* In every reachable state the supply invariant holds.
LEMMA SupplyAlways == Spec => []SupplyInv
  BY SupplyInit, SupplyStep, PTL DEF Spec

\* Whatever blocks are added and popped, repeated reward transactions included,
\* there are never more coins than the rewards of the heights allow, unless a
\* pop_block stopped halfway.
THEOREM NeverMoreThanRewards == Spec => []NeverOverminted
<1>1. SupplyInv => NeverOverminted
  <2> SUFFICES ASSUME SupplyInv, ~torn PROVE Worth(utxos) <= TotalReward(height)
    BY DEF NeverOverminted
  <2>1. height \in 0..height /\ UAt(height) = utxos
    BY DEF SupplyInv, TypeOK, UAt
  <2> QED BY <2>1 DEF SupplyInv, LevelsWorth
<1> QED BY <1>1, SupplyAlways, PTL

-----------------------------------------------------------------------------
(* The supply, when reward transactions do not repeat.                     *)

\* The heights below h whose blocks, in f, have a reward transaction.
MintHeights(f, h) ==
  {g \in 0..(h - 1) : \E k \in DOMAIN f[g].body.txs : IsReward(f[g].body.txs[k])}

LevelsMinted ==
  \A h \in 0..height : Worth(UAt(h)) = SumFunctionOnSet(Rewards, MintHeights(blockFile, h))

\* Heights are numbers, and finitely many.
LEMMA MintHeightsType ==
  ASSUME NEW f, NEW n \in Nat
  PROVE  /\ MintHeights(f, n) \in SUBSET Nat /\ IsFiniteSet(MintHeights(f, n))
         /\ n \notin MintHeights(f, n)
<1>1. IsFiniteSet(0..(n - 1))
  <2>1. n - 1 \in Int /\ 0 \in Int
    OBVIOUS
  <2> QED BY <2>1, FS_Interval
<1>2. MintHeights(f, n) \subseteq 0..(n - 1)
  BY DEF MintHeights
<1>3. n \notin 0..(n - 1) /\ 0..(n - 1) \subseteq Nat
  OBVIOUS
<1> QED BY <1>1, <1>2, <1>3, FS_Subset

\* They do not depend on the blocks from the height on, and a block with a reward
\* transaction is one more.
LEMMA MintHeightsNext ==
  ASSUME NEW f, NEW g, NEW n \in Nat, \A h \in 0..(n - 1) : f[h] = g[h]
  PROVE  /\ MintHeights(f, n) = MintHeights(g, n)
         /\ MintHeights(f, n + 1) = IF MintsAt(f[n]) THEN MintHeights(g, n) \cup {n}
                                                     ELSE MintHeights(g, n)
<1>1. 0..((n + 1) - 1) = 0..(n - 1) \cup {n} /\ n \notin 0..(n - 1)
  OBVIOUS
<1>2. MintHeights(f, n) = MintHeights(g, n)
  BY DEF MintHeights
<1>3. MintHeights(f, n + 1) = MintHeights(f, n) \cup {h \in {n} : MintsAt(f[h])}
  BY <1>1 DEF MintHeights, MintsAt
<1> QED BY <1>2, <1>3

\* add_block: the coins are still those that were minted.
LEMMA AddBlockMinted ==
  ASSUME LedgerInv, SupplyInv, LevelsMinted, NEW b \in Block, AddBlock(b),
         FreshList(b.body.txs)
  PROVE  LevelsMinted'
<1>0. PICK n : n = height
  OBVIOUS
<1> DEFINE txs == b.body.txs
           after == AfterExecuting(txs)
           minted == IF MintsAt(b) THEN GetBlockReward(n) ELSE 0
<1>1. TypeOK
  BY DEF LedgerInv
<1>2. /\ n \in Nat /\ height' = n + 1
      /\ 0..height' = 0..n \cup {n + 1}
      /\ \A h \in 0..n : UAt(h)' = UAt(h)
      /\ UAt(n) = utxos
      /\ UAt(n + 1)' = after
  BY <1>0, <1>1, AddBlockLevels
<1>3. /\ blockFile'[n] = b
      /\ \A h \in 0..(n - 1) : blockFile'[h] = blockFile[h]
  BY <1>0, <1>1, AddBlockFiles
<1>4. n \in 0..n /\ n \in 0..height
  BY <1>0, <1>2
<1>5. CreatedBy(txs) \cap utxos = {}
  <2> SUFFICES ASSUME NEW o \in CreatedBy(txs), o \in utxos  PROVE FALSE
    OBVIOUS
  <2>1. utxos = CreatedIn(Below(n)) \ SpentIn(Below(n))
    BY <1>2, <1>4 DEF LedgerInv, LevelsExact
  <2>2. PICK k \in DOMAIN txs : o \in Creates(txs[k])
    BY DEF CreatedBy
  <2>3. PICK u \in Below(n) : o \in Creates(u)
    BY <2>1 DEF CreatedIn
  <2>4. txs[k] = u
    BY <2>2, <2>3, CreatorUnique
  <2>5. Listed(txs) \cap Below(n) = {}
    BY <1>0, AcceptedBlock DEF AddBlock
  <2> QED BY <2>2, <2>3, <2>4, <2>5 DEF Listed
<1>6. utxos \subseteq Minted /\ IsFiniteSet(utxos)
  BY <1>2, <1>4 DEF SupplyInv, LevelsFinite
<1>7. Worth(after) = Worth(utxos) + minted
  BY <1>0, <1>5, <1>6, ExecuteWorth DEF AddBlock
<1>8. Worth(utxos) = SumFunctionOnSet(Rewards, MintHeights(blockFile, n))
  BY <1>2, <1>4 DEF LevelsMinted
<1>9. Worth(utxos) \in Nat
  BY <1>6, WorthType
<1>10. SumFunctionOnSet(Rewards, MintHeights(blockFile', n + 1)) = Worth(utxos) + minted
  <2>1. MintHeights(blockFile', n + 1) = IF MintsAt(b) THEN MintHeights(blockFile, n) \cup {n}
                                                       ELSE MintHeights(blockFile, n)
    BY <1>2, <1>3, MintHeightsNext
  <2>2. CASE MintsAt(b)
    <3>1. SumFunctionOnSet(Rewards, MintHeights(blockFile, n) \cup {n})
            = SumFunctionOnSet(Rewards, MintHeights(blockFile, n)) + GetBlockReward(n)
      BY <1>2, MintHeightsType, RewardsNext
    <3> QED BY <1>8, <2>1, <2>2, <3>1
  <2>3. CASE ~MintsAt(b)
    BY <1>8, <1>9, <2>1, <2>3
  <2> QED BY <2>2, <2>3
<1>11. \A h \in 0..n : Worth(UAt(h)') = SumFunctionOnSet(Rewards, MintHeights(blockFile', h))
  <2> SUFFICES ASSUME NEW h \in 0..n
               PROVE  Worth(UAt(h)') = SumFunctionOnSet(Rewards, MintHeights(blockFile', h))
    OBVIOUS
  <2>1. h \in Nat /\ 0..(h - 1) \subseteq 0..(n - 1) /\ h \in 0..height
    BY <1>0, <1>2
  <2>2. MintHeights(blockFile', h) = MintHeights(blockFile, h)
    BY <1>3, <2>1, MintHeightsNext
  <2>3. Worth(UAt(h)) = SumFunctionOnSet(Rewards, MintHeights(blockFile, h))
    BY <2>1 DEF LevelsMinted
  <2> QED BY <1>2, <2>2, <2>3
<1>12. Worth(UAt(n + 1)') = SumFunctionOnSet(Rewards, MintHeights(blockFile', n + 1))
  BY <1>2, <1>7, <1>10
<1>13. \A h \in 0..height' : Worth(UAt(h)') = SumFunctionOnSet(Rewards, MintHeights(blockFile', h))
  BY <1>2, <1>11, <1>12
<1> QED BY <1>13 DEF LevelsMinted

\* pop_block: the coins are again those that were minted below the block.
LEMMA PopBlockMinted ==
  ASSUME LedgerInv, LevelsMinted, PopBlock
  PROVE  LevelsMinted'
<1>0. PICK n : n = height - 1
  OBVIOUS
<1>1. TypeOK /\ DiffsMatch
  BY DEF LedgerInv
<1>2. /\ n \in Nat /\ height = n + 1 /\ height' = n
      /\ 0..height' = 0..(n - 1) \cup {n} /\ n \in 0..height
      /\ 0..(n - 1) \subseteq 0..height
      /\ \A h \in 0..(n - 1) : UAt(h)' = UAt(h)
      /\ UAt(n) = snaps[n].utxos
  BY <1>0, <1>1, PopBlockLevels
<1>3. \A h \in 0..(n - 1) : blockFile'[h] = blockFile[h]
  BY <1>1, <1>2, PopBlockFiles
<1>4. UAt(n)' = UAt(n)
  <2>1. utxos' = snaps[n].utxos
    BY <1>2, PopBlockLedger
  <2>2. UAt(n)' = utxos'
    BY <1>2 DEF UAt
  <2> QED BY <1>2, <2>1, <2>2
<1>5. ASSUME NEW h \in 0..height'
      PROVE  Worth(UAt(h)') = SumFunctionOnSet(Rewards, MintHeights(blockFile', h))
  <2>1. h \in Nat /\ 0..(h - 1) \subseteq 0..(n - 1) /\ h \in 0..height
    BY <1>2
  <2>2. MintHeights(blockFile', h) = MintHeights(blockFile, h)
    BY <1>3, <2>1, MintHeightsNext
  <2>3. Worth(UAt(h)) = SumFunctionOnSet(Rewards, MintHeights(blockFile, h))
    BY <2>1 DEF LevelsMinted
  <2>4. UAt(h)' = UAt(h)
    BY <1>2, <1>4
  <2> QED BY <2>2, <2>3, <2>4
<1> QED BY <1>5 DEF LevelsMinted

\* In every reachable state the coins at every height of the chain are those minted
\* below it.
LEMMA MintedAlways ==
  ASSUME FreshRewards
  PROVE  Spec => []LevelsMinted
<1>1. Init => LevelsMinted
  <2> SUFFICES ASSUME Init PROVE LevelsMinted
    OBVIOUS
  <2>1. height = 0 /\ utxos = {} /\ 0..height = {0} /\ 0..(0 - 1) = {}
    BY DEF Init, StoreInit
  <2>2. UAt(0) = {} /\ MintHeights(blockFile, 0) = {}
    BY <2>1 DEF UAt, MintHeights
  <2>3. Worth({}) = SumFunctionOnSet(Value, {})
    BY FS_EmptySet, WorthType
  <2> QED BY <2>1, <2>2, <2>3, SumEmpty DEF LevelsMinted
<1>2. LedgerInv /\ SupplyInv /\ LevelsMinted /\ [Next]_vars => LevelsMinted'
  <2> SUFFICES ASSUME LedgerInv, SupplyInv, LevelsMinted, [Next]_vars PROVE LevelsMinted'
    OBVIOUS
  <2>0. TypeOK
    BY DEF LedgerInv
  <2>1. CASE ReceiveBlock
    <3>1. PICK txs \in TxLists :
            /\ FreshList(txs)
            /\ \E p, q, r \in 0..height, ts \in Timestamps, pow \in Pows :
                 AddBlock(OfferedBlock(p, q, r, txs, ts, pow))
      BY <2>1 DEF ReceiveBlock
    <3>2. PICK p \in 0..height, q \in 0..height, r \in 0..height,
               ts \in Timestamps, pow \in Pows :
                 AddBlock(OfferedBlock(p, q, r, txs, ts, pow))
      BY <3>1
    <3>3. PICK b : b = OfferedBlock(p, q, r, txs, ts, pow)
      OBVIOUS
    <3>4. b \in Block /\ AddBlock(b)
      BY <2>0, <3>2, <3>3, OfferedType
    <3>5. b.body.txs = txs
      BY <3>3 DEF OfferedBlock
    <3> QED BY <3>1, <3>4, <3>5, AddBlockMinted
  <2>2. CASE PopBlock
    BY <2>2, PopBlockMinted
  <2>3. CASE PopBlockFails
    <3>1. height > 0 /\ RecallFails(diffFile[height - 1])
      BY <2>3 DEF PopBlockFails
    <3>2. CanRecall(diffFile[height - 1])
      BY <3>1, RecallSucceeds
    <3> QED BY <3>1, <3>2 DEF RecallFails, CanRecall
  <2>4. CASE UNCHANGED vars
    <3>1. height' = height /\ utxos' = utxos /\ snaps' = snaps /\ blockFile' = blockFile
      BY <2>4 DEF vars, storeVars
    <3> QED BY <3>1 DEF LevelsMinted, UAt
  <2> QED BY <2>1, <2>2, <2>3, <2>4 DEF Next
<1> QED BY <1>1, <1>2, LedgerAlways, SupplyAlways, PTL DEF Spec

\* The unspent outputs are worth exactly the rewards of the heights whose blocks have a
\* reward transaction: no other transaction, and no rollback, makes or loses a coin.
THEOREM SupplyAlwaysConserved ==
  ASSUME FreshRewards
  PROVE  Spec => []SupplyConserved
<1>1. LedgerInv /\ LevelsMinted => SupplyConserved
  <2> SUFFICES ASSUME LedgerInv, LevelsMinted PROVE SupplyConserved
    OBVIOUS
  <2>1. height \in Nat /\ height \in 0..height /\ UAt(height) = utxos
    BY DEF LedgerInv, TypeOK, UAt
  <2>2. Worth(utxos) = SumFunctionOnSet(Rewards, MintHeights(blockFile, height))
    BY <2>1 DEF LevelsMinted
  <2>3. RewardHeights(height) = MintHeights(blockFile, height)
    BY DEF RewardHeights, MintHeights
  <2>4. SumFunction([h \in RewardHeights(height) |-> GetBlockReward(h)])
          = SumFunctionOnSet(Rewards, RewardHeights(height))
    BY <2>1, <2>3, MintHeightsType, RewardsSum
  <2> QED BY <2>2, <2>3, <2>4 DEF SupplyConserved
<1> QED BY <1>1, LedgerAlways, MintedAlways, PTL

-----------------------------------------------------------------------------
(* The ledger: the files, read as a sequence of blocks, obey the rules a    *)
(* node applies that knows nothing else.                                    *)

Blocks == [i \in 1..height |-> blockFile[i - 1]]

\* The sequence of blocks, its length and its elements.
LEMMA BlocksType ==
  TypeOK => /\ Blocks \in Seq(Block)
            /\ Len(Blocks) = height
            /\ \A i \in 1..height : Blocks[i] = blockFile[i - 1]
<1> SUFFICES ASSUME TypeOK
             PROVE  /\ Blocks \in Seq(Block)
                    /\ Len(Blocks) = height
                    /\ \A i \in 1..height : Blocks[i] = blockFile[i - 1]
  OBVIOUS
<1>1. height \in Nat /\ \A i \in 1..height : i - 1 \in 0..(height - 1)
  BY DEF TypeOK
<1>2. \A i \in 1..height : blockFile[i - 1] \in Block
  BY <1>1 DEF TypeOK
<1>3. Blocks \in [1..height -> Block]
  BY <1>2 DEF Blocks
<1>4. Blocks \in Seq(Block) /\ Len(Blocks) = height
  BY <1>1, <1>3
<1> QED BY <1>4 DEF Blocks

\* The transactions of the sequence are those of the chain.
LEMMA BlocksTxs ==
  ASSUME TypeOK
  PROVE  Rules!TxsIn(Blocks) = Below(height)
<1>1. DOMAIN Blocks = 1..height /\ height \in Nat
  BY DEF Blocks, TypeOK
<1>2. \A t : t \in Rules!TxsIn(Blocks) <=>
               \E i \in 1..height : t \in Listed(Blocks[i].body.txs)
  BY <1>1 DEF Rules!TxsIn, Listed
<1>3. \A t : t \in Below(height) <=>
               \E g \in 0..(height - 1) : t \in Listed(blockFile[g].body.txs)
  BY DEF Below, BelowIn
<1>4. ASSUME NEW t, NEW i \in 1..height, t \in Listed(Blocks[i].body.txs)
      PROVE  \E g \in 0..(height - 1) : t \in Listed(blockFile[g].body.txs)
  <2>1. i - 1 \in 0..(height - 1)
    BY <1>1
  <2>2. Blocks[i] = blockFile[i - 1]
    BY BlocksType
  <2> QED BY <1>4, <2>1, <2>2
<1>5. ASSUME NEW t, NEW g \in 0..(height - 1), t \in Listed(blockFile[g].body.txs)
      PROVE  \E i \in 1..height : t \in Listed(Blocks[i].body.txs)
  <2>1. g + 1 \in 1..height /\ (g + 1) - 1 = g
    BY <1>1
  <2>2. Blocks[g + 1] = blockFile[g]
    BY <2>1, BlocksType
  <2> QED BY <1>5, <2>1, <2>2
<1> QED BY <1>2, <1>3, <1>4, <1>5

\* What the rules call unspent is what the outputs database holds.
LEMMA BlocksUnspent ==
  ASSUME LedgerInv
  PROVE  Rules!Unspent(Blocks) = utxos
<1>1. TypeOK /\ height \in 0..height
  BY DEF LedgerInv, TypeOK
<1>2. Rules!CreatedBelow(Blocks) = CreatedIn(Below(height))
  BY <1>1, BlocksTxs DEF Rules!CreatedBelow, CreatedIn
<1>3. Rules!SpentBelow(Blocks) = SpentIn(Below(height))
  BY <1>1, BlocksTxs DEF Rules!SpentBelow, SpentIn
<1>4. UAt(height) = utxos
  BY DEF UAt
<1> QED BY <1>1, <1>2, <1>3, <1>4 DEF Rules!Unspent, LedgerInv, LevelsExact

\* A block that is added is linked to the block below it and names the targets
\* that follow from the blocks below it.
LEMMA AcceptedLinked ==
  ASSUME HistoryInv, NEW b \in Block, ValidBlock(b)
  PROVE  Rules!Linked(Blocks, b) /\ Rules!Retargeted(Blocks, b)
<1>1. TypeOK /\ ChainIndexed /\ height \in Nat
  BY DEF HistoryInv, IndexInv, TypeOK
<1>2. Len(Blocks) = height
  BY <1>1, BlocksType
<1>3. \A i \in 1..height : Blocks[i] = blockFile[i - 1]
  BY <1>1, BlocksType
<1>4. b.prev = last_block
  BY DEF ValidBlock
<1>5. b.body.bd = StateAt(height).bd /\ b.body.td = StateAt(height).td
  <2>1. StateAt(height) = Snapshot
    BY DEF StateAt
  <2>2. Snapshot.bd = block_difficulty /\ Snapshot.td = transaction_difficulty
    BY DEF Snapshot
  <2> QED BY <2>1, <2>2 DEF ValidBlock, ValidDifficulties
<1>6. CASE height = 0
  <2>1. Blocks = <<>>
    BY <1>1, <1>2, <1>6, BlocksType
  <2>2. b.prev = GenesisHash
    BY <1>1, <1>4, <1>6 DEF ChainIndexed
  <2>3. b.body.bd = StartingDifficulty /\ b.body.td = StartingDifficulty
    BY <1>5, <1>6 DEF HistoryInv, DifficultyOfChain
  <2> QED BY <1>2, <1>6, <2>1, <2>2, <2>3 DEF Rules!Linked, Rules!Retargeted
<1>7. CASE height # 0
  <2>1. /\ height \in 1..height /\ height - 1 \in 0..(height - 1) /\ height > 0
        /\ height > 1 => height - 1 \in 1..height /\ (height - 1) - 1 = height - 2
    BY <1>1, <1>7
  <2>2. Blocks[height] = blockFile[height - 1] /\ Blocks # <<>>
    BY <1>2, <1>3, <1>7, <2>1
  <2>3. height > 1 => Blocks[height - 1] = blockFile[height - 2]
    BY <1>3, <2>1
  <2>4. b.prev = BlockHash(Blocks[height])
    BY <1>1, <1>4, <1>7, <2>1, <2>2 DEF ChainIndexed
  <2>5. b.body.td = NextTxDifficulty(Blocks[height].body.td, Len(Blocks[height].body.txs))
    BY <1>5, <2>1, <2>2 DEF HistoryInv, DifficultyOfChain
  <2>6. height > 1 =>
          b.body.bd = NextBlockDifficulty(Blocks[height].body.bd,
                        Blocks[height - 1].body.ts, Blocks[height].body.ts)
    BY <1>5, <2>1, <2>2, <2>3 DEF HistoryInv, DifficultyOfChain
  <2>7. Rules!Linked(Blocks, b)
    BY <1>2, <2>2, <2>4 DEF Rules!Linked
  <2>8. Rules!Retargeted(Blocks, b)
    BY <1>2, <1>7, <2>5, <2>6 DEF Rules!Retargeted
  <2> QED BY <2>7, <2>8
<1> QED BY <1>6, <1>7

\* The transactions of a block that is added are lawful, new, and spend what the
\* blocks below leave unspent, each output once.
LEMMA AcceptedPayable ==
  ASSUME LedgerInv, NEW b \in Block, ValidBlock(b), FreshList(b.body.txs)
  PROVE  Mined(b) /\ Rules!Payable(Blocks, b)
<1> DEFINE txs == b.body.txs
<1>1. TypeOK
  BY DEF LedgerInv
<1>2. Len(Blocks) = height
  BY <1>1, BlocksType
<1>3. ValidTransactions(txs, b.body.ts) /\ ValidDifficulties(b)
  BY DEF ValidBlock
<1>4. Mined(b)
  BY DEF ValidBlock, ValidDifficulties, Mined
<1>5. \A k \in DOMAIN txs : Spends(txs[k]) \subseteq Rules!Unspent(Blocks)
  BY ValidList, BlocksUnspent
<1>6. \A k \in DOMAIN txs : txs[k] \notin Rules!TxsIn(Blocks)
  <2>1. Listed(txs) \cap Below(height) = {}
    BY AcceptedBlock
  <2> QED BY <1>1, <2>1, BlocksTxs DEF Listed
<1>7. ASSUME NEW k \in DOMAIN txs PROVE Lawful(txs[k], b, height)
  <2>1. CASE IsReward(txs[k])
    BY <1>3, <2>1 DEF ValidTransactions, ValidReward, Lawful
  <2>2. CASE ~IsReward(txs[k])
    <3>1. /\ ValidTransaction(txs[k], transaction_difficulty)
          /\ ValidTransactionTimestampInBlock(txs[k], b.body.ts)
      BY <1>3, <2>2 DEF ValidTransactions
    <3>2. b.body.td = transaction_difficulty
      BY <1>3 DEF ValidDifficulties
    <3> QED BY <2>2, <3>1, <3>2 DEF ValidTransaction, Lawful
  <2> QED BY <2>1, <2>2
<1>8. ASSUME NEW k \in DOMAIN txs, NEW m \in DOMAIN txs, k # m
      PROVE  /\ txs[k] # txs[m]
             /\ Spends(txs[k]) \cap Spends(txs[m]) = {}
             /\ ~(IsReward(txs[k]) /\ IsReward(txs[m]))
  <2>1. txs[k] # txs[m]
    BY <1>8, ValidList
  <2>2. Spends(txs[k]) \cap Spends(txs[m]) = {}
    BY <1>3, <1>8 DEF ValidTransactions
  <2>3. ~(IsReward(txs[k]) /\ IsReward(txs[m]))
    BY <1>3, <1>8 DEF ValidTransactions
  <2> QED BY <2>1, <2>2, <2>3
<1> QED BY <1>2, <1>4, <1>5, <1>6, <1>7, <1>8 DEF Rules!Payable

\* add_block extends the ledger.
LEMMA AddBlockExtends ==
  ASSUME LedgerInv, HistoryInv, NEW b \in Block, AddBlock(b), FreshList(b.body.txs)
  PROVE  Rules!Extend
<1>0. PICK n : n = height
  OBVIOUS
<1>1. TypeOK /\ TypeOK' /\ ValidBlock(b)
  BY AddBlockType DEF LedgerInv, AddBlock
<1>2. n \in Nat /\ height' = n + 1 /\ 1..(n + 1) = 1..n \cup {n + 1} /\ (n + 1) - 1 = n
  BY <1>0, <1>1 DEF TypeOK, AddBlock, StoreAddBlock
<1>3. blockFile'[n] = b /\ \A h \in 0..(n - 1) : blockFile'[h] = blockFile[h]
  BY <1>0, <1>1, AddBlockFiles
<1>4. Blocks \in Seq(Block) /\ Len(Blocks) = n /\ \A i \in 1..n : Blocks[i] = blockFile[i - 1]
  BY <1>0, <1>1, BlocksType
<1>5. /\ Blocks' \in Seq(Block)
      /\ Len(Blocks') = n + 1
      /\ \A i \in 1..(n + 1) : Blocks'[i] = blockFile'[i - 1]
  <2>1. (TypeOK => /\ Blocks \in Seq(Block)
                   /\ Len(Blocks) = height
                   /\ \A i \in 1..height : Blocks[i] = blockFile[i - 1])'
    BY BlocksType, PTL
  <2> QED BY <1>1, <1>2, <2>1
<1>6. \A i \in 1..n : Blocks'[i] = Blocks[i]
  <2>1. \A i \in 1..n : i - 1 \in 0..(n - 1) /\ i \in 1..(n + 1)
    BY <1>2
  <2> QED BY <1>3, <1>4, <1>5, <2>1
<1>7. Blocks'[n + 1] = b
  BY <1>2, <1>3, <1>5
<1>8. Blocks' = Append(Blocks, b)
  <2>1. /\ Append(Blocks, b) \in Seq(Block)
        /\ Len(Append(Blocks, b)) = n + 1
        /\ \A i \in 1..n : Append(Blocks, b)[i] = Blocks[i]
        /\ Append(Blocks, b)[n + 1] = b
    BY <1>2, <1>4
  <2>2. \A i \in 1..(n + 1) : Blocks'[i] = Append(Blocks, b)[i]
    BY <1>2, <1>6, <1>7, <2>1
  <2> QED BY <1>5, <2>1, <2>2
<1>9. Len(Blocks') = n + 1 /\ Blocks'[n + 1] = b /\ Blocks' # <<>>
  BY <1>2, <1>4, <1>8
<1>10. /\ Rules!Linked(Blocks, b) /\ Rules!Retargeted(Blocks, b)
       /\ Mined(b) /\ Rules!Payable(Blocks, b)
  BY <1>1, AcceptedLinked, AcceptedPayable
<1>11. Blocks'[Len(Blocks')] = b
  BY <1>9
<1> QED BY <1>8, <1>9, <1>10, <1>11 DEF Rules!Extend, Blocks

\* pop_block takes the last block off the ledger.
LEMMA PopBlockUndoes ==
  ASSUME TypeOK, PopBlock
  PROVE  Rules!Undo
<1>0. PICK n : n = height - 1
  OBVIOUS
<1>1. n \in Nat /\ height = n + 1 /\ height' = n /\ (n + 1) - 1 = n
  BY <1>0 DEF TypeOK, PopBlock, StorePopBlock
<1>2. \A h \in 0..(n - 1) : blockFile'[h] = blockFile[h]
  BY <1>0, <1>1, PopBlockFiles
<1>3. Blocks \in Seq(Block) /\ Len(Blocks) = n + 1 /\ Blocks # <<>>
      /\ \A i \in 1..(n + 1) : Blocks[i] = blockFile[i - 1]
  BY <1>1, BlocksType
<1>4. Blocks' = [i \in 1..n |-> blockFile'[i - 1]]
  BY <1>1 DEF Blocks
<1>5. SubSeq(Blocks, 1, n) = [i \in 1..n |-> Blocks[i]]
  BY <1>1, <1>3
<1>6. \A i \in 1..n : blockFile'[i - 1] = Blocks[i]
  <2>1. \A i \in 1..n : i - 1 \in 0..(n - 1) /\ i \in 1..(n + 1)
    BY <1>1
  <2> QED BY <1>2, <1>3, <2>1
<1>7. Blocks' = SubSeq(Blocks, 1, n)
  BY <1>4, <1>5, <1>6
<1>8. Blocks' = SubSeq(Blocks, 1, Len(Blocks) - 1)
  BY <1>1, <1>3, <1>7
<1> QED BY <1>3, <1>8 DEF Rules!Undo, Blocks

\* Every step of the chain with its databases is a step of the ledger or leaves
\* it alone.
LEMMA LedgerRefines ==
  ASSUME FreshRewards, LedgerInv, HistoryInv, [Next]_vars
  PROVE  [Rules!Next]_Blocks
<1>0. TypeOK
  BY DEF LedgerInv
<1>1. CASE ReceiveBlock
  <2>1. PICK txs \in TxLists, p \in 0..height, q \in 0..height, r \in 0..height,
             ts \in Timestamps, pow \in Pows :
               /\ FreshList(txs)
               /\ AddBlock(OfferedBlock(p, q, r, txs, ts, pow))
    BY <1>1 DEF ReceiveBlock
  <2>2. PICK b : b = OfferedBlock(p, q, r, txs, ts, pow)
    OBVIOUS
  <2>3. b \in Block /\ AddBlock(b)
    BY <1>0, <2>1, <2>2, OfferedType
  <2>4. FreshList(b.body.txs)
    BY <2>1, <2>2 DEF OfferedBlock
  <2> QED BY <2>3, <2>4, AddBlockExtends DEF Rules!Next
<1>2. CASE PopBlock
  BY <1>0, <1>2, PopBlockUndoes DEF Rules!Next
<1>3. CASE PopBlockFails
  BY <1>3 DEF PopBlockFails, storeVars, Blocks
<1>4. CASE UNCHANGED vars
  BY <1>4 DEF vars, storeVars, Blocks
<1> QED BY <1>1, <1>2, <1>3, <1>4 DEF Next

\* add_block and pop_block implement the ledger: whatever was popped, and whatever
\* outputs and difficulties the node has in its databases, the chain grows only by
\* blocks that a node accepts which knows the blocks below and nothing else.
THEOREM LedgerImplemented ==
  ASSUME FreshRewards
  PROVE  Spec => LedgerKept
<1>1. Init => Rules!Init
  <2> SUFFICES ASSUME Init PROVE Rules!Init
    OBVIOUS
  <2>1. TypeOK /\ height = 0
    BY InitType DEF Init, StoreInit
  <2>2. Blocks \in Seq(Block) /\ Len(Blocks) = 0
    BY <2>1, BlocksType
  <2>3. Blocks = <<>>
    BY <2>2
  <2> QED BY <2>3 DEF Rules!Init, Blocks
<1>2. LedgerInv /\ HistoryInv /\ [Next]_vars => [Rules!Next]_Blocks
  BY LedgerRefines
<1> QED BY <1>1, <1>2, LedgerAlways, HistoryAlways, PTL
        DEF Spec, LedgerKept, Rules!Spec, Blocks
=============================================================================
