----------------------------- MODULE BlockStore -----------------------------
(***************************************************************************)
(* The block store of src/core/block_store.rs: one file per block and per  *)
(* UTXO diff, the two index trees, the height and the last hash.           *)
(*                                                                         *)
(* A hash stands for the contents it was computed from.  The contents of a *)
(* block include the hash of its predecessor, so a hash is the sequence of *)
(* bodies from the first block on; GENESIS_PREVIOUS_BLOCK_HASH is <<>>.    *)
(***************************************************************************)
EXTENDS Utxos, Difficulty

GenesisHash == <<>>

\* bd, td: the difficulties in the metadata; pow: the hash read as a number.
Body == [txs : Seq(Tx), ts : Nat, pow : Target, bd : Target, td : Target]
Hash == Seq(Body)
Block == [prev : Hash, body : Body]
BlockHash(b) == Append(b.prev, b.body)

VARIABLES
  height,      \* number of blocks
  last_block,  \* hash of the last one
  blockFile,   \* {height}.dat
  diffFile,    \* utxo-diffs-{height}.dat
  by_hash,     \* index: hash -> height
  by_height    \* index: height -> hash

storeVars == <<height, last_block, blockFile, diffFile, by_hash, by_height>>

\* A key of a tree, or a file, written and removed.
Put(f, k, v) == [x \in DOMAIN f \cup {k} |-> IF x = k THEN v ELSE f[x]]
Delete(f, k) == [x \in DOMAIN f \ {k} |-> f[x]]

StoreInit ==
  /\ height = 0
  /\ last_block = GenesisHash
  /\ blockFile = <<>>
  /\ diffFile = <<>>
  /\ by_hash = <<>>
  /\ by_height = <<>>

StoreAddBlock(b, diff) ==
  /\ blockFile' = Put(blockFile, height, b)
  /\ diffFile' = Put(diffFile, height, diff)
  /\ by_hash' = Put(by_hash, BlockHash(b), height)
  /\ by_height' = Put(by_height, height, BlockHash(b))
  /\ height' = height + 1
  /\ last_block' = BlockHash(b)

\* Mutant: the hash of the popped block stays in the index.
StorePopBlockKeepsHash ==
  /\ height > 0
  /\ blockFile' = Delete(blockFile, height - 1)
  /\ diffFile' = Delete(diffFile, height - 1)
  /\ by_height' = Delete(by_height, height - 1)
  /\ height' = height - 1
  /\ last_block' = IF height = 1 THEN GenesisHash
                                 ELSE BlockHash(blockFile[height - 2])
  /\ UNCHANGED by_hash

StorePopBlock ==
  /\ height > 0
  /\ blockFile' = Delete(blockFile, height - 1)
  /\ diffFile' = Delete(diffFile, height - 1)
  /\ by_hash' = Delete(by_hash, last_block)
  /\ by_height' = Delete(by_height, height - 1)
  /\ height' = height - 1
  /\ last_block' = IF height = 1 THEN GenesisHash
                                 ELSE BlockHash(blockFile[height - 2])
=============================================================================
