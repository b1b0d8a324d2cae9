----------------------------- MODULE Durability -----------------------------
(***************************************************************************)
(* What of a blockchain is on disk, and when: the steps of add_block and   *)
(* pop_block (core/blockchain.rs) with those of the block store            *)
(* (core/block_store.rs) and of the unspent outputs (core/utxo.rs), the    *)
(* death of the process between any two of them, and Blockchain::new.      *)
(*                                                                         *)
(* A block stands for the chain that ends with it, a sequence of labels.   *)
(* It has TxCount transactions of one output each, <<block, k>>; the k-th  *)
(* spends the k-th output of an earlier block, or mints it.  Files change  *)
(* with the call that writes them.  sled keeps its writes in order and     *)
(* saves them when it is flushed, which it also does by itself at any time.*)
(***************************************************************************)
EXTENDS Naturals, Sequences

CONSTANTS
  Label,       \* blocks that can follow a block
  TxCount,     \* transactions of a block
  MaxCrashes,  \* bound on the deaths of the process
  MaxHeight,   \* bound on the height, and on the blocks that one stands on
  NoInfo,      \* blockchain-info.dat cannot be decoded, or is not there
  NoBlock      \* no operation under way

ASSUME DurabilityAssumption ==
  /\ Label \subseteq STRING
  /\ TxCount \in Nat \ {0}
  /\ MaxHeight \in Nat
  /\ NoInfo \notin [height : Nat, last : Seq(Label)]

VARIABLES
  up,          \* the process runs
  height,      \* number of blocks, in memory
  last,        \* last_block, in memory: the next block must name it
  utxos,       \* unspent outputs as the process sees them
  op,          \* the operation under way
  info,        \* blockchain-info.dat
  blockFile,   \* {height}.dat
  diffFile,    \* utxo-diffs-{height}.dat: a block and whose outputs it spends
  by_height,   \* index: height -> block
  utxoDisk,    \* unspent outputs that are saved
  committed,   \* history: height and last when add_block or pop_block last
               \* succeeded
  crashes,     \* history: how often the process has died
  died,        \* history: the step in which the process that is down died
  holes,       \* history: heights of blocks that a pop has taken away and that
               \* the saved chain still has
  torn         \* history: the saved outputs may be those of another chain

memory == <<height, last, utxos, op>>
files == <<info, blockFile, diffFile, by_height>>
history == <<committed, crashes, died, holes, torn>>
vars == <<up, memory, files, utxoDisk, history>>

Idle == [pc |-> "idle", k |-> 1, block |-> NoBlock, from |-> NoBlock]
Step(pc) == op' = [op EXCEPT !.pc = pc]
Front(s) == SubSeq(s, 1, Len(s) - 1)
Put(f, x, v) == [y \in DOMAIN f \cup {x} |-> IF y = x THEN v ELSE f[y]]
Delete(f, x) == [y \in DOMAIN f \ {x} |-> f[y]]

\* The chain in memory, and that of a node without blocks.
Chain == [height |-> height, last |-> last]
NoChain == [height |-> 0, last |-> <<>>]

Spent(c, k) == IF c = <<>> THEN {} ELSE {<<c, k>>}
Created(b, k) == {<<b, k>>}

\* Blocks whose outputs another block can spend.
Sources == {u[1] : u \in {v \in utxos : \A k \in 1..TxCount : <<v[1], k>> \in utxos}}

Init ==
  /\ up = TRUE
  /\ height = 0 /\ last = <<>> /\ utxos = {} /\ op = Idle
  /\ info = NoInfo /\ blockFile = <<>> /\ diffFile = <<>> /\ by_height = <<>>
  /\ utxoDisk = {}
  /\ committed = NoChain /\ crashes = 0 /\ died = "idle" /\ holes = {} /\ torn = FALSE

-----------------------------------------------------------------------------
(* add_block, of a block that names last_block and spends what is there.   *)

StartAdd(l) ==
  /\ up /\ op = Idle /\ height < MaxHeight /\ Len(last) <= MaxHeight
  /\ \E c \in Sources \cup (IF last = <<>> \/ Sources = {} THEN {<<>>} ELSE {}) :
       op' = [pc |-> "spend", k |-> 1, block |-> Append(last, l), from |-> c]
  /\ UNCHANGED <<up, height, last, utxos, files, utxoDisk, history>>

ExecuteSpend ==
  /\ up /\ op.pc = "spend"
  /\ utxos' = utxos \ Spent(op.from, op.k)
  /\ Step("create")
  /\ UNCHANGED <<up, height, last, files, utxoDisk, history>>

\* Mutant: off by one in the loop over the transactions.
ExecuteCreateOverrun ==
  /\ up /\ op.pc = "create"
  /\ utxos' = utxos \cup Created(op.block, op.k)
  /\ utxoDisk' = utxos'
  /\ op' = IF op.k > TxCount THEN [op EXCEPT !.pc = "block"]
                             ELSE [op EXCEPT !.pc = "spend", !.k = @ + 1]
  /\ UNCHANGED <<up, height, last, files, history>>

\* execute_transaction flushes the database when it is done.
ExecuteCreate ==
  /\ up /\ op.pc = "create"
  /\ utxos' = utxos \cup Created(op.block, op.k)
  /\ utxoDisk' = utxos'
  /\ op' = IF op.k = TxCount THEN [op EXCEPT !.pc = "block"]
                             ELSE [op EXCEPT !.pc = "spend", !.k = @ + 1]
  /\ UNCHANGED <<up, height, last, files, history>>

\* Mutant: off by one in the name of the file.
RenameBlockAbove ==
  /\ up /\ op.pc = "block"
  /\ blockFile' = Put(blockFile, height + 1, op.block)
  /\ Step("diff")
  /\ UNCHANGED <<up, height, last, utxos, info, diffFile, by_height, utxoDisk, history>>

\* The files are written under another name, synced and renamed.
RenameBlock ==
  /\ up /\ op.pc = "block"
  /\ blockFile' = Put(blockFile, height, op.block)
  /\ Step("diff")
  /\ UNCHANGED <<up, height, last, utxos, info, diffFile, by_height, utxoDisk, history>>

RenameDiff ==
  /\ up /\ op.pc = "diff"
  /\ diffFile' = Put(diffFile, height, [block |-> op.block, from |-> op.from])
  /\ Step("index")
  /\ UNCHANGED <<up, height, last, utxos, info, blockFile, by_height, utxoDisk, history>>

InsertIndex ==
  /\ up /\ op.pc = "index"
  /\ by_height' = Put(by_height, height, op.block)
  /\ Step("added")
  /\ UNCHANGED <<up, height, last, utxos, info, blockFile, diffFile, utxoDisk, history>>

SetAdded ==
  /\ up /\ op.pc = "added"
  /\ height' = height + 1 /\ last' = op.block
  /\ holes' = holes \ {height}
  /\ Step("truncate")
  /\ UNCHANGED <<up, utxos, files, utxoDisk, committed, crashes, died, torn>>

-----------------------------------------------------------------------------
(* pop_block.                                                              *)

StartPop ==
  LET h == height - 1 IN
  /\ up /\ op = Idle /\ height # 0
  /\ h \in DOMAIN blockFile /\ h \in DOMAIN diffFile
  /\ op' = [pc |-> "restore", k |-> 1, block |-> diffFile[h].block,
            from |-> diffFile[h].from]
  /\ UNCHANGED <<up, height, last, utxos, files, utxoDisk, history>>

\* The last block cannot be read: pop_block returns BlockNotFound.
PopNotFound ==
  /\ up /\ op = Idle /\ height # 0
  /\ height - 1 \notin DOMAIN blockFile \/ height - 1 \notin DOMAIN diffFile
  /\ UNCHANGED vars

\* recall_block_utxos: what was spent comes back, then what was created goes.
\* Nothing is flushed.
RecallSpent ==
  /\ up /\ op.pc = "restore"
  /\ utxos' = utxos \cup Spent(op.from, op.k)
  /\ op' = IF op.k = TxCount THEN [op EXCEPT !.pc = "remove", !.k = 1]
                             ELSE [op EXCEPT !.k = @ + 1]
  /\ UNCHANGED <<up, height, last, files, utxoDisk, history>>

RecallCreated ==
  /\ up /\ op.pc = "remove"
  /\ Created(op.block, op.k) \subseteq utxos
  /\ utxos' = utxos \ Created(op.block, op.k)
  /\ op' = IF op.k = TxCount THEN [op EXCEPT !.pc = "unblock"]
                             ELSE [op EXCEPT !.k = @ + 1]
  /\ UNCHANGED <<up, height, last, files, utxoDisk, history>>

\* "Missing created UTXO": pop_block returns the error.
RecallError ==
  /\ up /\ op.pc = "remove"
  /\ ~(Created(op.block, op.k) \subseteq utxos)
  /\ op' = Idle
  /\ UNCHANGED <<up, height, last, utxos, files, utxoDisk, history>>

RemoveBlock ==
  /\ up /\ op.pc = "unblock"
  /\ blockFile' = Delete(blockFile, height - 1)
  /\ Step("undiff")
  /\ UNCHANGED <<up, height, last, utxos, info, diffFile, by_height, utxoDisk, history>>

RemoveDiff ==
  /\ up /\ op.pc = "undiff"
  /\ diffFile' = Delete(diffFile, height - 1)
  /\ Step("unindex")
  /\ UNCHANGED <<up, height, last, utxos, info, blockFile, by_height, utxoDisk, history>>

RemoveIndex ==
  /\ up /\ op.pc = "unindex"
  /\ by_height' = Delete(by_height, height - 1)
  /\ Step("popped")
  /\ UNCHANGED <<up, height, last, utxos, info, blockFile, diffFile, utxoDisk, history>>

\* The height is written first; then last_block is read from the file below.
SetPopped ==
  /\ up /\ op.pc = "popped"
  /\ height' = height - 1
  /\ \/ height' = 0 /\ last' = <<>>
     \/ /\ height' # 0 /\ height' - 1 \in DOMAIN blockFile
        /\ last' = blockFile[height' - 1]
  /\ Step("delete")
  /\ UNCHANGED <<up, utxos, files, utxoDisk, history>>

\* The block below cannot be read: pop_block returns IncompleteBlock.  The height
\* is the new one, last_block still the old one, and nothing is saved.
PopIncomplete ==
  /\ up /\ op.pc = "popped"
  /\ height' = height - 1 /\ height' # 0 /\ height' - 1 \notin DOMAIN blockFile
  /\ op' = Idle
  /\ holes' = holes \cup {height'}
  /\ UNCHANGED <<up, last, utxos, files, utxoDisk, committed, crashes, died, torn>>

\* The renamed files are deleted.
FinalDelete ==
  /\ up /\ op.pc = "delete"
  /\ Step("truncate")
  /\ UNCHANGED <<up, height, last, utxos, files, utxoDisk, history>>

-----------------------------------------------------------------------------
(* save_blockchain_data: File::create empties the file that it then writes. *)

TruncateInfo ==
  /\ up /\ op.pc = "truncate"
  /\ info' = NoInfo
  /\ Step("write")
  /\ UNCHANGED <<up, height, last, utxos, blockFile, diffFile, by_height, utxoDisk,
                 history>>

\* Mutant: the last block is missing from what is saved.
WriteInfoStale ==
  /\ up /\ op.pc = "write"
  /\ info' = [height |-> height, last |-> IF last = <<>> THEN <<>> ELSE Front(last)]
  /\ committed' = Chain
  /\ op' = Idle
  /\ UNCHANGED <<up, height, last, utxos, blockFile, diffFile, by_height, utxoDisk, crashes, died,
                 holes, torn>>

WriteInfo ==
  /\ up /\ op.pc = "write"
  /\ info' = Chain
  /\ committed' = Chain
  /\ op' = Idle
  /\ UNCHANGED <<up, height, last, utxos, blockFile, diffFile, by_height, utxoDisk, crashes, died,
                 holes, torn>>

\* sled flushes in the background.
Flush ==
  /\ up /\ utxoDisk # utxos
  /\ utxoDisk' = utxos
  /\ UNCHANGED <<up, memory, files, history>>

\* The files of the last block that is saved are out of the way, or another block
\* is in its place: one added where a pop has failed.
Unsaved ==
  \/ op.pc \in {"undiff", "unindex", "popped", "delete"}
  \/ op.pc = "truncate" /\ height <= committed.height

Crash ==
  /\ up /\ crashes < MaxCrashes
  /\ crashes' = crashes + 1
  /\ up' = FALSE
  /\ height' = 0 /\ last' = <<>> /\ utxos' = {} /\ op' = Idle
  /\ died' = op.pc
  /\ holes' = IF Unsaved THEN holes \cup {committed.height - 1} ELSE holes
  /\ torn' = (torn \/ op.pc # "idle" \/ utxoDisk # utxos)
  /\ UNCHANGED <<files, utxoDisk, committed>>

\* Blockchain::new: without readable data the chain is empty, but the databases
\* are the ones that are there.
Restart ==
  /\ ~up
  /\ up' = TRUE
  /\ committed' = IF info = NoInfo THEN NoChain ELSE info
  /\ height' = committed'.height /\ last' = committed'.last
  /\ utxos' = utxoDisk
  /\ died' = "idle"
  /\ UNCHANGED <<op, files, utxoDisk, crashes, holes, torn>>

Next ==
  \/ \E l \in Label : StartAdd(l)
  \/ ExecuteSpend \/ ExecuteCreate
  \/ RenameBlock \/ RenameDiff \/ InsertIndex \/ SetAdded
  \/ StartPop \/ PopNotFound \/ RecallSpent \/ RecallCreated \/ RecallError
  \/ RemoveBlock \/ RemoveDiff \/ RemoveIndex \/ SetPopped
  \/ PopIncomplete \/ FinalDelete
  \/ TruncateInfo \/ WriteInfo
  \/ Flush \/ Crash \/ Restart

Spec == Init /\ [][Next]_vars

-----------------------------------------------------------------------------
\* A block is another one, or one of those that it stands on.
Under(b, c) == \E n \in 0..Len(c) : b = SubSeq(c, 1, n)

\* Between two operations every block of the chain can be read: its file, the
\* diff to undo it and its entry in the index are there and of one block, which
\* last_block stands on, which names the one below as its previous block, and
\* which is last_block at the top, whatever a process that died or a pop that
\* failed left behind.  Only a block whose pop was cut short, by the death of the
\* process or by the error, is gone.
StoreReadable ==
  up /\ op = Idle =>
    \A h \in 0..(height - 1) \ holes :
      /\ h \in DOMAIN blockFile /\ h \in DOMAIN diffFile /\ h \in DOMAIN by_height
      /\ diffFile[h].block = blockFile[h] /\ by_height[h] = blockFile[h]
      /\ Under(blockFile[h], last)
      /\ h = height - 1 => blockFile[h] = last
      /\ h = 0 => Len(blockFile[h]) = 1
      /\ h > 0 /\ h - 1 \notin holes => Front(blockFile[h]) = blockFile[h - 1]

\* "load one if exists": a restarted node has the chain of the last add_block or
\* pop_block that succeeded, also if a pop has failed since and memory had a
\* height below; it starts over if the process died in save_blockchain_data,
\* which empties the file before it writes it, and only then.
ChainSurvives ==
  [][~up /\ up' => Chain' = IF died = "write" THEN NoChain ELSE committed]_vars

\* Outputs of a chain: those of its last block.
OutputsOf(c) == IF c = <<>> THEN {} ELSE {<<c, k>> : k \in 1..TxCount}

\* Between two operations the outputs are those of the chain, after any number of
\* restarts, unless the process died inside an operation or before sled had
\* saved the outputs that a pop put back.
OutputsExact == up /\ op = Idle /\ ~torn => utxos = OutputsOf(last)
=============================================================================
