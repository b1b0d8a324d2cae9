------------------------------- MODULE Utxos -------------------------------
(***************************************************************************)
(* The set of unspent outputs of src/core/utxo.rs, and what a block does   *)
(* to it.  The database keeps one row per transaction; here the state is   *)
(* the set of outpoints whose entry in its row is Some.                    *)
(***************************************************************************)
EXTENDS Transactions

CONSTANTS
  MaxTransactionIO   \* MAX_TRANSACTION_IO

ASSUME UtxosAssumption == MaxTransactionIO \in Nat

VARIABLES
  utxos              \* unspent outpoints

\* UTXOs::validate_transaction against the unspent outputs and a tx target.
ValidTransaction(t, td) ==
  /\ TxData[t].pow <= td
  /\ ~IsReward(t)
  /\ Len(Ins(t)) + Len(Outs(t)) <= MaxTransactionIO
  /\ \A i \in DOMAIN Ins(t) :
       LET input == Ins(t)[i] IN
       /\ input.out \in utxos
       /\ input.signature = OutputAt(input.out).receiver
       /\ input.owner = OutputAt(input.out).receiver
       /\ \A j \in DOMAIN Ins(t) : Ins(t)[j].out = input.out => j = i
  /\ \A i \in DOMAIN Outs(t) : Outs(t)[i].amount # 0
  /\ InputSum(t) = OutputSum(t)

SpentBy(txs)   == UNION {Spends(txs[k]) : k \in DOMAIN txs}
CreatedBy(txs) == UNION {Creates(txs[k]) : k \in DOMAIN txs}

\* Mutants: spent outputs stay; the last output of a transaction is not stored.
AfterExecutingKeepsSpent(txs) == utxos \cup CreatedBy(txs)
AfterExecutingDropsLast(txs) ==
  (utxos \ SpentBy(txs)) \cup
    {o \in CreatedBy(txs) : o[2] < Len(Outs(o[1]))}

\* The unspent outputs after execute_transaction ran on txs in order: created
\* and not spent by a later transaction, or there before and never spent.
AfterExecuting(txs) ==
  {o \in utxos \cup CreatedBy(txs) :
     \/ \E k \in DOMAIN txs :
          /\ o \in Creates(txs[k])
          /\ \A m \in DOMAIN txs : m > k => o \notin Spends(txs[m])
     \/ o \in utxos /\ o \notin SpentBy(txs)}

\* UTXODiff: the outputs taken, and the transactions whose outputs were put.
UTXODiff == [spent : SUBSET OutPoint, created : Seq(Tx)]
DiffOf(txs) == [spent |-> SpentBy(txs), created |-> txs]

ExecuteTransactions(txs) == utxos' = AfterExecuting(txs)

\* recall_block_utxos removes the created outputs one by one and fails when the
\* row of one is gone: when the last output of its transaction is not there.
Restored(diff) == utxos \cup diff.spent
MissingCreated(diff, k) ==
  LET t == diff.created[k]
  IN  Outs(t) # <<>> /\ <<t, Len(Outs(t))>> \notin Restored(diff)

CanRecall(diff) == \A k \in DOMAIN diff.created : ~MissingCreated(diff, k)

\* Mutant: the spent outputs are not put back.
RecallBlockUtxosForgetsSpent(diff) ==
  /\ CanRecall(diff)
  /\ utxos' = utxos \ CreatedBy(diff.created)

RecallBlockUtxos(diff) ==
  /\ CanRecall(diff)
  /\ utxos' = Restored(diff) \ CreatedBy(diff.created)

\* It stops at the first missing row: what it did until then stays done.
RecallFails(diff) ==
  \E k \in DOMAIN diff.created :
    /\ MissingCreated(diff, k)
    /\ \A j \in 1..(k - 1) : ~MissingCreated(diff, j)
    /\ utxos' = Restored(diff) \ CreatedBy(SubSeq(diff.created, 1, k))
=============================================================================
