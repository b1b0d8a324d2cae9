---------------------------- MODULE Transactions ----------------------------
(***************************************************************************)
(* Transactions as src/core/transaction.rs defines them.                   *)
(*                                                                         *)
(* A transaction id is the hash of the transaction's contents, so an id    *)
(* stands for exactly one content: TxData maps every id to it.  An output  *)
(* is therefore named by <<id, index>> (an outpoint) and its amount and    *)
(* receiver never change.  Indices count from 1.                           *)
(***************************************************************************)
EXTENDS Integers, Sequences, Functions

CONSTANTS
  Tx,          \* transaction ids
  TxData,      \* [Tx -> contents]
  Key,         \* public keys
  NoSignature  \* an input that was not signed

OutPoint == Tx \X Nat

\* signature: the key it verifies under, for the contents of the transaction.
TransactionInput ==
  [out : OutPoint, owner : Key, signature : Key \cup {NoSignature}]

TransactionOutput == [amount : Nat, receiver : Key]

\* pow: the id read as a number, what the proof of work bounds.
Transaction ==
  [ins  : Seq(TransactionInput),
   outs : Seq(TransactionOutput),
   ts   : Nat,
   pow  : Nat]

ASSUME TransactionsAssumption ==
  /\ TxData \in [Tx -> Transaction]
  /\ NoSignature \notin Key

Ins(t)  == TxData[t].ins
Outs(t) == TxData[t].outs

\* Outpoints that t consumes, and those it brings into being.
Spends(t)  == {Ins(t)[i].out : i \in DOMAIN Ins(t)}
Creates(t) == {<<t, i>> : i \in DOMAIN Outs(t)}

IsReward(t) == Ins(t) = <<>>

OutputAt(o) == Outs(o[1])[o[2]]

\* The amounts are summed with checked_add: the model's sums do not overflow.
InputSum(t) ==
  SumFunction([i \in DOMAIN Ins(t) |-> OutputAt(Ins(t)[i].out).amount])
OutputSum(t) == SumFunction([i \in DOMAIN Outs(t) |-> Outs(t)[i].amount])
=============================================================================
