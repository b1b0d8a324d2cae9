----------------------------- MODULE LightUtxos -----------------------------
(***************************************************************************)
(* The databases of a light node (light_node/utxos.rs and                  *)
(* transaction_store.rs) as a record                                       *)
(*   watched  the addresses the node listens for                           *)
(*   wallets  the rows of each address, by height: unspent coins received  *)
(*            there; and its part of the spend log: height -> the rows,    *)
(*            as they were before a block at it changed them               *)
(*   history  transaction id -> [tx, height] of the block it came in       *)
(* and their operations as functions of that record.  The code keeps one   *)
(* table of rows and one log for all addresses, with the address in the    *)
(* key, and no operation on a key of one address looks at another's.  A    *)
(* coin is <<transaction id, output index>>; amounts play no part here.    *)
(***************************************************************************)
EXTENDS Naturals, Sequences, FiniteSets, SequencesExt

NoRows == [rows |-> <<>>, spends |-> <<>>]
EmptyDb(as) == [watched |-> {}, wallets |-> [a \in as |-> NoRows], history |-> <<>>]

Without(f, keys) == [k \in DOMAIN f \ keys |-> f[k]]
Over(f, g) == [k \in DOMAIN f \cup DOMAIN g |-> IF k \in DOMAIN g THEN g[k] ELSE f[k]]
With(f, key, value) == Over(f, [k \in {key} |-> value])

(* contains_address *)
Concerns(tx, a) ==
  \/ \E i \in DOMAIN tx.ins : tx.ins[i].owner = a
  \/ \E i \in DOMAIN tx.outs : tx.outs[i] = a

Received(tx, a) == {<<tx.id, i>> : i \in {j \in DOMAIN tx.outs : tx.outs[j] = a}}

-----------------------------------------------------------------------------
AddAddress(db, a) == [db EXCEPT !.watched = @ \cup {a}]

(* delete_address: the spend log keeps its copies of the rows.             *)
DeleteAddress(db, a) ==
  LET left == db.watched \ {a}
  IN [db EXCEPT
       !.watched = left,
       !.wallets[a].rows = <<>>,
       !.history = Without(@, {t \in DOMAIN @ : \A w \in left : ~ Concerns(@[t].tx, w)})]

-----------------------------------------------------------------------------
LogOf(w, h) == IF h \in DOMAIN w.spends THEN w.spends[h] ELSE <<>>

(* append_spend_log, for some rows.  Entries are put back in the order they *)
(* were written: of those of one row the last one counts, and is kept here. *)
AppendSpendLog(w, h, old) == With(w.spends, h, Over(LogOf(w, h), old))

(* An input takes its coin out of every row of its owner; a row that        *)
(* becomes empty goes.                                                     *)
SpendCoin(w, h, coin) ==
  LET hit == {g \in DOMAIN w.rows : coin \in w.rows[g]}
      left == [g \in DOMAIN w.rows |-> w.rows[g] \ {coin}]
  IN IF hit = {} THEN w
     ELSE [rows |-> Without(left, {g \in hit : left[g] = {}}),
           spends |-> AppendSpendLog(w, h, [g \in hit |-> w.rows[g]])]

SpendInputs(w, a, h, ins) ==
  LET spent[i \in 0..Len(ins)] ==
        IF i = 0 THEN w
        ELSE IF ins[i].owner = a THEN SpendCoin(spent[i - 1], h, ins[i].coin)
        ELSE spent[i - 1]
  IN spent[Len(ins)]

(* The last statement writes the row of this height, whatever is there.    *)
ScanTransaction(w, a, h, tx) ==
  LET spent == SpendInputs(w, a, h, tx.ins)
  IN IF Concerns(tx, a)
     THEN [rows |-> With(spent.rows, h, Received(tx, a)), spends |-> spent.spends]
     ELSE w

ScanTransactions(w, a, h, txs) ==
  LET scanned[n \in 0..Len(txs)] ==
        IF n = 0 THEN w ELSE ScanTransaction(scanned[n - 1], a, h, txs[n])
  IN scanned[Len(txs)]

(* Of the watched addresses; a row at this height means that one of them    *)
(* was scanned for.  put_transaction keeps what concerns any of the others. *)
ScanBlock(db, h, txs) ==
  LET scanned == {a \in db.watched : h \notin DOMAIN db.wallets[a].rows}
      found == {tx \in ToSet(txs) : \E a \in scanned : Concerns(tx, a)}
      info(id) == [tx |-> CHOOSE tx \in found : tx.id = id, height |-> h]
  IN [db EXCEPT
       !.wallets = [a \in DOMAIN @ |-> IF a \in scanned THEN ScanTransactions(@[a], a, h, txs)
                                       ELSE @[a]],
       !.history = Over(@, [id \in {tx.id : tx \in found} |-> info(id)])]

-----------------------------------------------------------------------------
\* Mutant: off by one, the height is taken after it was counted down.
RemoveTransactionsAbove(db, h) ==
  [db EXCEPT !.history = Without(@, {t \in DOMAIN @ : @[t].height = h + 1})]

(* remove_transactions_at_height *)
RemoveTransactionsAt(db, h) ==
  [db EXCEPT !.history = Without(@, {t \in DOMAIN @ : @[t].height = h})]

\* Mutant: the spend log is not put back.
PopRowsForgetsSpent(w, h) ==
  [rows |-> Without(w.rows, {h}), spends |-> Without(w.spends, {h})]

(* pop_block of the outputs, for one address: the log of the height is put  *)
(* back, then the row of the height goes.                                  *)
PopRows(w, h) ==
  [rows |-> Without(Over(w.rows, LogOf(w, h)), {h}), spends |-> Without(w.spends, {h})]

PopOutputs(db, h) == [db EXCEPT !.wallets = [a \in DOMAIN @ |-> PopRows(@[a], h)]]
=============================================================================
