------------------------------ MODULE Mempool ------------------------------
(***************************************************************************)
(* How transactions get into the mempool of a full node and out of it:     *)
(* accept_transaction (full_node/mod.rs) run by several connections at     *)
(* once, the ring of transactions seen last (full_node/node_state.rs), the *)
(* pool itself with its expiry (node/mempool.rs), and what accept_block    *)
(* and a synchronisation do to it.                                         *)
(*                                                                         *)
(* A transaction is known by the coins it spends and by its id read as a   *)
(* number.  The chain is the sequence of the sets of transactions of its   *)
(* blocks.  The pool may hold a transaction twice, so its entries have a   *)
(* slot each.  A step is what a task does between two points where another *)
(* one may run.                                                            *)
(***************************************************************************)
EXTENDS Naturals, Sequences, FiniteSets, SequencesExt

CONSTANTS
  Task,        \* connections, and API clients, that hand in transactions
  Tx,
  NoTx,
  Inputs,      \* [Tx -> set of coins]
  Pow,         \* [Tx -> the id as a number]
  TxTarget,    \* transaction difficulty
  Blocks,      \* sets of transactions that blocks are made of
  RingSize,    \* transactions remembered as seen
  PoolLimit,   \* MAX_TRANSACTIONS_PER_BLOCK
  Lifetime,    \* EXPIRATION_TIME, in turns of the clock
  MaxChain     \* bound on the number of blocks

ASSUME MempoolAssumption ==
  /\ Pow \in [Tx -> Nat \ {0}]
  /\ Blocks \subseteq SUBSET Tx
  /\ IsFiniteSet(Task) /\ NoTx \notin Tx
  /\ {TxTarget, RingSize, Lifetime, MaxChain} \subseteq Nat
  /\ PoolLimit \in Nat \ {0}

VARIABLES
  task,        \* [Task -> the call of accept_transaction it is in]
  ring,        \* last_seen_transactions
  pending,     \* [slot -> entry of the pool: [tx, left], left turns from its expiry]
  chain,
  writer,      \* what the holder of the processing lock is doing
  clearing     \* a synchronisation cleared the pool and waits for the lock

vars == <<task, ring, pending, chain, writer, clearing>>

Idle == [pc |-> "idle", tx |-> NoTx, seen |-> <<>>]
Conflict(t, u) == Inputs[t] \cap Inputs[u] # {}
SpentBy(txs) == UNION {Inputs[t] : t \in txs}
Spent == UNION {SpentBy(chain[i]) : i \in DOMAIN chain}
Pooled == {pending[i].tx : i \in DOMAIN pending}
Size == Cardinality(DOMAIN pending)

Init ==
  /\ task = [x \in Task |-> Idle]
  /\ ring = <<>>
  /\ pending = <<>>
  /\ chain = <<>>
  /\ writer = "idle"
  /\ clearing = FALSE

-----------------------------------------------------------------------------
(* accept_transaction.  A check that fails ends it.                        *)

Check(x, from, ok, to) ==
  /\ task[x].pc = from
  /\ task' = [task EXCEPT ![x] = IF ok THEN [@ EXCEPT !.pc = to] ELSE Idle]
  /\ UNCHANGED <<ring, pending, chain, writer, clearing>>

\* A transaction that was seen is not looked at again.  A peer's is dropped while
\* the node is syncing, an API client's is not: callers are taken to be API
\* clients.
Submit(x, t) ==
  /\ task[x] = Idle
  /\ ~Contains(ring, t)
  /\ task' = [task EXCEPT ![x] = [pc |-> "read", tx |-> t, seen |-> <<>>]]
  /\ UNCHANGED <<ring, pending, chain, writer, clearing>>

\* add_last_seen_transaction copies the ring, and sends the changed copy.
ReadRing(x) ==
  /\ task[x].pc = "read"
  /\ task' = [task EXCEPT ![x].pc = "send", ![x].seen = ring]
  /\ UNCHANGED <<ring, pending, chain, writer, clearing>>

Pushed(s, t) ==
  LET longer == Append(s, t) IN
  IF Contains(s, t) THEN s
  ELSE IF Len(longer) > RingSize THEN Tail(longer) ELSE longer

SendRing(x) ==
  /\ task[x].pc = "send"
  /\ ring' = IF Contains(task[x].seen, task[x].tx)
             THEN ring ELSE Pushed(task[x].seen, task[x].tx)
  /\ task' = [task EXCEPT ![x].pc = "live", ![x].seen = <<>>]
  /\ UNCHANGED <<pending, chain, writer, clearing>>

\* Mutant: the pressure of the pool is not felt.
LiveTargetFlat(size) == TxTarget

\* calculate_live_transaction_difficulty: the target falls to zero as the pool
\* fills up (the f64 factor, exact for the pool limits that are explored).
LiveTarget(size) ==
  LET left == IF size < PoolLimit THEN PoolLimit - size ELSE 0
  IN  (TxTarget * ((1000000 * left) \div PoolLimit)) \div 1000000

CheckLive(x) ==
  Check(x, "live",
        Pow[task[x].tx] <= LiveTarget(Size), "utxo")

\* UTXOs::validate_transaction; only spent inputs can change its outcome here.
CheckUtxos(x) ==
  Check(x, "utxo",
        Inputs[task[x].tx] \cap Spent = {}, "pool")

\* Mutant: only the same transaction is refused, not one with the same inputs.
PoolAllowsSameIdOnly(t) == t \notin Pooled

\* MemPool::validate_transaction
PoolAllows(t) == \A u \in Pooled : ~Conflict(t, u)

CheckPool(x) ==
  Check(x, "pool", PoolAllows(task[x].tx), "add")

FreeSlot == CHOOSE i \in 1..(Size + 1) : i \notin DOMAIN pending

AddTransaction(x) ==
  /\ task[x].pc = "add"
  /\ LET entry == [tx |-> task[x].tx, left |-> Lifetime]
     IN pending' = [i \in DOMAIN pending \cup {FreeSlot} |->
                      IF i = FreeSlot THEN entry ELSE pending[i]]
  /\ task' = [task EXCEPT ![x] = Idle]
  /\ UNCHANGED <<ring, chain, writer, clearing>>

-----------------------------------------------------------------------------
(* The chain, changed under the processing lock.                           *)

CanFollow(txs) ==
  /\ Len(chain) < MaxChain
  /\ SpentBy(txs) \cap Spent = {}
  /\ \A t, u \in txs : t # u => ~Conflict(t, u)

\* accept_block: add_block, then the pool is told.
AcceptBlock(txs) ==
  /\ writer = "idle"
  /\ CanFollow(txs)
  /\ chain' = Append(chain, txs)
  /\ writer' = "spend"
  /\ UNCHANGED <<task, ring, pending, clearing>>

\* spend_transactions drops the transactions of the block, by their ids.
SpendTransactions ==
  /\ writer = "spend"
  /\ pending' = RestrictValues(pending, LAMBDA e : e.tx \notin Last(chain))
  /\ writer' = "idle"
  /\ UNCHANGED <<task, ring, chain, clearing>>

\* A synchronisation empties the pool before it asks for the lock.
ClearPool ==
  /\ ~clearing /\ writer # "sync"
  /\ pending' = <<>>
  /\ clearing' = TRUE
  /\ UNCHANGED <<task, ring, chain, writer>>

SyncLock ==
  /\ clearing /\ writer = "idle"
  /\ writer' = "sync"
  /\ clearing' = FALSE
  /\ UNCHANGED <<task, ring, pending, chain>>

SyncPop ==
  /\ writer = "sync" /\ chain # <<>>
  /\ chain' = Front(chain)
  /\ UNCHANGED <<task, ring, pending, writer, clearing>>

SyncAdd(txs) ==
  /\ writer = "sync"
  /\ CanFollow(txs)
  /\ chain' = Append(chain, txs)
  /\ UNCHANGED <<task, ring, pending, writer, clearing>>

SyncEnd ==
  /\ writer = "sync"
  /\ writer' = "idle"
  /\ UNCHANGED <<task, ring, pending, chain, clearing>>

-----------------------------------------------------------------------------
\* Time passes; entries that are due wait for the watchdog.
Tick ==
  /\ \E i \in DOMAIN pending : pending[i].left > 0
  /\ pending' = [i \in DOMAIN pending |->
                   [pending[i] EXCEPT !.left = IF @ > 0 THEN @ - 1 ELSE 0]]
  /\ UNCHANGED <<task, ring, chain, writer, clearing>>

Due(e) == e.left = 0

\* Mutant: a turn of the watchdog takes one entry that is due, unless it is the
\* only one of the pool.
WatchdogLazy ==
  /\ Size > 1
  /\ \E i \in DOMAIN pending :
       Due(pending[i]) /\ pending' = Restrict(pending, DOMAIN pending \ {i})
  /\ UNCHANGED <<task, ring, chain, writer, clearing>>

\* The expiry watchdog removes every entry that is due.
Watchdog ==
  /\ \E i \in DOMAIN pending : Due(pending[i])
  /\ pending' = RestrictValues(pending, LAMBDA e : ~Due(e))
  /\ UNCHANGED <<task, ring, chain, writer, clearing>>

AcceptStep(x) ==
  \/ ReadRing(x) \/ SendRing(x) \/ CheckLive(x) \/ CheckUtxos(x)
  \/ CheckPool(x) \/ AddTransaction(x)

Next ==
  \/ \E x \in Task : AcceptStep(x) \/ \E t \in Tx : Submit(x, t)
  \/ \E txs \in Blocks : AcceptBlock(txs) \/ SyncAdd(txs)
  \/ SpendTransactions
  \/ ClearPool \/ SyncLock \/ SyncPop \/ SyncEnd
  \/ Tick \/ Watchdog

Spec == Init /\ [][Next]_vars

\* The clock goes on and the watchdog wakes up twice a second.
FairSpec == Spec /\ WF_vars(Tick) /\ WF_vars(Watchdog)

-----------------------------------------------------------------------------
\* Pressure bounds the pool: with n callers at once it never holds more than a
\* full block and n - 1 entries, although size and insertion are not atomic.
\* The ring of seen transactions keeps its size and has no transaction twice.
PoolBounded ==
  /\ Size <= PoolLimit + Cardinality(Task) - 1
  /\ Len(ring) <= RingSize /\ IsInjective(ring)

\* "check for double spending": validate_transaction and add_transaction are two
\* steps, so callers that overlap may get conflicting transactions in, but one
\* each: no coin is ever claimed by more entries than there are callers.
ClaimsBounded ==
  \A t \in Tx : \A c \in Inputs[t] :
    Cardinality({i \in DOMAIN pending : c \in Inputs[pending[i].tx]})
      <= Cardinality(Task)

\* No transaction stays in the pool for ever.
EntriesLeave == \A t \in Tx : t \in Pooled ~> t \notin Pooled
=============================================================================
