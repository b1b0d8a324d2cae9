# Verification of Snap Coin Core

TLA+ models of `snap_coin`, a Rust crate that implements a proof-of-work coin: the
chain with its unspent outputs and difficulties, the disk state behind it, the
full node that shares one chain between many asynchronous tasks, its initial
download, its connections and the table of them, the mempool, the API and its
client, and the light node. TLC checks them on small instances (`*.cfg`); TLAPS
proves the safety properties for every value of the constants (`*Proofs.tla`). Paths below are relative to `src/src/`.

## 1. Inventory

| Part | State | Operations | Depends on |
|---|---|---|---|
| Economics (`core/economics.rs`) | none | `get_block_reward`, `calculate_dev_fee`, `total_reward` | - |
| Transactions (`core/transaction.rs`) | none | contents, id = hash of the contents, signatures, proof of work | - |
| Difficulty (`core/difficulty.rs`) | block target, transaction target, last timestamp | `update_difficulty`, `calculate_block_difficulty`, `calculate_live_transaction_difficulty` | economics |
| UTXO set (`core/utxo.rs`) | sled tree: transaction id -> outputs | `validate_transaction`, `execute_transaction`, `recall_block_utxos` | transactions |
| Block store (`core/block_store.rs`) | a file per block and per diff, two index trees, height, last hash | `add_block`, `pop_block`, lookups | - |
| Blockchain (`core/blockchain.rs`, `block.rs`) | the three above, `blockchain-info.dat` | `add_block`, `pop_block`, `new` | all of `core` |
| Full node (`full_node/mod.rs`, `behavior.rs`, `sync.rs`, `node_state.rs`) | `is_syncing`, `processing` lock, `last_seen_block`, ring of seen transactions | `accept_block`, `accept_transaction`, handlers of messages, `sync_to_peer` | blockchain, mempool, peers |
| Mempool (`node/mempool.rs`) | transactions by expiry | add, validate, spend, clear, expiry watchdog | - |
| Peer connection (`node/peer.rs`) | send queue, pending requests, kill switch | reader, writer and pinger task, `request`, `kill` | behaviour trait |
| Peer table, bans (`node_state.rs`, `p2p_server.rs`, `auto_peer.rs`, `auto_reconnect.rs`) | `connected_peers`, health scores | connect, kill, punish, forgive, reconnect | peer connection |
| Initial block download (`full_node/ibd.rs`) | channels between three tasks | download, apply, check hashes | blockchain, peers |
| API server and client (`full_node/api_server.rs`, `client.rs`, `requests.rs`) | one stream | requests, event stream | full node |
| Light node (`light_node/*`) | own outputs, heights, filters, `processing` lock | scan and pop blocks, catch up | peers |
| Builders (`lib.rs`) | none | `build_block`, `build_transaction` | data provider |
| Crypto (`crypto/*`), messages (`node/message.rs`) | none | hashes, signatures, Merkle proofs, filters, encoding | - |

How they interact. Everything that changes the chain goes through
`Blockchain::add_block` and `pop_block`. `accept_block` (from a peer's `NewBlock` or
an API client) and `sync_to_peer` (started by a `Ping` that announces a chain two
blocks longer) call them under the `processing` lock. Handlers run *inside the
reader task of a connection*, and answers to a request arrive *through the same
reader*; a connection that ends drops its reader wherever it waits.
`accept_transaction` takes no lock: the pool, the ring of seen transactions and
the outputs are read and written in separate steps. A miner reads height, hash
and difficulties one after the other, through the API. When the table of peers is
empty, `auto_reconnect` connects to the seed and runs `ibd_blockchain`, which adds
blocks *without* the lock. Every request to a peer goes through one bounded queue per
connection, which its reader also needs for its responses. An API connection
answers one request at a time until it becomes a stream of events.

What is hard here: rollbacks must undo exactly what a block did; a block is
written in many steps and the process may die between any two; tasks interleave
at every await and run in parallel; readers are cancelled; a flag that is
checked, then set; a lock that is waited for by the task that would deliver what
its holder waits for; blocks that are added before their hashes are checked; tasks that
are not awaited when another one failed; full queues in both directions; requests
without an id that several callers share; arithmetic with truncated floating point that all nodes
must agree on. `PROJECT.json` lists each such place with its line.

What makes each part correct: one chain, indexed without leftovers; outputs,
supply and difficulty are functions of that chain; `pop_block` is the inverse of
`add_block`; what was committed survives a crash; one task at a time changes the
chain and gives the lock back; a synchronisation reaches its peer and does not
blame it for this node's races; the pool stays bounded and its entries leave;
the table of peers is that of the connections; a request is handled at most once
and its call ends; a download that reports success has applied and checked what it
was sent; a caller gets its own answer, whole lists and every event; a light node lists the coins of
the blocks it scanned, and scanning and popping undo each other.

## 2. Modules

| Module | Models | State |
|---|---|---|
| `Economics`, `Difficulty`, `Transactions` | the pure rules, as operators | - |
| `Utxos` | `core/utxo.rs` | `utxos`, the unspent outpoints |
| `BlockStore` | `core/block_store.rs` | files, index trees, height, last hash |
| `Blockchain` | `core/blockchain.rs`; composes the above | plus difficulties and `snaps`, a history variable |
| `Ledger` | the chain as other nodes see it: the abstract specification | the sequence of blocks |
| `MCBlockchain` | instances of `Blockchain` | |
| `BlockchainProofs`, `DurabilityProofs`, `FullNodeProofs`, `MempoolProofs`, `IbdProofs`, `ApiProofs`, `LightNodeProofs` | theorems about the module of that name | |
| `ConnectionProofs` | theorems about `PeerConn` and about `Peers` | |
| `Durability` | the same operations, one step per write, with crashes | memory, files, databases |
| `FullNode`, `MCFullNode` | tasks that change the chain of a full node | shared flags, one record per task |
| `Ibd`, `MCIbd` | `full_node/ibd.rs` and its caller | one record per task, its two channels, the stored blocks |
| `Calls` | what `PeerHandle::request` promises: the abstract specification | state of each call, how often it was handled |
| `PeerConn`, `MCPeerConn` | `node/peer.rs`; implements `Calls` | per end: phase, queue, wire, pending calls |
| `Api`, `MCApi` | `client.rs` and the connection loops of both `api_server.rs` | calls, the lock of the stream, both directions, lists, events |
| `Mempool`, `MCMempool` | `accept_transaction` and the pool | pool, ring, one record per caller |
| `Peers`, `MCPeers` | `connected_peers`, bans and the tasks that open connections | table, scores, one record per connection and per task |
| `LightUtxos` | `light_node/utxos.rs`, `transaction_store.rs`, as operators | a record: watched addresses, the rows and the spend log of each address, history |
| `LightNode`, `MCLightNode` | `light_node/mod.rs`, `sync.rs`, `behavior.rs` | that record, height, flags, one record per task |

### The chain (`Blockchain` and what it extends)

`ReceiveBlock` offers `add_block` blocks made from `TxLists`, `Timestamps` and `Pows`, with
the last hash and the two difficulties of *any* heights of the chain, because
`build_block` reads them at different awaits. `AddBlock` has every check of the code as
a conjunct and then executes the transactions, updates the difficulty and stores
the block. `PopBlock` is `pop_block`; `PopBlockFails` is the path on which
`recall_block_utxos` finds a row missing and leaves what it did until then. A call that
is refused before it changed anything is a stutter.

Abstractions. A hash stands for the contents it was computed from, so a block hash
is the sequence of bodies up to it; ids likewise (`TxData`). Signatures are the key
they verify under. Targets are numbers up to `MaxTarget` instead of 2^256 - 1; f64
ratios are the integers they are truncated to, with the inputs where binary
rounding ends one unit low listed (`TimeScaled`, `RoundedDown`; computed from IEEE
doubles). The database row of a transaction is the set of its unspent outpoints.
With `is_ibd` or `skip_block_hashing` the code does not compare the ids of a block with its
contents (`blockchain.rs:244`); in the model ids are the contents, so nothing is said of a block
added that way whose ids are wrong (`Ibd` has such blocks). `u64` sums are checked in the code and do not overflow here;
the shift of the reward keeps its width.

`FreshRewards`: a reward transaction has no inputs, and nothing compares its id
with those on the chain. Its id is normally fresh (random nonce, current time),
but a block may repeat one. Both cases are modelled; results that need fresh
ids say so.

`Ledger` is the abstract specification: a sequence of blocks, without outputs database,
index or difficulty state. A block may follow if it names the last one, meets targets that
follow from the blocks below, and its transactions are lawful, new, and spend what the
blocks below created and did not spend, each output once; the last block may be
taken off. `Rules == INSTANCE Ledger WITH chain <- ...` reads the block files as that sequence, and
`LedgerKept` is the refinement: `add_block` looks at its databases only, so it says
that whatever they went through, they never let a block in that a node with nothing
but the chain refuses. How a transaction is checked by itself is a parameter of `Ledger`.

### The disk (`Durability`)

Each step is one write that can be seen after a crash, and the process may die
before any of them (`Crash`), in `pop_block` and in `save_blockchain_data` included. sled
flushes when asked and at any other time (`Flush`). A restart loads
`blockchain-info.dat`, or starts empty if it cannot be decoded. Height and `last_block` are
two variables, as in the code, because an error can part them: `pop_block` has
renamed the files and lowered the height when it reads the block below, and if that
block is gone it returns `IncompleteBlock` (`PopIncomplete`; `block_store.rs:200`,
`blockchain.rs:323`) with the old `last_block` and nothing saved. Later calls go on from
there: the next block names the old last block at the lower height, the next pop finds
no block (`PopNotFound`), and a restart has one block more than memory had.

History variables say what has happened: `committed`, the chain of the last
`add_block` or `pop_block` that succeeded; `died`, the step in which the process died; `holes`,
heights whose block is gone, because the process died in a pop while the saved height
still named it, or because a pop failed above a hole; `torn`, whether a crash ever came inside
an operation or before sled had saved everything. `StoreReadable` excepts the `holes` and
nothing else. `ChainSurvives` excepts a death in `save_blockchain_data` only: after a failed pop a
restart brings the committed chain back. `OutputsExact` excepts `torn`. Without these
exceptions the properties are false.

### The full node (`FullNode`)

A step is what a task does between two points where another may run. `handler[x]`
is the call that the reader of a peer, or the API server, is in (`accept_block`:
check, mark as seen, lock and add, tell the mempool; `Ping`: compare heights,
read the flag, set it and spawn). `sync[s]` is a spawned synchronisation: lock,
search for the fork height by height, roll back, then hash and block of one
height after the other, unlock, clear the flag, kill the peer if it failed. An
answer needs the connection and an idle reader (`Answers`). `Broken` drops a
connection, its handler, and the lock that it holds. A block is the sequence of
labels that leads to it, and `add_block` succeeds when it extends the chain by one:
the rest of validation is `Blockchain`'s. Peers change chains as `Moves` says.
The mempool and chain events are left out here, and so is an error of `pop_block` in a
rollback (`sync.rs:86`), which ends the synchronisation with what it has popped. A
connected peer answers: requests have no timeout of their own, so a peer that stays
connected and says nothing keeps a synchronisation waiting, and the lock with it.

### The download (`Ibd`)

`main` is `auto_reconnect` with `ibd_blockchain`; the downloader hands every full node
a slice of the hashes (equal shares in the first round, any shares afterwards,
since they follow measured speeds) and waits for the tasks in the order of the
slices (a slice is the set of positions left in it; `LoaderSend` takes the least); each
block goes through a bounded channel to the applier, and from there
through another to the hashing threads. Only the positions of the hashes and whether
a block came matter. The first peer may change its chain between ping and hashes
(`RemoteChains`), peers come and go, panics (`unwrap`, `hashes[0]`) end `main`. A block is the
sequence of labels that leads to it; of the other checks of `add_block` only the hash is
there (`BadBlocks`). `accept_block` adds blocks at the same time, and `overlapped` records
that two calls of `add_block` were inside at once: the store then depends on how
their writes mix, which `Ibd` does not model. Nor does it model a synchronisation that a `Ping`
spawned between the connection and `auto_reconnect.rs:31`: it can run beside the
download and clear `is_syncing` during it (`behavior.rs:73`). `ApplierUnderFlag` is about
the call of `ibd_blockchain` and its caller, not about that task. The stop of the download when every
peer is a light node (the loop turns without a request) is a state in which the
downloader waits.

### The connection (`PeerConn`, `Calls`)

Each end has a reader (its steps include `on_message`), a writer, a pinger and other
callers. The queue with its waiting senders is one sequence, first come first
served as in tokio; a message is on the wire until the other end has read it, which
is the smallest buffer TCP may have. `Close` is the end of the `select!`: everything at
this end is dropped, while the message on the wire may still arrive. `PreviousRelease`
is the end that answers `Connect` without sending one: between two ends of this
release the handshake fails (finding), so calls are studied with one of each.

`Calls` is the abstract specification: a request is handled at most once, answered
only after it was handled, and a call that failed may still be handled. `PromiseKept`
is the refinement: `Promise == INSTANCE Calls WITH call <- ...`, where a call is waiting
if its request is in the queue or pending; every step of `PeerConn` is a step of
`Calls` or a stutter. Ids are random 32 bit numbers and taken to differ; message
payloads play no part. A handler (`on_message`) returns: it takes some steps and may send, but
does not wait for another task. `FullNode` shows that `accept_block` may wait for
the lock, in the circular wait for ever; `CallsEnd` and `BothEnd` do not speak of
an end in that state.

### The API (`Api`)

`call[c]` is a method of the client: a sequence of fetches, each of which asks for the
stream twice (to write, then to read). tokio's mutex serves in order (`Holds`). A
request has no id; `for` in a message is a history field that says whose request it
answers. Methods that need one response are one kind (`single`); lists come in
pages cut from the list as it is at that moment: newest transaction first, by id
on a light node, in the order of a hash map for the pool and the outputs. After
`convert_to_event_listener` the connection is a stream of events: a receiver of a
broadcast channel that has lagged ends the stream without a word. Contents of messages
are left out, their framing is not: a length is read, then the payload
(`requests.rs:174`), and `frame` says where in the responses the client is. A call may be
dropped wherever it waits: for the stream (`Drop`), in `write_all` (`DropWriting`), or inside
a response (`DropReading`). The last two leave a part of a message behind. Who comes next
takes other bytes for a length: it may take what was meant for others and wait for
more (`ReadLost`, `ListenerLost`), or have enough and fail (`ReadFails`, `ListenerFails`), and the
server likewise (`ServeCut`). How many bytes that length asks for is left open.

A connection holds `room` messages each way; with none left `write_all` waits until the
other end reads (`CanAsk`, `CanAnswer`). `room` 0 is a message larger than the
buffers. A server that writes an answer reads no request, and a client that writes
has the stream, so that no other task can read (`BothWrite`).

### The mempool (`Mempool`)

`task[x]` is a call of `accept_transaction`: seen, copy of the ring, send of the changed
copy, live difficulty, outputs, pool, insertion. The chain is the sets of
transactions of its blocks; blocks are added by `accept_block` (which then spends
from the pool) and by a synchronisation (which does not, but clears the pool
before it waits for the lock). Timestamps are left out except for the expiry
of entries, counted in turns of the clock. The pool is a function from slots to entries,
because two callers may insert the same transaction.

### The peers (`Peers`)

`opener[t]` is one of the three tasks that open connections: the accept loop,
`auto_peer` (count, ask a peer, try the addresses one after the other) and
`auto_reconnect`. `conn[c]` is a connection: it is open from the moment
`create_peer` has spawned its tasks, while its handle is put into the table in a
later step (or never, when the two seconds of `try_connect` are over in between).
`Die` is the end of its `select!`, `OnKill` the whole of `on_kill`, taken as one step:
table and scores have separate locks and nothing reads both. Two history flags per
connection mark the cases the table cannot be right about: `late` (it ended before
it was inserted) and `shared` (two connections to one address). Scores are u8,
scaled down, and wrap as in a release build. What is sent over a connection, the
sleeps, and the download after a reconnection (`Ibd`) are left out, and so are calls of
`connect_peer` by an application: `OutgoingBounded` is about the node's own tasks.

### The light node (`LightUtxos`, `LightNode`)

`LightUtxos` has one operator per operation of the database. A row is the set of
unspent coins an address received at a height; `ScanTransaction` writes it whatever is
there, `PopRows` puts the snapshots of the spend log back in the order they were
written, as the code does. The code keeps one table of rows and one log for all addresses,
with the address in the key; no operation for one address reads or writes the keys of another,
so the model gives each address a wallet of its own, and of the snapshots of one row under
one height it keeps the last, which is the one that counts. The loops over
transactions and inputs are recursive functions. Amounts play no part.

`task[x]` is what the reader of a peer, a spawned synchronisation or the
application is doing: `accept_block` in four steps (check, mark as seen, lock and
scan, count and unlock), `Ping`, and `start_sync` from the first question to the last
block. Peers may be on any of `Chains` at any moment, so an answer is what
`QuorumRequest` makes of any assignment of chains to peers, any order of the answers
and any number of missing ones. `LastSeenBlockHashes` is empty because nothing calls
`push_block_hash`; the comparison in `accept_block` and the rollback of every
synchronisation above height 0 follow from it. A spawned synchronisation holds the
`processing` lock, so its `pop_block` and `accept_block` wait for ever
(`WaitsForItself`); called from `start_tracking`, which takes no lock, they work.
`seen` and `trust` are history variables: the blocks scanned for an address by
height, and whether every height was scanned for it once (also lost where the height
wraps).

Abstractions. Heights wrap at `UsizeMax`, as in a release build. A scan, a pop and a
change of the height are one step each (the first two are under the lock; the
database itself has no transaction around them; `increment_height` reads and then writes
the height, and `set_height` can come in between, see the hazards). `Probe` reads the height
and takes the answers in one step. `MaxInputs` bounds new blocks, pings and calls of
`start_tracking`. The mempool and the transaction difficulty are left out; the
filter of a block may have false positives, never false negatives.

## 3. Runs

Passing:

| Run | Shows | Bounds |
|---|---|---|
| `blockchain` | store and index describe one chain; outputs, supply and difficulty are those of the chain; rollback is exact and always possible; the chain implements `Ledger` | 3 blocks, past a halving and the SCIP-2 date; 11 transactions with conflicts, chains and one broken rule each; 3 timestamps at the edges of expiry; hashes below and above the target |
| `repeated_rewards` | with repeated reward ids supply never exceeds `total_reward` until a `pop_block` stops halfway (`torn`), which happens | 4 blocks, lists that repeat a reward, spend it, and do both at once |
| `full_node` | lock excludes (also with cancelled readers), a synchronisation that completes has reached its peer, no honest peer is refused, reorganisations are bounded | 2 peers, API client, 2 synchronisations (the flag is racy, so two can run), chains of 4 to 6 blocks, a fork, a peer that loses a block, `MaxReorg` 3 |
| `full_node_live` | the lock is given back and the node follows a full node, unless a synchronisation waits for itself | 2 peers on a fork of 6 blocks, 2 synchronisations, connections that break; the circular wait is reached |
| `durability` | which blocks can be read, which chain and which outputs a restart finds, for a death in any step and pops that fail after one | 2 blocks of 2 transactions, 2 branches, 2 crashes |
| `ibd` | stored blocks are linked, success means applied and checked, the flag outlives the applier and is cleared | 2 peers, 3 or 4 hashes in batches of 2, 2 hashing threads, channels of 1 and 2, one wrong hash, blocks accepted meanwhile |
| `connection` | the connection implements `Calls`; every call ends unless both ends are stuck; when one end is gone the other ends | 2 ends, 2 callers and a pinger each, a queue of 1, kills |
| `api` | callers get their own answers, whole lists and every event, and return | 2 callers, lists of 3 in pages of 2, one change during calls, 3 events for a channel of 1; connections that hold 0 or 1 message each way; calls dropped anywhere; both kinds of server |
| `mempool` | pool, ring and conflicts bounded, entries leave | 2 callers, 3 transactions (two conflict, one is above the pressure), pool limit 2 |
| `light_node` | rows and history of an address are those of the blocks scanned for it; readers come out of `accept_block` unless a synchronisation waits for itself | 2 peers, 1 synchronisation, 2 addresses, 3 blocks and 2 chains, 3 inputs; rollback of 2 instead of 20, chunks of 2, so both run below height 0 and over a chunk border |
| `peers` | a connection is listed, and a listed one lives, outside of the two races named; at most `2 * TARGET_PEERS` outgoing peers | 3 connections at once, 4 nodes (one is this one) and a client, `TARGET_PEERS` 1, scores below 4; connections are interchangeable (symmetry) |

`ReorgBounded` states the depth that the code really has, `MAX_REORG - 1`, and that the
first block is never rolled back: the search in `sync_to_peer` starts at the local
height, one above the last block.

One run in which the code departs from what it says of itself (a finding):

| Run | Departure |
|---|---|
| `handshake` | both ends of a connection run `create_peer`; each sends `Connect`, reads the other's and gives up (`node/peer.rs:145`) |

Other places where the models show the code to do less than a comment says. Each
can be seen by the change in brackets:

- Popping the first block does not lead back to the state before it: `pop_block` keeps the
  timestamp of that block, where a new node has 0, so the two retarget their next first
  block differently (`core/blockchain.rs:338`; drop `height' > 0` from `RollbackExact`).
- Popping a block with a repeated reward removes the older outputs too
  (`core/utxo.rs:199`; add `PROPERTY RollbackExact` to `BlockchainRepeat.cfg`).
- A reader waits for the lock while the synchronisation that holds it waits for an answer
  through this reader (`full_node/mod.rs:176`; drop `WaitsForItself` from `LockReleased`).
  It takes a second connection whose synchronisation clears `is_syncing` in between.
- A peer that is no full node can keep a full node from being followed: each of its
  pings may take the flag for a synchronisation that does nothing (`full_node/behavior.rs:59`;
  drop `Distracts` from `CatchesUp`).
- The data file is emptied before it is written, so a crash in between restarts
  with an empty chain (`core/blockchain.rs:163`); a crash in `pop_block` leaves a height whose
  block is gone (`core/block_store.rs:176`); after a crash inside an operation the
  outputs need not be those of the chain (`core/utxo.rs:241`). These are the
  exceptions named in `ChainSurvives`, `StoreReadable` and `OutputsExact`.
- A pop above such a height returns an error with the block taken away all the same: the
  height in memory is lower, `last_block` and the saved data are the old ones, the renamed
  files stay (`core/block_store.rs:200`; drop the change of `holes` in `PopIncomplete`). "Update height
  first" says the comment there.
- A block that spends two coins of one row is undone without the first of them
  (`light_node/utxos.rs:256`; let `b2` of `MCLightNode` spend both coins). The comment of
  `pop_block` says that the outputs are then those of before the scan
  (`light_node/utxos.rs:248`); `SpendLogForgets` proves that they are not.
- `MerkleTreeProof::create_proof` is given raw ids, while the tree is built over
  their hashes (`full_node/behavior.rs:185`, `crypto/merkle_tree.rs:22`; not modelled).
- A wrong hash found late leaves its block on the chain, and the applier goes on after
  `is_syncing` was cleared (`full_node/ibd.rs:231`, `:314`); a panic in the download leaves the
  flag set for ever (`full_node/ibd.rs:44`, `:87`).
- Two busy ends can wait for each other for ever with full queues and no timeout
  (`Gridlock` in `CallsEnd`; `node/peer.rs:222`).
- Two calls of one client, or a call that was dropped after it sent its request,
  get each other's responses (`client.rs:46`; `Undisturbed` in `OwnAnswer`).
- A call dropped in the middle of a message leaves the connection useless: the next
  call, or the listener that the client becomes, may wait for ever for bytes that never
  come (`requests.rs:176`, `:184`, `client.rs:43`; `broken` in `CallsReturn` and `EventsArrive`).
- A client that writes a large request while the server writes an answer that nobody
  reads, because its call was dropped or waits for the stream behind the writer, waits
  for ever (`client.rs:39`, `full_node/api_server.rs:53`; `BothWrite` in both).
- A slow subscriber is not told that its stream has ended: the comment says that the
  connection stops, the loop reads the next request (`full_node/api_server.rs:210`).
- A block is marked as seen before it waits for the lock and is skipped when that
  reader is cancelled (`full_node/mod.rs:173`); the pool is cleared before a
  synchronisation waits for the lock, so it can end with transactions that the new
  blocks spent (`full_node/behavior.rs:68`).
- Ban scores are u8 and wrap (`full_node/node_state.rs:109`); `Peers` adds them so.

Every property of a passing run has a mutant in `PROJECT.json`: a slip in the code,
written as an operator before the definition it stands for, with which TLC finds the
property violated.

Why the bounds are enough: the chain's checks relate a block to its two
predecessors at most, and three blocks give rollback over a halving, a retarget
under each rule and a spend of a spend. In `FullNode` every race is between two tasks
for one flag, lock or hash. In `Durability` one crash leaves a hole below a new block, the pop of
that block fails, and a second crash meets what this left; two branches tell the
blocks apart, and two transactions let a crash fall between them.
In `Ibd` two peers make slices whose order matters, more blocks than either channel
holds make its senders wait, and the wrong hash lies inside the part that is
checked late. In `PeerConn` one place in the queue and two callers fill it, so that
senders wait; in `Api` three entries make two pages, of which the second is short,
and one change moves every entry over the edge of a page; a connection that holds nothing and
one that holds a message tell a waiting `write_all` from one that ends at once.
In `Mempool` the pool can overshoot by one per extra caller, which two callers show.
In `LightNode` a coin is received, spent and rolled back within three blocks, and
blocks may come repeatedly and unlinked, so heights go beyond the chain; no two
transactions of a block concern one address, because the second would overwrite
the row of the first (`light_node/utxos.rs:211`), and none takes two coins of one row
(`SimpleBlocks`, which the run evaluates). In `Peers` three connections are one
more than the bound on outgoing peers, and two of them can share an address.

Fairness. `FullNode`: weak for every task (tokio polls what can move, and a
connected peer answers: its answer is part of the step that receives it); strong
for `ReceivePing`, because a connected peer pings every 5 seconds for ever and the
reader takes messages in order, and for the steps of a synchronisation and
`AcceptBlock`, because tokio's mutex serves in turn and the answer has its place among
the messages of the reader. No fairness for blocks, moves or disconnections.
`Mempool`: weak for the clock and for the watchdog, which wakes every 500 ms;
callers may stop anywhere. `LightNode`: weak for the disjunction of the tasks' own
steps, that is, some task that can move does; the holder of the lock is then the
only one that can be waited for. `Ibd`: weak for every task and for the answer of every
request task (a request is answered or its connection ends). `PeerConn`: weak for the
reader, writer and pinger of each end and for the timers; not for other callers, and
kills may never come. `Api`: weak for the server, for every call under way and for the
listener; nobody has to call, to drop a call or to stop, and a reader that has
taken other bytes for a length need not ever have enough of them (no fairness for
`ReadFails` and `ListenerFails`; either choice of `ServeCut` may be the one taken).

Type invariants. Each proof module defines the `TypeOK` of its model and proves it
as part of the inductive invariant; `Blockchain` states its own. The runs do not
repeat them: there a wrong type would end in an evaluation error or violate another
property.

## 4. Proofs

Each proof module EXTENDS its model, so a theorem is about the very specification that
TLC runs, and proves an inductive invariant in the usual way: Init, one step (or one lemma) per
action, consequence. The connection and the table of the peers share a proof module,
`ConnectionProofs`; to tell them apart, `Peers` calls its specification `TableSpec`.

### The chain (`BlockchainProofs`)

Proved for all constants that satisfy the named assumptions of
`Economics`, `Difficulty`, `Transactions`, `Utxos` and `Blockchain` (no bound on the chain):

- `TypeCorrect`: `TypeOK`, by its own induction. The retargeting lemmas show that
  the clamps bring every product back into the range of targets.
- `ChainAlwaysIndexed`: `ChainIndexed` is inductive together with `HashLengths` (the
  hash of height h has length h + 1): a new hash is then in no tree, so inserting
  it disturbs no entry and popping it removes exactly one.
- `UtxosAlwaysExact`, `NeverReplayed`, `PopNeverStuck`, assuming `FreshRewards`, from
  `LedgerInv`. `UtxosExact` alone is not inductive. The strengthening says of every
  height what the outputs were before it (`snaps`), that a block spends only what was
  unspent then, that ids of a block are new to the chain below it, and that the
  stored diff is that of the block. That ids are new has to be proved, since
  `add_block` compares none: a transfer spends an output, and a second occurrence would
  spend it again.
- `DifficultyAgreed` and `RollbackRestores`, from `HistoryInv`: `snaps` links each height to
  the next by one `add_block`, and the metadata of a block carries the difficulties
  it was added under, which is what `pop_block` restores from. Of the first block's timestamp
  nothing is claimed: `pop_block` does not restore it.
- `NeverMoreThanRewards` (`NeverOverminted`), without `FreshRewards`: `SupplyInv` says of every
  height that its outputs are worth at most the rewards below it (`LevelsWorth`), that they are
  what the block below made of those before (`LevelsFollow`), and that they are finitely many. A repeated
  reward overwrites a row, so outputs may be lost, and the bound is all that is left. `LevelsFollow`
  ends where a `pop_block` stops halfway, which is what `torn` records.
- `SupplyAlwaysConserved` (`SupplyConserved`), assuming `FreshRewards`, from `LevelsMinted`: the
  same with equality and with the heights that have a reward. Both need what a sum over a
  finite set gains and loses with an element. The library's facts about folds take an
  operator and cannot be cited; they are proved for `SumFunctionOnSet` itself, by a smallest set
  for which they would fail.
- `LedgerImplemented` (`LedgerKept`), assuming `FreshRewards`: under the mapping of section 2,
  `AddBlock` is `Extend`, `PopBlock` is `Undo`, and everything else a stutter. What `Extend` asks of
  the transactions follows from `LedgerInv` (the database holds what the chain leaves unspent), of
  the link from `ChainIndexed`, and of the targets from `HistoryInv`.

### The disk (`DurabilityProofs`)

For any set of labels, any number of transactions per block, any height and any number of crashes.

- `ChainIsReadable` (`StoreReadable`) and `RestartFindsChain` (`ChainSurvives`) follow from
  `StoreInductive`. `StoreReadable` only speaks of a process that runs between
  operations, so it is not inductive. `StoreInv` says what is on disk at each step of
  `add_block`, `pop_block` and `save_blockchain_data`: how much of the chain is readable,
  which file of the next height already exists, and how the saved chain relates to the one
  in memory (`Running`): the same, or one block higher after a pop that failed
  (`Failed`: there is a hole at the top and one below it); and for a dead process, that what a
  restart would load is readable and, unless the file was being written, what was last saved
  (`Dead`). `Kept` also says that a block next to holes stands on the same chain as those above,
  which is what the conjuncts about neighbours do not give.
- `OutputsAreExact` (`OutputsExact`) from `OutInv`: unless a crash tore an operation
  apart, the outputs are exactly what executing or recalling transaction after transaction has
  made of them by the current step (`Expected`), and those on disk of a dead process are
  those of the chain it will load. The flag `torn` carries the exception along.

### The full node (`FullNodeProofs`)

Assumed: `MaxReorg` is positive, and peers, the API task, synchronisations and `Free`
are different things. Any number of peers and synchronisations, any chains and moves.

- `LockExcludes` (`ExclusiveProcessing`), `SyncReaches` (`SyncReachesPeer`), `BlamedOnlyOnFork`
  (`RefusedOnlyOnFork`). `IInv` is types, exclusion, and `SyncKnows`: what a synchronisation
  has established by the step it is at (the height it read is still that of the chain, the
  fork is one of the heights it searched, every block below the one it asks for is
  applied unless a question was left open). It holds the lock in all these steps, so exclusion
  is what keeps this true, and neither is inductive alone.
- `ReorgIsBounded` (`ReorgBounded`), an action property, from the same invariant: the depth and
  the first block follow from which heights the search looks at.

### The mempool (`MempoolProofs`)

Assumed: finitely many callers, `NoTx` is no transaction, `PoolLimit` is positive.

- `PoolIsBounded` and `ClaimsAreBounded`. `PoolBounded` alone is not inductive: a caller
  that has passed the check will insert whatever the pool is by then. `Room` counts the
  pool together with the callers that are still to insert; `ClaimRoom` does so for the
  entries that claim one coin. The proofs are about cardinalities of the images of
  the steps; `Counts` says that all these sets are finite.

### The table of the peers (`ConnectionProofs`)

Assumed: `Target`, the scores and their range are positive, every address has an IP. Any
number of connections, nodes and clients.

- `TableIsExact` (`TableExact`). `TableInv` adds that an entry names the connection with that address
  and that it lives or came too late (`Entries`), that a handle still to be inserted is that of
  the connection that was opened (`Handles`), that no two live connections are at one address unless marked
  `shared` (`Alone`), and that a live one that was inserted is in the table (`InTable`).
- `OutgoingIsBounded` (`OutgoingBounded`) from `Budget`: outgoing peers, attempts under way and
  addresses that `auto_peer` and `auto_reconnect` have still to try are together at most
  `2 * Target`. The
  count that `auto_peer` made before it asked for addresses is stale when it uses them,
  which is why the bound is twice the target and why the list is part of it.

### The download (`IbdProofs`)

Assumed: finitely many peers, a batch at least as large as the number of peers
(`DOWNLOAD_BATCH` is 2000), channels of positive capacity, and that the chain the
node starts with holds no block with a wrong hash.

- `BlocksFollow` (`StoredLinked`), `HashesChecked` (`NoWrongHashOnSuccess`), `DownloadApplied`
  (`SuccessMeansApplied`), `FlagCoversApplier` (`ApplierUnderFlag`), all from one `IInv`. Its parts: which
  tasks may exist in which phase of `main` (`Phases`); that a stored block with a wrong hash
  is still to be checked, or a thread has failed (`Suspects`); that the
  stored blocks are linked and the applier's next block fits (`Links`); that the hashes are
  those of one chain and blocks come in their order (`Announced`, `Ordered`); that the applier has
  counted no block that is still to come (`Counting`); and that each block that was asked for
  is in a slice, in the channel, with the applier or stored, unless the peer had none (`NothingLost`). Success is judged from the results of the tasks, and what they
  say of the blocks is only known through all of these. `Least`, a lemma, takes the least
  element of a set of natural numbers in place of induction.

### The connection (`ConnectionProofs`)

Assumed: there are exactly two ends, the pinger is not numbered like a task, the queue
has room for one message. Any number of callers and any capacity.

- `NoUnexpectedResponse` (`ResponsesExpected`). `IInv` says of each call that it is in one place
  only (`Track`: queue, wire, the reader of the other end, its queue, the wire back, or
  ended) and that it is pending at its caller as long as it is in any of the
  later ones; of each end that its queue holds nothing twice and nothing once it is
  closed (`EndKeeps`); and of the handshake that `Connect` and its answer are one message
  at a time (`Greeting`).
- `ConnectionImplementsCalls` (`PromiseKept`): under the mapping of section 2 every step of
  `PeerConn` is a step of `Calls` or a stutter, by one lemma per action from the same
  invariant. That a request is not handled twice is `Track`: once read, it is neither
  queued nor on the wire.

### The API (`ApiProofs`)

Assumed: page size and capacity of the event channel are positive and `None` is no number. Any
number of callers, any lists, any number of changes, any room in the connection, none included.

- `EventsFollow` (`EventsContiguous`). `Streaming` relates four things: the events that happened,
  the position of the stream, each event on the wire (the place of a message says which
  one it is) and what the listener has. `Converted` says that a client that has become a
  listener sends one more request at most, so no event is on the wire before.
  The types, the queue for the stream and where the client stands in the responses (`Framing`)
  come first. A listener behind a part of a message hears nothing more, so the events it
  has are still the first ones.
- `AnswersAreOwn` (`OwnAnswer`). While nothing disturbs them, `Turns` holds: the owners of all
  responses and requests in flight, taken in order, are different calls that wait, and what
  is in front of the answer to a reader belongs to readers in front of it in the queue
  for the stream. The lock is released between writing and reading, so this queue is not
  the order of the requests by itself: it is as long as whoever wrote asks to read
  before the next one does, which is what `overtaken` records.
- `PagesAreWhole` (`NothingLeftOut`). `Paging` says that everything a call saw when it began was
  read or lies beyond the page it stands at (`Ahead`), or is in the response on its way
  (`Carries`), and that requests and responses in flight are about that page. An entry
  added anywhere moves none towards the first page, from either end of the list
  (`InsertBeyond`); a page holds what lies between it and the next (`PageCovers`).

### The light node (`LightNodeProofs`)

Assumed (`LightNodeAssumption`): readers, synchronisations and the application are different
tasks, a chain of a peer links its blocks, and the transactions of a block and their inputs are
lists. Any number of peers, synchronisations and addresses, any blocks and chains, any answers, and any
width of the heights, which wrap.

- `NodeInductive` has two parts. `Control`: what a task holds is a block, lists of metadata
  are lists of blocks whatever was answered, the lock is held by whoever is between scan and count
  and by no other. So one block at most is scanned and not counted (`Busy`), and `pop_block`
  finds none. `Data`: an address whose scans are all known is watched, one that was never
  tracked has neither rows nor log (`Tracking`); blocks were scanned below the height, and at
  it only while `Busy` (`Below`); each transaction of the history concerns an address that was
  tracked, and if it concerns one only, the block scanned at its height holds it (`HistoryKept`).
- `HistoryIsSound` (`HistorySound`) is a consequence. `HistorySound` alone is not
  inductive: it names no height, and what `pop_block` removes, it removes by height; and an
  address tracked for the first time would have to answer for what is there already.
- `WalletIsExact` (`WalletExact`), assuming `SimpleBlocks`. `WalletOf` says what a wallet is after the
  blocks scanned: a row holds what its block received less what later ones took, and the log of
  a height, for the rows that lost a coin there, what they held below it; of the
  other rows it took nothing. The log part is what makes a rollback of any depth exact, and says
  nothing of the rows as they are, so `WalletExact` alone is not inductive. `ScanKeeps` and
  `PopKeeps` are its two steps. Below them lie what one input does to rows and log
  (`SpendCoinLeaves`), what the inputs of a transaction do together (`SpendInputsLeaves`), and what a
  block does (`BlockScanned`); a least counterexample takes the place of induction over the lists.
- `SpendLogForgets`: `SimpleBlocks` cannot be dropped. A transaction that spends two coins of one
  row is undone without the first of them. Such blocks are ordinary ones; the theorem about
  wallets says what holds where they do not occur, and no more.

### What stays with TLC

- Everything under fairness (`EventsArrive`, `CallsReturn`, `CallsEnd`, `BothEnd`, `EntriesLeave`,
  `FlagCleared`, `LockReleased`, `CatchesUp`, `AcceptsEnd`): liveness and ENABLED are out of the
  prover's reach.
- That the rules in `Economics` and `Difficulty` are those of the code on the inputs
  checked; the proofs use only their ranges.

Each inductive invariant was checked by TLC on the instance of its run before it was
proved, or on a smaller one. No proof assumes more of a constant than the named ASSUME of its module,
except where a theorem names a condition of its own (`FreshRewards`, a constant that the runs set;
`SimpleBlocks`, which its run evaluates); the runs evaluate the assumptions too.

## 5. Not modelled yet, and the plan

1. `LightNode`: blocks with several transactions for one address, heights scanned
   again after `start_tracking`, height changes in two steps, its mempool.
2. `crypto/merkle_tree.rs` and `bounded_set.rs` as operators against a reference.

Not modelled, and why: encoding of messages, the framing of those between peers (their reader
is dropped with its connection only, so a message is read whole or the connection ends), logging, the search for a proof of work and cryptography
itself (taken as ideal; `crypto/keys.rs` and the address filter are pure functions),
queries that only read and are not paged, the writes of two `add_block` calls that
overlap (`Ibd` records the overlap and promises nothing beyond it).
