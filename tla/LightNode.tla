------------------------------ MODULE LightNode ------------------------------
(***************************************************************************)
(* The tasks of a light node (light_node/mod.rs, sync.rs, behavior.rs and  *)
(* light_node_state.rs): the reader of each peer runs accept_block and     *)
(* answers pings, a ping may start a synchronisation, and the application  *)
(* starts and stops to track addresses.                                    *)
(*                                                                         *)
(* A step is what a task does between two points where another may run.    *)
(* Peers are on any of the Chains at any time, so an answer, a ping or a   *)
(* new block is taken from any of them; messages may come late, twice or   *)
(* not at all.  Arithmetic on heights wraps, as in a release build.  The   *)
(* mempool and the transaction difficulty are left out.                    *)
(***************************************************************************)
EXTENDS LightUtxos

CONSTANTS
  Peer,            \* peers; names the reader of the connection as well
  Syncer,          \* synchronisations that can run at once: a bound
  App,             \* the task of start_tracking
  NoTask,
  Addresses,
  Blocks,
  NoBlock,
  ZeroHash,
  Previous,        \* [Blocks -> Blocks \cup {ZeroHash}]
  TxsOf,           \* [Blocks -> Seq of transactions]
  Chains,          \* chains of blocks that peers may be on
  RestoreHeights,  \* heights that start_tracking is called with
  Rollback,        \* 20 in start_sync
  ChunkSize,       \* METADATA_FETCH_MAX_COUNT
  MaxInputs,       \* bound: new blocks, pings and calls of start_tracking
  UsizeMax         \* usize::MAX

Task == Peer \cup Syncer \cup {App}

IsList(s) == Len(s) \in Nat /\ DOMAIN s = 1..Len(s)

ASSUME LightNodeAssumption ==
  /\ {Rollback, ChunkSize, MaxInputs, UsizeMax} \subseteq Nat \ {0}
  /\ RestoreHeights \subseteq 0..UsizeMax
  /\ Peer # {} /\ Peer \cap Syncer = {}
  /\ App \notin Peer \cup Syncer /\ NoTask \notin Task
  /\ Chains \subseteq Seq(Blocks)
  /\ \A c \in Chains : \A i \in DOMAIN c :
       Previous[c[i]] = IF i = 1 THEN ZeroHash ELSE c[i - 1]
  /\ \A b \in Blocks : /\ IsList(TxsOf[b])
                       /\ \A n \in DOMAIN TxsOf[b] : IsList(TxsOf[b][n].ins)

VARIABLES
  db,          \* outputs, watched addresses, spend log, transactions
  height,
  lastSeen,    \* last_seen_block
  isSyncing,
  lock,        \* holder of the processing lock
  task,        \* [Task -> what it is doing]
  seen,        \* history: [address -> [height -> block scanned for it]]
  trust,       \* history: "new" before an address is tracked, "exact" while
               \* every height was scanned for it once, in order
  inputs       \* history: their number

nodeVars == <<db, height, lastSeen, isSyncing, lock>>
vars == <<nodeVars, task, seen, trust, inputs>>

Idle == [pc |-> "idle", block |-> NoBlock, metas |-> <<>>, pops |-> 0]

Init ==
  /\ db = EmptyDb(Addresses)
  /\ height = 0
  /\ lastSeen = ZeroHash
  /\ isSyncing = FALSE
  /\ lock = NoTask
  /\ task = [x \in Task |-> Idle]
  /\ seen = [a \in Addresses |-> <<>>]
  /\ trust = [a \in Addresses |-> "new"]
  /\ inputs = 0

At(x, pc) == task[x].pc = pc
Become(x, t) == task' = [task EXCEPT ![x] = t]
Go(x, pc) == Become(x, [task[x] EXCEPT !.pc = pc])

Input == inputs < MaxInputs /\ inputs' = inputs + 1

(* Nothing is known any more of the scans for these addresses; for the      *)
(* others, the scan of some heights is forgotten.                           *)
Doubt(as, popped) ==
  /\ trust' = [a \in Addresses |->
       IF a \in as /\ trust[a] = "exact" THEN "unknown" ELSE trust[a]]
  /\ seen' = [a \in Addresses |-> IF a \in as THEN <<>> ELSE Without(seen[a], popped)]

(* A height that wraps is one at which blocks may have been scanned.       *)
CountedUp == Doubt(IF height = UsizeMax THEN Addresses ELSE {}, {})

IncrementHeight(h) == (h + 1) % (UsizeMax + 1)
DecrementHeight(h) == (h + UsizeMax) % (UsizeMax + 1)

(* last_seen_block_hashes, newest first: push_block_hash has no caller.    *)
LastSeenBlockHashes == <<>>
NewestHash == IF LastSeenBlockHashes = <<>> THEN ZeroHash ELSE Head(LastSeenBlockHashes)
OldestHash == IF LastSeenBlockHashes = <<>> THEN NoBlock ELSE Last(LastSeenBlockHashes)

-----------------------------------------------------------------------------
(* quorum_request: answers are counted in the order they come until half of *)
(* the peers answered, or the time is over; the most frequent one is        *)
(* returned, the last of them if there are several.  None if there is none. *)
Quorum == (Cardinality(Peer) + 1) \div 2

Occurrences(r, i) == Cardinality({j \in DOMAIN r : r[j] = r[i]})
Canonical(r) ==
  LET best == {i \in DOMAIN r : \A j \in DOMAIN r : Occurrences(r, j) <= Occurrences(r, i)}
  IN {r[i] : i \in {j \in best : \A k \in best : k <= j}}

QuorumRequest(answer, none) ==
  LET answering == {p \in Peer : answer[p] # none}
      orders == {o \in SeqOf(answering, Quorum) : o # <<>> /\ IsInjective(o)}
  IN {none} \cup (UNION {Canonical([i \in DOMAIN o |-> answer[o[i]]]) : o \in orders})

(* GetBlockMetadatas: the blocks of heights from..to-1, if all are there.  *)
Metadatas(c, from, to) == IF to <= Len(c) THEN SubSeq(c, from + 1, to) ELSE <<>>

FirstMetadata(c, h) == IF h < Len(c) THEN c[h + 1] ELSE NoBlock

FirstAnswers(h) ==
  UNION {QuorumRequest([p \in Peer |-> FirstMetadata(on[p], h)], NoBlock) : on \in [Peer -> Chains]}

ChunkAnswers(from, to) ==
  UNION {QuorumRequest([p \in Peer |-> Metadatas(on[p], from, to)], <<>>) : on \in [Peer -> Chains]}

(* fetch_all_metadata_chunks: the answers for the first n chunks, one after *)
(* the other; a chunk that nobody answered is missing.                      *)
ChunkEnd(n, start, end) == IF start + n * ChunkSize < end THEN start + n * ChunkSize ELSE end

Extended(lists, n, start, end) ==
  LET answers == ChunkAnswers(ChunkEnd(n - 1, start, end), ChunkEnd(n, start, end))
  IN UNION {{l \o m : m \in answers} : l \in lists}

FetchAll(start, end) ==
  LET chunks == (end - start + ChunkSize - 1) \div ChunkSize
      lists[n \in 0..chunks] ==
        IF n = 0 THEN {<<>>} ELSE Extended(lists[n - 1], n, start, end)
  IN lists[chunks]

-----------------------------------------------------------------------------
(* accept_block, called by the readers and by start_sync.                  *)

(* What the caller does when accept_block returned Ok, or an error: a       *)
(* reader ignores both, start_sync goes to the next block, or ends.         *)
AfterOk(x) == IF x \in Peer THEN Idle ELSE [task[x] EXCEPT !.pc = "apply", !.block = NoBlock]
AfterError(x) == IF x \in Peer THEN Idle ELSE [Idle EXCEPT !.pc = "end"]

(* NewBlock: nothing is done while the flag is up or for the last block.   *)
ReceiveBlock(x, b) ==
  /\ At(x, "idle")
  /\ Input
  /\ ~ isSyncing
  /\ lastSeen # b
  /\ Become(x, [Idle EXCEPT !.pc = "mark", !.block = b])
  /\ UNCHANGED <<nodeVars, seen, trust>>

SetLastSeen(x) ==
  /\ At(x, "mark")
  /\ lastSeen' = task[x].block
  /\ Go(x, "accept")
  /\ UNCHANGED <<db, height, isSyncing, lock, seen, trust, inputs>>

(* The hash of the previous block is refused when it is the newest one.    *)
RefuseBlock(x) ==
  /\ At(x, "accept")
  /\ lock = NoTask
  /\ Previous[task[x].block] = NewestHash
  /\ Become(x, AfterError(x))
  /\ UNCHANGED <<nodeVars, seen, trust, inputs>>

(* Lock, and scan the block at the current height.                         *)
AcceptBlock(x) ==
  /\ At(x, "accept")
  /\ lock = NoTask
  /\ Previous[task[x].block] # NewestHash
  /\ lock' = x
  /\ db' = ScanBlock(db, height, TxsOf[task[x].block])
  /\ seen' = [a \in Addresses |->
                IF trust[a] = "exact" THEN With(seen[a], height, task[x].block) ELSE seen[a]]
  /\ Go(x, "scanned")
  /\ UNCHANGED <<height, lastSeen, isSyncing, trust, inputs>>

\* Mutant: the lock is not dropped.
FinishAcceptingKeepsLock(x) ==
  /\ At(x, "scanned")
  /\ height' = IncrementHeight(height)
  /\ Become(x, AfterOk(x))
  /\ CountedUp
  /\ UNCHANGED <<db, lastSeen, isSyncing, lock, inputs>>

(* The difficulty is written, the height counted and the lock dropped.     *)
FinishAccepting(x) ==
  /\ At(x, "scanned")
  /\ height' = IncrementHeight(height)
  /\ lock' = NoTask
  /\ Become(x, AfterOk(x))
  /\ CountedUp
  /\ UNCHANGED <<db, lastSeen, isSyncing, inputs>>

(* The connection ends: its reader is dropped where it waits, for the lock  *)
(* or after the scan, when the block has been scanned and is not counted.   *)
Disconnect(x) ==
  LET scanned == At(x, "scanned") IN
  /\ At(x, "accept") \/ scanned
  /\ lock' = IF scanned THEN NoTask ELSE lock
  /\ Doubt(IF scanned THEN Addresses ELSE {}, {})
  /\ Become(x, Idle)
  /\ UNCHANGED <<db, height, lastSeen, isSyncing, inputs>>

-----------------------------------------------------------------------------
(* Ping: a chain that is two blocks longer starts a synchronisation.       *)

ReceivePing(x, remote) ==
  /\ At(x, "idle")
  /\ Input
  /\ IncrementHeight(height) < remote
  /\ ~ isSyncing
  /\ Go(x, "ping")
  /\ UNCHANGED <<nodeVars, seen, trust>>

StartSync(x, s) ==
  /\ At(x, "ping")
  /\ At(s, "idle")
  /\ isSyncing' = TRUE
  /\ task' = [task EXCEPT ![x] = Idle, ![s] = [Idle EXCEPT !.pc = "lock"]]
  /\ UNCHANGED <<db, height, lastSeen, lock, seen, trust, inputs>>

SyncLock(s) ==
  /\ At(s, "lock")
  /\ lock = NoTask
  /\ lock' = s
  /\ Go(s, "first")
  /\ UNCHANGED <<db, height, lastSeen, isSyncing, seen, trust, inputs>>

-----------------------------------------------------------------------------
(* start_sync, in a spawned task (which holds the lock) or in start_tracking *)
(* (which does not).                                                        *)

AskFirst(x) ==
  /\ At(x, "first")
  /\ \E b \in FirstAnswers(height) :
       Become(x, [task[x] EXCEPT !.pc = "compare", !.block = b])
  /\ UNCHANGED <<nodeVars, seen, trust, inputs>>

CompareFirst(x) ==
  LET b == task[x].block
      diverged == b # NoBlock /\ height # 0 /\ OldestHash # Previous[b]
  IN
  /\ At(x, "compare")
  /\ Become(x, IF diverged THEN [Idle EXCEPT !.pc = "pop", !.pops = Rollback]
               ELSE [Idle EXCEPT !.pc = "probe"])
  /\ UNCHANGED <<nodeVars, seen, trust, inputs>>

(* pop_block takes the lock itself, and gives it back.                     *)
PopBlock(x) ==
  LET h == DecrementHeight(height) IN
  /\ At(x, "pop")
  /\ lock = NoTask
  /\ height' = h
  /\ db' = PopOutputs(RemoveTransactionsAt(db, h), h)
  /\ Doubt(IF height = 0 THEN Addresses ELSE {}, {h})
  /\ Become(x, IF task[x].pops > 1 THEN [task[x] EXCEPT !.pops = @ - 1]
               ELSE [Idle EXCEPT !.pc = "probe"])
  /\ UNCHANGED <<lastSeen, isSyncing, lock, inputs>>

(* Ping one peer: nothing to do, or the metadata of the heights up to its. *)
Probe(x, remote) ==
  /\ At(x, "probe")
  /\ \/ /\ height >= remote
        /\ Become(x, [Idle EXCEPT !.pc = "end"])
     \/ /\ height < remote
        /\ \E metas \in FetchAll(height, remote) :
             Become(x, [Idle EXCEPT !.pc = "apply", !.metas = metas])
  /\ UNCHANGED <<nodeVars, seen, trust, inputs>>

(* No peer, no answer or not the block that was asked for.                 *)
SyncFails(x) ==
  /\ At(x, "probe") \/ (At(x, "apply") /\ task[x].metas # <<>> /\ db.watched # {})
  /\ Become(x, [Idle EXCEPT !.pc = "end"])
  /\ UNCHANGED <<nodeVars, seen, trust, inputs>>

Matches(b) == \E i \in DOMAIN TxsOf[b] : \E a \in db.watched : Concerns(TxsOf[b][i], a)

(* The filter of a block finds every address in it, and may find others.   *)
FetchBlock(x) ==
  LET b == Head(task[x].metas)
      rest == [task[x] EXCEPT !.metas = Tail(@)]
  IN
  /\ At(x, "apply")
  /\ task[x].metas # <<>>
  /\ db.watched # {}
  /\ Become(x, IF lastSeen = b THEN rest ELSE [rest EXCEPT !.pc = "mark", !.block = b])
  /\ UNCHANGED <<nodeVars, seen, trust, inputs>>

SkipBlock(x) ==
  /\ At(x, "apply")
  /\ task[x].metas # <<>>
  /\ ~ Matches(Head(task[x].metas))
  /\ height' = IncrementHeight(height)
  /\ Become(x, [task[x] EXCEPT !.metas = Tail(@)])
  /\ CountedUp
  /\ UNCHANGED <<db, lastSeen, isSyncing, lock, inputs>>

(* Done, or failed: a spawned task drops the lock and the flag.            *)
SyncEnd(x) ==
  /\ At(x, "end") \/ (At(x, "apply") /\ task[x].metas = <<>>)
  /\ Become(x, Idle)
  /\ \/ /\ x \in Syncer
        /\ lock' = NoTask
        /\ isSyncing' = FALSE
     \/ x = App /\ UNCHANGED <<lock, isSyncing>>
  /\ UNCHANGED <<db, height, lastSeen, seen, trust, inputs>>

-----------------------------------------------------------------------------
(* start_tracking and stop_tracking, called by the application: no lock.   *)

StartTracking(a, restore) ==
  LET same == restore = height /\ \A x \in Task : ~ At(x, "scanned") IN
  /\ At(App, "idle")
  /\ Input
  /\ a \notin db.watched
  /\ db' = AddAddress(db, a)
  /\ height' = restore
  /\ Become(App, [Idle EXCEPT !.pc = "first"])
  /\ trust' = [o \in Addresses |->
       IF o = a /\ trust[a] = "new" THEN "exact"
       ELSE IF trust[o] = "exact" /\ ~ same THEN "unknown" ELSE trust[o]]
  /\ seen' = IF same THEN seen ELSE [o \in Addresses |-> <<>>]
  /\ UNCHANGED <<lastSeen, isSyncing, lock>>

StopTracking(a) ==
  /\ a \in db.watched
  /\ db' = DeleteAddress(db, a)
  /\ seen' = [seen EXCEPT ![a] = <<>>]
  /\ trust' = [trust EXCEPT ![a] = "unknown"]
  /\ UNCHANGED <<height, lastSeen, isSyncing, lock, task, inputs>>

-----------------------------------------------------------------------------
Accepts(x) == SetLastSeen(x) \/ RefuseBlock(x) \/ AcceptBlock(x) \/ FinishAccepting(x)

Syncs(x) ==
  \/ AskFirst(x) \/ CompareFirst(x) \/ PopBlock(x)
  \/ \E c \in Chains : Probe(x, Len(c))
  \/ SyncFails(x) \/ FetchBlock(x) \/ SkipBlock(x) \/ SyncEnd(x)

Steps ==
  \/ \E x \in Task : Accepts(x)
  \/ \E x \in Peer, s \in Syncer : StartSync(x, s)
  \/ \E s \in Syncer : SyncLock(s)
  \/ \E x \in Syncer \cup {App} : Syncs(x)

Next ==
  \/ Steps
  \/ \E x \in Peer : \/ Disconnect(x)
                     \/ \E b \in Blocks : ReceiveBlock(x, b)
                     \/ \E c \in Chains : ReceivePing(x, Len(c))
  \/ \E a \in Addresses : StopTracking(a) \/ \E h \in RestoreHeights : StartTracking(a, h)

Spec == Init /\ [][Next]_vars

(* As long as some task can move, one does.                                *)
FairSpec == Spec /\ WF_vars(Steps)

-----------------------------------------------------------------------------
(* Properties                                                              *)

(* The coins listed for an address, with the height they are listed under. *)
Listed(a) ==
  LET rows == db.wallets[a].rows
  IN UNION {{<<h, coin>> : coin \in rows[h]} : h \in DOMAIN rows}

SpentAfter(a, h, n, coin) ==
  \E g \in DOMAIN seen[a] : \E m \in DOMAIN TxsOf[seen[a][g]] :
    /\ g > h \/ (g = h /\ m > n)
    /\ \E i \in DOMAIN TxsOf[seen[a][g]][m].ins :
         TxsOf[seen[a][g]][m].ins[i].owner = a /\ TxsOf[seen[a][g]][m].ins[i].coin = coin

Unspent(a) ==
  UNION {UNION {{<<h, coin>> : coin \in {c \in Received(TxsOf[seen[a][h]][n], a) :
                                            ~ SpentAfter(a, h, n, c)}} :
                  n \in DOMAIN TxsOf[seen[a][h]]} : h \in DOMAIN seen[a]}

(* A block in which one transaction at most concerns an address, and takes  *)
(* no two coins of one transaction from it.  The second of two transactions *)
(* would write over the row of the first one, and of a row that loses two   *)
(* coins to one block the log puts back what the second loss found.         *)
ApartInputs(ins, a) ==
  \A i, j \in DOMAIN ins :
    ins[i].owner = a /\ ins[j].owner = a /\ i # j => ins[i].coin[1] # ins[j].coin[1]

Simple(b, a) ==
  /\ \A m, n \in DOMAIN TxsOf[b] :
       Concerns(TxsOf[b][m], a) /\ Concerns(TxsOf[b][n], a) => m = n
  /\ \A n \in DOMAIN TxsOf[b] : ApartInputs(TxsOf[b][n].ins, a)

SimpleBlocks == \A b \in Blocks : \A a \in Addresses : Simple(b, a)

(* The rows of an address hold exactly the coins that it received in the    *)
(* blocks scanned for it and not rolled back, and did not spend in later    *)
(* ones of them: scan_block and pop_block undo each other over any sequence *)
(* of blocks, repeated and unlinked ones included, while other addresses    *)
(* come and go.  For an address that is tracked for the first time, until   *)
(* start_tracking sets the height back for another one, or a reader is      *)
(* dropped between the scan of a block and the count.                       *)
WalletExact == \A a \in Addresses : trust[a] = "exact" => Listed(a) = Unspent(a)

(* pop_block leaves no transaction behind: of those that concern one tracked *)
(* address only, the history holds none whose block was rolled back.        *)
HistorySound ==
  \A a \in Addresses : trust[a] = "exact" =>
    \A t \in DOMAIN db.history :
      (\A o \in Addresses : Concerns(db.history[t].tx, o) <=> o = a)
        => \E h \in DOMAIN seen[a] : db.history[t].tx \in ToSet(TxsOf[seen[a][h]])

(* A spawned synchronisation that waits for the lock it holds.             *)
WaitsForItself == \E s \in Syncer : lock = s /\ task[s].pc \in {"pop", "accept"}

(* A reader in accept_block comes out of it, unless a synchronisation waits  *)
(* for the lock it holds itself: no other task keeps the lock.              *)
AcceptsEnd == \A x \in Peer : At(x, "accept") ~> (At(x, "idle") \/ WaitsForItself)
=============================================================================
