------------------------------ MODULE FullNode ------------------------------
(***************************************************************************)
(* The tasks of a full node that change its chain: the reader of every     *)
(* peer connection (node/peer.rs) handling Ping and NewBlock               *)
(* (full_node/behavior.rs), the synchronisations it spawns                 *)
(* (full_node/sync.rs) and the API server accepting blocks                 *)
(* (full_node/api_server.rs).  They share is_syncing, the processing lock  *)
(* and last_seen_block.                                                    *)
(*                                                                         *)
(* A block stands for the chain that ends with it, a sequence of labels:   *)
(* its predecessor is the sequence without the last one, so a node's chain *)
(* is its last block and add_block(b) succeeds when b extends the chain by *)
(* one.  A step is what a task does between two points where it waits.     *)
(***************************************************************************)
EXTENDS Naturals, Sequences, FiniteSets

CONSTANTS
  Peer,         \* connections of this node
  Api,          \* the task serving an API client
  SyncTask,     \* bound: synchronisations alive at once
  Free,         \* the processing lock when no task holds it
  NoBlock,      \* no block is being handled
  MaxReorg,     \* MAX_REORG
  Chains,       \* chains that peers may have
  Moves,        \* <<from, to>>: how the chain of a peer may change
  ApiBlocks,    \* blocks that API clients submit
  StartChain,   \* the chain this node starts with
  PeersFail     \* whether connections may break

ASSUME FullNodeAssumption ==
  /\ MaxReorg \in Nat \ {0}
  /\ Free \notin Peer \cup {Api} \cup SyncTask
  /\ (Peer \cup {Api}) \cap SyncTask = {}
  /\ Chains \cup ApiBlocks \cup {StartChain} \subseteq Seq(STRING)
  /\ Moves \subseteq Chains \X Chains
  /\ PeersFail \in BOOLEAN

VARIABLES
  chain,        \* the local chain
  peerChain,    \* [Peer -> the chain of the peer]
  capable,      \* peers that connected with FULL_NODE_CAPABILITY
  alive,        \* [Peer -> whether the connection is up]
  handler,      \* [Peer \cup {Api} -> what the task is doing with a message]
  sync,         \* [SyncTask -> the state of a synchronisation]
  is_syncing,
  processing,   \* holder of the processing lock
  last_seen     \* last_seen_block

peers == <<peerChain, capable>>
vars == <<chain, peers, alive, handler, sync, is_syncing, processing, last_seen>>

Task == Peer \cup {Api}
Idle == [pc |-> "idle", block |-> NoBlock]
NoSync == [pc |-> "idle"]

\* The block of a chain at a height, as its hash.
BlockAt(c, h) == SubSeq(c, 1, h + 1)
OnChain(b, c) == Len(b) \in 1..Len(c) /\ b = SubSeq(c, 1, Len(b))
Extends(b, c) == Len(b) = Len(c) + 1 /\ SubSeq(b, 1, Len(c)) = c

Init ==
  /\ chain = StartChain
  /\ peerChain \in [Peer -> Chains]
  /\ capable \in SUBSET Peer
  /\ alive = [p \in Peer |-> TRUE]
  /\ handler = [x \in Task |-> Idle]
  /\ sync = [s \in SyncTask |-> NoSync]
  /\ is_syncing = FALSE
  /\ processing = Free
  /\ last_seen = <<>>

-----------------------------------------------------------------------------
(* accept_block, run by the reader of a connection or by the API server.   *)

StartAccepting(x, b) ==
  /\ handler[x] = Idle
  /\ handler' = [handler EXCEPT ![x] = [pc |-> "check", block |-> b]]
  /\ UNCHANGED <<chain, peers, alive, sync, is_syncing, processing, last_seen>>

\* A peer announces its last block: looked at unless the node is syncing.
ReceiveNewBlock(p) ==
  /\ alive[p] /\ ~is_syncing
  /\ StartAccepting(p, peerChain[p])

ReceiveApiBlock == \E b \in ApiBlocks : StartAccepting(Api, b)

\* The block that was seen last is taken for processed.
CheckLastSeen(x) ==
  /\ handler[x].pc = "check"
  /\ handler' = [handler EXCEPT ![x] = IF last_seen = @.block THEN Idle
                                      ELSE [@ EXCEPT !.pc = "seen"]]
  /\ UNCHANGED <<chain, peers, alive, sync, is_syncing, processing, last_seen>>

SetLastSeen(x) ==
  /\ handler[x].pc = "seen"
  /\ last_seen' = handler[x].block
  /\ handler' = [handler EXCEPT ![x].pc = "lock"]
  /\ UNCHANGED <<chain, peers, alive, sync, is_syncing, processing>>

\* Mutant: the lock is not awaited.
AcceptBlockUnlocked(x) ==
  /\ handler[x].pc = "lock"
  /\ IF Extends(handler[x].block, chain)
     THEN /\ chain' = handler[x].block
          /\ processing' = x
          /\ handler' = [handler EXCEPT ![x].pc = "spend"]
     ELSE /\ handler' = [handler EXCEPT ![x] = Idle]
          /\ UNCHANGED <<chain, processing>>
  /\ UNCHANGED <<peers, alive, sync, is_syncing, last_seen>>

\* With the lock: add_block, and on success wait for the mempool.
AcceptBlock(x) ==
  /\ handler[x].pc = "lock"
  /\ processing = Free
  /\ IF Extends(handler[x].block, chain)
     THEN /\ chain' = handler[x].block
          /\ processing' = x
          /\ handler' = [handler EXCEPT ![x].pc = "spend"]
     ELSE /\ handler' = [handler EXCEPT ![x] = Idle]
          /\ UNCHANGED <<chain, processing>>
  /\ UNCHANGED <<peers, alive, sync, is_syncing, last_seen>>

\* spend_transactions is done: the block is forwarded and the lock dropped.
FinishAccepting(x) ==
  /\ handler[x].pc = "spend"
  /\ processing' = Free
  /\ handler' = [handler EXCEPT ![x] = Idle]
  /\ UNCHANGED <<chain, peers, alive, sync, is_syncing, last_seen>>

-----------------------------------------------------------------------------
(* Ping: a peer that is two blocks ahead is synced to.                     *)

\* Bound: a synchronisation that is about to start has a slot in SyncTask.
Pinged == {p \in Peer : handler[p].pc \in {"ping", "start"}}
FreeSlots == {s \in SyncTask : sync[s] = NoSync}
SlotLeft == Cardinality(Pinged) < Cardinality(FreeSlots)

ReceivePing(p) ==
  /\ alive[p] /\ handler[p] = Idle
  /\ Len(chain) + 1 < Len(peerChain[p])
  /\ SlotLeft
  /\ handler' = [handler EXCEPT ![p] = [pc |-> "ping", block |-> peerChain[p]]]
  /\ UNCHANGED <<chain, peers, alive, sync, is_syncing, processing, last_seen>>

CheckSyncing(p) ==
  /\ handler[p].pc = "ping"
  /\ handler' = [handler EXCEPT ![p] = IF is_syncing THEN Idle
                                      ELSE [@ EXCEPT !.pc = "start"]]
  /\ UNCHANGED <<chain, peers, alive, sync, is_syncing, processing, last_seen>>

\* The flag is written after it was read, and the synchronisation is spawned.
StartSync(p, s) ==
  /\ handler[p].pc = "start"
  /\ sync[s] = NoSync
  /\ is_syncing' = TRUE
  /\ handler' = [handler EXCEPT ![p] = Idle]
  /\ sync' = [sync EXCEPT ![s] =
                [pc |-> "lock", peer |-> p,
                 peerHeight |-> Len(handler[p].block)]]
  /\ UNCHANGED <<chain, peers, alive, processing, last_seen>>

-----------------------------------------------------------------------------
(* sync_to_peer, under the processing lock.                                *)

\* Mutant: the search is not cut off at MAX_REORG, and goes one too far.
LookbackUnbounded(local) == local + 1

Lookback(local) == IF MaxReorg < local THEN MaxReorg ELSE local

\* Heights the fork search asks the peer about, newest first.
SearchHeights(local) == {local - offset : offset \in 0..(Lookback(local) - 1)}

\* A synchronisation that has ended drops the lock.  `missed` remembers that the
\* peer left a question without answer.
Ending(s, result) ==
  [pc |-> "unlock", peer |-> sync[s].peer, peerHeight |-> sync[s].peerHeight,
   local |-> sync[s].local, result |-> result, missed |-> sync[s].missed]

SyncLock(s) ==
  /\ sync[s].pc = "lock"
  /\ processing = Free
  /\ processing' = s
  /\ sync' = [sync EXCEPT ![s] =
                [pc |-> IF sync[s].peer \in capable THEN "find" ELSE "skip",
                 peer |-> sync[s].peer, peerHeight |-> sync[s].peerHeight,
                 local |-> Len(chain), at |-> Len(chain), missed |-> FALSE]]
  /\ UNCHANGED <<chain, peers, alive, handler, is_syncing, last_seen>>

\* Peers that are no full nodes are not synced to.
SyncSkip(s) ==
  /\ sync[s].pc = "skip"
  /\ sync' = [sync EXCEPT ![s] = Ending(s, "Ok")]
  /\ UNCHANGED <<chain, peers, alive, handler, is_syncing, processing, last_seen>>

\* An answer arrives through the reader of the connection, when it is free.
Answers(p) == alive[p] /\ handler[p] = Idle

\* One height of the fork search.  No local block there, a peer that does not
\* have it and a failed request all move on to the height below.
SyncFind(s) ==
  LET h == sync[s].at
      p == sync[s].peer
      asked == h < Len(chain)
  IN
  /\ sync[s].pc = "find"
  /\ h \in SearchHeights(sync[s].local)
  /\ asked => Answers(p) \/ ~alive[p]
  /\ sync' = [sync EXCEPT ![s] =
       IF asked /\ alive[p] /\ OnChain(BlockAt(chain, h), peerChain[p])
       THEN [@ EXCEPT !.pc = "rollback"]
       ELSE [@ EXCEPT !.at = h - 1, !.missed = sync[s].missed \/ ~alive[p]]]
  /\ UNCHANGED <<chain, peers, alive, handler, is_syncing, processing, last_seen>>

\* No height left to ask about: NoForkPoint.
SyncNoFork(s) ==
  /\ sync[s].pc = "find"
  /\ sync[s].at \notin SearchHeights(sync[s].local)
  /\ sync' = [sync EXCEPT ![s] = Ending(s, "NoForkPoint")]
  /\ UNCHANGED <<chain, peers, alive, handler, is_syncing, processing, last_seen>>

\* Blocks are popped until the height is that of the common block.
SyncRollback(s) ==
  /\ sync[s].pc = "rollback"
  /\ chain' = SubSeq(chain, 1, sync[s].at)
  /\ sync' = [sync EXCEPT ![s].pc = "hash"]
  /\ UNCHANGED <<peers, alive, handler, is_syncing, processing, last_seen>>

\* GetBlockHashes for one height; an empty answer skips it.
SyncHash(s) ==
  LET p == sync[s].peer
      h == sync[s].at
  IN
  /\ sync[s].pc = "hash"
  /\ h < sync[s].peerHeight
  /\ Answers(p)
  /\ sync' = [sync EXCEPT ![s] =
       IF h < Len(peerChain[p])
       THEN [pc |-> "block", peer |-> p, peerHeight |-> @.peerHeight,
             local |-> @.local, at |-> h, missed |-> @.missed,
             want |-> BlockAt(peerChain[p], h)]
       ELSE [@ EXCEPT !.at = h + 1, !.missed = TRUE]]
  /\ UNCHANGED <<chain, peers, alive, handler, is_syncing, processing, last_seen>>

\* GetBlock for that hash, then add_block; a refused block ends the sync.
SyncBlock(s) ==
  LET p == sync[s].peer
      b == sync[s].want
      later == [pc |-> "hash", peer |-> p, peerHeight |-> sync[s].peerHeight,
                local |-> sync[s].local, at |-> sync[s].at + 1,
                missed |-> sync[s].missed]
  IN
  /\ sync[s].pc = "block"
  /\ Answers(p)
  /\ \/ /\ ~OnChain(b, peerChain[p])
        /\ sync' = [sync EXCEPT ![s] = [later EXCEPT !.missed = TRUE]]
        /\ UNCHANGED <<chain, last_seen>>
     \/ /\ OnChain(b, peerChain[p])
        /\ Extends(b, chain)
        /\ chain' = b
        /\ last_seen' = b
        /\ sync' = [sync EXCEPT ![s] = later]
     \/ /\ OnChain(b, peerChain[p])
        /\ ~Extends(b, chain)
        /\ sync' = [sync EXCEPT ![s] = Ending(s, "BlockchainError")]
        /\ UNCHANGED <<chain, last_seen>>
  /\ UNCHANGED <<peers, alive, handler, is_syncing, processing>>

\* A request to a connection that broke fails, and the synchronisation with it.
SyncLost(s) ==
  /\ \/ sync[s].pc = "block"
     \/ sync[s].pc = "hash" /\ sync[s].at < sync[s].peerHeight
  /\ ~alive[sync[s].peer]
  /\ sync' = [sync EXCEPT ![s] = Ending(s, "PeerError")]
  /\ UNCHANGED <<chain, peers, alive, handler, is_syncing, processing, last_seen>>

\* Mutant: off by one in the loop that downloads blocks.
SyncCompleteEarly(s) ==
  /\ sync[s].pc = "hash"
  /\ sync[s].at + 1 >= sync[s].peerHeight
  /\ sync' = [sync EXCEPT ![s] = Ending(s, "Ok")]
  /\ UNCHANGED <<chain, peers, alive, handler, is_syncing, processing, last_seen>>

SyncComplete(s) ==
  /\ sync[s].pc = "hash"
  /\ sync[s].at >= sync[s].peerHeight
  /\ sync' = [sync EXCEPT ![s] = Ending(s, "Ok")]
  /\ UNCHANGED <<chain, peers, alive, handler, is_syncing, processing, last_seen>>

SyncUnlock(s) ==
  /\ sync[s].pc = "unlock"
  /\ processing' = Free
  /\ sync' = [sync EXCEPT ![s].pc = "flag"]
  /\ UNCHANGED <<chain, peers, alive, handler, is_syncing, last_seen>>

\* Mutant: a reader that is cancelled keeps the lock.
BrokenKeepsLock(p) ==
  /\ alive' = [alive EXCEPT ![p] = FALSE]
  /\ handler' = [handler EXCEPT ![p] = Idle]
  /\ processing' = processing

\* The future of a reader is dropped with its connection, wherever it waits: a
\* lock it holds is released.
Broken(p) ==
  /\ alive' = [alive EXCEPT ![p] = FALSE]
  /\ handler' = [handler EXCEPT ![p] = Idle]
  /\ processing' = IF processing = p THEN Free ELSE processing

\* Mutant: the flag is not cleared.
SyncClearFlagForgets(s) ==
  /\ sync[s].pc = "flag"
  /\ sync' = [sync EXCEPT ![s].pc = "kill"]
  /\ UNCHANGED <<chain, peers, alive, handler, is_syncing, processing, last_seen>>

SyncClearFlag(s) ==
  /\ sync[s].pc = "flag"
  /\ is_syncing' = FALSE
  /\ sync' = [sync EXCEPT ![s].pc = "kill"]
  /\ UNCHANGED <<chain, peers, alive, handler, processing, last_seen>>

\* A peer that the synchronisation failed with is killed.
SyncEnd(s) ==
  /\ sync[s].pc = "kill"
  /\ sync' = [sync EXCEPT ![s] = NoSync]
  /\ IF sync[s].result # "Ok" THEN Broken(sync[s].peer)
                              ELSE UNCHANGED <<alive, handler, processing>>
  /\ UNCHANGED <<chain, peers, is_syncing, last_seen>>

-----------------------------------------------------------------------------
(* The environment.                                                        *)

Disconnect(p) ==
  /\ PeersFail /\ alive[p]
  /\ Broken(p)
  /\ UNCHANGED <<chain, peers, sync, is_syncing, last_seen>>

\* A peer adds blocks, changes to another branch or is rolling back.
PeerMoves(p) ==
  /\ \E c \in Chains : /\ <<peerChain[p], c>> \in Moves
                       /\ peerChain' = [peerChain EXCEPT ![p] = c]
  /\ UNCHANGED <<chain, capable, alive, handler, sync, is_syncing, processing, last_seen>>

HandlerStep(x) ==
  CheckLastSeen(x) \/ SetLastSeen(x) \/ AcceptBlock(x) \/ FinishAccepting(x)

SyncStep(s) ==
  \/ SyncLock(s) \/ SyncSkip(s) \/ SyncFind(s) \/ SyncNoFork(s)
  \/ SyncRollback(s) \/ SyncHash(s) \/ SyncBlock(s) \/ SyncLost(s)
  \/ SyncComplete(s) \/ SyncUnlock(s) \/ SyncClearFlag(s)
  \/ SyncEnd(s)

Next ==
  \/ ReceiveApiBlock
  \/ \E x \in Task : HandlerStep(x)
  \/ \E p \in Peer : \/ ReceiveNewBlock(p) \/ ReceivePing(p)
                     \/ Disconnect(p) \/ PeerMoves(p)
                     \/ CheckSyncing(p)
                     \/ \E s \in SyncTask : StartSync(p, s)
  \/ \E s \in SyncTask : SyncStep(s)

\* The runtime polls every task that can move, and peers that are connected
\* answer (their answer is part of the step that receives it).  A connected peer
\* pings for ever and its reader takes messages in order, so a ping finds the
\* node ready if it is ready again and again.  The processing lock is given to
\* those who wait for it in turn (tokio), and the answer a synchronisation waits
\* for has its turn among the messages its reader takes.
Fairness ==
  /\ \A x \in Task : WF_vars(HandlerStep(x))
  /\ \A p \in Peer : /\ WF_vars(CheckSyncing(p))
                     /\ WF_vars(\E s \in SyncTask : StartSync(p, s))
  /\ \A s \in SyncTask : SF_vars(SyncStep(s))
  /\ \A x \in Task : SF_vars(AcceptBlock(x))
  /\ \A p \in Peer : SF_vars(ReceivePing(p))

Spec == Init /\ [][Next]_vars
FairSpec == Spec /\ Fairness

-----------------------------------------------------------------------------
Locked == {"find", "skip", "rollback", "hash", "block", "unlock"}
Inside == {x \in Task : handler[x].pc = "spend"}
            \cup {s \in SyncTask : sync[s].pc \in Locked}

\* "Get a lock to make sure that we are not overwriting any blocks by accident":
\* at most one task is between taking and dropping the lock, cancelled readers
\* included.
ExclusiveProcessing == Inside = IF processing = Free THEN {} ELSE {processing}

\* A synchronisation that completes without a question left open ends with at
\* least as many blocks as the peer announced, whatever other tasks were doing.
SyncReachesPeer ==
  \A s \in SyncTask :
    /\ sync[s].pc = "unlock" /\ sync[s].result = "Ok" /\ ~sync[s].missed
    /\ sync[s].peer \in capable
    => Len(chain) >= sync[s].peerHeight

\* sync_to_peer fails with a BlockchainError, for which the peer is killed and
\* punished, only when the peer left the chain this node was following: no block
\* of an honest peer is refused because another task moved the local chain.
RefusedOnlyOnFork ==
  [][\A s \in SyncTask :
       /\ sync[s].pc = "block" /\ ~sync[s].missed
       /\ sync'[s].pc = "unlock" /\ sync'[s].result = "BlockchainError"
       => ~OnChain(chain, peerChain[sync[s].peer])]_vars

\* A step never removes more than MaxReorg - 1 blocks, and never the first.
ReorgBounded ==
  [][/\ Len(chain') >= Len(chain) - (MaxReorg - 1)
     /\ Len(chain) > 0 => Len(chain') > 0 /\ chain'[1] = chain[1]]_vars

\* A synchronisation holds the lock and waits for an answer that only the reader of
\* its connection can bring, and this reader waits for the lock in accept_block.
WaitsForItself ==
  \E s \in SyncTask : processing = s /\ handler[sync[s].peer].pc = "lock"

\* "Wait for any running add block tasks to finish": the task that holds the
\* processing lock gives it back, whatever breaks or fails meanwhile, unless it
\* is a synchronisation that waits for itself.
LockReleased == processing # Free ~> (processing = Free \/ WaitsForItself)

\* A peer that is no full node and is ahead: each of its pings may take the flag
\* for a synchronisation that does nothing.
Distracts(p) == p \notin capable /\ alive[p] /\ Len(chain) + 1 < Len(peerChain[p])

\* A full node that stays connected is followed: in the end its chain is at most
\* one block longer than the local one (the offset a ping tolerates), unless a
\* synchronisation waits for itself or a peer distracts the node from it.
CatchesUp ==
  <>[](\/ WaitsForItself
       \/ \E p \in Peer : Distracts(p)
       \/ \A p \in capable : alive[p] => Len(chain) + 1 >= Len(peerChain[p]))
=============================================================================
