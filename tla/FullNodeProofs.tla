--------------------------- MODULE FullNodeProofs ---------------------------
(***************************************************************************)
(* Proofs about FullNode, for every set of peers and synchronisations,     *)
(* every chain and every MAX_REORG: the processing lock excludes, and what *)
(* sync_to_peer may conclude from it.                                      *)
(***************************************************************************)
EXTENDS FullNode, SequenceTheorems, TLAPS

Chain == Seq(STRING)

HandlerType ==
  {Idle} \cup
  [pc : {"check", "seen", "lock", "spend", "ping", "start"}, block : Chain]

\* What sync_to_peer has in hand, by the step it is at.
Waiting   == [pc : {"lock"}, peer : Peer, peerHeight : Nat]
Searching == [pc : {"find", "skip", "rollback", "hash"}, peer : Peer,
              peerHeight : Nat, local : Nat, at : Nat, missed : BOOLEAN]
Fetching  == [pc : {"block"}, peer : Peer, peerHeight : Nat, local : Nat,
              at : Nat, missed : BOOLEAN, want : Chain]
Ended     == [pc : {"unlock", "flag", "kill"}, peer : Peer, peerHeight : Nat,
              local : Nat, missed : BOOLEAN,
              result : {"Ok", "NoForkPoint", "BlockchainError", "PeerError"}]

SyncType == {NoSync} \cup Waiting \cup Searching \cup Fetching \cup Ended

TypeOK ==
  /\ chain \in Chain
  /\ peerChain \in [Peer -> Chains]
  /\ capable \subseteq Peer
  /\ alive \in [Peer -> BOOLEAN]
  /\ handler \in [Task -> HandlerType]
  /\ sync \in [SyncTask -> SyncType]
  /\ is_syncing \in BOOLEAN
  /\ processing \in Task \cup SyncTask \cup {Free}

\* What a synchronisation has learnt: while it searches, the height it read under
\* the lock is that of the chain, and the fork point it found is one it searched;
\* while it downloads without an open question, all blocks below `at` are applied.
Knows(s) ==
  /\ sync[s].pc \in {"find", "rollback"} => sync[s].local = Len(chain)
  /\ sync[s].pc = "rollback" => sync[s].at \in SearchHeights(sync[s].local)
  /\ sync[s].pc = "skip" => sync[s].peer \notin capable
  /\ sync[s].pc \in {"hash", "block"} /\ ~sync[s].missed
       => Len(chain) = sync[s].at
  /\ sync[s].pc = "block" => Len(sync[s].want) = sync[s].at + 1
  /\ /\ sync[s].pc = "unlock" /\ sync[s].result = "Ok" /\ ~sync[s].missed
     /\ sync[s].peer \in capable
     => Len(chain) >= sync[s].peerHeight

SyncKnows == \A s \in SyncTask : Knows(s)

IInv == TypeOK /\ ExclusiveProcessing /\ SyncKnows

-----------------------------------------------------------------------------
(* Chains.                                                                 *)

\* The block at a height is one longer than the height.
LEMMA BlockAtType ==
  ASSUME NEW c \in Chain, NEW h \in Nat, h < Len(c)
  PROVE  /\ BlockAt(c, h) \in Chain
         /\ Len(BlockAt(c, h)) = h + 1
BY SubSeqProperties DEF BlockAt, Chain

\* A block that extends a chain keeps what was there.
LEMMA ExtendsKeeps ==
  ASSUME NEW b \in Chain, NEW c \in Chain, Extends(b, c)
  PROVE  /\ Len(b) = Len(c) + 1
         /\ Len(c) > 0 => b[1] = c[1]
<1>1. Len(b) = Len(c) + 1 /\ Len(c) \in Nat /\ SubSeq(b, 1, Len(c)) = c
  BY DEF Extends, Chain
<1>2. Len(c) > 0 => SubSeq(b, 1, Len(c))[1] = b[1]
  BY <1>1, SubSeqProperties DEF Chain
<1> QED BY <1>1, <1>2

\* Heights that are searched lie in the chain, less than MaxReorg below its end.
LEMMA SearchedHeights ==
  ASSUME NEW n \in Nat, NEW h \in SearchHeights(n)
  PROVE  h \in Nat /\ h > 0 /\ h <= n /\ h >= n - (MaxReorg - 1)
BY FullNodeAssumption DEF SearchHeights, Lookback

-----------------------------------------------------------------------------
(* Type correctness.                                                       *)

\* The step a synchronisation is at tells which fields it has.
LEMMA SyncFields ==
  ASSUME TypeOK, NEW s \in SyncTask
  PROVE  /\ sync[s].pc = "lock" => sync[s] \in Waiting
         /\ sync[s].pc \in {"find", "skip", "rollback", "hash"}
              => sync[s] \in Searching
         /\ sync[s].pc = "block" => sync[s] \in Fetching
         /\ sync[s].pc \in {"unlock", "flag", "kill"} => sync[s] \in Ended
BY DEF TypeOK, SyncType, NoSync, Waiting, Searching, Fetching, Ended

\* The same for a task that handles a message.
LEMMA HandlerFields ==
  ASSUME TypeOK, NEW x \in Task, handler[x].pc # "idle"
  PROVE  handler[x] \in [pc : {"check", "seen", "lock", "spend", "ping", "start"},
                         block : Chain]
BY DEF TypeOK, HandlerType, Idle

\* Moving on to another height keeps what a search knows.
LEMMA SearchMoves ==
  ASSUME NEW r \in Searching, NEW h \in Nat, NEW m \in BOOLEAN
  PROVE  [r EXCEPT !.at = h, !.missed = m] \in Searching
BY DEF Searching

\* A reader that is dropped leaves the state well typed.
LEMMA BrokenType ==
  ASSUME TypeOK, NEW p \in Peer, Broken(p)
  PROVE  /\ alive' \in [Peer -> BOOLEAN]
         /\ handler' \in [Task -> HandlerType]
         /\ processing' \in Task \cup SyncTask \cup {Free}
BY DEF TypeOK, Broken, HandlerType, Task

\* Every step leaves the state well typed; a rollback needs to know that the
\* fork point lies in the chain.
LEMMA TypeStep ==
  ASSUME TypeOK, SyncKnows, [Next]_vars
  PROVE  TypeOK'
<1> USE DEF peers
<1>1. CASE ReceiveApiBlock
  BY <1>1, FullNodeAssumption
  DEF TypeOK, ReceiveApiBlock, StartAccepting, Idle, HandlerType, Task, Chain
<1>2. ASSUME NEW x \in Task, CheckLastSeen(x)
      PROVE  TypeOK'
  <2>1. handler'[x] \in HandlerType
    BY <1>2, HandlerFields DEF TypeOK, CheckLastSeen, HandlerType
  <2> QED BY <1>2, <2>1 DEF TypeOK, CheckLastSeen
<1>3. ASSUME NEW x \in Task, SetLastSeen(x)
      PROVE  TypeOK'
  <2>1. handler'[x] \in HandlerType
    BY <1>3, HandlerFields DEF TypeOK, SetLastSeen, HandlerType
  <2> QED BY <1>3, <2>1 DEF TypeOK, SetLastSeen
<1>4. ASSUME NEW x \in Task, AcceptBlock(x)
      PROVE  TypeOK'
  <2>1. handler'[x] \in HandlerType
    BY <1>4, HandlerFields DEF TypeOK, AcceptBlock, HandlerType
  <2>2. chain' \in Chain
    BY <1>4, HandlerFields DEF TypeOK, AcceptBlock
  <2> QED BY <1>4, <2>1, <2>2 DEF TypeOK, AcceptBlock
<1>5. ASSUME NEW x \in Task, FinishAccepting(x)
      PROVE  TypeOK'
  BY <1>5 DEF TypeOK, FinishAccepting, HandlerType
<1>6. ASSUME NEW p \in Peer, ReceiveNewBlock(p)
      PROVE  TypeOK'
  BY <1>6, FullNodeAssumption
  DEF TypeOK, ReceiveNewBlock, StartAccepting, HandlerType, Task, Chain
<1>7. ASSUME NEW p \in Peer, ReceivePing(p)
      PROVE  TypeOK'
  BY <1>7, FullNodeAssumption DEF TypeOK, ReceivePing, HandlerType, Task, Chain
<1>8. ASSUME NEW p \in Peer, CheckSyncing(p)
      PROVE  TypeOK'
  <2>1. handler'[p] \in HandlerType
    BY <1>8, HandlerFields DEF TypeOK, CheckSyncing, HandlerType, Task
  <2> QED BY <1>8, <2>1 DEF TypeOK, CheckSyncing, Task
<1>9. ASSUME NEW p \in Peer, NEW s \in SyncTask, StartSync(p, s)
      PROVE  TypeOK'
  <2>1. sync'[s] \in Waiting
    BY <1>9, HandlerFields DEF TypeOK, StartSync, Waiting, Task, Chain
  <2> QED BY <1>9, <2>1 DEF TypeOK, StartSync, SyncType, HandlerType, Task
<1>10. ASSUME NEW p \in Peer, Disconnect(p)
       PROVE  TypeOK'
  BY <1>10, BrokenType DEF TypeOK, Disconnect
<1>11. ASSUME NEW p \in Peer, PeerMoves(p)
       PROVE  TypeOK'
  BY <1>11 DEF TypeOK, PeerMoves
<1>12. ASSUME NEW s \in SyncTask, SyncLock(s)
       PROVE  TypeOK'
  <2>1. sync'[s] \in Searching
    BY <1>12, SyncFields DEF TypeOK, SyncLock, Waiting, Searching, Chain
  <2> QED BY <1>12, <2>1 DEF TypeOK, SyncLock, SyncType
<1>13. ASSUME NEW s \in SyncTask, sync[s] \in Searching \cup Fetching,
              NEW r \in {"Ok", "NoForkPoint", "BlockchainError", "PeerError"},
              sync' = [sync EXCEPT ![s] = Ending(s, r)],
              UNCHANGED <<chain, peers, alive, handler, is_syncing, processing>>
       PROVE  TypeOK'
  <2>1. sync'[s] \in Ended
    BY <1>13 DEF TypeOK, Ending, Searching, Fetching, Ended
  <2> QED BY <1>13, <2>1 DEF TypeOK, SyncType
<1>14. ASSUME NEW s \in SyncTask,
              SyncSkip(s) \/ SyncNoFork(s) \/ SyncLost(s) \/ SyncComplete(s)
       PROVE  TypeOK'
  <2>1. sync[s] \in Searching \cup Fetching
    BY <1>14, SyncFields DEF SyncSkip, SyncNoFork, SyncLost, SyncComplete
  <2> QED BY <1>13, <1>14, <2>1 DEF SyncSkip, SyncNoFork, SyncLost, SyncComplete
<1>15. ASSUME NEW s \in SyncTask, SyncFind(s)
       PROVE  TypeOK'
  <2>1. sync[s] \in Searching /\ sync[s].at - 1 \in Nat
    <3>1. sync[s] \in Searching
      BY <1>15, SyncFields DEF SyncFind
    <3> QED BY <1>15, <3>1, SearchedHeights DEF SyncFind, Searching
  <2>2. alive[sync[s].peer] \in BOOLEAN
    BY <2>1 DEF TypeOK, Searching
  <2> DEFINE h == sync[s].at
             p == sync[s].peer
             found == /\ h < Len(chain) /\ alive[p]
                      /\ OnChain(BlockAt(chain, h), peerChain[p])
             below == [sync[s] EXCEPT !.at = h - 1,
                                      !.missed = sync[s].missed \/ ~alive[p]]
  <2>3. sync' = [sync EXCEPT ![s] =
                   IF found THEN [sync[s] EXCEPT !.pc = "rollback"] ELSE below]
    BY <1>15 DEF SyncFind
  <2>4. [sync[s] EXCEPT !.pc = "rollback"] \in Searching
    BY <2>1 DEF Searching
  <2>5. (sync[s].missed \/ ~alive[p]) \in BOOLEAN
    OBVIOUS
  <2>6. below \in Searching
    BY <2>1, <2>5, SearchMoves
  <2>7. sync'[s] \in Searching
    <3> HIDE DEF found, below
    <3> QED BY <2>3, <2>4, <2>6 DEF TypeOK
  <2> QED BY <1>15, <2>7 DEF TypeOK, SyncFind, SyncType
<1>16. ASSUME NEW s \in SyncTask, SyncRollback(s)
       PROVE  TypeOK'
  <2>1. sync[s] \in Searching
    BY <1>16, SyncFields DEF SyncRollback
  <2>2. sync'[s] \in Searching
    BY <1>16, <2>1 DEF TypeOK, SyncRollback, Searching
  <2>3. sync[s].at \in 0..Len(chain)
    BY <1>16, <2>1, SearchedHeights
    DEF TypeOK, SyncKnows, Knows, SyncRollback, Searching, Chain
  <2>4. chain' \in Chain
    BY <1>16, <2>3 DEF TypeOK, SyncRollback, Chain
  <2> QED BY <1>16, <2>2, <2>4 DEF TypeOK, SyncRollback, SyncType
<1>17. ASSUME NEW s \in SyncTask, SyncHash(s)
       PROVE  TypeOK'
  <2>1. sync[s] \in Searching
    BY <1>17, SyncFields DEF SyncHash
  <2>2. peerChain[sync[s].peer] \in Chain
    BY <2>1, FullNodeAssumption DEF TypeOK, Searching, Chain
  <2>3. CASE sync[s].at < Len(peerChain[sync[s].peer])
    <3>1. BlockAt(peerChain[sync[s].peer], sync[s].at) \in Chain
      BY <2>1, <2>2, <2>3, BlockAtType DEF Searching
    <3>2. sync'[s] \in Fetching
      BY <1>17, <2>1, <2>3, <3>1 DEF TypeOK, SyncHash, Searching, Fetching
    <3> QED BY <1>17, <3>2 DEF TypeOK, SyncHash, SyncType
  <2>4. CASE ~(sync[s].at < Len(peerChain[sync[s].peer]))
    <3>1. sync'[s] = [sync[s] EXCEPT !.at = sync[s].at + 1, !.missed = TRUE]
      BY <1>17, <2>4 DEF TypeOK, SyncHash
    <3>2. sync[s].at + 1 \in Nat
      BY <2>1 DEF Searching
    <3>3. [sync[s] EXCEPT !.at = sync[s].at + 1, !.missed = TRUE] \in Searching
      BY <2>1, <3>2, SearchMoves
    <3> QED BY <1>17, <3>1, <3>3 DEF TypeOK, SyncHash, SyncType
  <2> QED BY <2>3, <2>4
<1>18. ASSUME NEW s \in SyncTask, SyncBlock(s)
       PROVE  TypeOK'
  <2>1. sync[s] \in Fetching
    BY <1>18, SyncFields DEF SyncBlock
  <2> DEFINE later(m) ==
               [pc |-> "hash", peer |-> sync[s].peer,
                peerHeight |-> sync[s].peerHeight, local |-> sync[s].local,
                at |-> sync[s].at + 1, missed |-> m]
  <2>2. sync'[s] \in {later(TRUE), later(sync[s].missed),
                     Ending(s, "BlockchainError")}
    BY <1>18 DEF TypeOK, SyncBlock
  <2>4. later(TRUE) \in Searching /\ later(sync[s].missed) \in Searching
    BY <2>1 DEF Searching, Fetching
  <2>5. Ending(s, "BlockchainError") \in Ended
    BY <2>1 DEF Ending, Fetching, Ended
  <2>6. sync'[s] \in Searching \cup Ended
    BY <2>2, <2>4, <2>5
  <2>3. chain' \in Chain
    BY <1>18, <2>1 DEF TypeOK, SyncBlock, Fetching
  <2> QED BY <1>18, <2>6, <2>3 DEF TypeOK, SyncBlock, SyncType
<1>19. ASSUME NEW s \in SyncTask, SyncUnlock(s)
       PROVE  TypeOK'
  <2>1. sync[s] \in Ended
    BY <1>19, SyncFields DEF SyncUnlock
  <2>2. sync'[s] \in Ended
    BY <1>19, <2>1 DEF TypeOK, SyncUnlock, Ended
  <2> QED BY <1>19, <2>2 DEF TypeOK, SyncUnlock, SyncType
<1>20. ASSUME NEW s \in SyncTask, SyncClearFlag(s)
       PROVE  TypeOK'
  <2>1. sync[s] \in Ended
    BY <1>20, SyncFields DEF SyncClearFlag
  <2>2. sync'[s] \in Ended
    BY <1>20, <2>1 DEF TypeOK, SyncClearFlag, Ended
  <2> QED BY <1>20, <2>2 DEF TypeOK, SyncClearFlag, SyncType
<1>21. ASSUME NEW s \in SyncTask, SyncEnd(s)
       PROVE  TypeOK'
  <2>1. sync[s].peer \in Peer
    BY <1>21, SyncFields DEF SyncEnd, Ended
  <2>2. /\ alive' \in [Peer -> BOOLEAN]
        /\ handler' \in [Task -> HandlerType]
        /\ processing' \in Task \cup SyncTask \cup {Free}
    BY <1>21, <2>1, BrokenType DEF TypeOK, SyncEnd
  <2> QED BY <1>21, <2>2 DEF TypeOK, SyncEnd, SyncType
<1>22. CASE UNCHANGED vars
  BY <1>22 DEF TypeOK, vars
<1> QED
  BY <1>1, <1>2, <1>3, <1>4, <1>5, <1>6, <1>7, <1>8, <1>9, <1>10, <1>11, <1>12,
     <1>14, <1>15, <1>16, <1>17, <1>18, <1>19, <1>20, <1>21, <1>22
  DEF Next, HandlerStep, SyncStep

-----------------------------------------------------------------------------
(* The processing lock.                                                    *)

\* A step of tasks that neither takes nor drops the lock.
LEMMA LockKept ==
  ASSUME ExclusiveProcessing,
         \A x \in Task : handler'[x].pc = "spend" <=> handler[x].pc = "spend",
         \A s \in SyncTask : sync'[s].pc \in Locked <=> sync[s].pc \in Locked,
         processing' = processing
  PROVE  ExclusiveProcessing'
<1>1. Inside' = Inside
  BY DEF Inside
<1> QED BY <1>1 DEF ExclusiveProcessing

\* A step of one message that leaves the lock alone.
LEMMA HandlerKept ==
  ASSUME TypeOK, ExclusiveProcessing, NEW x \in Task, handler[x].pc # "spend",
         NEW h, h.pc # "spend", handler' = [handler EXCEPT ![x] = h],
         UNCHANGED <<sync, processing>>
  PROVE  ExclusiveProcessing'
BY LockKept DEF TypeOK

\* A task begins with a message.
LEMMA HandlerBegins ==
  ASSUME TypeOK, ExclusiveProcessing, NEW x \in Task, handler[x] = Idle,
         NEW b, NEW k \in {"check", "ping"},
         handler' = [handler EXCEPT ![x] = [pc |-> k, block |-> b]],
         UNCHANGED <<sync, processing>>
  PROVE  ExclusiveProcessing'
<1> DEFINE h == [pc |-> k, block |-> b]
<1>1. handler[x].pc # "spend" /\ h.pc # "spend"
  BY DEF Idle
<1>2. handler' = [handler EXCEPT ![x] = h]
  OBVIOUS
<1> HIDE DEF h
<1> QED BY <1>1, <1>2, HandlerKept

\* A step of one synchronisation that leaves the lock alone.
LEMMA SyncKept ==
  ASSUME TypeOK, ExclusiveProcessing, NEW s \in SyncTask,
         NEW r, r.pc \in Locked <=> sync[s].pc \in Locked,
         sync' = [sync EXCEPT ![s] = r],
         UNCHANGED <<handler, processing>>
  PROVE  ExclusiveProcessing'
BY LockKept DEF TypeOK

\* Who is inside holds the lock, and is inside alone.
LEMMA InsideAlone ==
  ASSUME ExclusiveProcessing
  PROVE  /\ processing = Free => Inside = {}
         /\ \A x \in Inside : processing = x /\ Inside = {x}
BY DEF ExclusiveProcessing

\* A reader that is dropped leaves the lock to others.
LEMMA BrokenExclusive ==
  ASSUME TypeOK, ExclusiveProcessing, NEW p \in Peer, Broken(p),
         \A s \in SyncTask : sync'[s].pc \in Locked <=> sync[s].pc \in Locked
  PROVE  ExclusiveProcessing'
<1>1. p \in Task /\ p \notin SyncTask /\ p # Free
  BY FullNodeAssumption DEF Task
<1>2. Inside' = Inside \ {p}
  BY <1>1 DEF Inside, Broken, TypeOK, Idle
<1>3. CASE processing = p
  BY <1>1, <1>2, <1>3 DEF ExclusiveProcessing, Broken
<1>4. CASE processing # p
  BY <1>1, <1>2, <1>4 DEF ExclusiveProcessing, Broken
<1> QED BY <1>3, <1>4

\* Every step leaves at most the holder of the lock inside.
LEMMA ExclusiveStep ==
  ASSUME TypeOK, ExclusiveProcessing, [Next]_vars
  PROVE  ExclusiveProcessing'
<1> USE DEF Locked
<1>1. CASE ReceiveApiBlock
  <2>1. PICK b \in ApiBlocks : StartAccepting(Api, b)
    BY <1>1 DEF ReceiveApiBlock
  <2> QED BY <2>1, HandlerBegins DEF StartAccepting, Task
<1>2. ASSUME NEW x \in Task, CheckLastSeen(x)
      PROVE  ExclusiveProcessing'
  <2>1. [handler[x] EXCEPT !.pc = "seen"].pc # "spend"
    BY <1>2, HandlerFields DEF CheckLastSeen
  <2> QED BY <1>2, <2>1, HandlerKept DEF CheckLastSeen, Idle
<1>3. ASSUME NEW x \in Task, SetLastSeen(x)
      PROVE  ExclusiveProcessing'
  <2>1. [handler[x] EXCEPT !.pc = "lock"].pc # "spend"
    BY <1>3, HandlerFields DEF SetLastSeen
  <2> QED BY <1>3, <2>1, HandlerKept DEF SetLastSeen
<1>4. ASSUME NEW x \in Task, AcceptBlock(x)
      PROVE  ExclusiveProcessing'
  <2>1. handler[x].pc = "lock" /\ Inside = {} /\ sync' = sync
        /\ x # Free /\ x \notin SyncTask
    BY <1>4, InsideAlone, FullNodeAssumption DEF AcceptBlock, Task
  <2>2. CASE Extends(handler[x].block, chain)
    <3>1. handler' = [handler EXCEPT ![x].pc = "spend"] /\ processing' = x
      BY <1>4, <2>2 DEF AcceptBlock
    <3>2. handler'[x].pc = "spend"
      BY <3>1, <2>1, HandlerFields DEF TypeOK
    <3>3. Inside' = {x}
      BY <2>1, <3>1, <3>2 DEF Inside, TypeOK
    <3> QED BY <2>1, <3>1, <3>3 DEF ExclusiveProcessing
  <2>3. CASE ~Extends(handler[x].block, chain)
    BY <1>4, <2>3, HandlerKept DEF AcceptBlock, Idle
  <2> QED BY <2>2, <2>3
<1>5. ASSUME NEW x \in Task, FinishAccepting(x)
      PROVE  ExclusiveProcessing'
  <2>1. x \in Inside /\ x \notin SyncTask
    BY <1>5, FullNodeAssumption DEF Inside, FinishAccepting, Task
  <2>2. Inside = {x}
    BY <2>1, InsideAlone
  <2>3. Inside' = {}
    BY <1>5, <2>1, <2>2 DEF Inside, FinishAccepting, TypeOK, Idle
  <2> QED BY <1>5, <2>3 DEF ExclusiveProcessing, FinishAccepting
<1>6. ASSUME NEW p \in Peer, ReceiveNewBlock(p)
      PROVE  ExclusiveProcessing'
  BY <1>6, HandlerBegins DEF ReceiveNewBlock, StartAccepting, Task
<1>7. ASSUME NEW p \in Peer, ReceivePing(p)
      PROVE  ExclusiveProcessing'
  BY <1>7, HandlerBegins DEF ReceivePing, Task
<1>8. ASSUME NEW p \in Peer, CheckSyncing(p)
      PROVE  ExclusiveProcessing'
  <2>1. p \in Task /\ [handler[p] EXCEPT !.pc = "start"].pc # "spend"
    BY <1>8, HandlerFields DEF CheckSyncing, Task
  <2> QED BY <1>8, <2>1, HandlerKept DEF CheckSyncing, Idle
<1>9. ASSUME NEW p \in Peer, NEW s \in SyncTask, StartSync(p, s)
      PROVE  ExclusiveProcessing'
  BY <1>9, LockKept DEF StartSync, TypeOK, NoSync, Idle, Task
<1>10. ASSUME NEW p \in Peer, Disconnect(p)
       PROVE  ExclusiveProcessing'
  BY <1>10, BrokenExclusive DEF Disconnect
<1>11. ASSUME NEW p \in Peer, PeerMoves(p)
       PROVE  ExclusiveProcessing'
  BY <1>11, LockKept DEF PeerMoves
<1>12. ASSUME NEW s \in SyncTask, SyncLock(s)
       PROVE  ExclusiveProcessing'
  <2>1. Inside = {} /\ s # Free /\ s \notin Task
    BY <1>12, InsideAlone, FullNodeAssumption DEF SyncLock, Task
  <2>2. sync'[s].pc \in {"find", "skip"}
    BY <1>12 DEF SyncLock, TypeOK
  <2>3. Inside' = {s}
    BY <1>12, <2>1, <2>2 DEF Inside, SyncLock, TypeOK
  <2> QED BY <1>12, <2>1, <2>3 DEF ExclusiveProcessing, SyncLock
<1>13. ASSUME NEW s \in SyncTask,
              SyncSkip(s) \/ SyncNoFork(s) \/ SyncLost(s) \/ SyncComplete(s)
       PROVE  ExclusiveProcessing'
  <2>1. PICK r : sync' = [sync EXCEPT ![s] = Ending(s, r)]
    BY <1>13 DEF SyncSkip, SyncNoFork, SyncLost, SyncComplete
  <2>2. sync[s].pc \in Locked /\ UNCHANGED <<handler, processing>>
    BY <1>13 DEF SyncSkip, SyncNoFork, SyncLost, SyncComplete
  <2>3. Ending(s, r).pc \in Locked
    BY DEF Ending
  <2> QED BY <2>1, <2>2, <2>3, SyncKept
<1>14. ASSUME NEW s \in SyncTask, SyncFind(s)
       PROVE  ExclusiveProcessing'
  <2>1. sync[s] \in Searching /\ sync[s].pc = "find"
    BY <1>14, SyncFields DEF SyncFind
  <2>2. sync'[s].pc \in {"find", "rollback"}
    BY <1>14, <2>1 DEF SyncFind, TypeOK, Searching
  <2> QED BY <1>14, <2>1, <2>2, LockKept DEF SyncFind, TypeOK
<1>15. ASSUME NEW s \in SyncTask, SyncRollback(s)
       PROVE  ExclusiveProcessing'
  <2>1. [sync[s] EXCEPT !.pc = "hash"].pc = "hash"
    BY <1>15, SyncFields DEF SyncRollback, Searching
  <2> QED BY <1>15, <2>1, SyncKept DEF SyncRollback
<1>16. ASSUME NEW s \in SyncTask, SyncHash(s)
       PROVE  ExclusiveProcessing'
  <2>1. sync[s] \in Searching /\ sync[s].pc = "hash"
    BY <1>16, SyncFields DEF SyncHash
  <2>2. sync'[s].pc \in {"hash", "block"}
    BY <1>16, <2>1 DEF SyncHash, TypeOK, Searching
  <2> QED BY <1>16, <2>1, <2>2, LockKept DEF SyncHash, TypeOK
<1>17. ASSUME NEW s \in SyncTask, SyncBlock(s)
       PROVE  ExclusiveProcessing'
  <2>1. sync[s].pc = "block" /\ sync'[s].pc \in {"hash", "unlock"}
    BY <1>17 DEF SyncBlock, Ending, TypeOK
  <2> QED BY <1>17, <2>1, LockKept DEF SyncBlock, TypeOK
<1>18. ASSUME NEW s \in SyncTask, SyncUnlock(s)
       PROVE  ExclusiveProcessing'
  <2>1. s \in Inside /\ s \notin Task
    BY <1>18, FullNodeAssumption DEF Inside, SyncUnlock, Task
  <2>2. Inside = {s}
    BY <2>1, InsideAlone
  <2>3. sync'[s].pc = "flag"
    BY <1>18, SyncFields DEF SyncUnlock, TypeOK, Ended
  <2>4. Inside' = {}
    BY <1>18, <2>1, <2>2, <2>3 DEF Inside, SyncUnlock, TypeOK
  <2> QED BY <1>18, <2>4 DEF ExclusiveProcessing, SyncUnlock
<1>19. ASSUME NEW s \in SyncTask, SyncClearFlag(s)
       PROVE  ExclusiveProcessing'
  <2>1. [sync[s] EXCEPT !.pc = "kill"].pc = "kill"
    BY <1>19, SyncFields DEF SyncClearFlag, Ended
  <2> QED BY <1>19, <2>1, SyncKept DEF SyncClearFlag
<1>20. ASSUME NEW s \in SyncTask, SyncEnd(s)
       PROVE  ExclusiveProcessing'
  <2>1. \A t \in SyncTask : sync'[t].pc \in Locked <=> sync[t].pc \in Locked
    BY <1>20 DEF SyncEnd, NoSync, TypeOK
  <2>2. sync[s].peer \in Peer
    BY <1>20, SyncFields DEF SyncEnd, Ended
  <2> QED BY <1>20, <2>1, <2>2, LockKept, BrokenExclusive DEF SyncEnd
<1>21. CASE UNCHANGED vars
  BY <1>21, LockKept DEF vars
<1> QED
  BY <1>1, <1>2, <1>3, <1>4, <1>5, <1>6, <1>7, <1>8, <1>9, <1>10, <1>11, <1>12,
     <1>13, <1>14, <1>15, <1>16, <1>17, <1>18, <1>19, <1>20, <1>21
  DEF Next, HandlerStep, SyncStep

-----------------------------------------------------------------------------
(* What a synchronisation knows.                                           *)

\* A synchronisation is started, or moves by itself.
LEMMA SyncMoves ==
  ASSUME TypeOK, [Next]_vars, NEW t \in SyncTask
  PROVE  \/ sync'[t] = sync[t]
         \/ SyncStep(t)
         \/ \E p \in Peer : StartSync(p, t)
<1>1. ASSUME NEW s \in SyncTask, SyncStep(s), s # t
      PROVE  sync'[t] = sync[t]
  BY <1>1
  DEF TypeOK, SyncStep, SyncLock, SyncSkip, SyncFind, SyncNoFork, SyncRollback,
      SyncHash, SyncBlock, SyncLost, SyncComplete, SyncUnlock, SyncClearFlag,
      SyncEnd
<1>2. ASSUME NEW p \in Peer, NEW s \in SyncTask, StartSync(p, s), s # t
      PROVE  sync'[t] = sync[t]
  BY <1>2 DEF TypeOK, StartSync
<1>3. \/ sync' = sync
      \/ \E s \in SyncTask : SyncStep(s)
      \/ \E p \in Peer, s \in SyncTask : StartSync(p, s)
  BY DEF Next, HandlerStep, ReceiveApiBlock, StartAccepting, CheckLastSeen,
         SetLastSeen, AcceptBlock, FinishAccepting, ReceiveNewBlock, ReceivePing,
         CheckSyncing, Disconnect, PeerMoves, vars
<1> QED BY <1>1, <1>2, <1>3

\* While a synchronisation holds the lock, no other task changes the chain.
LEMMA HolderAlone ==
  ASSUME ExclusiveProcessing, [Next]_vars, chain' # chain,
         NEW t \in SyncTask, sync[t].pc \in Locked
  PROVE  SyncRollback(t) \/ SyncBlock(t)
<1>1. t \in Inside
  BY DEF Inside
<1>2. ASSUME NEW x \in Task, AcceptBlock(x)
      PROVE  FALSE
  BY <1>1, <1>2, InsideAlone DEF AcceptBlock
<1>3. ASSUME NEW s \in SyncTask, SyncRollback(s) \/ SyncBlock(s)
      PROVE  s = t
  <2>1. s \in Inside
    BY <1>3 DEF Inside, Locked, SyncRollback, SyncBlock
  <2> QED BY <1>1, <2>1, InsideAlone
<1>4. \/ \E x \in Task : AcceptBlock(x)
      \/ \E s \in SyncTask : SyncRollback(s) \/ SyncBlock(s)
  BY DEF Next, HandlerStep, SyncStep, ReceiveApiBlock, StartAccepting,
         CheckLastSeen, SetLastSeen, FinishAccepting, ReceiveNewBlock, ReceivePing,
         CheckSyncing, StartSync, Disconnect, PeerMoves, SyncLock, SyncSkip,
         SyncFind, SyncNoFork, SyncHash, SyncLost, SyncComplete, SyncUnlock,
         SyncClearFlag, SyncEnd, vars
<1> QED BY <1>2, <1>3, <1>4

\* The chain of a synchronisation that does not move is not moved either.
LEMMA KnowsKept ==
  ASSUME ExclusiveProcessing, [Next]_vars, NEW t \in SyncTask, Knows(t),
         sync'[t] = sync[t],
         ~SyncRollback(t), ~SyncBlock(t)
  PROVE  Knows(t)'
<1>1. capable' = capable
  BY DEF Next, HandlerStep, SyncStep, ReceiveApiBlock, StartAccepting,
         CheckLastSeen, SetLastSeen, AcceptBlock, FinishAccepting,
         ReceiveNewBlock, ReceivePing, CheckSyncing, StartSync, Disconnect,
         PeerMoves, SyncLock, SyncSkip, SyncFind, SyncNoFork, SyncRollback,
         SyncHash, SyncBlock, SyncLost, SyncComplete, SyncUnlock, SyncClearFlag,
         SyncEnd, vars, peers
<1>2. chain' = chain \/ sync[t].pc \notin Locked
  BY HolderAlone
<1> QED BY <1>1, <1>2 DEF Knows, Locked

\* A step of a synchronisation teaches it what it then relies on.
LEMMA KnowsStep ==
  ASSUME TypeOK, ExclusiveProcessing, SyncKnows, NEW s \in SyncTask, SyncStep(s)
  PROVE  Knows(s)'
<1>0. Knows(s) /\ Len(chain) \in Nat
  BY DEF SyncKnows, TypeOK, Chain
<1>1. CASE SyncLock(s)
  BY <1>1 DEF SyncLock, TypeOK, Knows, peers
<1>2. CASE SyncSkip(s)
  <2>1. sync'[s] = Ending(s, "Ok") /\ sync[s].pc = "skip" /\ capable' = capable
    BY <1>2 DEF SyncSkip, TypeOK, peers
  <2> QED BY <1>0, <2>1 DEF Knows, Ending
<1>3. CASE SyncFind(s)
  <2>1. sync[s] \in Searching /\ sync[s].pc = "find"
        /\ sync[s].at \in SearchHeights(sync[s].local)
    BY <1>3, SyncFields DEF SyncFind
  <2>2. /\ sync'[s].pc = "rollback" => sync'[s].at = sync[s].at
        /\ sync'[s].pc \in {"find", "rollback"}
        /\ sync'[s].local = sync[s].local
        /\ chain' = chain
    BY <1>3, <2>1 DEF SyncFind, TypeOK, Searching
  <2> QED BY <1>0, <2>1, <2>2 DEF Knows, SearchHeights, Lookback
<1>4. CASE SyncNoFork(s)
  <2>1. sync'[s] = Ending(s, "NoForkPoint")
    BY <1>4 DEF SyncNoFork, TypeOK
  <2> QED BY <2>1 DEF Knows, Ending
<1>5. CASE SyncRollback(s)
  <2>1. sync[s] \in Searching /\ sync[s].pc = "rollback"
    BY <1>5, SyncFields DEF SyncRollback
  <2>2. sync[s].at \in 1..Len(chain)
    BY <1>0, <2>1, SearchedHeights DEF Knows, Searching
  <2>3. Len(chain') = sync[s].at
    BY <1>5, <2>2, SubSeqProperties DEF SyncRollback, TypeOK, Chain
  <2>4. sync'[s].pc = "hash" /\ sync'[s].at = sync[s].at
    BY <1>5, <2>1 DEF SyncRollback, TypeOK, Searching
  <2> QED BY <2>3, <2>4 DEF Knows
<1>6. CASE SyncHash(s)
  <2> DEFINE c == peerChain[sync[s].peer]
  <2>1. sync[s] \in Searching /\ sync[s].pc = "hash"
    BY <1>6, SyncFields DEF SyncHash
  <2>2. c \in Chain
    BY <2>1, FullNodeAssumption DEF TypeOK, Searching, Chain
  <2>3. CASE sync[s].at < Len(c)
    <3>1. Len(BlockAt(c, sync[s].at)) = sync[s].at + 1
      BY <2>1, <2>2, <2>3, BlockAtType DEF Searching
    <3>2. /\ sync'[s].pc = "block" /\ sync'[s].at = sync[s].at
          /\ sync'[s].missed = sync[s].missed
          /\ sync'[s].want = BlockAt(c, sync[s].at)
          /\ chain' = chain
      BY <1>6, <2>3 DEF SyncHash, TypeOK
    <3> QED BY <1>0, <2>1, <3>1, <3>2 DEF Knows
  <2>4. CASE ~(sync[s].at < Len(c))
    <3>1. sync'[s] = [sync[s] EXCEPT !.at = sync[s].at + 1, !.missed = TRUE]
      BY <1>6, <2>4 DEF TypeOK, SyncHash
    <3>2. sync'[s].pc = "hash" /\ sync'[s].missed = TRUE
      BY <2>1, <3>1 DEF Searching
    <3> QED BY <3>2 DEF Knows
  <2> QED BY <2>3, <2>4
<1>7. CASE SyncBlock(s)
  <2> DEFINE later(m) ==
               [pc |-> "hash", peer |-> sync[s].peer,
                peerHeight |-> sync[s].peerHeight, local |-> sync[s].local,
                at |-> sync[s].at + 1, missed |-> m]
  <2>1. sync[s] \in Fetching /\ sync[s].pc = "block"
    BY <1>7, SyncFields DEF SyncBlock
  <2>2. CASE sync'[s] = later(TRUE)
    BY <2>2 DEF Knows
  <2>3. CASE sync'[s] = later(sync[s].missed) /\ chain' = sync[s].want
    BY <1>0, <2>1, <2>3 DEF Knows
  <2>4. CASE sync'[s] = Ending(s, "BlockchainError")
    BY <2>4 DEF Knows, Ending
  <2> QED BY <1>7, <2>2, <2>3, <2>4 DEF SyncBlock, TypeOK
<1>8. CASE SyncLost(s)
  <2>1. sync'[s] = Ending(s, "PeerError")
    BY <1>8 DEF SyncLost, TypeOK
  <2> QED BY <2>1 DEF Knows, Ending
<1>9. CASE SyncComplete(s)
  <2>1. sync[s] \in Searching /\ sync[s].pc = "hash"
        /\ sync[s].at >= sync[s].peerHeight
    BY <1>9, SyncFields DEF SyncComplete
  <2>2. sync'[s] = Ending(s, "Ok") /\ chain' = chain
    BY <1>9 DEF SyncComplete, TypeOK
  <2> QED BY <1>0, <2>1, <2>2 DEF Knows, Ending
<1>10. CASE SyncUnlock(s) \/ SyncClearFlag(s)
  <2>1. sync'[s].pc \in {"flag", "kill"}
    BY <1>10, SyncFields DEF SyncUnlock, SyncClearFlag, TypeOK, Ended
  <2> QED BY <2>1 DEF Knows
<1>11. CASE SyncEnd(s)
  BY <1>11 DEF SyncEnd, TypeOK, Knows, NoSync
<1> QED
  BY <1>1, <1>2, <1>3, <1>4, <1>5, <1>6, <1>7, <1>8, <1>9, <1>10, <1>11
  DEF SyncStep

\* Every step leaves every synchronisation with what it relies on.
LEMMA SyncKnowsStep ==
  ASSUME TypeOK, ExclusiveProcessing, SyncKnows, [Next]_vars
  PROVE  SyncKnows'
<1>1. SUFFICES ASSUME NEW t \in SyncTask
               PROVE  Knows(t)'
  BY DEF SyncKnows
<1>2. Knows(t)
  BY DEF SyncKnows
<1>3. ASSUME NEW p \in Peer, StartSync(p, t)
      PROVE  Knows(t)'
  BY <1>3 DEF StartSync, TypeOK, Knows
<1>4. CASE SyncStep(t)
  BY <1>4, KnowsStep
<1>5. CASE sync'[t] = sync[t] /\ ~SyncStep(t)
  BY <1>2, <1>5, KnowsKept DEF SyncStep
<1> QED BY <1>3, <1>4, <1>5, SyncMoves

\* The node starts in a state that satisfies the invariant.
LEMMA InitIInv == Init => IInv
<1> SUFFICES ASSUME Init
             PROVE  IInv
  OBVIOUS
<1>1. TypeOK
  BY FullNodeAssumption
  DEF Init, TypeOK, Chain, HandlerType, SyncType
<1>2. Inside = {}
  BY DEF Init, Inside, Idle, NoSync, Locked
<1>3. SyncKnows
  BY DEF Init, SyncKnows, Knows, NoSync
<1> QED BY <1>1, <1>2, <1>3 DEF IInv, ExclusiveProcessing, Init

\* The invariant is inductive.
LEMMA NextIInv == IInv /\ [Next]_vars => IInv'
BY TypeStep, ExclusiveStep, SyncKnowsStep DEF IInv

\* The invariant holds in every reachable state.
THEOREM Inductive == Spec => []IInv
<1> QED BY InitIInv, NextIInv, PTL DEF Spec

-----------------------------------------------------------------------------
(* The theorems.                                                           *)

\* The lock of NodeState::processing: whatever breaks, whoever is cancelled and
\* however the tasks interleave, at most one task is between taking and dropping
\* it, and the lock is free when none is.
THEOREM LockExcludes == Spec => []ExclusiveProcessing
<1>1. IInv => ExclusiveProcessing
  BY DEF IInv
<1> QED BY <1>1, Inductive, PTL

\* A sync_to_peer that returns Ok with all of its questions answered has brought
\* the chain to the height the peer announced.
THEOREM SyncReaches == Spec => []SyncReachesPeer
<1>1. IInv => SyncReachesPeer
  BY DEF IInv, SyncKnows, Knows, SyncReachesPeer
<1> QED BY <1>1, Inductive, PTL

\* The peer of a synchronisation is only blamed for a block that does not fit
\* when it left the chain this node followed.
THEOREM BlamedOnlyOnFork == Spec => RefusedOnlyOnFork
<1> DEFINE A == \A s \in SyncTask :
                  /\ sync[s].pc = "block" /\ ~sync[s].missed
                  /\ sync'[s].pc = "unlock" /\ sync'[s].result = "BlockchainError"
                  => ~OnChain(chain, peerChain[sync[s].peer])
<1>1. ASSUME IInv, Next, NEW s \in SyncTask,
             sync[s].pc = "block", ~sync[s].missed,
             sync'[s].pc = "unlock", sync'[s].result = "BlockchainError"
      PROVE  ~OnChain(chain, peerChain[sync[s].peer])
  <2> DEFINE c == peerChain[sync[s].peer]
  <2>1. sync[s] \in Fetching /\ Len(chain) = sync[s].at
        /\ Len(sync[s].want) = Len(chain) + 1
    BY <1>1, SyncFields DEF IInv, SyncKnows, Knows
  <2>2. SyncStep(s)
    <3>1. \A p \in Peer : ~StartSync(p, s)
      BY <1>1 DEF StartSync, NoSync
    <3>2. sync'[s] # sync[s]
      BY <1>1
    <3> QED BY <1>1, <3>1, <3>2, SyncMoves DEF IInv
  <2>3. SyncBlock(s) \/ SyncLost(s)
    BY <1>1, <2>2
    DEF SyncStep, SyncLock, SyncSkip, SyncFind, SyncNoFork, SyncRollback, SyncHash,
        SyncComplete, SyncUnlock, SyncClearFlag, SyncEnd
  <2>4. ~SyncLost(s)
    BY <1>1 DEF SyncLost, Ending, IInv, TypeOK
  <2>5. OnChain(sync[s].want, c) /\ ~Extends(sync[s].want, chain)
    BY <1>1, <2>3, <2>4 DEF SyncBlock, IInv, TypeOK
  <2>6. ASSUME OnChain(chain, c)
        PROVE  Extends(sync[s].want, chain)
    <3>1. c \in Chain /\ chain \in Chain
      BY <1>1, <2>1, FullNodeAssumption DEF IInv, TypeOK, Fetching, Chain
    <3>2. chain = SubSeq(c, 1, Len(chain))
          /\ sync[s].want = SubSeq(c, 1, Len(chain) + 1)
          /\ Len(chain) + 1 <= Len(c)
      BY <2>1, <2>5, <2>6 DEF OnChain
    <3>3. SubSeq(sync[s].want, 1, Len(chain)) = chain
      BY <3>1, <3>2 DEF Chain
    <3> QED BY <2>1, <3>3 DEF Extends
  <2> QED BY <2>5, <2>6
<1>2. IInv /\ [Next]_vars => [A]_vars
  BY <1>1
<1> HIDE DEF A
<1>3. Spec => [][A]_vars
  BY <1>2, Inductive, PTL DEF Spec
<1> QED BY <1>3 DEF RefusedOnlyOnFork, A

\* MAX_REORG bounds what one step takes away from the chain, and the first block
\* stays for ever.
THEOREM ReorgIsBounded == Spec => ReorgBounded
<1> DEFINE A == /\ Len(chain') >= Len(chain) - (MaxReorg - 1)
                /\ Len(chain) > 0 => Len(chain') > 0 /\ chain'[1] = chain[1]
<1>0. IInv => chain \in Chain /\ Len(chain) \in Nat
  BY DEF IInv, TypeOK, Chain
<1>1. ASSUME IInv, chain' = chain
      PROVE  A
  BY <1>0, <1>1, FullNodeAssumption
<1>2. ASSUME IInv, NEW x \in Task, AcceptBlock(x)
      PROVE  A
  <2>1. handler[x].block \in Chain
    BY <1>2, HandlerFields DEF IInv, AcceptBlock
  <2>2. \/ chain' = chain
        \/ chain' = handler[x].block /\ Extends(handler[x].block, chain)
    BY <1>2 DEF AcceptBlock
  <2> QED BY <1>0, <1>1, <1>2, <2>1, <2>2, ExtendsKeeps, FullNodeAssumption
<1>3. ASSUME IInv, NEW s \in SyncTask, SyncBlock(s)
      PROVE  A
  <2>1. sync[s].want \in Chain
    BY <1>3, SyncFields DEF IInv, SyncBlock, Fetching
  <2>2. \/ chain' = chain
        \/ chain' = sync[s].want /\ Extends(sync[s].want, chain)
    BY <1>3 DEF SyncBlock
  <2> QED BY <1>0, <1>1, <1>3, <2>1, <2>2, ExtendsKeeps, FullNodeAssumption
<1>4. ASSUME IInv, NEW s \in SyncTask, SyncRollback(s)
      PROVE  A
  <2>1. sync[s].at \in SearchHeights(Len(chain)) /\ chain' = SubSeq(chain, 1, sync[s].at)
    BY <1>4 DEF IInv, SyncKnows, Knows, SyncRollback
  <2>2. sync[s].at \in 1..Len(chain) /\ sync[s].at >= Len(chain) - (MaxReorg - 1)
    BY <1>0, <1>4, <2>1, SearchedHeights
  <2>3. Len(chain') = sync[s].at /\ chain'[1] = chain[1]
    BY <1>0, <1>4, <2>1, <2>2, SubSeqProperties DEF Chain
  <2> QED BY <2>2, <2>3
<1>5. ASSUME Next
      PROVE  \/ chain' = chain
             \/ \E x \in Task : AcceptBlock(x)
             \/ \E s \in SyncTask : SyncRollback(s) \/ SyncBlock(s)
  BY <1>5
  DEF Next, HandlerStep, SyncStep, ReceiveApiBlock, StartAccepting,
      CheckLastSeen, SetLastSeen, FinishAccepting, ReceiveNewBlock, ReceivePing,
      CheckSyncing, StartSync, Disconnect, PeerMoves, SyncLock, SyncSkip,
      SyncFind, SyncNoFork, SyncHash, SyncLost, SyncComplete, SyncUnlock,
      SyncClearFlag, SyncEnd
<1>6. IInv /\ [Next]_vars => [A]_vars
  BY <1>1, <1>2, <1>3, <1>4, <1>5
<1> HIDE DEF A
<1>7. Spec => [][A]_vars
  BY <1>6, Inductive, PTL DEF Spec
<1> QED BY <1>7 DEF ReorgBounded, A
=============================================================================
