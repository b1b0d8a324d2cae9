-------------------------------- MODULE Ibd ---------------------------------
(***************************************************************************)
(* The initial block download (full_node/ibd.rs) as auto_reconnect runs    *)
(* it: the caller, a downloader that asks all peers for slices of a list   *)
(* of hashes, an applier that adds the blocks to the chain, and threads    *)
(* that check block hashes after the blocks were added.  accept_block runs *)
(* beside them: the download does not take the processing lock.            *)
(*                                                                         *)
(* A block stands for the chain that ends with it, a sequence of labels.   *)
(***************************************************************************)
EXTENDS Naturals, Sequences, FiniteSets, Functions

CONSTANTS
  Peer,             \* connections this node may have
  HashingThreads,   \* hashing_threads
  SafeSkip,         \* IBD_SAFE_SKIP_HASHING
  DownloadBatch,    \* DOWNLOAD_BATCH
  MaxPending,       \* MAX_PENDING
  HashesMax,        \* HASHES_FETCH_MAX_COUNT
  FullIbd,          \* full_ibd
  StartChain,       \* the local chain at the start
  RemoteChains,     \* chains that the first peer may have when it is asked
  BadBlocks,        \* blocks with a hash that is not theirs
  AcceptedBlocks,   \* blocks that accept_block is called with
  None              \* no block, no peer, no result yet

ASSUME IbdAssumption ==
  /\ HashingThreads \in Nat \ {0}
  /\ SafeSkip \in Nat
  /\ IsFiniteSet(Peer) /\ DownloadBatch \in Nat /\ DownloadBatch >= Cardinality(Peer)
  /\ MaxPending \in Nat \ {0}
  /\ HashesMax \in Nat
  /\ FullIbd \in BOOLEAN
  /\ RemoteChains \cup AcceptedBlocks \cup BadBlocks \cup {StartChain} \subseteq Seq(STRING)
  /\ \A h \in 1..Len(StartChain) : SubSeq(StartChain, 1, h) \notin BadBlocks
  /\ None \notin Seq(STRING)

VARIABLES
  conn,         \* [Peer -> "no", "up" or "gone"]
  full,         \* the peers with FULL_NODE_CAPABILITY
  main,         \* ibd_blockchain and its caller
  is_syncing,
  loader,       \* the downloader and its request tasks; blocks: the positions of the
                \* hashes that a task asks for, then of the blocks that came
  queue,        \* downloaded_block channel
  applier,      \* the applier loop
  hashq,        \* validate_hash channel
  hasher,       \* [1..HashingThreads -> a hashing thread]
  stored,       \* the blocks of the store, by height
  accept,       \* a call of accept_block
  missing,      \* history: positions of hashes that came without a block
  overlapped    \* history: two calls of add_block were inside at once

peers == <<conn, full>>
hashing == <<hashq, hasher>>
vars == <<peers, main, is_syncing, loader, queue, applier, hashing, stored,
          accept, missing, overlapped>>

Thread == 1..HashingThreads
Up == {p \in Peer : conn[p] = "up"}
BlockAt(c, h) == SubSeq(c, 1, h + 1)
LastOf(s) == IF s = <<>> THEN <<>> ELSE s[Len(s)]
Extends(b, last) == Len(b) = Len(last) + 1 /\ SubSeq(b, 1, Len(last)) = last

Init ==
  /\ conn \in [Peer -> {"no", "up"}]
  /\ full \in SUBSET Peer
  /\ main = [pc |-> "idle", peer |-> None, local |-> 0, remote |-> 0,
             hashes |-> <<>>, result |-> None]
  /\ is_syncing = FALSE
  /\ loader = [pc |-> "off", next |-> 0, tasks |-> <<>>]
  /\ queue = <<>>
  /\ applier = [pc |-> "off", current |-> 0, block |-> None, speedUp |-> FALSE]
  /\ hashq = <<>>
  /\ hasher = [t \in Thread |-> [pc |-> "off", block |-> None]]
  /\ stored = [h \in 1..Len(StartChain) |-> BlockAt(StartChain, h - 1)]
  /\ accept = None
  /\ missing = {}
  /\ overlapped = FALSE

-----------------------------------------------------------------------------
(* ibd_blockchain up to the point where its three tasks run.               *)

\* The download ends with a result for its caller.
Ended(result) == [main EXCEPT !.pc = "clear", !.result = result]

\* The caller sets the flag; the first peer that is a full node is asked.
\* Without a peer it is an error; unwrap() panics when no peer is a full node,
\* and the flag stays set.
IbdStart ==
  /\ main.pc = "idle"
  /\ is_syncing' = TRUE
  /\ \/ Up = {} /\ main' = Ended("err")
     \/ Up # {} /\ Up \cap full = {} /\ main' = [main EXCEPT !.pc = "panicked"]
     \/ \E p \in Up \cap full :
          main' = [main EXCEPT !.pc = "ping", !.peer = p, !.local = Len(stored)]
  /\ UNCHANGED <<peers, loader, queue, applier, hashing, stored, accept, missing, overlapped>>

\* A request to a connection that ended fails.
IbdLost ==
  /\ main.pc \in {"ping", "hashes"}
  /\ main.peer \notin Up
  /\ main' = Ended("err")
  /\ UNCHANGED <<peers, is_syncing, loader, queue, applier, hashing, stored, accept, missing, overlapped>>

IbdPing ==
  /\ main.pc = "ping" /\ main.peer \in Up
  /\ \E c \in RemoteChains :
       main' = IF Len(c) <= main.local THEN Ended("synced")
               ELSE [main EXCEPT !.pc = "hashes", !.remote = Len(c)]
  /\ UNCHANGED <<peers, is_syncing, loader, queue, applier, hashing, stored, accept, missing, overlapped>>

\* What a peer with chain c answers to GetBlockHashes.
GetBlockHashes(c, start, end) ==
  LET top == IF Len(c) < end THEN Len(c) ELSE end
  IN IF end - start > HashesMax \/ top <= start THEN <<>>
     ELSE [i \in 1..(top - start) |-> BlockAt(c, start + i - 1)]

\* The chain of the peer may have changed since the ping.  An empty list makes
\* hashes[0] panic; otherwise the tasks are spawned.
IbdHashes ==
  /\ main.pc = "hashes" /\ main.peer \in Up
  /\ \E c \in RemoteChains :
       LET hashes == GetBlockHashes(c, main.local, main.remote)
       IN \/ /\ hashes = <<>>
             /\ main' = [main EXCEPT !.pc = "panicked"]
             /\ UNCHANGED <<loader, applier, hasher>>
          \/ /\ hashes # <<>>
             /\ main' = [main EXCEPT !.pc = "hashers", !.hashes = hashes]
             /\ loader' = [loader EXCEPT !.pc = "round"]
             /\ applier' = [applier EXCEPT !.pc = "recv", !.current = main.local]
             /\ hasher' = [t \in Thread |-> [pc |-> "recv", block |-> None]]
  /\ UNCHANGED <<peers, is_syncing, queue, hashq, stored, accept, missing, overlapped>>

-----------------------------------------------------------------------------
(* The downloader.                                                         *)

Total == Len(main.hashes)
ApplierEnded == applier.pc \in {"ok", "err"}

\* The slice of peer i begins where the one before it ends.
SliceStart(ends, i) == IF i = 1 THEN loader.next ELSE ends[i - 1]

\* Where the slices of n full nodes may end: equal shares of the batch at first, then
\* by measured speed (any sizes; a round in which all are zero changes nothing).
SliceEnds(n) ==
  LET share == DownloadBatch \div Cardinality(Up)
      equal == [i \in 1..n |-> IF i * share < Total THEN i * share ELSE Total]
  IN IF loader.next = 0 THEN {equal}
     ELSE {ends \in [1..n -> loader.next..Total] :
             /\ \A i \in 1..n : ends[i] - SliceStart(ends, i) \in 0..DownloadBatch
             /\ ends[n] > loader.next}

\* One request task per full node, each with the next slice of the hashes.
\* Without any peer the division by their number panics; when no peer is a full
\* node the loop goes round without a request.
LoaderRound ==
  /\ loader.pc = "round"
  /\ \/ Up = {} /\ loader' = [loader EXCEPT !.pc = "err"]
     \/ /\ Up \cap full # {}
        /\ LET n == Cardinality(Up \cap full)
           IN \E ends \in SliceEnds(n) :
                loader' = [pc |-> "wait", next |-> ends[n],
                           tasks |-> [i \in 1..n |->
                              [pc |-> "asking", blocks |-> (SliceStart(ends, i) + 1)..ends[i]]]]
  /\ UNCHANGED <<peers, main, is_syncing, queue, applier, hashing, stored, accept, missing, overlapped>>

\* All requests of a task are answered or failed.  Blocks that the peer does not
\* have and requests that failed are left out.
TaskDone(i) ==
  /\ i \in DOMAIN loader.tasks /\ loader.tasks[i].pc = "asking"
  /\ \E got \in SUBSET loader.tasks[i].blocks :
       /\ loader' = [loader EXCEPT !.tasks[i] = [pc |-> "done", blocks |-> got]]
       /\ missing' = missing \cup (loader.tasks[i].blocks \ got)
  /\ UNCHANGED <<peers, main, is_syncing, queue, applier, hashing, stored, accept, overlapped>>

\* Tasks are awaited in the order of their slices and their blocks sent in the order
\* of the hashes; each waits for a place in the channel, and the send fails when the
\* applier has ended.
LoaderSend ==
  LET task == loader.tasks[1] IN
  /\ loader.pc = "wait" /\ loader.tasks # <<>>
  /\ task.pc = "done" /\ task.blocks # {}
  /\ \/ /\ ApplierEnded
        /\ loader' = [loader EXCEPT !.pc = "err", !.tasks = <<>>]
        /\ UNCHANGED queue
     \/ /\ ~ApplierEnded
        /\ Len(queue) < MaxPending
        /\ \E i \in task.blocks :
             /\ \A j \in task.blocks : i <= j
             /\ queue' = Append(queue, main.hashes[i])
             /\ loader' = [loader EXCEPT !.tasks[1].blocks = @ \ {i}]
  /\ UNCHANGED <<peers, main, is_syncing, applier, hashing, stored, accept, missing, overlapped>>

LoaderNext ==
  LET rest == Tail(loader.tasks) IN
  /\ loader.pc = "wait" /\ loader.tasks # <<>>
  /\ loader.tasks[1].pc = "done" /\ loader.tasks[1].blocks = {}
  /\ loader' = [loader EXCEPT !.tasks = rest,
                  !.pc = IF rest # <<>> THEN "wait"
                         ELSE IF loader.next = Total THEN "ok" ELSE "round"]
  /\ UNCHANGED <<peers, main, is_syncing, queue, applier, hashing, stored, accept, missing, overlapped>>

-----------------------------------------------------------------------------
(* add_block: the checks, then the writes, by two tasks without a common   *)
(* lock.                                                                   *)

\* Mutant: the previous hash is not compared.
ValidUnlinked(b, skipHash) == skipHash \/ b \notin BadBlocks

Valid(b, skipHash) ==
  /\ skipHash \/ b \notin BadBlocks
  /\ Extends(b, LastOf(stored))

Applying == applier.pc = "write"
Accepting == accept # None

\* accept_block, called for an API client or a peer.
AcceptBegin ==
  /\ ~Accepting
  /\ \E b \in AcceptedBlocks : Valid(b, FALSE) /\ accept' = b
  /\ overlapped' = (overlapped \/ Applying)
  /\ UNCHANGED <<peers, main, is_syncing, loader, queue, applier, hashing, stored, missing>>

AcceptEnd ==
  /\ Accepting
  /\ stored' = Append(stored, accept)
  /\ accept' = None
  /\ UNCHANGED <<peers, main, is_syncing, loader, queue, applier, hashing, missing, overlapped>>

-----------------------------------------------------------------------------
(* The applier.                                                            *)

\* Hashes are checked later while the end of the download is far.
SpeedUp == ~FullIbd /\ main.remote - applier.current > SafeSkip

ApplierTake ==
  /\ applier.pc = "recv" /\ queue # <<>>
  /\ queue' = Tail(queue)
  /\ LET ok == Valid(Head(queue), SpeedUp)
     IN /\ applier' = [applier EXCEPT !.pc = IF ok THEN "write" ELSE "err",
                         !.block = Head(queue), !.speedUp = SpeedUp]
        /\ overlapped' = (overlapped \/ (ok /\ Accepting))
  /\ UNCHANGED <<peers, main, is_syncing, loader, hashing, stored, accept, missing>>

\* One block is done; the loop ends at the height that the first peer announced.
Counted(a) ==
  [a EXCEPT !.current = @ + 1, !.block = None,
            !.pc = IF a.current + 1 = main.remote THEN "ok" ELSE "recv"]

ApplierWrite ==
  /\ applier.pc = "write"
  /\ stored' = Append(stored, applier.block)
  /\ applier' = IF applier.speedUp THEN [applier EXCEPT !.pc = "send"]
                ELSE Counted(applier)
  /\ UNCHANGED <<peers, main, is_syncing, loader, queue, hashing, accept, missing, overlapped>>

\* The receiver is gone when every thread has ended.
ApplierSend ==
  /\ applier.pc = "send"
  /\ \/ /\ \A t \in Thread : hasher[t].pc = "failed"
        /\ applier' = [applier EXCEPT !.pc = "err"]
        /\ UNCHANGED hashq
     \/ /\ \E t \in Thread : hasher[t].pc # "failed"
        /\ Len(hashq) < HashingThreads
        /\ hashq' = Append(hashq, applier.block)
        /\ applier' = Counted(applier)
  /\ UNCHANGED <<peers, main, is_syncing, loader, queue, hasher, stored, accept, missing, overlapped>>

\* Mutant: the downloader does not close the channel when it is done.
ApplierWaits ==
  /\ applier.pc = "recv" /\ queue = <<>> /\ loader.pc = "err"
  /\ applier' = [applier EXCEPT !.pc = "ok"]
  /\ UNCHANGED <<peers, main, is_syncing, loader, queue, hashing, stored, accept, missing, overlapped>>

\* The channel is closed and empty.
ApplierClosed ==
  /\ applier.pc = "recv" /\ queue = <<>> /\ loader.pc \in {"ok", "err"}
  /\ applier' = [applier EXCEPT !.pc = "ok"]
  /\ UNCHANGED <<peers, main, is_syncing, loader, queue, hashing, stored, accept, missing, overlapped>>

-----------------------------------------------------------------------------
(* The hashing threads share one receiver.                                 *)

HasherTake(t) ==
  /\ hasher[t].pc = "recv" /\ hashq # <<>>
  /\ hasher' = [hasher EXCEPT ![t] = [pc |-> "check", block |-> Head(hashq)]]
  /\ hashq' = Tail(hashq)
  /\ UNCHANGED <<peers, main, is_syncing, loader, queue, applier, stored, accept, missing, overlapped>>

\* Mutant: a thread that found a wrong hash just goes on.
HasherCheckLenient(t) ==
  /\ hasher[t].pc = "check"
  /\ hasher' = [hasher EXCEPT ![t] = [pc |-> "recv", block |-> None]]
  /\ UNCHANGED <<peers, main, is_syncing, loader, queue, applier, hashq, stored, accept, missing, overlapped>>

\* A wrong hash ends the thread with an error; the others go on.
HasherCheck(t) ==
  /\ hasher[t].pc = "check"
  /\ hasher' = [hasher EXCEPT ![t] =
       [pc |-> IF @.block \in BadBlocks THEN "failed" ELSE "recv", block |-> None]]
  /\ UNCHANGED <<peers, main, is_syncing, loader, queue, applier, hashq, stored, accept, missing, overlapped>>

HasherEnd(t) ==
  /\ hasher[t].pc = "recv" /\ hashq = <<>> /\ ApplierEnded
  /\ hasher' = [hasher EXCEPT ![t].pc = "ok"]
  /\ UNCHANGED <<peers, main, is_syncing, loader, queue, applier, hashq, stored, accept, missing, overlapped>>

-----------------------------------------------------------------------------
(* The end: hashers, applier and downloader are awaited in this order, and *)
(* an error returns while the tasks not yet awaited go on.                 *)

\* Mutant: only the downloader is awaited.
AwaitHashersSkipped ==
  /\ main.pc = "hashers" /\ loader.pc = "ok"
  /\ main' = Ended("ok")
  /\ UNCHANGED <<peers, is_syncing, loader, queue, applier, hashing, stored, accept, missing, overlapped>>

\* The threads are joined one after the other.
AwaitHashers ==
  /\ main.pc = "hashers"
  /\ \/ /\ \E t \in Thread : /\ hasher[t].pc = "failed"
                             /\ \A u \in 1..(t - 1) : hasher[u].pc = "ok"
        /\ main' = Ended("err")
     \/ /\ \A t \in Thread : hasher[t].pc = "ok"
        /\ main' = [main EXCEPT !.pc = "applier"]
  /\ UNCHANGED <<peers, is_syncing, loader, queue, applier, hashing, stored, accept, missing, overlapped>>

\* Mutant: the result of the applier is dropped.
AwaitApplierIgnored ==
  /\ main.pc = "applier" /\ ApplierEnded
  /\ main' = [main EXCEPT !.pc = "loader"]
  /\ UNCHANGED <<peers, is_syncing, loader, queue, applier, hashing, stored, accept, missing, overlapped>>

AwaitApplier ==
  /\ main.pc = "applier" /\ ApplierEnded
  /\ main' = IF applier.pc = "err" THEN Ended("err")
             ELSE [main EXCEPT !.pc = "loader"]
  /\ UNCHANGED <<peers, is_syncing, loader, queue, applier, hashing, stored, accept, missing, overlapped>>

AwaitLoader ==
  /\ main.pc = "loader" /\ loader.pc \in {"ok", "err"}
  /\ main' = Ended(loader.pc)
  /\ UNCHANGED <<peers, is_syncing, loader, queue, applier, hashing, stored, accept, missing, overlapped>>

\* The caller clears the flag, whatever the result.
ClearFlag ==
  /\ main.pc = "clear"
  /\ is_syncing' = FALSE
  /\ main' = [main EXCEPT !.pc = "done"]
  /\ UNCHANGED <<peers, loader, queue, applier, hashing, stored, accept, missing, overlapped>>

-----------------------------------------------------------------------------
Join(p) ==
  /\ conn[p] = "no"
  /\ conn' = [conn EXCEPT ![p] = "up"]
  /\ UNCHANGED <<full, main, is_syncing, loader, queue, applier, hashing, stored, accept, missing, overlapped>>

Leave(p) ==
  /\ conn[p] = "up"
  /\ conn' = [conn EXCEPT ![p] = "gone"]
  /\ UNCHANGED <<full, main, is_syncing, loader, queue, applier, hashing, stored, accept, missing, overlapped>>

MainStep ==
  \/ IbdStart \/ IbdLost \/ IbdPing \/ IbdHashes
  \/ AwaitHashers \/ AwaitApplier \/ AwaitLoader \/ ClearFlag
LoaderStep == LoaderRound \/ LoaderSend \/ LoaderNext
ApplierStep == ApplierTake \/ ApplierWrite \/ ApplierSend \/ ApplierClosed
HasherStep(t) == HasherTake(t) \/ HasherCheck(t) \/ HasherEnd(t)

Next ==
  \/ MainStep \/ LoaderStep \/ ApplierStep
  \/ \E i \in 1..Cardinality(Peer) : TaskDone(i)
  \/ \E t \in Thread : HasherStep(t)
  \/ AcceptBegin \/ AcceptEnd
  \/ \E p \in Peer : Join(p) \/ Leave(p)

\* The runtime polls every task that can move; a request is answered or fails.
Fairness ==
  /\ WF_vars(MainStep) /\ WF_vars(LoaderStep) /\ WF_vars(ApplierStep)
  /\ \A i \in 1..Cardinality(Peer) : WF_vars(TaskDone(i))
  /\ \A t \in Thread : WF_vars(HasherStep(t))
  /\ WF_vars(AcceptEnd)

Spec == Init /\ [][Next]_vars
FairSpec == Spec /\ Fairness

-----------------------------------------------------------------------------
\* The blocks of the store follow each other, although they were downloaded from
\* several peers at once and some may be missing, as long as accept_block was not
\* inside add_block together with the applier.
StoredLinked ==
  ~overlapped => \A h \in DOMAIN stored : Extends(stored[h], LastOf(SubSeq(stored, 1, h - 1)))

Finished(result) == main.pc \in {"clear", "done"} /\ main.result = result

\* "We must validate hash": blocks are added before their hashes are checked, but a
\* download that reports success has left no block with a wrong hash behind.
NoWrongHashOnSuccess ==
  Finished("ok") => \A h \in DOMAIN stored : stored[h] \notin BadBlocks

\* "Check if peer downloaded all blocks correctly": a download that reports success
\* has added every block it was sent, and all announced blocks unless the last
\* ones were not sent.
SuccessMeansApplied ==
  Finished("ok") /\ ~overlapped =>
    LET sent == DOMAIN main.hashes \ missing
    IN /\ \A i \in sent : main.hashes[i] \in Range(stored)
       /\ \A i \in missing, j \in sent :
            i < j => main.hashes[i] \in Range(stored)

\* ibd_blockchain does not return while the applier still adds blocks, so that its
\* caller does not clear is_syncing, unless a hashing thread has found a wrong hash.
ApplierUnderFlag ==
  main.pc \in {"clear", "done"} /\ applier.pc \in {"recv", "write", "send"}
    => \E t \in Thread : hasher[t].pc = "failed"

\* The flag is cleared, whatever fails, if in the end there is a full node among
\* the peers (or no peer at all) and the call did not panic.
FlagCleared ==
  <>[](Up = {} \/ Up \cap full # {}) =>
    (is_syncing ~> (~is_syncing \/ main.pc = "panicked"))
=============================================================================
