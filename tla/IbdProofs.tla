------------------------------ MODULE IbdProofs ------------------------------
(***************************************************************************)
(* Proofs about Ibd, for every set of peers, every number of hashing       *)
(* threads, all sizes of batches and channels and all chains: what the     *)
(* store holds while blocks are downloaded from many peers, and what is    *)
(* true of it when the download reports success.                           *)
(***************************************************************************)
EXTENDS Ibd, SequenceTheorems, FiniteSetTheorems,
  WellFoundedInduction, TLAPS

Chain == Seq(STRING)

MainType ==
  [pc : {"idle", "ping", "hashes", "panicked", "hashers", "applier", "loader", "clear", "done"},
   peer : Peer \cup {None}, local : Nat, remote : Nat, hashes : Seq(Chain),
   result : {None, "ok", "err", "synced"}]
TaskType == [pc : {"asking", "done"}, blocks : SUBSET Nat]
LoaderType == [pc : {"off", "round", "wait", "ok", "err"}, next : Nat, tasks : Seq(TaskType)]
ApplierType ==
  [pc : {"off", "recv", "write", "send", "ok", "err"}, current : Nat,
   block : Chain \cup {None}, speedUp : BOOLEAN]
HasherType == [pc : {"off", "recv", "check", "failed", "ok"}, block : Chain \cup {None}]

TypeOK ==
  /\ main \in MainType /\ loader \in LoaderType /\ applier \in ApplierType
  /\ hasher \in [Thread -> HasherType]
  /\ queue \in Seq(Chain) /\ hashq \in Seq(Chain) /\ stored \in Seq(Chain)
  /\ accept \in Chain \cup {None}
  /\ overlapped \in BOOLEAN
  /\ applier.pc \in {"write", "send"} => applier.block \in Chain
  /\ \A t \in Thread : hasher[t].pc = "check" => hasher[t].block \in Chain

\* The tasks are there when the hashes have come, and nothing is under way before.
\* The caller goes on when what it waits for has ended.
Phases ==
  IF applier.pc = "off"
  THEN /\ loader.pc = "off" /\ loader.next = 0 /\ loader.tasks = <<>>
       /\ queue = <<>> /\ hashq = <<>> /\ missing = {} /\ main.hashes = <<>>
       /\ \A t \in Thread : hasher[t].pc = "off"
       /\ main.pc \in {"idle", "ping", "hashes", "panicked", "clear", "done"}
       /\ ~Finished("ok")
  ELSE /\ main.pc \in {"hashers", "applier", "loader", "clear", "done"}
       /\ loader.pc # "off"
       /\ \A t \in Thread : hasher[t].pc # "off"
       /\ \A t \in Thread : hasher[t].pc = "ok" => ApplierEnded /\ hashq = <<>>
       /\ main.pc \in {"clear", "done"} /\ ~ApplierEnded
            => \E t \in Thread : hasher[t].pc = "failed"
       /\ main.pc \in {"applier", "loader"} \/ Finished("ok")
            => \A t \in Thread : hasher[t].pc = "ok"
       /\ main.pc = "loader" \/ Finished("ok") => applier.pc = "ok"
       /\ Finished("ok") => loader.pc = "ok"

\* A wrong hash in the store will be found, or has been.
Suspect(b) ==
  \/ applier.pc = "send" /\ applier.block = b
  \/ \E i \in 1..Len(hashq) : hashq[i] = b
  \/ \E t \in Thread : hasher[t].pc = "check" /\ hasher[t].block = b
  \/ \E t \in Thread : hasher[t].pc = "failed"
Suspects ==
  /\ \A h \in 1..Len(stored) : stored[h] \in BadBlocks => Suspect(stored[h])
  /\ applier.pc = "write" /\ ~applier.speedUp => applier.block \notin BadBlocks
  /\ accept # None => accept \notin BadBlocks

\* Every block of the store is the chain of the blocks before it and itself.
Linked(s) ==
  \A h \in 1..Len(s) : Len(s[h]) = h /\ \A g \in 1..h : s[g] = SubSeq(s[h], 1, g)
Links ==
  ~overlapped =>
    /\ Linked(stored)
    /\ Applying => Extends(applier.block, LastOf(stored))
    /\ Accepting => Extends(accept, LastOf(stored))
    /\ ~(Applying /\ Accepting)

\* The position of a block in the list of hashes.
Pos(b) == Len(b) - main.local
Hashed(b) == Pos(b) \in 1..Total /\ main.hashes[Pos(b)] = b
InHand == applier.pc \in {"write", "send"}
Done == applier.current - main.local

\* The hashes are those of one chain, and the applier stops when it has had as many
\* as were announced.
Announced ==
  /\ \A i \in 1..Total :
       /\ Len(main.hashes[i]) = main.local + i
       /\ \A g \in 1..i : main.hashes[g] = SubSeq(main.hashes[i], 1, main.local + g)
  /\ applier.pc # "off" => Total <= main.remote - main.local

\* Blocks come to the applier in the order of the hashes: those of the first task
\* before those of the next, those in the channel before both.
Ordered ==
  /\ loader.next <= Total
  /\ loader.pc # "wait" => loader.tasks = <<>>
  /\ loader.pc = "ok" => loader.next = Total
  /\ \A u \in 1..Len(loader.tasks) : loader.tasks[u].blocks \subseteq 1..loader.next
  /\ \A u, v \in 1..Len(loader.tasks) : u < v =>
       \A p \in loader.tasks[u].blocks, q \in loader.tasks[v].blocks : p < q
  /\ \A k \in 1..Len(queue) : Hashed(queue[k]) /\ Pos(queue[k]) <= loader.next
  /\ \A k, l \in 1..Len(queue) : k < l => Pos(queue[k]) < Pos(queue[l])
  /\ \A k \in 1..Len(queue), u \in 1..Len(loader.tasks) :
       \A p \in loader.tasks[u].blocks : Pos(queue[k]) < p
  /\ InHand => /\ Hashed(applier.block) /\ Pos(applier.block) <= loader.next
               /\ \A k \in 1..Len(queue) : Pos(applier.block) < Pos(queue[k])
               /\ \A u \in 1..Len(loader.tasks) :
                    \A p \in loader.tasks[u].blocks : Pos(applier.block) < p

\* The applier has counted no block that is still to come.
Counting ==
  applier.pc # "off" =>
    /\ Done \in Int /\ Done <= loader.next
    /\ InHand => Done < Pos(applier.block)
    /\ \A k \in 1..Len(queue) : Done < Pos(queue[k])
    /\ \A u \in 1..Len(loader.tasks) : \A p \in loader.tasks[u].blocks : Done < p
    /\ applier.pc = "ok" =>
         \/ applier.current = main.remote
         \/ queue = <<>> /\ loader.pc \in {"ok", "err"}

\* No block that was sent gets lost on its way.
OnItsWay(p) ==
  \/ \E u \in 1..Len(loader.tasks) : p \in loader.tasks[u].blocks
  \/ \E k \in 1..Len(queue) : queue[k] = main.hashes[p]
  \/ applier.pc = "write" /\ applier.block = main.hashes[p]
  \/ \E h \in 1..Len(stored) : stored[h] = main.hashes[p]
NothingLost ==
  /\ missing \subseteq 1..loader.next
  /\ applier.pc # "err" /\ loader.pc # "err" =>
       \A p \in 1..loader.next : p \in missing \/ OnItsWay(p)

IInv ==
  /\ TypeOK /\ Phases /\ Suspects /\ Links
  /\ Announced /\ Ordered /\ Counting /\ NothingLost

-----------------------------------------------------------------------------
(* Types.                                                                  *)

\* A block of a chain.
LEMMA BlockAtType ==
  ASSUME NEW c \in Chain, NEW h \in Nat, h < Len(c)
  PROVE  BlockAt(c, h) \in Chain /\ Len(BlockAt(c, h)) = h + 1
<1>1. \A i \in 1..(h + 1) : c[i] \in STRING
  BY DEF Chain
<1>2. 1 \in Int /\ h + 1 \in Int /\ h + 1 - 1 + 1 = h + 1
      /\ \A i \in 1..(h + 1) : 1 + i - 1 = i
  OBVIOUS
<1>3. /\ SubSeq(c, 1, h + 1) \in Seq(STRING)
      /\ Len(SubSeq(c, 1, h + 1)) = IF 1 <= h + 1 THEN h + 1 - 1 + 1 ELSE 0
  BY <1>1, <1>2, SubSeqProperties
<1> QED BY <1>2, <1>3 DEF BlockAt, Chain

FollowChain(hashes, c, start, end) ==
  /\ hashes \in Seq(Chain)
  /\ start + Len(hashes) <= end \/ hashes = <<>>
  /\ \A i \in 1..Len(hashes) :
       /\ start + i <= Len(c) /\ hashes[i] = SubSeq(c, 1, start + i)
       /\ Len(hashes[i]) = start + i

\* A prefix of a prefix.
LEMMA PrefixOfPrefix ==
  ASSUME NEW c \in Chain, NEW m \in 1..Len(c), NEW n \in 1..m
  PROVE  SubSeq(SubSeq(c, 1, m), 1, n) = SubSeq(c, 1, n)
<1>1. Len(c) \in Nat
  BY LenProperties DEF Chain
<1>2. SubSeq(SubSeq(c, 1, m), 1, n) = SubSeq(c, 1 + 1 - 1, 1 + n - 1)
  <2>1. 1 \in 1..Len(c) /\ 1 \in 1..(m - 1 + 1) /\ n \in 1..(m - 1 + 1)
    BY <1>1
  <2> QED BY <2>1, SubSeqOfSubSeq DEF Chain
<1>3. 1 + 1 - 1 = 1 /\ 1 + n - 1 = n
  BY <1>1
<1> QED BY <1>2, <1>3

\* The answer to GetBlockHashes: blocks of one chain, one after the other.
LEMMA HashesType ==
  ASSUME NEW c \in Chain, NEW start \in Nat, NEW end \in Nat,
         NEW hashes, hashes = GetBlockHashes(c, start, end)
  PROVE  FollowChain(hashes, c, start, end)
<1> USE DEF FollowChain
<1> DEFINE top == IF Len(c) < end THEN Len(c) ELSE end
<1>1. Len(c) \in Nat /\ top \in Nat /\ top <= Len(c) /\ top <= end
  BY LenProperties DEF Chain
<1>2. CASE end - start > HashesMax \/ top <= start
  BY <1>1, <1>2 DEF GetBlockHashes
<1>3. CASE ~(end - start > HashesMax \/ top <= start)
  <2>1. hashes = [i \in 1..(top - start) |-> BlockAt(c, start + i - 1)]
    BY <1>1, <1>3 DEF GetBlockHashes
  <2>2. ASSUME NEW i \in 1..(top - start)
        PROVE  /\ BlockAt(c, start + i - 1) \in Chain /\ start + i <= Len(c)
               /\ Len(BlockAt(c, start + i - 1)) = start + i
               /\ BlockAt(c, start + i - 1) = SubSeq(c, 1, start + i)
    <3>1. start + i - 1 \in Nat /\ start + i - 1 < Len(c) /\ start + i - 1 + 1 = start + i
      BY <1>1, <1>3
    <3> QED BY <3>1, BlockAtType DEF BlockAt
  <2>3. hashes \in Seq(Chain) /\ Len(hashes) = top - start
    BY <1>1, <1>3, <2>1, <2>2
  <2>4. ASSUME NEW i \in 1..Len(hashes)
        PROVE  /\ start + i <= Len(c) /\ hashes[i] = SubSeq(c, 1, start + i)
               /\ Len(hashes[i]) = start + i
    <3>1. i \in 1..(top - start) /\ hashes[i] = BlockAt(c, start + i - 1)
      BY <2>1, <2>3
    <3> QED BY <2>2, <3>1
  <2>5. start + Len(hashes) <= end
    BY <1>1, <2>3
  <2> QED BY <2>3, <2>4, <2>5
<1> QED BY <1>2, <1>3

\* Steps that only move the caller.
MainMoves ==
  IbdStart \/ IbdLost \/ IbdPing \/ AwaitHashers \/ AwaitApplier \/ AwaitLoader \/ ClearFlag

\* They keep the record of the caller well typed and its hashes as they were.
LEMMA MainMovesType ==
  ASSUME TypeOK, MainMoves
  PROVE  /\ main' \in MainType /\ main'.hashes = main.hashes
         /\ UNCHANGED <<loader, queue, applier, hashing, stored, accept, missing, overlapped>>
<1> USE DEF MainMoves
<1>1. main \in MainType
  BY DEF TypeOK
<1>2. UNCHANGED <<loader, queue, applier, hashing, stored, accept, missing, overlapped>>
  BY DEF IbdStart, IbdLost, IbdPing, AwaitHashers, AwaitApplier, AwaitLoader, ClearFlag
<1>3. ASSUME NEW r \in {"ok", "err", "synced"}, main' = Ended(r)
      PROVE  main' \in MainType /\ main'.hashes = main.hashes
  BY <1>1, <1>3 DEF Ended, MainType
<1>4. ASSUME NEW p \in {"panicked", "applier", "loader", "done"}, main' = [main EXCEPT !.pc = p]
      PROVE  main' \in MainType /\ main'.hashes = main.hashes
  BY <1>1, <1>4 DEF MainType
<1>5. CASE IbdStart
  <2>1. Len(stored) \in Nat
    BY LenProperties DEF TypeOK
  <2>2. ASSUME NEW p \in Up \cap full,
               main' = [main EXCEPT !.pc = "ping", !.peer = p, !.local = Len(stored)]
        PROVE  main' \in MainType /\ main'.hashes = main.hashes
    BY <1>1, <2>1, <2>2 DEF MainType, Up
  <2> QED BY <1>2, <1>3, <1>4, <1>5, <2>2 DEF IbdStart
<1>6. CASE IbdPing
  <2>1. PICK c \in RemoteChains :
          main' = IF Len(c) <= main.local THEN Ended("synced")
                  ELSE [main EXCEPT !.pc = "hashes", !.remote = Len(c)]
    BY <1>6 DEF IbdPing
  <2>2. Len(c) \in Nat
    BY IbdAssumption, LenProperties
  <2>3. ASSUME main' = [main EXCEPT !.pc = "hashes", !.remote = Len(c)]
        PROVE  main' \in MainType /\ main'.hashes = main.hashes
    BY <1>1, <2>2, <2>3 DEF MainType
  <2> QED BY <1>2, <1>3, <2>1, <2>3
<1>7. CASE IbdLost \/ AwaitHashers \/ AwaitApplier \/ AwaitLoader \/ ClearFlag
  BY <1>2, <1>3, <1>4, <1>7 DEF IbdLost, AwaitHashers, AwaitApplier, AwaitLoader, ClearFlag
<1> QED BY <1>2, <1>5, <1>6, <1>7

-----------------------------------------------------------------------------
(* The slices of a round.                                                  *)

\* Every set of natural numbers that is not empty has a least element.
LEMMA Least ==
  ASSUME NEW S \in SUBSET Nat, S # {}
  PROVE  \E m \in S : \A k \in S : m <= k
<1> DEFINE R == StrictSubsetOrdering(Nat)
           T == {1..m : m \in S}
<1>1. T \subseteq FiniteSubsetsOf(Nat)
  <2>1. ASSUME NEW m \in Nat PROVE 1..m \in FiniteSubsetsOf(Nat)
    BY FS_Interval DEF FiniteSubsetsOf
  <2> QED BY <2>1
<1>2. IsWellFoundedOn(R, FiniteSubsetsOf(Nat))
  BY FS_StrictSubsetOrderingWellFounded
<1>3. T # {}
  OBVIOUS
<1> HIDE DEF R
<1>4. \E x \in T : \A y \in T : <<y, x>> \notin R
  <2> HIDE DEF T
  <2> QED BY <1>1, <1>2, <1>3, WFMin
<1>5. PICK m \in S : \A k \in S : <<1..k, 1..m>> \notin R
  BY <1>4
<1>6. ASSUME NEW k \in S, k < m PROVE <<1..k, 1..m>> \in R
  <2>1. 1..k \in SUBSET Nat /\ 1..m \in SUBSET Nat /\ 1..k \subseteq 1..m
    BY <1>6
  <2>2. m \in 1..m /\ m \notin 1..k
    BY <1>6
  <2> QED BY <2>1, <2>2 DEF R, StrictSubsetOrdering
<1>7. \A k \in S : k \in Nat /\ m \in Nat
  OBVIOUS
<1>8. \A k \in S : ~(k < m)
  BY <1>5, <1>6
<1>9. \A k \in S : m <= k
  BY <1>7, <1>8
<1> QED BY <1>9

\* Ends that do not decrease from one to the next do not decrease at all, and
\* every position up to the last end is in the slice of somebody.
LEMMA Slices ==
  ASSUME NEW n \in Nat, NEW from \in Nat, NEW ends \in [1..n -> Nat],
         \A i \in 1..n : IF i = 1 THEN from <= ends[i] ELSE ends[i - 1] <= ends[i]
  PROVE  /\ \A i \in 1..n : from <= ends[i]
         /\ \A i, j \in 1..n : i <= j => ends[i] <= ends[j]
         /\ \A p \in Nat : n # 0 /\ p > from /\ p <= ends[n] =>
              \E i \in 1..n : p <= ends[i] /\ (IF i = 1 THEN from < p ELSE ends[i - 1] < p)
<1>1. ASSUME NEW i \in 1..n PROVE from <= ends[i]
  <2> DEFINE Low == {m \in 1..n : ends[m] < from}
  <2> SUFFICES ASSUME ~(from <= ends[i]) PROVE FALSE
    OBVIOUS
  <2>0. Low \in SUBSET Nat /\ i \in Low
    BY <1>1
  <2>1. PICK m \in Low : \A k \in Low : m <= k
    <3> HIDE DEF Low
    <3> QED BY <2>0, Least
  <2>2. m # 1 /\ m - 1 \in 1..n /\ m - 1 \notin Low
    BY <2>1
  <2> QED BY <2>1, <2>2
<1>2. ASSUME NEW i \in 1..n, NEW j \in 1..n, i <= j PROVE ends[i] <= ends[j]
  <2> DEFINE Low == {m \in i..n : ends[m] < ends[i]}
  <2> SUFFICES ASSUME ~(ends[i] <= ends[j]) PROVE FALSE
    OBVIOUS
  <2>0. Low \in SUBSET Nat /\ j \in Low
    BY <1>2
  <2>1. PICK m \in Low : \A k \in Low : m <= k
    <3> HIDE DEF Low
    <3> QED BY <2>0, Least
  <2>2. m # i /\ m # 1 /\ m - 1 \in i..n /\ m - 1 \notin Low
    BY <2>1
  <2> QED BY <2>1, <2>2
<1>3. ASSUME NEW p \in Nat, n # 0, p > from, p <= ends[n]
      PROVE  \E i \in 1..n : p <= ends[i] /\ (IF i = 1 THEN from < p ELSE ends[i - 1] < p)
  <2> DEFINE High == {m \in 1..n : p <= ends[m]}
  <2>1. High \in SUBSET Nat /\ n \in High
    BY <1>3
  <2>2. PICK m \in High : \A k \in High : m <= k
    <3> HIDE DEF High
    <3> QED BY <2>1, Least
  <2>3. CASE m = 1
    BY <1>3, <2>2, <2>3
  <2>4. CASE m # 1
    <3>1. m - 1 \in 1..n /\ m - 1 \notin High
      BY <2>2, <2>4
    <3> QED BY <2>2, <2>4, <3>1
  <2> QED BY <2>3, <2>4
<1> QED BY <1>1, <1>2, <1>3

\* What LoaderRound chooses: slices that begin after the last round, follow each
\* other and end with the hashes.
LEMMA SlicesFollow ==
  ASSUME TypeOK, Up # {}, loader.next <= Total,
         NEW n \in Nat \ {0}, NEW ends \in SliceEnds(n)
  PROVE  /\ ends \in [1..n -> Nat] /\ ends[n] <= Total /\ loader.next <= ends[n]
         /\ \A i \in 1..n : loader.next <= SliceStart(ends, i) /\ SliceStart(ends, i) \in Nat
                            /\ ends[i] <= ends[n]
         /\ \A i, j \in 1..n : i < j => ends[i] <= SliceStart(ends, j)
         /\ \A p \in Nat : p > loader.next /\ p <= ends[n] =>
              \E i \in 1..n : p \in (SliceStart(ends, i) + 1)..ends[i]
<1>1. loader.next \in Nat /\ Total \in Nat
  BY LenProperties DEF TypeOK, LoaderType, MainType, Total
<1>2. /\ ends \in [1..n -> Nat] /\ ends[n] <= Total
      /\ \A i \in 1..n : IF i = 1 THEN loader.next <= ends[i] ELSE ends[i - 1] <= ends[i]
  <2>1. CASE loader.next = 0
    <3> DEFINE share == DownloadBatch \div Cardinality(Up)
    <3>1. ends = [i \in 1..n |-> IF i * share < Total THEN i * share ELSE Total]
      BY <2>1 DEF SliceEnds
    <3>2. share \in Nat
      <4>1. IsFiniteSet(Up) /\ Cardinality(Up) \in Nat \ {0}
        BY IbdAssumption, FS_Subset, FS_CardinalityType, FS_EmptySet DEF Up
      <4> QED BY <4>1, IbdAssumption
    <3> HIDE DEF share
    <3>3. \A i \in 1..n : i * share \in Nat /\ (i - 1) * share <= i * share
      BY <3>2
    <3> QED BY <1>1, <2>1, <3>1, <3>3
  <2>2. CASE loader.next # 0
    <3>1. /\ ends \in [1..n -> loader.next..Total]
          /\ \A i \in 1..n : ends[i] - SliceStart(ends, i) \in 0..DownloadBatch
      BY <2>2 DEF SliceEnds
    <3>2. \A i \in 1..n : SliceStart(ends, i) \in Nat
      BY <1>1, <3>1 DEF SliceStart
    <3>3. \A i \in 1..n : SliceStart(ends, i) <= ends[i]
      BY <1>1, <3>1, <3>2, IbdAssumption
    <3> QED BY <1>1, <3>1, <3>3 DEF SliceStart
  <2> QED BY <2>1, <2>2
<1>3. /\ \A i \in 1..n : loader.next <= ends[i]
      /\ \A i, j \in 1..n : i <= j => ends[i] <= ends[j]
      /\ \A p \in Nat : n # 0 /\ p > loader.next /\ p <= ends[n] =>
           \E i \in 1..n : p <= ends[i] /\ (IF i = 1 THEN loader.next < p ELSE ends[i - 1] < p)
  BY <1>1, <1>2, Slices
<1>4. \A i \in 1..n : SliceStart(ends, i) = IF i = 1 THEN loader.next ELSE ends[i - 1]
  BY DEF SliceStart
<1>5. \A i \in 1..n : i = 1 \/ i - 1 \in 1..n
  OBVIOUS
<1>6. \A i \in 1..n : loader.next <= SliceStart(ends, i) /\ SliceStart(ends, i) \in Nat
  BY <1>1, <1>2, <1>3, <1>4, <1>5
<1>7. \A i, j \in 1..n : i < j => ends[i] <= SliceStart(ends, j)
  BY <1>3, <1>4, <1>5
<1>8. ASSUME NEW p \in Nat, p > loader.next, p <= ends[n]
      PROVE  \E i \in 1..n : p \in (SliceStart(ends, i) + 1)..ends[i]
  <2>1. PICK i \in 1..n : p <= ends[i] /\ (IF i = 1 THEN loader.next < p ELSE ends[i - 1] < p)
    BY <1>3, <1>8
  <2>2. SliceStart(ends, i) < p /\ SliceStart(ends, i) \in Nat /\ ends[i] \in Nat
    BY <1>2, <1>4, <1>6, <2>1
  <2> QED BY <2>1, <2>2
<1>9. n \in 1..n /\ \A i \in 1..n : i <= n
  OBVIOUS
<1> QED BY <1>2, <1>3, <1>6, <1>7, <1>8, <1>9

-----------------------------------------------------------------------------
(* Steps of the caller.                                                    *)

\* Before the hashes have come there is nothing to keep.
LEMMA OffHolds ==
  TypeOK /\ Phases /\ applier.pc = "off" => Announced /\ Ordered /\ Counting /\ NothingLost
<1> SUFFICES ASSUME TypeOK, Phases, applier.pc = "off"
             PROVE  Announced /\ Ordered /\ Counting /\ NothingLost
  OBVIOUS
<1>1. /\ loader.pc = "off" /\ loader.next = 0 /\ loader.tasks = <<>>
      /\ queue = <<>> /\ missing = {} /\ main.hashes = <<>>
  BY DEF Phases
<1>2. Len(main.hashes) = 0 /\ Len(queue) = 0 /\ Len(loader.tasks) = 0
  BY <1>1
<1>3. Announced
  BY <1>2 DEF Announced, Total
<1>4. Ordered
  BY <1>1, <1>2 DEF Ordered, Total, InHand
<1>5. Counting /\ NothingLost
  BY <1>1 DEF Counting, NothingLost
<1> QED BY <1>3, <1>4, <1>5

\* While the applier works no thread has ended well, and the caller waits for the
\* threads or has given up.
LEMMA Working ==
  ASSUME Phases, applier.pc \in {"recv", "write", "send"}
  PROVE  /\ \A t \in Thread : hasher[t].pc # "ok"
         /\ main.pc \in {"hashers", "clear", "done"} /\ ~Finished("ok")
<1>1. \A t \in Thread : hasher[t].pc # "ok"
  BY DEF Phases, ApplierEnded
<1>2. 1 \in Thread
  BY IbdAssumption DEF Thread
<1> QED BY <1>1, <1>2 DEF Phases

\* Each step of the caller keeps what is said of the phases.
LEMMA MainPhases ==
  ASSUME TypeOK, Phases, MainMoves
  PROVE  /\ Phases'
         /\ applier.pc = "off" \/ UNCHANGED <<main.local, main.remote>>
<1>1. UNCHANGED <<loader, queue, applier, hashing, stored, accept, missing, overlapped>>
  BY MainMovesType
<1>2. main \in MainType /\ applier \in ApplierType
  BY DEF TypeOK
<1>3. main'.hashes = main.hashes
  BY MainMovesType
<1> USE DEF MainType
<1>4. CASE IbdStart \/ IbdPing \/ IbdLost
  <2>1. applier.pc = "off" /\ main.pc \in {"idle", "ping", "hashes"}
    BY <1>4 DEF Phases, IbdStart, IbdPing, IbdLost
  <2>2. main'.pc \in {"ping", "hashes", "panicked", "clear"} /\ ~Finished("ok")'
    BY <1>2, <1>4 DEF IbdStart, IbdPing, IbdLost, Ended, Finished
  <2> QED BY <1>1, <1>3, <2>1, <2>2 DEF Phases, hashing
<1>5. CASE AwaitHashers \/ AwaitApplier \/ AwaitLoader
  <2>1. applier.pc # "off" /\ main.pc \in {"hashers", "applier", "loader"}
    BY <1>5 DEF Phases, AwaitHashers, AwaitApplier, AwaitLoader
  <2>2. UNCHANGED <<main.local, main.remote>>
    BY <1>2, <1>5 DEF AwaitHashers, AwaitApplier, AwaitLoader, Ended
  <2>3. CASE main' = [main EXCEPT !.pc = "applier"] /\ \A t \in Thread : hasher[t].pc = "ok"
    <3>1. main'.pc = "applier" /\ ~Finished("ok")'
      BY <1>2, <2>3 DEF Finished
    <3> QED BY <1>1, <2>1, <2>2, <2>3, <3>1 DEF Phases, hashing, ApplierEnded
  <2>4. CASE main.pc = "applier" /\ applier.pc = "ok" /\ main' = [main EXCEPT !.pc = "loader"]
    <3>1. main'.pc = "loader" /\ ~Finished("ok")'
      BY <1>2, <2>4 DEF Finished
    <3> QED BY <1>1, <2>1, <2>2, <2>4, <3>1 DEF Phases, hashing, ApplierEnded
  <2>5. CASE main' = Ended("err")
    <3>1. main'.pc = "clear" /\ ~Finished("ok")'
      BY <1>2, <2>5 DEF Finished, Ended
    <3>2. ~ApplierEnded => \E t \in Thread : hasher[t].pc = "failed"
      <4>1. CASE AwaitHashers
        <5>1. 1 \in Thread
          BY IbdAssumption DEF Thread
        <5> QED BY <2>1, <4>1, <5>1 DEF Phases, AwaitHashers
      <4>2. CASE AwaitApplier \/ AwaitLoader
        BY <2>1, <4>2 DEF Phases, AwaitApplier, AwaitLoader, ApplierEnded
      <4> QED BY <1>5, <4>1, <4>2
    <3> QED BY <1>1, <2>1, <2>2, <3>1, <3>2 DEF Phases, hashing, ApplierEnded
  <2>6. CASE main.pc = "loader" /\ loader.pc = "ok" /\ main' = Ended("ok")
    <3>1. main'.pc = "clear"
      BY <1>2, <2>6 DEF Ended
    <3> QED BY <1>1, <2>1, <2>2, <2>6, <3>1 DEF Phases, hashing, ApplierEnded
  <2> QED BY <1>5, <2>3, <2>4, <2>5, <2>6 DEF AwaitHashers, AwaitApplier, AwaitLoader, ApplierEnded
<1>6. CASE ClearFlag
  <2>1. main.pc = "clear" /\ main'.pc = "done" /\ main'.result = main.result
        /\ UNCHANGED <<main.local, main.remote>>
    BY <1>2, <1>6 DEF ClearFlag
  <2>2. Finished("ok")' <=> Finished("ok")
    BY <2>1 DEF Finished
  <2> QED BY <1>1, <1>3, <2>1, <2>2 DEF Phases, hashing, ApplierEnded
<1> QED BY <1>4, <1>5, <1>6 DEF MainMoves

\* The caller moves on, or fails, or clears the flag.
LEMMA MainKeeps ==
  ASSUME IInv, MainMoves
  PROVE  IInv'
<1>1. /\ UNCHANGED <<loader, queue, applier, hashing, stored, accept, missing, overlapped>>
      /\ main' \in MainType /\ main'.hashes = main.hashes
  BY MainMovesType DEF IInv
<1>2. TypeOK'
  BY <1>1 DEF IInv, TypeOK, hashing
<1>3. Phases'
  BY MainPhases DEF IInv
<1>4. Suspects'
  BY <1>1 DEF IInv, Suspects, Suspect, hashing
<1>5. Links'
  BY <1>1 DEF IInv, Links, Applying, Accepting
<1>6. Announced' /\ Ordered' /\ Counting' /\ NothingLost'
  <2>1. CASE applier.pc = "off"
    <3>1. applier'.pc = "off"
      BY <1>1, <2>1
    <3>2. (TypeOK /\ Phases /\ applier.pc = "off"
             => Announced /\ Ordered /\ Counting /\ NothingLost)'
      BY OffHolds, PTL
    <3> QED BY <1>2, <1>3, <3>1, <3>2
  <2>2. CASE applier.pc # "off"
    <3>1. UNCHANGED <<main.local, main.remote>>
      BY <2>2, MainPhases DEF IInv
    <3>2. Announced'
      BY <1>1, <3>1 DEF IInv, Announced, Total
    <3>3. Ordered'
      BY <1>1, <3>1 DEF IInv, Ordered, Total, InHand, Hashed, Pos
    <3>4. Counting'
      BY <1>1, <3>1 DEF IInv, Counting, InHand, Done, Pos
    <3>5. NothingLost'
      BY <1>1 DEF IInv, NothingLost, OnItsWay
    <3> QED BY <3>2, <3>3, <3>4, <3>5
  <2> QED BY <2>1, <2>2
<1> QED BY <1>2, <1>3, <1>4, <1>5, <1>6 DEF IInv

\* The hashes have come: the tasks start with nothing in the channels, and no block
\* of the store has a wrong hash.
LEMMA HashesKeeps ==
  ASSUME IInv, IbdHashes
  PROVE  IInv'
<1>1. /\ main \in MainType /\ loader \in LoaderType /\ applier \in ApplierType
      /\ main.pc = "hashes" /\ applier.pc = "off"
      /\ loader.pc = "off" /\ loader.next = 0 /\ loader.tasks = <<>>
      /\ queue = <<>> /\ hashq = <<>> /\ missing = {} /\ main.hashes = <<>>
      /\ \A t \in Thread : hasher[t].pc = "off"
  BY DEF IInv, TypeOK, Phases, IbdHashes
<1>2. UNCHANGED <<queue, hashq, stored, accept, missing, overlapped>>
  BY DEF IbdHashes
<1>3. PICK c \in RemoteChains :
        LET hashes == GetBlockHashes(c, main.local, main.remote)
        IN \/ /\ hashes = <<>>
              /\ main' = [main EXCEPT !.pc = "panicked"]
              /\ UNCHANGED <<loader, applier, hasher>>
           \/ /\ hashes # <<>>
              /\ main' = [main EXCEPT !.pc = "hashers", !.hashes = hashes]
              /\ loader' = [loader EXCEPT !.pc = "round"]
              /\ applier' = [applier EXCEPT !.pc = "recv", !.current = main.local]
              /\ hasher' = [t \in Thread |-> [pc |-> "recv", block |-> None]]
  BY DEF IbdHashes
<1> DEFINE hashes == GetBlockHashes(c, main.local, main.remote)
<1>4. main.local \in Nat /\ main.remote \in Nat
  BY <1>1 DEF MainType
<1>5. c \in Chain
  BY IbdAssumption DEF Chain
<1>a. hashes = GetBlockHashes(c, main.local, main.remote)
  OBVIOUS
<1> HIDE DEF hashes
<1>6. FollowChain(hashes, c, main.local, main.remote)
  BY <1>4, <1>5, <1>a, HashesType
<1>b. /\ hashes \in Seq(Chain)
      /\ main.local + Len(hashes) <= main.remote \/ hashes = <<>>
      /\ \A i \in 1..Len(hashes) :
           /\ main.local + i <= Len(c) /\ hashes[i] = SubSeq(c, 1, main.local + i)
           /\ Len(hashes[i]) = main.local + i
  BY <1>6 DEF FollowChain
<1>7. \A h \in 1..Len(stored) : stored[h] \notin BadBlocks
  BY <1>1 DEF IInv, Suspects, Suspect
<1>8. CASE /\ main' = [main EXCEPT !.pc = "panicked"]
           /\ UNCHANGED <<loader, applier, hasher>>
  <2>1. main' \in MainType /\ main'.hashes = main.hashes /\ main'.pc = "panicked"
    BY <1>1, <1>8 DEF MainType
  <2>2. TypeOK'
    BY <1>2, <1>8, <2>1 DEF IInv, TypeOK
  <2>3. Phases'
    <3>1. ~Finished("ok")'
      BY <2>1 DEF Finished
    <3> QED BY <1>1, <1>2, <1>8, <2>1, <3>1 DEF Phases
  <2>4. Suspects'
    BY <1>2, <1>8 DEF IInv, Suspects, Suspect
  <2>5. Links'
    BY <1>2, <1>8 DEF IInv, Links, Applying, Accepting
  <2>6. (TypeOK /\ Phases /\ applier.pc = "off"
           => Announced /\ Ordered /\ Counting /\ NothingLost)'
    BY OffHolds, PTL
  <2> QED BY <1>1, <1>8, <2>2, <2>3, <2>4, <2>5, <2>6 DEF IInv
<1>9. CASE /\ hashes # <<>>
           /\ main' = [main EXCEPT !.pc = "hashers", !.hashes = hashes]
           /\ loader' = [loader EXCEPT !.pc = "round"]
           /\ applier' = [applier EXCEPT !.pc = "recv", !.current = main.local]
           /\ hasher' = [t \in Thread |-> [pc |-> "recv", block |-> None]]
  <2>1. /\ main' \in MainType /\ main'.hashes = hashes /\ main'.pc = "hashers"
        /\ main'.local = main.local /\ main'.remote = main.remote
    BY <1>1, <1>b, <1>9 DEF MainType
  <2>2. /\ loader' \in LoaderType /\ loader'.pc = "round" /\ loader'.next = 0
        /\ loader'.tasks = <<>>
    BY <1>1, <1>9 DEF LoaderType
  <2>3. /\ applier' \in ApplierType /\ applier'.pc = "recv" /\ applier'.current = main.local
    BY <1>1, <1>4, <1>9 DEF ApplierType
  <2>4. hasher' \in [Thread -> HasherType] /\ \A t \in Thread : hasher'[t].pc = "recv"
    BY <1>9 DEF HasherType
  <2>5. TypeOK'
    BY <1>2, <2>1, <2>2, <2>3, <2>4 DEF IInv, TypeOK
  <2>6. Phases'
    <3>1. ~Finished("ok")'
      BY <2>1 DEF Finished
    <3> QED BY <2>1, <2>2, <2>3, <2>4, <3>1 DEF Phases
  <2>7. Suspects'
    BY <1>2, <1>7, <2>3 DEF IInv, Suspects
  <2>8. Links'
    BY <1>1, <1>2, <2>3 DEF IInv, Links, Applying, Accepting
  <2>9. Announced'
    <3>1. ASSUME NEW i \in 1..Len(hashes), NEW g \in 1..i
          PROVE  hashes[g] = SubSeq(hashes[i], 1, main.local + g)
      <4>1. /\ hashes[i] = SubSeq(c, 1, main.local + i) /\ hashes[g] = SubSeq(c, 1, main.local + g)
            /\ main.local + i <= Len(c) /\ Len(c) \in Nat
            /\ i \in Nat \ {0} /\ g \in Nat \ {0} /\ g <= i
        BY <1>5, <1>b, LenProperties DEF Chain
      <4>2. main.local + i \in 1..Len(c) /\ main.local + g \in 1..(main.local + i)
        <5>1. ASSUME NEW l \in Nat, NEW m \in Nat, l + i <= m, i \in Nat, i > 0,
                     g \in Nat, g > 0, g <= i
              PROVE  l + i \in 1..m /\ l + g \in 1..(l + i)
          BY <5>1
        <5>2. i > 0 /\ g > 0
          BY <4>1
        <5> QED BY <1>4, <4>1, <5>1, <5>2
      <4>3. SubSeq(SubSeq(c, 1, main.local + i), 1, main.local + g) = SubSeq(c, 1, main.local + g)
        BY <1>5, <4>2, PrefixOfPrefix
      <4> QED BY <4>1, <4>3
    <3>2. Len(hashes) <= main.remote - main.local
      BY <1>4, <1>b, <1>9, LenProperties
    <3> QED BY <1>b, <2>1, <3>1, <3>2 DEF Announced, Total
  <2>10. Len(queue') = 0 /\ Len(loader'.tasks) = 0 /\ Len(hashes) \in Nat
    BY <1>1, <1>2, <1>b, <2>2, LenProperties
  <2>11. Ordered'
    BY <1>2, <2>1, <2>2, <2>3, <2>10 DEF Ordered, Total, InHand
  <2>12. Counting'
    BY <1>4, <2>1, <2>2, <2>3, <2>10 DEF Counting, Done, InHand
  <2>13. NothingLost'
    BY <1>1, <1>2, <2>2 DEF NothingLost
  <2> QED BY <2>5, <2>6, <2>7, <2>8, <2>9, <2>11, <2>12, <2>13 DEF IInv
<1> QED BY <1>3, <1>8, <1>9 DEF hashes

-----------------------------------------------------------------------------
(* Steps of the downloader.                                                *)

\* What the downloader does not touch.
LEMMA LoaderFrame ==
  ASSUME IInv, UNCHANGED <<main, applier, hashing, stored, accept, overlapped>>
  PROVE  /\ Suspects' /\ Links' /\ Announced'
         /\ main' \in MainType /\ applier' \in ApplierType
         /\ loader' \in LoaderType /\ queue' \in Seq(Chain) => TypeOK'
         /\ applier.pc # "off" /\ loader.pc \in {"round", "wait"} /\ loader'.pc # "off" => Phases'
<1>1. Suspects' /\ Links' /\ Announced'
  BY DEF IInv, Suspects, Suspect, Links, Applying, Accepting, Announced, Total, hashing
<1>2. main' \in MainType /\ applier' \in ApplierType
      /\ (loader' \in LoaderType /\ queue' \in Seq(Chain) => TypeOK')
  BY DEF IInv, TypeOK, hashing
<1>3. applier.pc # "off" /\ loader.pc \in {"round", "wait"} /\ loader'.pc # "off" => Phases'
  BY DEF IInv, Phases, Finished, ApplierEnded, hashing
<1> QED BY <1>1, <1>2, <1>3

\* A round gives each full node the next slice.
LEMMA RoundKeeps ==
  ASSUME IInv, LoaderRound
  PROVE  IInv'
<1>1. UNCHANGED <<main, applier, hashing, stored, accept, overlapped, queue, missing>>
  BY DEF LoaderRound
<1>2. /\ loader.pc = "round" /\ applier.pc # "off" /\ loader.tasks = <<>> /\ loader.next <= Total
      /\ loader.next \in Nat /\ Total \in Nat /\ loader \in LoaderType
  <2>1. loader.pc = "round" /\ applier.pc # "off"
    BY DEF LoaderRound, IInv, Phases
  <2>2. Total \in Nat /\ loader \in LoaderType
    BY LenProperties DEF IInv, TypeOK, MainType, Total
  <2> QED BY <2>1, <2>2 DEF IInv, Ordered, LoaderType
<1>3. CASE loader' = [loader EXCEPT !.pc = "err"]
  <2>1. loader' \in LoaderType /\ loader'.pc = "err" /\ loader'.next = loader.next
        /\ loader'.tasks = <<>>
    BY <1>2, <1>3 DEF LoaderType
  <2>2. TypeOK' /\ Phases' /\ Suspects' /\ Links' /\ Announced'
    BY <1>1, <1>2, <2>1, LoaderFrame DEF IInv, TypeOK
  <2>3. Ordered'
    BY <1>1, <1>2, <2>1 DEF IInv, Ordered, Total, InHand, Hashed, Pos
  <2>4. Counting'
    BY <1>1, <1>2, <2>1 DEF IInv, Counting, InHand, Done, Pos
  <2>5. NothingLost'
    BY <1>1, <2>1 DEF IInv, NothingLost
  <2> QED BY <2>2, <2>3, <2>4, <2>5 DEF IInv
<1>4. CASE Up \cap full # {} /\ loader'.pc # "err"
  <2> DEFINE n == Cardinality(Up \cap full)
  <2>1. PICK ends \in SliceEnds(n) :
          loader' = [pc |-> "wait", next |-> ends[n],
                     tasks |-> [i \in 1..n |->
                        [pc |-> "asking", blocks |-> (SliceStart(ends, i) + 1)..ends[i]]]]
    BY <1>2, <1>4 DEF LoaderRound, LoaderType
  <2>2. n \in Nat \ {0} /\ Up # {}
    <3>1. IsFiniteSet(Up \cap full)
      BY IbdAssumption, FS_Subset DEF Up
    <3> QED BY <1>4, <3>1, FS_CardinalityType, FS_EmptySet
  <2> HIDE DEF n
  <2>3. /\ ends \in [1..n -> Nat] /\ ends[n] <= Total /\ loader.next <= ends[n]
        /\ \A i \in 1..n : loader.next <= SliceStart(ends, i) /\ SliceStart(ends, i) \in Nat
                           /\ ends[i] <= ends[n]
        /\ \A i, j \in 1..n : i < j => ends[i] <= SliceStart(ends, j)
        /\ \A p \in Nat : p > loader.next /\ p <= ends[n] =>
             \E i \in 1..n : p \in (SliceStart(ends, i) + 1)..ends[i]
    BY <1>2, <2>2, SlicesFollow DEF IInv
  <2> DEFINE slices == [i \in 1..n |->
                 [pc |-> "asking", blocks |-> (SliceStart(ends, i) + 1)..ends[i]]]
  <2>4. /\ slices \in Seq(TaskType) /\ Len(slices) = n
        /\ \A i \in 1..n : slices[i].blocks = (SliceStart(ends, i) + 1)..ends[i]
    <3>1. \A i \in 1..n : slices[i] \in TaskType
      BY <2>3 DEF TaskType
    <3> QED BY <2>2, <3>1
  <2>5. loader'.pc = "wait" /\ loader'.next = ends[n] /\ loader'.tasks = slices
    BY <2>1
  <2>6. loader' \in LoaderType
    BY <2>1, <2>2, <2>3, <2>4 DEF LoaderType
  <2> HIDE DEF slices
  <2>7. TypeOK' /\ Phases' /\ Suspects' /\ Links' /\ Announced'
    BY <1>1, <1>2, <2>5, <2>6, LoaderFrame DEF IInv, TypeOK
  <2>8. \A u \in 1..n : \A p \in slices[u].blocks :
          p \in Nat /\ loader.next < p /\ p <= ends[n]
    BY <1>2, <2>3, <2>4
  <2>9. Ordered'
    <3>1. ends[n] <= Total' /\ Total' = Total
      BY <1>1, <2>3 DEF Total
    <3>2. \A u \in 1..n : slices[u].blocks \subseteq 1..ends[n]
      BY <1>2, <2>2, <2>3, <2>8
    <3>3. \A u, v \in 1..n : u < v =>
            \A p \in slices[u].blocks, q \in slices[v].blocks : p < q
      <4> SUFFICES ASSUME NEW u \in 1..n, NEW v \in 1..n, u < v,
                          NEW p \in slices[u].blocks, NEW q \in slices[v].blocks
                   PROVE  p < q
        OBVIOUS
      <4>1. ends[u] <= SliceStart(ends, v) /\ ends[u] \in Nat /\ SliceStart(ends, v) \in Nat
        BY <2>3
      <4>2. p \in (SliceStart(ends, u) + 1)..ends[u] /\ q \in (SliceStart(ends, v) + 1)..ends[v]
        BY <2>4
      <4>3. SliceStart(ends, u) \in Nat /\ ends[v] \in Nat
        BY <2>3
      <4> QED BY <4>1, <4>2, <4>3
    <3>4. \A k \in 1..Len(queue) : Hashed(queue[k]) /\ Pos(queue[k]) <= loader.next
      BY DEF IInv, Ordered
    <3>5. \A k \in 1..Len(queue) : Pos(queue[k]) \in Int
      BY <3>4 DEF Hashed
    <3>6. \A k \in 1..Len(queue) : /\ Pos(queue[k]) <= ends[n]
                                   /\ \A u \in 1..n : \A p \in slices[u].blocks : Pos(queue[k]) < p
      BY <1>2, <2>2, <2>3, <2>8, <3>4, <3>5
    <3>7. InHand => /\ Pos(applier.block) \in Int /\ Pos(applier.block) <= loader.next
      BY DEF IInv, Ordered, Hashed
    <3>8. InHand => /\ Pos(applier.block) <= ends[n]
                    /\ \A u \in 1..n : \A p \in slices[u].blocks : Pos(applier.block) < p
      BY <1>2, <2>2, <2>3, <2>8, <3>7
    <3> QED BY <1>1, <2>4, <2>5, <3>1, <3>2, <3>3, <3>4, <3>6, <3>8
            DEF IInv, Ordered, InHand, Pos, Hashed, Total
  <2>10. Counting'
    <3>1. Done \in Int /\ Done <= loader.next
      BY <1>2 DEF IInv, Counting
    <3>2. Done <= ends[n] /\ \A u \in 1..n : \A p \in slices[u].blocks : Done < p
      BY <1>2, <2>2, <2>3, <2>8, <3>1
    <3> QED BY <1>1, <1>2, <2>4, <2>5, <3>2 DEF IInv, Counting, InHand, Done, Pos
  <2>11. NothingLost'
    <3>1. missing' \subseteq 1..loader'.next
      BY <1>1, <1>2, <2>2, <2>3, <2>5 DEF IInv, NothingLost
    <3>2. ASSUME applier.pc # "err", NEW p \in 1..ends[n], p \notin missing
          PROVE  OnItsWay(p)'
      <4>1. CASE p <= loader.next
        <5>1. p \in 1..loader.next
          BY <1>2, <4>1
        <5>2. OnItsWay(p)
          BY <1>2, <3>2, <5>1 DEF IInv, NothingLost
        <5>3. Len(loader.tasks) = 0
          BY <1>2
        <5> QED BY <1>1, <5>2, <5>3 DEF OnItsWay
      <4>2. CASE p > loader.next
        <5>1. PICK u \in 1..n : p \in (SliceStart(ends, u) + 1)..ends[u]
          BY <2>2, <2>3, <4>2
        <5> QED BY <2>4, <2>5, <5>1 DEF OnItsWay
      <4> QED BY <1>2, <2>2, <2>3, <4>1, <4>2
    <3> QED BY <1>1, <2>5, <3>1, <3>2 DEF NothingLost
  <2> QED BY <2>7, <2>9, <2>10, <2>11 DEF IInv
<1> QED BY <1>2, <1>3, <1>4 DEF LoaderRound, LoaderType

\* A task has its answers: the blocks that did not come are noted as missing.
LEMMA DoneKeeps ==
  ASSUME IInv, NEW i, TaskDone(i)
  PROVE  IInv'
<1>1. UNCHANGED <<main, applier, hashing, stored, accept, overlapped, queue>>
  BY DEF TaskDone
<1>2. /\ loader \in LoaderType /\ loader.tasks \in Seq(TaskType) /\ i \in 1..Len(loader.tasks)
      /\ Len(loader.tasks) \in Nat /\ loader.next \in Nat
  <2>1. loader \in LoaderType /\ loader.tasks \in Seq(TaskType) /\ loader.next \in Nat
    BY DEF IInv, TypeOK, LoaderType
  <2> QED BY <2>1, LenProperties DEF TaskDone
<1>3. PICK got \in SUBSET loader.tasks[i].blocks :
        /\ loader' = [loader EXCEPT !.tasks[i] = [pc |-> "done", blocks |-> got]]
        /\ missing' = missing \cup (loader.tasks[i].blocks \ got)
  BY DEF TaskDone
<1>4. loader.pc = "wait" /\ applier.pc # "off"
  <2>1. loader.tasks # <<>>
    BY <1>2
  <2> QED BY <2>1 DEF IInv, Phases, Ordered, TypeOK, LoaderType
<1>5. /\ loader' \in LoaderType /\ loader'.pc = "wait" /\ loader'.next = loader.next
      /\ Len(loader'.tasks) = Len(loader.tasks)
      /\ loader'.tasks[i].blocks = got
      /\ \A u \in 1..Len(loader.tasks) : u # i => loader'.tasks[u] = loader.tasks[u]
  <2> DEFINE task == [pc |-> "done", blocks |-> got]
  <2>0. loader.tasks[i] \in TaskType
    BY <1>2, ElementOfSeq
  <2>1. task \in TaskType /\ task.blocks = got
    BY <2>0 DEF TaskType
  <2>2. loader' = [loader EXCEPT !.tasks = [loader.tasks EXCEPT ![i] = task]]
    BY <1>3
  <2> HIDE DEF task
  <2>3. /\ [loader.tasks EXCEPT ![i] = task] \in Seq(TaskType)
        /\ Len([loader.tasks EXCEPT ![i] = task]) = Len(loader.tasks)
        /\ \A u \in 1..Len(loader.tasks) :
             [loader.tasks EXCEPT ![i] = task][u] = IF u = i THEN task ELSE loader.tasks[u]
    BY <1>2, <2>1, ExceptSeq
  <2> QED BY <1>2, <1>4, <2>1, <2>2, <2>3 DEF LoaderType
<1>6. TypeOK' /\ Phases' /\ Suspects' /\ Links' /\ Announced'
  BY <1>1, <1>4, <1>5, LoaderFrame DEF IInv, TypeOK
<1>7. /\ \A u \in 1..Len(loader.tasks) : loader'.tasks[u].blocks \subseteq loader.tasks[u].blocks
      /\ loader.tasks[i].blocks \subseteq 1..loader.next
  BY <1>2, <1>3, <1>5 DEF IInv, Ordered
<1>8. Ordered'
  BY <1>1, <1>4, <1>5, <1>7 DEF IInv, Ordered, InHand, Pos, Hashed, Total
<1>9. Counting'
  BY <1>1, <1>4, <1>5, <1>7 DEF IInv, Counting, InHand, Done, Pos
<1>10. NothingLost'
  <2>1. missing' \subseteq 1..loader'.next
    BY <1>3, <1>5, <1>7 DEF IInv, NothingLost
  <2>2. ASSUME applier.pc # "err", NEW p \in 1..loader.next, p \notin missing'
        PROVE  OnItsWay(p)'
    <3>1. OnItsWay(p)
      BY <1>3, <1>4, <2>2 DEF IInv, NothingLost
    <3>2. ASSUME NEW u \in 1..Len(loader.tasks), p \in loader.tasks[u].blocks
          PROVE  p \in loader'.tasks[u].blocks
      BY <1>3, <1>5, <2>2, <3>2
    <3> QED BY <1>1, <1>5, <3>1, <3>2 DEF OnItsWay
  <2> QED BY <1>1, <1>5, <2>1, <2>2 DEF NothingLost
<1> QED BY <1>6, <1>8, <1>9, <1>10 DEF IInv

\* The next block of the first task is sent, or the channel is found closed.
LEMMA SendKeeps ==
  ASSUME IInv, LoaderSend
  PROVE  IInv'
<1>1. UNCHANGED <<main, applier, hashing, stored, accept, overlapped, missing>>
  BY DEF LoaderSend
<1>2. /\ loader \in LoaderType /\ loader.tasks \in Seq(TaskType) /\ 1 \in 1..Len(loader.tasks)
      /\ Len(loader.tasks) \in Nat /\ loader.next \in Nat /\ Total \in Nat
      /\ loader.pc = "wait" /\ applier.pc # "off" /\ loader.next <= Total
      /\ loader.tasks[1].blocks \subseteq 1..loader.next
  <2>1. loader \in LoaderType /\ loader.tasks \in Seq(TaskType) /\ loader.next \in Nat
    BY DEF IInv, TypeOK, LoaderType
  <2>2. Total \in Nat /\ Len(loader.tasks) \in Nat
    BY <2>1, LenProperties DEF IInv, TypeOK, MainType, Total
  <2>3. 1 \in 1..Len(loader.tasks)
    BY <2>1, <2>2, EmptySeq DEF LoaderSend
  <2> QED BY <2>1, <2>2, <2>3 DEF IInv, LoaderSend, Phases, Ordered
<1>3. CASE ApplierEnded /\ loader' = [loader EXCEPT !.pc = "err", !.tasks = <<>>] /\ UNCHANGED queue
  <2>1. /\ loader' \in LoaderType /\ loader'.pc = "err" /\ loader'.next = loader.next
        /\ loader'.tasks = <<>> /\ Len(loader'.tasks) = 0
    <3>1. loader' = [pc |-> "err", next |-> loader.next, tasks |-> <<>>]
      BY <1>2, <1>3 DEF LoaderType
    <3> QED BY <1>2, <3>1, EmptySeq DEF LoaderType
  <2>2. TypeOK' /\ Phases' /\ Suspects' /\ Links' /\ Announced'
    BY <1>1, <1>2, <1>3, <2>1, LoaderFrame DEF IInv, TypeOK
  <2>3. Ordered'
    BY <1>1, <1>2, <1>3, <2>1 DEF IInv, Ordered, Total, InHand, Hashed, Pos
  <2>4. Counting'
    BY <1>1, <1>2, <1>3, <2>1 DEF IInv, Counting, InHand, Done, Pos
  <2>5. NothingLost'
    BY <1>1, <2>1 DEF IInv, NothingLost
  <2> QED BY <2>2, <2>3, <2>4, <2>5 DEF IInv
<1>4. ASSUME ~ApplierEnded,
             NEW i \in loader.tasks[1].blocks, \A j \in loader.tasks[1].blocks : i <= j,
             queue' = Append(queue, main.hashes[i]),
             loader' = [loader EXCEPT !.tasks[1].blocks = @ \ {i}]
      PROVE  IInv'
  <2>1. i \in 1..loader.next /\ i \in 1..Total
    BY <1>2
  <2>2. /\ main.hashes[i] \in Chain /\ Pos(main.hashes[i]) = i /\ Hashed(main.hashes[i])
    <3>1. main.hashes[i] \in Chain
      BY <2>1, ElementOfSeq DEF IInv, TypeOK, MainType, Total
    <3>2. Len(main.hashes[i]) = main.local + i /\ main.local \in Nat
      BY <2>1 DEF IInv, Announced, TypeOK, MainType
    <3>3. Pos(main.hashes[i]) = i
      BY <2>1, <3>2 DEF Pos
    <3> QED BY <2>1, <3>1, <3>3 DEF Hashed
  <2>3. /\ queue \in Seq(Chain) /\ queue' \in Seq(Chain) /\ Len(queue') = Len(queue) + 1
        /\ Len(queue) \in Nat
        /\ \A k \in 1..Len(queue) : queue'[k] = queue[k]
        /\ queue'[Len(queue) + 1] = main.hashes[i]
    <3>1. queue \in Seq(Chain)
      BY DEF IInv, TypeOK
    <3> QED BY <1>4, <2>2, <3>1, AppendProperties, LenProperties
  <2>4. /\ loader' \in LoaderType /\ loader'.pc = "wait" /\ loader'.next = loader.next
        /\ Len(loader'.tasks) = Len(loader.tasks)
        /\ loader'.tasks[1].blocks = loader.tasks[1].blocks \ {i}
        /\ \A u \in 1..Len(loader.tasks) : u # 1 => loader'.tasks[u] = loader.tasks[u]
    <3> DEFINE task == [pc |-> loader.tasks[1].pc, blocks |-> loader.tasks[1].blocks \ {i}]
    <3>1. loader.tasks[1] \in TaskType
      BY <1>2, ElementOfSeq
    <3>2. task \in TaskType /\ task.blocks = loader.tasks[1].blocks \ {i}
      BY <3>1 DEF TaskType
    <3>3. [loader.tasks[1] EXCEPT !.blocks = loader.tasks[1].blocks \ {i}] = task
      BY <3>1 DEF TaskType
    <3>4. loader' = [loader EXCEPT !.tasks = [loader.tasks EXCEPT ![1] =
             [loader.tasks[1] EXCEPT !.blocks = loader.tasks[1].blocks \ {i}]]]
      BY <1>4
    <3>5. loader' = [loader EXCEPT !.tasks = [loader.tasks EXCEPT ![1] = task]]
      BY <3>3, <3>4
    <3> HIDE DEF task
    <3>6. /\ [loader.tasks EXCEPT ![1] = task] \in Seq(TaskType)
          /\ Len([loader.tasks EXCEPT ![1] = task]) = Len(loader.tasks)
          /\ \A u \in 1..Len(loader.tasks) :
               [loader.tasks EXCEPT ![1] = task][u] = IF u = 1 THEN task ELSE loader.tasks[u]
      BY <1>2, <3>2, ExceptSeq
    <3> QED BY <1>2, <3>2, <3>5, <3>6 DEF LoaderType
  <2>5. TypeOK' /\ Phases' /\ Suspects' /\ Links' /\ Announced'
    BY <1>1, <1>2, <2>3, <2>4, LoaderFrame
  <2>6. \A u \in 1..Len(loader.tasks) : loader'.tasks[u].blocks \subseteq loader.tasks[u].blocks
    BY <2>4
  <2>7. /\ \A k \in 1..Len(queue) : Pos(queue[k]) < i
        /\ InHand => Pos(applier.block) < i
        /\ Done < i
    BY <1>2 DEF IInv, Ordered, Counting
  <2>8. ASSUME NEW u \in 1..Len(loader.tasks), NEW p \in loader'.tasks[u].blocks
        PROVE  i < p
    <3>1. CASE u = 1
      <4>1. p \in loader.tasks[1].blocks /\ p # i /\ p \in 1..loader.next
        BY <1>2, <2>4, <2>8, <3>1
      <4>2. i <= p
        BY <1>4, <4>1
      <4> QED BY <1>2, <2>1, <4>1, <4>2
    <3>2. CASE u # 1
      BY <1>2, <2>4, <2>8, <3>2 DEF IInv, Ordered
    <3> QED BY <3>1, <3>2
  <2>9. Ordered'
    <3>1. /\ \A u \in 1..Len(loader'.tasks) : loader'.tasks[u].blocks \subseteq 1..loader'.next
          /\ \A u, v \in 1..Len(loader'.tasks) : u < v =>
               \A p \in loader'.tasks[u].blocks, q \in loader'.tasks[v].blocks : p < q
      BY <2>4, <2>6 DEF IInv, Ordered
    <3>2. \A k \in 1..Len(queue') : Hashed(queue'[k]) /\ Pos(queue'[k]) <= loader.next
      BY <2>1, <2>2, <2>3 DEF IInv, Ordered
    <3>3. \A k, l \in 1..Len(queue') : k < l => Pos(queue'[k]) < Pos(queue'[l])
      BY <2>2, <2>3, <2>7 DEF IInv, Ordered
    <3>4. \A k \in 1..Len(queue'), u \in 1..Len(loader'.tasks) :
            \A p \in loader'.tasks[u].blocks : Pos(queue'[k]) < p
      BY <2>2, <2>3, <2>4, <2>6, <2>8 DEF IInv, Ordered
    <3>5. InHand => /\ Hashed(applier.block) /\ Pos(applier.block) <= loader.next
                    /\ \A k \in 1..Len(queue') : Pos(applier.block) < Pos(queue'[k])
                    /\ \A u \in 1..Len(loader'.tasks) :
                         \A p \in loader'.tasks[u].blocks : Pos(applier.block) < p
      BY <2>2, <2>3, <2>4, <2>6, <2>7 DEF IInv, Ordered
    <3> QED BY <1>1, <1>2, <2>4, <3>1, <3>2, <3>3, <3>4, <3>5
            DEF Ordered, InHand, Pos, Hashed, Total
  <2>10. Counting'
    <3>1. \A k \in 1..Len(queue') : Done < Pos(queue'[k])
      BY <1>2, <2>2, <2>3, <2>7 DEF IInv, Counting
    <3> QED BY <1>1, <1>2, <1>4, <2>4, <2>6, <3>1
            DEF IInv, Counting, InHand, Done, Pos, ApplierEnded
  <2>11. NothingLost'
    <3>1. ASSUME NEW p \in 1..loader.next, p \notin missing
          PROVE  OnItsWay(p)'
      <4>1. OnItsWay(p)
        BY <1>2, <1>4, <3>1 DEF IInv, NothingLost, ApplierEnded
      <4>2. ASSUME NEW u \in 1..Len(loader.tasks), p \in loader.tasks[u].blocks, p # i
            PROVE  p \in loader'.tasks[u].blocks
        BY <2>4, <4>2
      <4>3. ASSUME p = i
            PROVE  \E k \in 1..Len(queue') : queue'[k] = main.hashes[p]
        BY <2>3, <4>3
      <4>4. ASSUME NEW k \in 1..Len(queue)
            PROVE  k \in 1..Len(queue') /\ queue'[k] = queue[k]
        BY <2>3
      <4> QED BY <1>1, <2>4, <4>1, <4>2, <4>3, <4>4 DEF OnItsWay
    <3> QED BY <1>1, <2>4, <3>1 DEF IInv, NothingLost
  <2> QED BY <2>5, <2>9, <2>10, <2>11 DEF IInv
<1> QED BY <1>3, <1>4 DEF LoaderSend

\* The first task has sent everything.
LEMMA NextKeeps ==
  ASSUME IInv, LoaderNext
  PROVE  IInv'
<1>1. UNCHANGED <<main, applier, hashing, stored, accept, overlapped, queue, missing>>
  BY DEF LoaderNext
<1> DEFINE rest == Tail(loader.tasks)
           pc == IF rest # <<>> THEN "wait" ELSE IF loader.next = Total THEN "ok" ELSE "round"
<1>2. /\ loader \in LoaderType /\ loader.tasks \in Seq(TaskType) /\ loader.tasks # <<>>
      /\ loader.pc = "wait" /\ applier.pc # "off"
      /\ loader.tasks[1].blocks = {} /\ loader' = [loader EXCEPT !.tasks = rest, !.pc = pc]
  BY DEF IInv, TypeOK, LoaderType, LoaderNext, Phases
<1>3. /\ rest \in Seq(TaskType) /\ Len(rest) = Len(loader.tasks) - 1 /\ Len(rest) \in Nat
      /\ Len(loader.tasks) \in Nat
      /\ \A u \in 1..Len(rest) : rest[u] = loader.tasks[u + 1] /\ u + 1 \in 1..Len(loader.tasks)
  <2>1. /\ rest \in Seq(TaskType) /\ Len(rest) = Len(loader.tasks) - 1
        /\ \A u \in 1..Len(rest) : rest[u] = loader.tasks[u + 1]
    BY <1>2, HeadTailProperties
  <2>2. Len(rest) \in Nat /\ Len(loader.tasks) \in Nat
    BY <1>2, <2>1, LenProperties
  <2>3. \A u \in 1..Len(rest) : u + 1 \in 1..Len(loader.tasks)
    BY <2>1, <2>2
  <2> QED BY <2>1, <2>2, <2>3
<1>4. pc \in {"wait", "ok", "round"} /\ (pc # "wait" => rest = <<>>)
      /\ (pc = "ok" => loader.next = Total)
  OBVIOUS
<1> HIDE DEF rest, pc
<1>5. /\ loader' \in LoaderType /\ loader'.pc = pc /\ loader'.next = loader.next
      /\ loader'.tasks = rest
  BY <1>2, <1>3, <1>4 DEF LoaderType
<1>6. TypeOK' /\ Phases' /\ Suspects' /\ Links' /\ Announced'
  BY <1>1, <1>2, <1>4, <1>5, LoaderFrame DEF IInv, TypeOK
<1>7. Ordered'
  <2>1. /\ \A u \in 1..Len(rest) : rest[u].blocks \subseteq 1..loader.next
        /\ \A u, v \in 1..Len(rest) : u < v =>
             \A p \in rest[u].blocks, q \in rest[v].blocks : p < q
        /\ \A k \in 1..Len(queue), u \in 1..Len(rest) :
             \A p \in rest[u].blocks : Pos(queue[k]) < p
        /\ InHand => \A u \in 1..Len(rest) : \A p \in rest[u].blocks : Pos(applier.block) < p
    <3>1. \A u, v \in 1..Len(rest) : u < v => u + 1 < v + 1
      BY <1>3
    <3> QED BY <1>3, <3>1 DEF IInv, Ordered
  <2> QED BY <1>1, <1>4, <1>5, <2>1 DEF IInv, Ordered, InHand, Pos, Hashed, Total
<1>8. Counting'
  <2>1. \A u \in 1..Len(rest) : \A p \in rest[u].blocks : Done < p
    BY <1>2, <1>3 DEF IInv, Counting
  <2> QED BY <1>1, <1>2, <1>5, <2>1 DEF IInv, Counting, InHand, Done, Pos
<1>9. NothingLost'
  <2>1. ASSUME applier.pc # "err", NEW p \in 1..loader.next, p \notin missing
        PROVE  OnItsWay(p)'
    <3>1. OnItsWay(p)
      BY <1>2, <2>1 DEF IInv, NothingLost
    <3>2. ASSUME NEW u \in 1..Len(loader.tasks), p \in loader.tasks[u].blocks
          PROVE  u - 1 \in 1..Len(rest) /\ p \in rest[u - 1].blocks
      <4>1. u # 1
        BY <1>2, <3>2
      <4>2. u - 1 \in 1..Len(rest) /\ u - 1 + 1 = u
        BY <1>3, <4>1
      <4> QED BY <1>3, <3>2, <4>2
    <3> QED BY <1>1, <1>5, <3>1, <3>2 DEF OnItsWay
  <2> QED BY <1>1, <1>5, <2>1 DEF IInv, NothingLost
<1> QED BY <1>6, <1>7, <1>8, <1>9 DEF IInv

-----------------------------------------------------------------------------
(* Steps of the applier and of accept_block.                               *)

\* A block that extends the last one keeps the store linked.
LEMMA LinkedAppend ==
  ASSUME NEW s \in Seq(Chain), NEW b \in Chain, Linked(s), Extends(b, LastOf(s))
  PROVE  Linked(Append(s, b))
<1> DEFINE t == Append(s, b)
<1>1. /\ Len(s) \in Nat /\ Len(t) = Len(s) + 1 /\ t[Len(s) + 1] = b
      /\ \A h \in 1..Len(s) : t[h] = s[h]
  BY AppendProperties, LenProperties
<1> HIDE DEF t
<1>2. ASSUME NEW h \in 1..Len(s), NEW g \in 1..h
      PROVE  Len(t[h]) = h /\ t[g] = SubSeq(t[h], 1, g)
  <2>1. g \in 1..Len(s)
    BY <1>1
  <2> QED BY <1>1, <2>1 DEF Linked
<1>3. Len(b) = Len(s) + 1
  <2>1. CASE s = <<>>
    BY <2>1, EmptySeq DEF Extends, LastOf
  <2>2. CASE s # <<>>
    <3>1. Len(s) \in 1..Len(s)
      BY <1>1, <2>2, EmptySeq
    <3> QED BY <2>2, <3>1 DEF Extends, LastOf, Linked
  <2> QED BY <2>1, <2>2
<1>4. ASSUME NEW g \in 1..(Len(s) + 1)
      PROVE  t[g] = SubSeq(b, 1, g)
  <2>1. CASE g = Len(s) + 1
    <3>1. SubSeq(b, 1, Len(b)) = b
      BY SubSeqFull DEF Chain
    <3> QED BY <1>1, <1>3, <2>1, <3>1
  <2>2. CASE g # Len(s) + 1
    <3>1. g \in 1..Len(s) /\ Len(s) \in 1..Len(s) /\ Len(s) \in 1..Len(b)
      BY <1>1, <1>3, <2>2
    <3>2. s # <<>>
      BY <3>1, EmptySeq
    <3>3. LastOf(s) = s[Len(s)] /\ Len(s[Len(s)]) = Len(s)
      BY <3>1, <3>2 DEF LastOf, Linked
    <3>4. SubSeq(b, 1, Len(s)) = s[Len(s)] /\ s[g] = SubSeq(s[Len(s)], 1, g)
      BY <3>1, <3>3 DEF Extends, Linked
    <3>5. SubSeq(SubSeq(b, 1, Len(s)), 1, g) = SubSeq(b, 1, g)
      BY <3>1, PrefixOfPrefix
    <3> QED BY <1>1, <3>1, <3>4, <3>5
  <2> QED BY <2>1, <2>2
<1>5. ASSUME NEW h \in 1..Len(t), NEW g \in 1..h
      PROVE  Len(t[h]) = h /\ t[g] = SubSeq(t[h], 1, g)
  <2>1. CASE h = Len(s) + 1
    BY <1>1, <1>3, <1>4, <2>1
  <2>2. CASE h # Len(s) + 1
    <3>1. h \in 1..Len(s)
      BY <1>1, <2>2
    <3> QED BY <1>2, <3>1
  <2> QED BY <2>1, <2>2
<1> QED BY <1>5 DEF Linked, t

\* accept_block goes in: its block has been checked.
LEMMA AcceptBeginKeeps ==
  ASSUME IInv, AcceptBegin
  PROVE  IInv'
<1>1. /\ UNCHANGED <<main, loader, queue, applier, hashing, stored, missing>>
      /\ overlapped' = (overlapped \/ Applying)
  BY DEF AcceptBegin
<1>2. PICK b \in AcceptedBlocks : Valid(b, FALSE) /\ accept' = b
  BY DEF AcceptBegin
<1>3. b \in Chain /\ b \notin BadBlocks /\ Extends(b, LastOf(stored))
  BY <1>2, IbdAssumption DEF Valid, Chain
<1>4. TypeOK'
  <2>1. overlapped' \in BOOLEAN
    BY <1>1 DEF IInv, TypeOK, Applying
  <2> QED BY <1>1, <1>2, <1>3, <2>1 DEF IInv, TypeOK, hashing
<1>5. Phases'
  BY <1>1 DEF IInv, Phases, Finished, ApplierEnded, hashing
<1>6. Suspects'
  BY <1>1, <1>2, <1>3 DEF IInv, Suspects, Suspect, hashing
<1>7. Links'
  <2>1. ~overlapped' => ~overlapped /\ ~Applying
    BY <1>1 DEF IInv, TypeOK
  <2> QED BY <1>1, <1>2, <1>3, <2>1 DEF IInv, Links, Applying, Accepting
<1>8. Announced' /\ Ordered' /\ Counting'
  BY <1>1 DEF IInv, Announced, Ordered, Counting, InHand, Hashed, Pos, Total, Done
<1>9. NothingLost'
  BY <1>1 DEF IInv, NothingLost, OnItsWay
<1> QED BY <1>4, <1>5, <1>6, <1>7, <1>8, <1>9 DEF IInv

\* The store with one more block.
LEMMA StoreGrows ==
  ASSUME TypeOK, NEW b \in Chain, stored' = Append(stored, b)
  PROVE  /\ stored' \in Seq(Chain) /\ Len(stored) \in Nat /\ Len(stored') = Len(stored) + 1
         /\ stored'[Len(stored) + 1] = b
         /\ \A h \in 1..Len(stored) : stored'[h] = stored[h] /\ h \in 1..Len(stored')
<1>1. stored \in Seq(Chain)
  BY DEF TypeOK
<1>2. Len(stored) \in Nat /\ Len(stored') = Len(stored) + 1
  BY <1>1, AppendProperties, LenProperties
<1> QED BY <1>1, <1>2, AppendProperties

\* accept_block writes its block.
LEMMA AcceptEndKeeps ==
  ASSUME IInv, AcceptEnd
  PROVE  IInv'
<1>1. /\ UNCHANGED <<main, loader, queue, applier, hashing, missing, overlapped>>
      /\ stored' = Append(stored, accept) /\ accept' = None
  BY DEF AcceptEnd
<1>2. accept \in Chain /\ accept \notin BadBlocks
  BY DEF AcceptEnd, Accepting, IInv, TypeOK, Suspects
<1>3. /\ stored' \in Seq(Chain) /\ Len(stored) \in Nat /\ Len(stored') = Len(stored) + 1
      /\ stored'[Len(stored) + 1] = accept
      /\ \A h \in 1..Len(stored) : stored'[h] = stored[h] /\ h \in 1..Len(stored')
  BY <1>1, <1>2, StoreGrows DEF IInv
<1>4. TypeOK'
  BY <1>1, <1>3 DEF IInv, TypeOK, hashing
<1>5. Phases'
  BY <1>1 DEF IInv, Phases, Finished, ApplierEnded, hashing
<1>6. Suspects'
  <2>1. ASSUME NEW h \in 1..Len(stored'), stored'[h] \in BadBlocks PROVE Suspect(stored'[h])
    <3>1. h \in 1..Len(stored)
      BY <1>2, <1>3, <2>1
    <3> QED BY <1>3, <2>1, <3>1 DEF IInv, Suspects
  <2>2. \A b : Suspect(b) => Suspect(b)'
    BY <1>1 DEF Suspect, hashing
  <2> QED BY <1>1, <2>1, <2>2 DEF IInv, Suspects, Suspect, hashing
<1>7. Links'
  <2>1. ASSUME ~overlapped PROVE Linked(stored') /\ ~Applying
    <3>1. Linked(stored) /\ Extends(accept, LastOf(stored)) /\ ~Applying
      BY <2>1 DEF IInv, Links, AcceptEnd
    <3> QED BY <1>1, <1>2, <3>1, LinkedAppend DEF IInv, TypeOK
  <2> QED BY <1>1, <2>1 DEF Links, Linked, Applying, Accepting
<1>8. Announced' /\ Ordered' /\ Counting'
  BY <1>1 DEF IInv, Announced, Ordered, Counting, InHand, Hashed, Pos, Total, Done
<1>9. NothingLost'
  <2>1. \A p : OnItsWay(p) => OnItsWay(p)'
    BY <1>1, <1>3 DEF OnItsWay
  <2> QED BY <1>1, <2>1 DEF IInv, NothingLost
<1> QED BY <1>4, <1>5, <1>6, <1>7, <1>8, <1>9 DEF IInv

\* What the applier does not touch.
LEMMA ApplierFrame ==
  ASSUME IInv, UNCHANGED <<main, loader, hasher, missing>>,
         applier.pc \in {"recv", "write", "send"}, applier'.pc # "off"
  PROVE  Announced' /\ Phases'
<1>1. Announced'
  BY DEF IInv, Announced, Total
<1>2. /\ \A t \in Thread : hasher[t].pc # "ok"
      /\ main.pc \in {"hashers", "clear", "done"} /\ ~Finished("ok")
  BY Working DEF IInv
<1>3. main.pc \in {"clear", "done"} => \E t \in Thread : hasher[t].pc = "failed"
  BY DEF IInv, Phases, ApplierEnded
<1>4. loader.pc # "off" /\ \A t \in Thread : hasher[t].pc # "off"
  BY DEF IInv, Phases
<1> QED BY <1>1, <1>2, <1>3, <1>4 DEF Phases, Finished

\* The applier takes the next block and checks it.
LEMMA TakeKeeps ==
  ASSUME IInv, ApplierTake
  PROVE  IInv'
<1> DEFINE b == Head(queue)
           ok == Valid(b, SpeedUp)
<1>1. /\ UNCHANGED <<main, loader, hashing, stored, accept, missing>>
      /\ queue' = Tail(queue) /\ overlapped' = (overlapped \/ (ok /\ Accepting))
      /\ applier.pc = "recv" /\ queue # <<>>
      /\ applier' = [applier EXCEPT !.pc = IF ok THEN "write" ELSE "err",
                       !.block = b, !.speedUp = SpeedUp]
  BY DEF ApplierTake
<1>2. /\ queue \in Seq(Chain) /\ b \in Chain /\ queue' \in Seq(Chain) /\ b = queue[1]
      /\ Len(queue) \in Nat /\ Len(queue') \in Nat /\ 1 \in 1..Len(queue)
      /\ Len(queue') = Len(queue) - 1
      /\ \A k \in 1..Len(queue') : queue'[k] = queue[k + 1] /\ k + 1 \in 1..Len(queue)
  <2>1. queue \in Seq(Chain) /\ queue # <<>>
    BY <1>1 DEF IInv, TypeOK
  <2>2. /\ b \in Chain /\ queue' \in Seq(Chain) /\ Len(queue') = Len(queue) - 1
        /\ \A k \in 1..Len(queue') : queue'[k] = queue[k + 1]
    BY <1>1, <2>1, HeadTailProperties
  <2>3. Len(queue) \in Nat /\ Len(queue') \in Nat
    BY <2>1, <2>2, LenProperties
  <2>4. b = queue[1] /\ 1 \in 1..Len(queue)
    BY <2>1, <2>2, <2>3
  <2> QED BY <2>1, <2>2, <2>3, <2>4
<1>3. ok => /\ SpeedUp \/ b \notin BadBlocks
            /\ Extends(b, LastOf(stored))
  BY DEF Valid
<1>4. SpeedUp \in BOOLEAN /\ ok \in BOOLEAN
  BY IbdAssumption DEF SpeedUp, Valid
<1> HIDE DEF b, ok
<1>5. /\ applier' \in ApplierType /\ applier'.pc = (IF ok THEN "write" ELSE "err")
      /\ applier'.block = b /\ applier'.speedUp = SpeedUp /\ applier'.current = applier.current
  <2>1. applier' = [pc |-> IF ok THEN "write" ELSE "err", current |-> applier.current,
                    block |-> b, speedUp |-> SpeedUp]
    BY <1>1 DEF IInv, TypeOK, ApplierType
  <2> QED BY <1>2, <1>4, <2>1 DEF IInv, TypeOK, ApplierType
<1>6. TypeOK'
  <2>1. overlapped' \in BOOLEAN
    BY <1>1, <1>4 DEF IInv, TypeOK, Accepting
  <2> QED BY <1>1, <1>2, <1>5, <2>1 DEF IInv, TypeOK, hashing
<1>7. Announced' /\ Phases'
  BY <1>1, <1>5, ApplierFrame DEF hashing
<1>8. Suspects'
  <2>1. \A x : Suspect(x) => Suspect(x)'
    BY <1>1 DEF Suspect, hashing
  <2> QED BY <1>1, <1>3, <1>5, <2>1 DEF IInv, Suspects
<1>9. Links'
  <2>1. ~overlapped' => ~overlapped /\ ~(ok /\ Accepting)
    BY <1>1, <1>4 DEF IInv, TypeOK
  <2> QED BY <1>1, <1>3, <1>5, <2>1 DEF IInv, Links, Applying, Accepting
<1>10. /\ Hashed(b) /\ Pos(b) <= loader.next
       /\ \A k \in 1..Len(queue') : Pos(b) < Pos(queue'[k])
       /\ \A u \in 1..Len(loader.tasks) : \A p \in loader.tasks[u].blocks : Pos(b) < p
  <2>1. \A k \in 1..Len(queue') : 1 < k + 1
    BY <1>2
  <2> QED BY <1>2, <2>1 DEF IInv, Ordered
<1>11. Ordered'
  <2>1. /\ \A k \in 1..Len(queue') : Hashed(queue'[k]) /\ Pos(queue'[k]) <= loader.next
        /\ \A k \in 1..Len(queue'), u \in 1..Len(loader.tasks) :
             \A p \in loader.tasks[u].blocks : Pos(queue'[k]) < p
    BY <1>2 DEF IInv, Ordered
  <2>2. ASSUME NEW k \in 1..Len(queue'), NEW l \in 1..Len(queue'), k < l
        PROVE  Pos(queue'[k]) < Pos(queue'[l])
    <3>1. k + 1 < l + 1 /\ k + 1 \in 1..Len(queue) /\ l + 1 \in 1..Len(queue)
      BY <1>2, <2>2
    <3> QED BY <1>2, <3>1 DEF IInv, Ordered
  <2> QED BY <1>1, <1>5, <1>10, <2>1, <2>2 DEF IInv, Ordered, InHand, Hashed, Pos, Total
<1>12. Counting'
  <2>1. Done < Pos(b) /\ \A k \in 1..Len(queue') : Done < Pos(queue'[k])
    BY <1>1, <1>2 DEF IInv, Counting
  <2> QED BY <1>1, <1>5, <2>1 DEF IInv, Counting, InHand, Done, Pos
<1>13. NothingLost'
  <2>1. ASSUME applier'.pc # "err", loader.pc # "err", NEW p \in 1..loader.next, p \notin missing
        PROVE  OnItsWay(p)'
    <3>1. OnItsWay(p) /\ applier'.pc = "write"
      BY <1>1, <1>5, <2>1 DEF IInv, NothingLost
    <3>2. ASSUME NEW k \in 1..Len(queue), queue[k] = main.hashes[p]
          PROVE  OnItsWay(p)'
      <4>1. CASE k = 1
        BY <1>1, <1>2, <1>5, <3>1, <3>2, <4>1 DEF OnItsWay
      <4>2. CASE k # 1
        <5>1. k - 1 \in 1..Len(queue') /\ k - 1 + 1 = k
          BY <1>2, <4>2
        <5> QED BY <1>1, <1>2, <3>2, <5>1 DEF OnItsWay
      <4> QED BY <4>1, <4>2
    <3> QED BY <1>1, <3>1, <3>2 DEF OnItsWay
  <2> QED BY <1>1, <2>1 DEF IInv, NothingLost
<1> QED BY <1>6, <1>7, <1>8, <1>9, <1>11, <1>12, <1>13 DEF IInv

\* The applier has counted a block: the next one is still to come, and it stops at
\* the announced height.
LEMMA CountedKeeps ==
  ASSUME IInv, InHand, applier' = Counted(applier), UNCHANGED <<main, loader, queue, missing>>
  PROVE  /\ applier' \in ApplierType /\ applier'.pc \in {"ok", "recv"}
         /\ Ordered' /\ Counting'
<1>1. applier \in ApplierType
  BY DEF IInv, TypeOK
<1>2. applier' = [pc |-> IF applier.current + 1 = main.remote THEN "ok" ELSE "recv",
                  current |-> applier.current + 1, block |-> None, speedUp |-> applier.speedUp]
  <2>1. applier' = [applier EXCEPT !.current = applier.current + 1, !.block = None,
                      !.pc = IF applier.current + 1 = main.remote THEN "ok" ELSE "recv"]
    BY DEF Counted
  <2> QED BY <1>1, <2>1 DEF ApplierType
<1>3. /\ applier' \in ApplierType /\ applier'.pc \in {"ok", "recv"}
      /\ applier'.current = applier.current + 1
      /\ applier'.pc = "ok" => applier'.current = main.remote
  BY <1>1, <1>2 DEF ApplierType
<1>4. Ordered'
  BY <1>3 DEF IInv, Ordered, InHand, Hashed, Pos, Total
<1>5. Counting'
  <2>1. /\ Done \in Int /\ Done < Pos(applier.block) /\ Done' = Done + 1 /\ Hashed(applier.block)
        /\ Pos(applier.block) <= loader.next /\ applier.current \in Nat /\ main.local \in Nat
    <3>1. applier.current \in Nat /\ main.local \in Nat
      BY <1>1 DEF IInv, TypeOK, MainType, ApplierType
    <3>2. Done' = Done + 1
      BY <1>3, <3>1 DEF Done
    <3> QED BY <3>1, <3>2 DEF IInv, Ordered, Counting, InHand
  <2>2. Pos(applier.block) \in Int /\ loader.next \in Nat
    BY <2>1 DEF Hashed, IInv, TypeOK, LoaderType
  <2>3. Done' \in Int /\ Done' <= Pos(applier.block) /\ Done' <= loader.next
    BY <2>1, <2>2
  <2>4. ASSUME NEW k \in 1..Len(queue) PROVE Done' < Pos(queue[k])
    <3>1. Pos(applier.block) < Pos(queue[k]) /\ Pos(queue[k]) \in Int
      BY DEF IInv, Ordered, Hashed
    <3> QED BY <2>2, <2>3, <3>1
  <2>5. ASSUME NEW u \in 1..Len(loader.tasks), NEW p \in loader.tasks[u].blocks PROVE Done' < p
    <3>1. Pos(applier.block) < p /\ p \in Int
      <4>1. loader.tasks[u].blocks \subseteq 1..loader.next
        BY DEF IInv, Ordered
      <4> QED BY <4>1 DEF IInv, Ordered
    <3> QED BY <2>2, <2>3, <3>1
  <2> QED BY <1>3, <2>3, <2>4, <2>5 DEF Counting, InHand, Pos
<1> QED BY <1>3, <1>4, <1>5

\* The applier writes its block.
LEMMA WriteKeeps ==
  ASSUME IInv, ApplierWrite
  PROVE  IInv'
<1>1. /\ UNCHANGED <<main, loader, queue, hashing, accept, missing, overlapped>>
      /\ applier.pc = "write" /\ stored' = Append(stored, applier.block)
      /\ applier' = IF applier.speedUp THEN [applier EXCEPT !.pc = "send"] ELSE Counted(applier)
  BY DEF ApplierWrite
<1>2. applier \in ApplierType /\ applier.block \in Chain /\ applier.speedUp \in BOOLEAN /\ InHand
  BY <1>1 DEF IInv, TypeOK, ApplierType, InHand
<1>3. /\ stored' \in Seq(Chain) /\ Len(stored) \in Nat /\ Len(stored') = Len(stored) + 1
      /\ stored'[Len(stored) + 1] = applier.block
      /\ \A h \in 1..Len(stored) : stored'[h] = stored[h] /\ h \in 1..Len(stored')
  BY <1>1, <1>2, StoreGrows DEF IInv
<1>4. ASSUME applier.speedUp, applier' = [applier EXCEPT !.pc = "send"]
      PROVE  /\ applier' \in ApplierType /\ applier'.pc = "send" /\ applier'.block = applier.block
             /\ Ordered' /\ Counting'
  <2>1. /\ applier' \in ApplierType /\ applier'.pc = "send" /\ applier'.block = applier.block
        /\ applier'.current = applier.current
    BY <1>2, <1>4 DEF ApplierType
  <2> QED BY <1>1, <2>1 DEF IInv, Ordered, Counting, InHand, Hashed, Pos, Total, Done
<1>5. ASSUME applier' = Counted(applier)
      PROVE  /\ applier' \in ApplierType /\ applier'.pc \in {"ok", "recv"}
             /\ Ordered' /\ Counting'
  BY <1>1, <1>2, <1>5, CountedKeeps
<1>6. /\ applier' \in ApplierType /\ applier'.pc \in {"send", "ok", "recv"}
      /\ applier'.pc = "send" => applier'.block = applier.block
      /\ applier.speedUp => applier'.pc = "send"
      /\ Ordered' /\ Counting'
  BY <1>1, <1>4, <1>5
<1>7. TypeOK'
  BY <1>1, <1>2, <1>3, <1>6 DEF IInv, TypeOK, hashing
<1>8. Announced' /\ Phases'
  BY <1>1, <1>6, ApplierFrame DEF hashing
<1>9. Suspects'
  <2>1. \A x : Suspect(x) => Suspect(x)'
    BY <1>1 DEF Suspect, hashing
  <2>2. ASSUME NEW h \in 1..Len(stored'), NEW x, x = stored'[h], x \in BadBlocks
        PROVE  Suspect(x)'
    <3>1. CASE h \in 1..Len(stored)
      <4>1. Suspect(x)
        BY <1>3, <2>2, <3>1 DEF IInv, Suspects
      <4> QED BY <2>1, <4>1
    <3>2. CASE h = Len(stored) + 1
      <4>1. applier.speedUp /\ x = applier.block
        BY <1>1, <1>3, <2>2, <3>2 DEF IInv, Suspects
      <4>2. applier'.pc = "send" /\ applier'.block = x
        BY <1>6, <4>1
      <4> QED BY <4>2 DEF Suspect
    <3> QED BY <1>3, <3>1, <3>2
  <2>3. accept # None => accept \notin BadBlocks
    BY DEF IInv, Suspects
  <2> QED BY <1>1, <1>6, <2>2, <2>3 DEF Suspects, Suspect
<1>10. Links'
  <2>1. ASSUME ~overlapped PROVE Linked(stored') /\ ~Accepting
    <3>1. Linked(stored) /\ Extends(applier.block, LastOf(stored)) /\ ~Accepting
      BY <1>1, <2>1 DEF IInv, Links, Applying
    <3> QED BY <1>1, <1>2, <3>1, LinkedAppend DEF IInv, TypeOK
  <2> QED BY <1>1, <1>6, <2>1 DEF Links, Linked, Applying, Accepting
<1>11. NothingLost'
  <2>1. ASSUME NEW p, OnItsWay(p) PROVE OnItsWay(p)'
    <3>1. CASE applier.block = main.hashes[p]
      <4>1. Len(stored) + 1 \in 1..Len(stored')
        BY <1>3
      <4> QED BY <1>1, <1>3, <3>1, <4>1 DEF OnItsWay
    <3>2. CASE applier.block # main.hashes[p]
      BY <1>1, <1>3, <2>1, <3>2 DEF OnItsWay
    <3> QED BY <3>1, <3>2
  <2>2. applier.pc # "err"
    BY <1>1
  <2> QED BY <1>1, <2>1, <2>2 DEF IInv, NothingLost
<1> QED BY <1>6, <1>7, <1>8, <1>9, <1>10, <1>11 DEF IInv

\* The applier hands its block to the hashing threads, or finds that none is left.
LEMMA HandKeeps ==
  ASSUME IInv, ApplierSend
  PROVE  IInv'
<1>1. /\ UNCHANGED <<main, loader, queue, hasher, stored, accept, missing, overlapped>>
      /\ applier.pc = "send"
  BY DEF ApplierSend
<1>2. applier \in ApplierType /\ applier.block \in Chain /\ InHand
  BY <1>1 DEF IInv, TypeOK, InHand
<1>3. CASE /\ \A t \in Thread : hasher[t].pc = "failed"
           /\ applier' = [applier EXCEPT !.pc = "err"]
           /\ UNCHANGED hashq
  <2>1. applier' \in ApplierType /\ applier'.pc = "err" /\ applier'.current = applier.current
    BY <1>2, <1>3 DEF ApplierType
  <2>2. TypeOK'
    BY <1>1, <1>3, <2>1 DEF IInv, TypeOK
  <2>3. Announced' /\ Phases'
    BY <1>1, <2>1, ApplierFrame
  <2>4. Suspects'
    <3>1. \E t \in Thread : hasher[t].pc = "failed"
      BY <1>3, IbdAssumption DEF Thread
    <3> QED BY <1>1, <2>1, <3>1 DEF IInv, Suspects, Suspect
  <2>5. Links'
    BY <1>1, <2>1 DEF IInv, Links, Applying, Accepting
  <2>6. Ordered' /\ Counting'
    BY <1>1, <2>1 DEF IInv, Ordered, Counting, InHand, Hashed, Pos, Total, Done
  <2>7. NothingLost'
    BY <1>1, <2>1 DEF IInv, NothingLost
  <2> QED BY <2>2, <2>3, <2>4, <2>5, <2>6, <2>7 DEF IInv
<1>4. CASE hashq' = Append(hashq, applier.block) /\ applier' = Counted(applier)
  <2>1. applier' \in ApplierType /\ applier'.pc \in {"ok", "recv"} /\ Ordered' /\ Counting'
    BY <1>1, <1>2, <1>4, CountedKeeps
  <2>2. /\ hashq' \in Seq(Chain) /\ Len(hashq) \in Nat /\ Len(hashq') = Len(hashq) + 1
        /\ hashq'[Len(hashq) + 1] = applier.block
        /\ \A i \in 1..Len(hashq) : hashq'[i] = hashq[i] /\ i \in 1..Len(hashq')
    <3>1. hashq \in Seq(Chain)
      BY DEF IInv, TypeOK
    <3>2. Len(hashq) \in Nat /\ Len(hashq') = Len(hashq) + 1
      BY <1>2, <1>4, <3>1, AppendProperties, LenProperties
    <3> QED BY <1>2, <1>4, <3>1, <3>2, AppendProperties
  <2>3. TypeOK'
    BY <1>1, <2>1, <2>2 DEF IInv, TypeOK
  <2>4. Announced' /\ Phases'
    BY <1>1, <2>1, ApplierFrame
  <2>5. Suspects'
    <3>1. Len(hashq) + 1 \in 1..Len(hashq')
      BY <2>2
    <3>2. \A x : Suspect(x) => Suspect(x)'
      BY <1>1, <2>2, <3>1 DEF Suspect
    <3> QED BY <1>1, <2>1, <3>2 DEF IInv, Suspects
  <2>6. Links'
    BY <1>1, <2>1 DEF IInv, Links, Applying, Accepting
  <2>7. NothingLost'
    <3>1. \A p : OnItsWay(p) => OnItsWay(p)'
      BY <1>1 DEF OnItsWay
    <3> QED BY <1>1, <3>1 DEF IInv, NothingLost
  <2> QED BY <2>1, <2>3, <2>4, <2>5, <2>6, <2>7 DEF IInv
<1> QED BY <1>3, <1>4 DEF ApplierSend

\* The applier finds the channel closed and empty.
LEMMA ClosedKeeps ==
  ASSUME IInv, ApplierClosed
  PROVE  IInv'
<1>1. /\ UNCHANGED <<main, loader, queue, hashing, stored, accept, missing, overlapped>>
      /\ applier.pc = "recv" /\ queue = <<>> /\ loader.pc \in {"ok", "err"}
      /\ applier' = [applier EXCEPT !.pc = "ok"]
  BY DEF ApplierClosed
<1>2. applier' \in ApplierType /\ applier'.pc = "ok" /\ applier'.current = applier.current
  BY <1>1 DEF IInv, TypeOK, ApplierType
<1>3. TypeOK'
  BY <1>1, <1>2 DEF IInv, TypeOK, hashing
<1>4. Announced' /\ Phases'
  BY <1>1, <1>2, ApplierFrame DEF hashing
<1>5. Suspects'
  BY <1>1, <1>2 DEF IInv, Suspects, Suspect, hashing
<1>6. Links'
  BY <1>1, <1>2 DEF IInv, Links, Applying, Accepting
<1>7. Ordered' /\ Counting'
  BY <1>1, <1>2 DEF IInv, Ordered, Counting, InHand, Hashed, Pos, Total, Done
<1>8. NothingLost'
  BY <1>1, <1>2 DEF IInv, NothingLost, OnItsWay
<1> QED BY <1>3, <1>4, <1>5, <1>6, <1>7, <1>8 DEF IInv

-----------------------------------------------------------------------------
(* Steps of the hashing threads, and of the connections.                   *)

\* What the hashing threads do not touch.
LEMMA HasherFrame ==
  ASSUME IInv, UNCHANGED <<main, loader, queue, applier, stored, accept, missing, overlapped>>
  PROVE  Links' /\ Announced' /\ Ordered' /\ Counting' /\ NothingLost'
<1>1. Links' /\ Announced' /\ NothingLost'
  BY DEF IInv, Links, Applying, Accepting, Announced, Total, NothingLost, OnItsWay
<1>2. Ordered' /\ Counting'
  BY DEF IInv, Ordered, Counting, InHand, Hashed, Pos, Total, Done
<1> QED BY <1>1, <1>2

\* A thread takes a block.
LEMMA HasherTakeKeeps ==
  ASSUME IInv, NEW t \in Thread, HasherTake(t)
  PROVE  IInv'
<1>1. /\ UNCHANGED <<main, loader, queue, applier, stored, accept, missing, overlapped>>
      /\ hasher[t].pc = "recv" /\ hashq # <<>> /\ hashq' = Tail(hashq)
      /\ hasher' = [hasher EXCEPT ![t] = [pc |-> "check", block |-> Head(hashq)]]
  BY DEF HasherTake
<1>2. /\ Head(hashq) \in Chain /\ hashq' \in Seq(Chain) /\ Head(hashq) = hashq[1]
      /\ \A i \in 2..Len(hashq) : i - 1 \in 1..Len(hashq') /\ hashq'[i - 1] = hashq[i]
      /\ Len(hashq) \in Nat
  <2>1. hashq \in Seq(Chain)
    BY DEF IInv, TypeOK
  <2>2. /\ Head(hashq) \in Chain /\ hashq' \in Seq(Chain) /\ Len(hashq') = Len(hashq) - 1
        /\ \A i \in 1..Len(hashq') : hashq'[i] = hashq[i + 1]
    BY <1>1, <2>1, HeadTailProperties
  <2>3. Len(hashq) \in Nat
    BY <2>1, LenProperties
  <2>4. ASSUME NEW i \in 2..Len(hashq)
        PROVE  i - 1 \in 1..Len(hashq') /\ hashq'[i - 1] = hashq[i]
    <3>1. i - 1 \in 1..Len(hashq') /\ i - 1 + 1 = i
      BY <2>2, <2>3
    <3> QED BY <2>2, <3>1
  <2>5. Head(hashq) = hashq[1]
    BY <1>1, <2>1
  <2> QED BY <2>2, <2>3, <2>4, <2>5
<1>3. /\ hasher' \in [Thread -> HasherType]
      /\ hasher'[t].pc = "check" /\ hasher'[t].block = Head(hashq)
      /\ \A u \in Thread : u # t => hasher'[u] = hasher[u]
  <2>1. [pc |-> "check", block |-> Head(hashq)] \in HasherType
    BY <1>2 DEF HasherType
  <2> QED BY <1>1, <2>1 DEF IInv, TypeOK
<1>4. TypeOK'
  BY <1>1, <1>2, <1>3 DEF IInv, TypeOK
<1>5. Phases'
  <2>1. applier.pc # "off" /\ \A u \in Thread : hasher[u].pc # "ok"
    BY <1>1 DEF IInv, Phases
  <2>2. \A u \in Thread : hasher'[u].pc \notin {"ok", "off"}
                          /\ (hasher[u].pc = "failed" => hasher'[u].pc = "failed")
    BY <1>1, <1>3, <2>1 DEF IInv, Phases
  <2> QED BY <1>1, <2>1, <2>2 DEF IInv, Phases, ApplierEnded, Finished
<1>6. Suspects'
  <2>1. ASSUME NEW x, Suspect(x) PROVE Suspect(x)'
    <3>1. ASSUME NEW i \in 1..Len(hashq), hashq[i] = x PROVE Suspect(x)'
      <4>1. CASE i = 1
        BY <1>2, <1>3, <3>1, <4>1 DEF Suspect
      <4>2. CASE i # 1
        <5>1. i \in 2..Len(hashq)
          BY <1>2, <4>2
        <5> QED BY <1>2, <3>1, <5>1 DEF Suspect
      <4> QED BY <4>1, <4>2
    <3>2. ASSUME NEW u \in Thread, hasher[u].pc \in {"check", "failed"}
          PROVE  hasher'[u] = hasher[u]
      BY <1>1, <1>3, <3>2
    <3> QED BY <1>1, <2>1, <3>1, <3>2 DEF Suspect
  <2> QED BY <1>1, <2>1 DEF IInv, Suspects
<1>7. Links' /\ Announced' /\ Ordered' /\ Counting' /\ NothingLost'
  BY <1>1, HasherFrame
<1> QED BY <1>4, <1>5, <1>6, <1>7 DEF IInv

\* A thread has checked its block.
LEMMA HasherCheckKeeps ==
  ASSUME IInv, NEW t \in Thread, HasherCheck(t)
  PROVE  IInv'
<1> DEFINE pc == IF hasher[t].block \in BadBlocks THEN "failed" ELSE "recv"
<1>1. /\ UNCHANGED <<main, loader, queue, applier, hashq, stored, accept, missing, overlapped>>
      /\ hasher[t].pc = "check"
      /\ hasher' = [hasher EXCEPT ![t] = [pc |-> pc, block |-> None]]
  BY DEF HasherCheck
<1>2. /\ hasher' \in [Thread -> HasherType] /\ hasher'[t].pc = pc
      /\ \A u \in Thread : u # t => hasher'[u] = hasher[u]
      /\ pc \in {"failed", "recv"} /\ (hasher[t].block \in BadBlocks => pc = "failed")
  <2>1. [pc |-> pc, block |-> None] \in HasherType
    BY DEF HasherType
  <2> QED BY <1>1, <2>1 DEF IInv, TypeOK
<1> HIDE DEF pc
<1>3. TypeOK'
  BY <1>1, <1>2 DEF IInv, TypeOK
<1>4. Phases'
  <2>1. applier.pc # "off"
    BY <1>1 DEF IInv, Phases
  <2>2. ~(main.pc \in {"applier", "loader"} \/ Finished("ok"))
    BY <1>1, <2>1 DEF IInv, Phases
  <2> QED BY <1>1, <1>2, <2>1, <2>2 DEF IInv, Phases, ApplierEnded, Finished
<1>5. Suspects'
  <2>1. ASSUME NEW x, x \in BadBlocks, Suspect(x) PROVE Suspect(x)'
    <3>1. CASE hasher[t].block = x
      BY <1>2, <2>1, <3>1 DEF Suspect
    <3>2. CASE hasher[t].block # x
      BY <1>1, <1>2, <2>1, <3>2 DEF Suspect
    <3> QED BY <3>1, <3>2
  <2> QED BY <1>1, <2>1 DEF IInv, Suspects
<1>6. Links' /\ Announced' /\ Ordered' /\ Counting' /\ NothingLost'
  BY <1>1, HasherFrame
<1> QED BY <1>3, <1>4, <1>5, <1>6 DEF IInv

\* A thread ends when the channel is closed and empty.
LEMMA HasherEndKeeps ==
  ASSUME IInv, NEW t \in Thread, HasherEnd(t)
  PROVE  IInv'
<1>1. /\ UNCHANGED <<main, loader, queue, applier, hashq, stored, accept, missing, overlapped>>
      /\ hasher[t].pc = "recv" /\ hashq = <<>> /\ ApplierEnded
      /\ hasher' = [hasher EXCEPT ![t].pc = "ok"]
  BY DEF HasherEnd
<1>2. /\ hasher' \in [Thread -> HasherType] /\ hasher'[t].pc = "ok"
      /\ \A u \in Thread : u # t => hasher'[u] = hasher[u]
  <2>1. hasher[t] \in HasherType
    BY DEF IInv, TypeOK
  <2>2. [hasher[t] EXCEPT !.pc = "ok"] \in HasherType /\ [hasher[t] EXCEPT !.pc = "ok"].pc = "ok"
    BY <2>1 DEF HasherType
  <2>3. hasher' = [hasher EXCEPT ![t] = [hasher[t] EXCEPT !.pc = "ok"]]
    BY <1>1
  <2> QED BY <2>2, <2>3 DEF IInv, TypeOK
<1>3. TypeOK'
  BY <1>1, <1>2 DEF IInv, TypeOK
<1>4. Phases'
  <2>1. applier.pc # "off" /\ \A u \in Thread : hasher'[u].pc # "off"
    BY <1>1, <1>2 DEF IInv, Phases
  <2> QED BY <1>1, <1>2, <2>1 DEF IInv, Phases, ApplierEnded, Finished
<1>5. Suspects'
  <2>1. ASSUME NEW x, Suspect(x) PROVE Suspect(x)'
    BY <1>1, <1>2, <2>1 DEF Suspect
  <2> QED BY <1>1, <2>1 DEF IInv, Suspects
<1>6. Links' /\ Announced' /\ Ordered' /\ Counting' /\ NothingLost'
  BY <1>1, HasherFrame
<1> QED BY <1>3, <1>4, <1>5, <1>6 DEF IInv

\* Connections come and go.
LEMMA PeersKeep ==
  ASSUME IInv,
         UNCHANGED <<main, loader, queue, applier, hashing, stored, accept, missing, overlapped>>
  PROVE  IInv'
<1>1. TypeOK' /\ Phases' /\ Suspects'
  BY DEF IInv, TypeOK, Phases, Suspects, Suspect, ApplierEnded, Finished, hashing
<1>2. Links' /\ Announced' /\ Ordered' /\ Counting' /\ NothingLost'
  BY HasherFrame
<1> QED BY <1>1, <1>2 DEF IInv

-----------------------------------------------------------------------------
\* The store holds the start chain, block by block.
LEMMA InitIInv == Init => IInv
<1> SUFFICES ASSUME Init PROVE IInv
  OBVIOUS
<1>1. StartChain \in Chain /\ Len(StartChain) \in Nat
  BY IbdAssumption, LenProperties DEF Chain
<1>2. stored = [h \in 1..Len(StartChain) |-> BlockAt(StartChain, h - 1)]
  BY DEF Init
<1>3. ASSUME NEW h \in 1..Len(StartChain)
      PROVE  BlockAt(StartChain, h - 1) \in Chain /\ Len(BlockAt(StartChain, h - 1)) = h
             /\ BlockAt(StartChain, h - 1) = SubSeq(StartChain, 1, h)
  <2>1. h - 1 \in Nat /\ h - 1 < Len(StartChain) /\ h - 1 + 1 = h
    BY <1>1
  <2> QED BY <1>1, <2>1, BlockAtType DEF BlockAt
<1>4. /\ stored \in Seq(Chain) /\ Len(stored) = Len(StartChain)
      /\ \A h \in 1..Len(StartChain) :
           stored[h] = SubSeq(StartChain, 1, h) /\ Len(stored[h]) = h
  BY <1>1, <1>2, <1>3
<1>5. TypeOK
  <2>1. main \in MainType
    BY EmptySeq DEF Init, MainType
  <2>2. loader \in LoaderType
    BY EmptySeq DEF Init, LoaderType
  <2>3. applier \in ApplierType /\ hasher \in [Thread -> HasherType]
        /\ \A t \in Thread : hasher[t].pc = "off"
    BY DEF Init, ApplierType, HasherType
  <2>4. queue \in Seq(Chain) /\ hashq \in Seq(Chain)
    BY EmptySeq DEF Init
  <2>5. accept = None /\ overlapped \in BOOLEAN /\ applier.pc = "off"
    BY DEF Init
  <2> QED BY <1>4, <2>1, <2>2, <2>3, <2>4, <2>5 DEF TypeOK
<1>6. Phases
  BY DEF Init, Phases, Finished
<1>7. Suspects
  <2>1. \A h \in 1..Len(StartChain) : SubSeq(StartChain, 1, h) \notin BadBlocks
    BY IbdAssumption
  <2> QED BY <1>4, <2>1 DEF Init, Suspects
<1>8. Links
  <2>1. Linked(stored)
    <3>1. ASSUME NEW h \in 1..Len(stored), NEW g \in 1..h
          PROVE  stored[g] = SubSeq(stored[h], 1, g)
      <4>1. h \in 1..Len(StartChain) /\ g \in 1..Len(StartChain)
        BY <1>1, <1>4
      <4> QED BY <1>1, <1>4, <4>1, PrefixOfPrefix
    <3> QED BY <1>4, <3>1 DEF Linked
  <2> QED BY <2>1 DEF Init, Links, Applying, Accepting
<1>9. Announced /\ Ordered /\ Counting /\ NothingLost
  BY <1>5, <1>6, OffHolds DEF Init
<1> QED BY <1>5, <1>6, <1>7, <1>8, <1>9 DEF IInv

\* Every step keeps the invariant.
LEMMA NextIInv == IInv /\ [Next]_vars => IInv'
<1> SUFFICES ASSUME IInv, [Next]_vars PROVE IInv'
  OBVIOUS
<1>1. CASE MainStep
  BY <1>1, MainKeeps, HashesKeeps DEF MainStep, MainMoves
<1>2. CASE LoaderStep
  BY <1>2, RoundKeeps, SendKeeps, NextKeeps DEF LoaderStep
<1>3. CASE ApplierStep
  BY <1>3, TakeKeeps, WriteKeeps, HandKeeps, ClosedKeeps DEF ApplierStep
<1>4. CASE \E i \in 1..Cardinality(Peer) : TaskDone(i)
  BY <1>4, DoneKeeps
<1>5. CASE \E t \in Thread : HasherStep(t)
  BY <1>5, HasherTakeKeeps, HasherCheckKeeps, HasherEndKeeps DEF HasherStep
<1>6. CASE AcceptBegin \/ AcceptEnd
  BY <1>6, AcceptBeginKeeps, AcceptEndKeeps
<1>7. CASE \E p \in Peer : Join(p) \/ Leave(p)
  <2>1. UNCHANGED <<main, loader, queue, applier, hashing, stored, accept, missing, overlapped>>
    BY <1>7 DEF Join, Leave
  <2> QED BY <2>1, PeersKeep
<1>8. CASE UNCHANGED vars
  BY <1>8, PeersKeep DEF vars
<1> QED BY <1>1, <1>2, <1>3, <1>4, <1>5, <1>6, <1>7, <1>8 DEF Next

\* The invariant of the download: where the blocks are between the answers of the
\* peers and the store, and what each task may assume of the others.
THEOREM DownloadInductive == Spec => []IInv
BY InitIInv, NextIInv, PTL DEF Spec

-----------------------------------------------------------------------------
(* What it shows.                                                          *)

\* Blocks that came from many peers, some of them missing, are added so that each
\* extends the one before, as long as accept_block was not inside add_block too.
THEOREM BlocksFollow == Spec => []StoredLinked
<1>1. IInv => StoredLinked
  <2> SUFFICES ASSUME IInv, ~overlapped, NEW h \in DOMAIN stored
               PROVE  Extends(stored[h], LastOf(SubSeq(stored, 1, h - 1)))
    BY DEF StoredLinked
  <2>1. /\ stored \in Seq(Chain) /\ Len(stored) \in Nat /\ h \in 1..Len(stored) /\ Linked(stored)
        /\ stored[h] \in Chain
    <3>1. stored \in Seq(Chain) /\ Linked(stored)
      BY DEF IInv, TypeOK, Links
    <3> QED BY <3>1, LenProperties, ElementOfSeq
  <2> DEFINE before == SubSeq(stored, 1, h - 1)
  <2>2. /\ Len(before) = IF 1 <= h - 1 THEN h - 1 - 1 + 1 ELSE 0
        /\ \A i \in 1..(h - 1 - 1 + 1) : before[i] = stored[1 + i - 1]
    <3>1. \A i \in 1..(h - 1) : stored[i] \in Chain
      BY <2>1
    <3>2. 1 \in Int /\ h - 1 \in Int
      BY <2>1
    <3> QED BY <3>1, <3>2, SubSeqProperties
  <2>3. CASE h = 1
    <3>1. before = <<>>
      BY <2>3, SubSeqEmpty
    <3>2. Len(stored[h]) = 1 /\ SubSeq(stored[h], 1, 0) = <<>>
      <4>1. Len(stored[h]) = h
        BY <2>1 DEF Linked
      <4>2. SubSeq(stored[h], 1, 0) = <<>>
        BY SubSeqEmpty
      <4> QED BY <2>3, <4>1, <4>2
    <3> QED BY <3>1, <3>2, EmptySeq DEF Extends, LastOf
  <2>4. CASE h # 1
    <3>1. h - 1 \in 1..h /\ h - 1 \in 1..Len(stored) /\ Len(before) = h - 1
          /\ before[h - 1] = stored[h - 1]
      <4>1. h - 1 \in 1..h /\ h - 1 \in 1..Len(stored) /\ h - 1 - 1 + 1 = h - 1
            /\ 1 + (h - 1) - 1 = h - 1 /\ 1 <= h - 1 /\ h - 1 \in 1..(h - 1)
        BY <2>1, <2>4
      <4> QED BY <2>2, <4>1
    <3>2. before # <<>>
      BY <3>1, EmptySeq
    <3> HIDE DEF before
    <3>3. LastOf(before) = stored[h - 1]
      BY <3>1, <3>2 DEF LastOf
    <3>4. Len(stored[h - 1]) = h - 1 /\ Len(stored[h]) = h
          /\ stored[h - 1] = SubSeq(stored[h], 1, h - 1)
      BY <2>1, <3>1 DEF Linked
    <3>5. Len(stored[h]) = Len(stored[h - 1]) + 1
      BY <2>1, <3>4
    <3> QED BY <3>3, <3>4, <3>5 DEF Extends, before
  <2> QED BY <2>3, <2>4
<1> QED BY <1>1, DownloadInductive, PTL

\* What holds when the download reports success: everything was applied and checked.
LEMMA OnSuccess ==
  ASSUME IInv, Finished("ok")
  PROVE  /\ applier.pc = "ok" /\ loader.pc = "ok" /\ hashq = <<>>
         /\ \A t \in Thread : hasher[t].pc = "ok"
         /\ loader.next = Total /\ Len(loader.tasks) = 0 /\ Len(queue) = 0
<1>1. /\ applier.pc = "ok" /\ loader.pc = "ok" /\ \A t \in Thread : hasher[t].pc = "ok"
  BY DEF IInv, Phases
<1>2. hashq = <<>>
  <2>1. 1 \in Thread
    BY IbdAssumption DEF Thread
  <2> QED BY <1>1, <2>1 DEF IInv, Phases
<1>3. loader.next = Total /\ Len(loader.tasks) = 0
  BY <1>1, EmptySeq DEF IInv, Ordered
<1>4. Len(queue) = 0
  <2>1. Len(queue) \in Nat /\ Total \in Nat /\ main.remote \in Nat /\ main.local \in Nat
    BY LenProperties DEF IInv, TypeOK, MainType, Total
  <2>2. CASE applier.current = main.remote
    <3>1. Total <= Done
      BY <1>1, <2>2 DEF IInv, Announced, Done
    <3>2. ASSUME NEW k \in 1..Len(queue) PROVE FALSE
      <4>1. Done < Pos(queue[k]) /\ Pos(queue[k]) <= Total /\ Pos(queue[k]) \in 1..Total
            /\ Done \in Int
        BY <1>1, <1>3 DEF IInv, Counting, Ordered, Hashed
      <4> QED BY <2>1, <3>1, <4>1
    <3> QED BY <2>1, <3>2
  <2>3. CASE queue = <<>>
    BY <2>3, EmptySeq
  <2> QED BY <1>1, <2>2, <2>3 DEF IInv, Counting
<1> QED BY <1>1, <1>2, <1>3, <1>4

\* Hashes are checked after the blocks were added, and no block with a wrong one is in
\* the store when the download reports success.
THEOREM HashesChecked == Spec => []NoWrongHashOnSuccess
<1>1. IInv => NoWrongHashOnSuccess
  <2> SUFFICES ASSUME IInv, Finished("ok"), NEW h \in DOMAIN stored, stored[h] \in BadBlocks
               PROVE  FALSE
    BY DEF NoWrongHashOnSuccess
  <2>1. h \in 1..Len(stored)
    BY LenProperties DEF IInv, TypeOK
  <2>2. Suspect(stored[h])
    BY <2>1 DEF IInv, Suspects
  <2>3. Len(hashq) = 0
    BY OnSuccess, EmptySeq
  <2> QED BY <2>2, <2>3, OnSuccess DEF Suspect
<1> QED BY <1>1, DownloadInductive, PTL

\* Every block that was sent is in the store when the download reports success, and of
\* the missing ones all but the last.
THEOREM DownloadApplied == Spec => []SuccessMeansApplied
<1>1. IInv => SuccessMeansApplied
  <2> SUFFICES ASSUME IInv, Finished("ok"), ~overlapped
               PROVE  LET sent == DOMAIN main.hashes \ missing
                      IN /\ \A i \in sent : main.hashes[i] \in Range(stored)
                         /\ \A i \in missing, j \in sent :
                              i < j => main.hashes[i] \in Range(stored)
    BY DEF SuccessMeansApplied
  <2>1. /\ DOMAIN main.hashes = 1..Total /\ Total \in Nat /\ main.local \in Nat
        /\ DOMAIN stored = 1..Len(stored) /\ Linked(stored) /\ missing \subseteq 1..Total
    <3>1. main.hashes \in Seq(Chain) /\ stored \in Seq(Chain) /\ main.local \in Nat
      BY DEF IInv, TypeOK, MainType
    <3>2. Linked(stored)
      BY DEF IInv, Links
    <3>3. missing \subseteq 1..Total
      BY OnSuccess DEF IInv, NothingLost
    <3> QED BY <3>1, <3>2, <3>3, LenProperties DEF Total
  <2>2. ASSUME NEW p \in 1..Total, p \notin missing
        PROVE  \E h \in 1..Len(stored) : stored[h] = main.hashes[p]
    <3>1. OnItsWay(p)
      BY <2>2, OnSuccess DEF IInv, NothingLost
    <3>2. applier.pc # "write" /\ Len(loader.tasks) = 0 /\ Len(queue) = 0
      BY OnSuccess
    <3> QED BY <3>1, <3>2 DEF OnItsWay
  <2>3. ASSUME NEW i \in missing, NEW j \in 1..Total, j \notin missing, i < j
        PROVE  \E h \in 1..Len(stored) : stored[h] = main.hashes[i]
    <3>1. PICK h \in 1..Len(stored) : stored[h] = main.hashes[j]
      BY <2>2, <2>3
    <3>2. i \in 1..j /\ i \in Nat \ {0} /\ j \in Nat
      BY <2>1, <2>3
    <3>3. /\ h = main.local + j
          /\ main.hashes[i] = SubSeq(main.hashes[j], 1, main.local + i)
      BY <2>1, <3>1, <3>2 DEF IInv, Announced, Linked
    <3>4. main.local + i \in 1..h
      BY <2>1, <2>3, <3>2, <3>3
    <3>5. stored[main.local + i] = SubSeq(stored[h], 1, main.local + i)
      BY <2>1, <3>4 DEF Linked
    <3>6. main.local + i \in 1..Len(stored)
      BY <3>4
    <3> QED BY <3>1, <3>3, <3>5, <3>6
  <2>4. \A x : (\E h \in 1..Len(stored) : stored[h] = x) => x \in Range(stored)
    BY <2>1 DEF Range
  <2> QED BY <2>1, <2>2, <2>3, <2>4
<1> QED BY <1>1, DownloadInductive, PTL

\* ibd_blockchain returns while the applier is at work, and lets its caller clear
\* is_syncing, only when a thread has found a wrong hash.
THEOREM FlagCoversApplier == Spec => []ApplierUnderFlag
<1>1. IInv => ApplierUnderFlag
  BY DEF IInv, Phases, ApplierUnderFlag, ApplierEnded
<1> QED BY <1>1, DownloadInductive, PTL
=============================================================================
