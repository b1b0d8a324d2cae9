--------------------------- MODULE LightNodeProofs ---------------------------
(***************************************************************************)
(* Proofs about LightNode, for every set of peers, addresses, blocks and   *)
(* chains, every width of the heights and every number of synchronisations *)
(* at once: the history of a light node holds no transaction of a block    *)
(* that was rolled back, and the wallets are exact as long as no block     *)
(* does what the spend log cannot undo.                                    *)
(***************************************************************************)
EXTENDS LightNode, SequenceTheorems, FiniteSetTheorems, WellFoundedInduction, TLAPS

\* Every set of natural numbers that is not empty has a least element.
LEMMA Least ==
  ASSUME NEW S \in SUBSET Nat, S # {}
  PROVE  \E m \in S : \A k \in S : m <= k
<1> DEFINE R == StrictSubsetOrdering(Nat)
           T == {1..m : m \in S}
<1>1. T \subseteq FiniteSubsetsOf(Nat)
  <2>1. ASSUME NEW m \in Nat PROVE 1..m \in FiniteSubsetsOf(Nat)
    BY FS_Interval DEF FiniteSubsetsOf
  <2> QED BY <2>1
<1>2. IsWellFoundedOn(R, FiniteSubsetsOf(Nat))
  BY FS_StrictSubsetOrderingWellFounded
<1>3. T # {}
  OBVIOUS
<1> HIDE DEF R
<1>4. \E x \in T : \A y \in T : <<y, x>> \notin R
  <2> HIDE DEF T
  <2> QED BY <1>1, <1>2, <1>3, WFMin
<1>5. PICK m \in S : \A k \in S : <<1..k, 1..m>> \notin R
  BY <1>4
<1>6. ASSUME NEW k \in S, k < m PROVE <<1..k, 1..m>> \in R
  <2>1. 1..k \in SUBSET Nat /\ 1..m \in SUBSET Nat /\ 1..k \subseteq 1..m
    BY <1>6
  <2>2. m \in 1..m /\ m \notin 1..k
    BY <1>6
  <2> QED BY <2>1, <2>2 DEF R, StrictSubsetOrdering
<1>7. \A k \in S : k \in Nat /\ m \in Nat
  OBVIOUS
<1>8. \A k \in S : ~(k < m)
  BY <1>5, <1>6
<1>9. \A k \in S : m <= k
  BY <1>7, <1>8
<1> QED BY <1>9
-----------------------------------------------------------------------------
(* What the peers answer.                                                  *)

\* What a quorum answers was the answer of a peer.
LEMMA QuorumAnswers ==
  ASSUME NEW answer, NEW none, NEW v \in QuorumRequest(answer, none)
  PROVE  v = none \/ \E p \in Peer : v = answer[p]
<1> SUFFICES ASSUME v # none PROVE \E p \in Peer : v = answer[p]
  OBVIOUS
<1> DEFINE answering == {p \in Peer : answer[p] # none}
<1>1. PICK o \in SeqOf(answering, Quorum) : v \in Canonical([i \in DOMAIN o |-> answer[o[i]]])
  BY DEF QuorumRequest
<1>2. PICK n : o \in [1..n -> answering]
  BY <1>1 DEF SeqOf
<1>3. PICK i \in DOMAIN o : v = answer[o[i]]
  BY <1>1 DEF Canonical
<1> QED BY <1>2, <1>3

\* The metadata of a chain are blocks.
LEMMA MetadatasType ==
  ASSUME NEW c \in Seq(Blocks), NEW from \in Nat, NEW to \in Nat
  PROVE  Metadatas(c, from, to) \in Seq(Blocks)
<1>1. CASE to <= Len(c)
  BY <1>1 DEF Metadatas
<1>2. CASE ~(to <= Len(c))
  BY <1>2 DEF Metadatas
<1> QED BY <1>1, <1>2

\* So are the answers to a chunk.
LEMMA ChunkType ==
  ASSUME LightNodeAssumption, NEW from \in Nat, NEW to \in Nat
  PROVE  ChunkAnswers(from, to) \subseteq Seq(Blocks)
<1> SUFFICES ASSUME NEW v \in ChunkAnswers(from, to) PROVE v \in Seq(Blocks)
  OBVIOUS
<1>1. PICK on \in [Peer -> Chains] :
        v \in QuorumRequest([p \in Peer |-> Metadatas(on[p], from, to)], <<>>)
  BY DEF ChunkAnswers
<1> DEFINE answer == [p \in Peer |-> Metadatas(on[p], from, to)]
<1>2. v = <<>> \/ \E p \in Peer : v = answer[p]
  <2> HIDE DEF answer
  <2> QED BY <1>1, QuorumAnswers DEF answer
<1>3. ASSUME NEW p \in Peer PROVE answer[p] \in Seq(Blocks)
  <2>1. on[p] \in Seq(Blocks)
    BY DEF LightNodeAssumption
  <2> QED BY <2>1, MetadatasType
<1>4. <<>> \in Seq(Blocks)
  OBVIOUS
<1> QED BY <1>2, <1>3, <1>4

\* The chunks that are fetched end between the two heights.
LEMMA ChunkEndType ==
  ASSUME LightNodeAssumption, NEW n \in Nat, NEW start \in Nat, NEW end \in Nat
  PROVE  ChunkEnd(n, start, end) \in Nat
<1>1. ChunkSize \in Nat
  BY DEF LightNodeAssumption
<1>2. n * ChunkSize \in Nat
  BY <1>1
<1> QED BY <1>2 DEF ChunkEnd

Lists(f, k, start, end) ==
  f = [n \in 0..k |->
         IF n = 0 THEN {<<>>} ELSE Extended(f[n - 1], n, start, end)]

\* The recursion of FetchAll defines a function.
LEMMA ListsExist ==
  ASSUME NEW k \in Nat, NEW start, NEW end
  PROVE  \E f : Lists(f, k, start, end)
<1> DEFINE Good(j) == \E f : Lists(f, j, start, end)
           Bad == {j \in Nat : ~ Good(j)}
<1>1. Good(0)
  <2>1. [n \in 0..0 |-> {<<>>}] = [n \in 0..0 |-> IF n = 0 THEN {<<>>} ELSE Extended([o \in 0..0 |-> {<<>>}][n - 1], n, start, end)]
    OBVIOUS
  <2> QED BY <2>1 DEF Lists
<1>2. ASSUME NEW j \in Nat, Good(j) PROVE Good(j + 1)
  <2>1. PICK f : f = [n \in 0..j |-> IF n = 0 THEN {<<>>} ELSE Extended(f[n - 1], n, start, end)]
    BY <1>2 DEF Lists
  <2> DEFINE g == [n \in 0..(j + 1) |-> IF n = j + 1 THEN Extended(f[j], j + 1, start, end) ELSE f[n]]
  <2>2. \A n \in 0..j : g[n] = f[n]
    OBVIOUS
  <2>3. ASSUME NEW n \in 0..(j + 1)
        PROVE  g[n] = IF n = 0 THEN {<<>>} ELSE Extended(g[n - 1], n, start, end)
    <3>1. CASE n = 0
      <4>1. g[n] = f[0] /\ f[0] = {<<>>}
        BY <2>1, <3>1
      <4> QED BY <3>1, <4>1
    <3>2. CASE n = j + 1
      <4>1. g[n] = Extended(f[j], n, start, end) /\ g[n - 1] = f[j]
        BY <3>2
      <4> QED BY <3>2, <4>1
    <3>3. CASE n \in 1..j
      <4>1. g[n] = f[n] /\ n - 1 \in 0..j
        BY <3>3
      <4>2. g[n - 1] = f[n - 1]
        BY <4>1, <2>2
      <4>3. f[n] = Extended(f[n - 1], n, start, end)
        <5>1. n \in 0..j /\ n # 0
          BY <3>3
        <5>2. f[n] = IF n = 0 THEN {<<>>} ELSE Extended(f[n - 1], n, start, end)
          BY <2>1, <5>1
        <5> QED BY <5>1, <5>2
      <4> QED BY <3>3, <4>1, <4>2, <4>3
    <3> QED BY <3>1, <3>2, <3>3
  <2>4. g = [n \in 0..(j + 1) |-> IF n = 0 THEN {<<>>} ELSE Extended(g[n - 1], n, start, end)]
    <3> HIDE DEF g
    <3>1. g = [n \in 0..(j + 1) |-> g[n]]
      BY DEF g
    <3> QED BY <2>3, <3>1
  <2> QED BY <2>4 DEF Lists
<1>3. Good(k)
  <2> HIDE DEF Good
  <2> SUFFICES ASSUME ~ Good(k) PROVE FALSE
    OBVIOUS
  <2>1. Bad \in SUBSET Nat /\ Bad # {}
    OBVIOUS
  <2>2. PICK m \in Bad : \A j \in Bad : m <= j
    BY <2>1, Least
  <2>3. m \in Nat /\ m # 0
    BY <1>1, <2>2
  <2>4. m - 1 \in Nat /\ m - 1 \notin Bad
    BY <2>2, <2>3
  <2>5. Good((m - 1) + 1)
    BY <1>2, <2>4
  <2> QED BY <2>2, <2>3, <2>5
<1> QED BY <1>3

\* Whatever the peers answer, a list of metadata is a list of blocks.
LEMMA FetchAllType ==
  ASSUME LightNodeAssumption, NEW start \in Nat, NEW end \in Nat, start < end
  PROVE  FetchAll(start, end) \subseteq Seq(Blocks)
<1> DEFINE k == (end - start + ChunkSize - 1) \div ChunkSize
           f == CHOOSE g : Lists(g, k, start, end)
           Bad == {n \in 0..k : ~ (f[n] \subseteq Seq(Blocks))}
<1>1. k \in Nat
  <2>1. ChunkSize \in Nat \ {0}
    BY DEF LightNodeAssumption
  <2>2. end - start + ChunkSize - 1 \in Nat
    BY <2>1
  <2> QED BY <2>1, <2>2
<1> HIDE DEF k
<1>2. Lists(f, k, start, end)
  BY <1>1, ListsExist
<1>3. FetchAll(start, end) = f[k]
  BY Zenon DEF FetchAll, Lists, k
<1> HIDE DEF f
<1>4. f[0] = {<<>>}
  BY <1>1, <1>2 DEF Lists
<1>5. ASSUME NEW n \in 1..k, f[n - 1] \subseteq Seq(Blocks) PROVE f[n] \subseteq Seq(Blocks)
  <2>1. f[n] = Extended(f[n - 1], n, start, end)
    <3>1. n \in 0..k /\ n # 0
      BY <1>1
    <3>2. f[n] = IF n = 0 THEN {<<>>} ELSE Extended(f[n - 1], n, start, end)
      BY <1>2, <3>1 DEF Lists
    <3> QED BY <3>1, <3>2
  <2>2. ChunkAnswers(ChunkEnd(n - 1, start, end), ChunkEnd(n, start, end)) \subseteq Seq(Blocks)
    <3>1. n \in Nat /\ n - 1 \in Nat
      BY <1>1
    <3> QED BY <3>1, ChunkEndType, ChunkType
  <2>3. \A l, m \in Seq(Blocks) : l \o m \in Seq(Blocks)
    OBVIOUS
  <2>4. ASSUME NEW l \in f[n - 1],
               NEW m \in ChunkAnswers(ChunkEnd(n - 1, start, end), ChunkEnd(n, start, end))
        PROVE  l \o m \in Seq(Blocks)
    <3>1. l \in Seq(Blocks)
      BY <1>5
    <3>2. m \in Seq(Blocks)
      BY <2>2
    <3> QED BY <2>3, <3>1, <3>2
  <2>5. ASSUME NEW v \in f[n] PROVE v \in Seq(Blocks)
    <3>1. PICK l \in f[n - 1],
               m \in ChunkAnswers(ChunkEnd(n - 1, start, end), ChunkEnd(n, start, end)) :
            v = l \o m
      BY <2>1 DEF Extended
    <3> QED BY <2>4, <3>1
  <2> QED BY <2>5
<1>6. Bad = {}
  <2> SUFFICES ASSUME Bad # {} PROVE FALSE
    OBVIOUS
  <2>1. Bad \in SUBSET Nat
    OBVIOUS
  <2>2. PICK m \in Bad : \A j \in Bad : m <= j
    BY <2>1, Least
  <2>3. m # 0
    <3>1. {<<>>} \subseteq Seq(Blocks)
      OBVIOUS
    <3> QED BY <1>4, <2>2, <3>1
  <2>4. m \in 1..k /\ m - 1 \in 0..k /\ m - 1 \notin Bad
    BY <1>1, <2>2, <2>3
  <2> QED BY <1>5, <2>2, <2>4
<1> QED BY <1>1, <1>3, <1>6

-----------------------------------------------------------------------------
(* The tasks and the lock.                                                 *)

Pcs == {"idle", "mark", "accept", "scanned", "ping", "lock", "first", "compare", "pop",
        "probe", "apply", "end"}
TaskType == [pc : Pcs, block : Blocks \cup {NoBlock}, metas : Seq(Blocks), pops : Nat]

\* A task between the scan of a block and the count of the height has the lock, and a
\* spawned synchronisation has it from start to end, and so never scans a block.
Control ==
  /\ lock \in Task \cup {NoTask}
  /\ task \in [Task -> TaskType]
  /\ \A x \in Task : /\ At(x, "mark") \/ At(x, "accept") => task[x].block \in Blocks
                     /\ At(x, "scanned") => lock = x /\ task[x].block \in Blocks
  /\ \A s \in Syncer : /\ task[s].pc \notin {"idle", "lock"} => lock = s
                       /\ ~ At(s, "scanned")

Busy == \E x \in Task : At(x, "scanned")

\* One task moves, and takes or drops the lock for itself only.
LEMMA ControlStep ==
  ASSUME LightNodeAssumption, Control, NEW x \in Task, NEW t \in TaskType, Become(x, t),
         t.pc \in {"mark", "accept", "scanned"} => t.block \in Blocks,
         lock' = lock \/ (lock = NoTask /\ lock' = x) \/ (lock = x /\ lock' = NoTask),
         t.pc = "scanned" => lock' = x,
         x \in Syncer /\ t.pc \notin {"idle", "lock"} => lock' = x,
         x \in Syncer => t.pc # "scanned"
  PROVE  Control' /\ task'[x] = t /\ \A y \in Task : y # x => task'[y] = task[y]
<1>1. task' \in [Task -> TaskType] /\ task'[x] = t /\ \A y \in Task : y # x => task'[y] = task[y]
  BY DEF Become, Control
<1>2. lock' \in Task \cup {NoTask}
  BY DEF Control
<1>3. \A y \in Task : y # x /\ lock = y => lock' = y
  BY DEF LightNodeAssumption
<1>4. ASSUME NEW y \in Task
      PROVE  /\ At(y, "mark")' \/ At(y, "accept")' => task'[y].block \in Blocks
             /\ At(y, "scanned")' => lock' = y /\ task'[y].block \in Blocks
  <2>1. CASE y = x
    BY <1>1, <2>1 DEF At
  <2>2. CASE y # x
    BY <1>1, <1>3, <2>2 DEF At, Control
  <2> QED BY <2>1, <2>2
<1>5. ASSUME NEW s \in Syncer, task'[s].pc \notin {"idle", "lock"} PROVE lock' = s
  <2>1. s \in Task
    BY DEF Task
  <2>2. CASE s = x
    BY <1>1, <1>5, <2>2
  <2>3. CASE s # x
    BY <1>1, <1>3, <1>5, <2>1, <2>3 DEF Control
  <2> QED BY <2>2, <2>3
<1>6. ASSUME NEW s \in Syncer PROVE ~ At(s, "scanned")'
  <2>1. s \in Task
    BY DEF Task
  <2>2. CASE s = x
    BY <1>1, <2>2 DEF At
  <2>3. CASE s # x
    BY <1>1, <2>1, <2>3 DEF At, Control
  <2> QED BY <2>2, <2>3
<1> QED BY <1>1, <1>2, <1>4, <1>5, <1>6 DEF Control

\* A step between two points at which no block is being scanned.
Quiet(x, t) ==
  /\ Become(x, t)
  /\ ~ At(x, "scanned") /\ t.pc # "scanned"

\* Nobody is between a scan and its count after such a step who was not before, and
\* the other way round.
LEMMA QuietStep ==
  ASSUME LightNodeAssumption, Control, NEW x \in Task, NEW t \in TaskType, Quiet(x, t),
         t.pc \in {"mark", "accept"} => t.block \in Blocks,
         lock' = lock \/ (lock = NoTask /\ lock' = x) \/ (lock = x /\ lock' = NoTask),
         x \in Syncer /\ t.pc \notin {"idle", "lock"} => lock' = x
  PROVE  Control' /\ Busy' = Busy
<1>1. Control' /\ task'[x] = t /\ \A y \in Task : y # x => task'[y] = task[y]
  BY ControlStep DEF Quiet
<1>2. \A y \in Task : At(y, "scanned")' <=> At(y, "scanned")
  BY <1>1 DEF Quiet, At
<1> QED BY <1>1, <1>2 DEF Busy

\* The records that the steps write.
LEMMA TaskTypes ==
  ASSUME LightNodeAssumption, Control, NEW x \in Task
  PROVE  /\ task[x] \in TaskType /\ Idle \in TaskType
         /\ \A p \in Pcs : /\ [task[x] EXCEPT !.pc = p] \in TaskType
                           /\ [Idle EXCEPT !.pc = p] \in TaskType
                           /\ \A b \in Blocks : [Idle EXCEPT !.pc = p, !.block = b] \in TaskType
                           /\ \A m \in Seq(Blocks) : [Idle EXCEPT !.pc = p, !.metas = m] \in TaskType
         /\ [Idle EXCEPT !.pc = "pop", !.pops = Rollback] \in TaskType
         /\ \A b \in Blocks \cup {NoBlock} : [task[x] EXCEPT !.pc = "compare", !.block = b] \in TaskType
         /\ [task[x] EXCEPT !.pc = "apply", !.block = NoBlock] \in TaskType
<1>1. task[x] \in TaskType
  BY DEF Control
<1>2. Rollback \in Nat
  BY DEF LightNodeAssumption
<1>3. Idle \in TaskType
  BY DEF Idle, TaskType, Pcs
<1>4. \A p \in Pcs : [task[x] EXCEPT !.pc = p] \in TaskType
  BY <1>1 DEF TaskType
<1>5. ASSUME NEW p \in Pcs
      PROVE  /\ [Idle EXCEPT !.pc = p] \in TaskType
             /\ \A b \in Blocks : [Idle EXCEPT !.pc = p, !.block = b] \in TaskType
             /\ \A m \in Seq(Blocks) : [Idle EXCEPT !.pc = p, !.metas = m] \in TaskType
  BY <1>3 DEF TaskType
<1>6. [Idle EXCEPT !.pc = "pop", !.pops = Rollback] \in TaskType
  BY <1>2, <1>3 DEF TaskType, Pcs
<1>7. \A b \in Blocks \cup {NoBlock} : [task[x] EXCEPT !.pc = "compare", !.block = b] \in TaskType
  BY <1>1 DEF TaskType, Pcs
<1>8. [task[x] EXCEPT !.pc = "apply", !.block = NoBlock] \in TaskType
  BY <1>1 DEF TaskType, Pcs
<1> QED BY <1>1, <1>3, <1>4, <1>5, <1>6, <1>7, <1>8

\* Only the place in the program changes.
LEMMA MovedTask ==
  ASSUME LightNodeAssumption, Control, NEW x \in Task, NEW p \in Pcs
  PROVE  LET t == [task[x] EXCEPT !.pc = p]
         IN t \in TaskType /\ t.pc = p /\ t.block = task[x].block
<1>1. task[x] \in TaskType
  BY DEF Control
<1> QED BY <1>1 DEF TaskType

\* What the steps that scan nothing and take nothing back leave alone.
Still == UNCHANGED <<db, height, seen, trust>>

\* A reader that receives a message, and a task that comes to accept_block or is
\* refused there.
LEMMA ReaderControl ==
  ASSUME LightNodeAssumption, Control, NEW x \in Task,
         \/ x \in Peer /\ \E b \in Blocks : ReceiveBlock(x, b)
         \/ x \in Peer /\ \E c \in Chains : ReceivePing(x, Len(c))
         \/ SetLastSeen(x) \/ RefuseBlock(x)
  PROVE  Control' /\ Busy' = Busy /\ Still
<1> USE TaskTypes
<1>1. CASE x \in Peer /\ \E b \in Blocks : ReceiveBlock(x, b)
  <2>1. PICK b \in Blocks : ReceiveBlock(x, b)
    BY <1>1
  <2> DEFINE t == [Idle EXCEPT !.pc = "mark", !.block = b]
  <2>2. t \in TaskType /\ t.pc = "mark" /\ t.block = b
    BY DEF Idle, Pcs
  <2>3. Quiet(x, t) /\ lock' = lock /\ x \notin Syncer
    BY <1>1, <2>1, <2>2 DEF ReceiveBlock, Quiet, At, nodeVars, LightNodeAssumption
  <2> HIDE DEF t
  <2>4. Control' /\ Busy' = Busy
    BY <2>2, <2>3, QuietStep
  <2> QED BY <2>1, <2>4 DEF ReceiveBlock, nodeVars, Still
<1>2. CASE x \in Peer /\ \E c \in Chains : ReceivePing(x, Len(c))
  <2>1. PICK c \in Chains : ReceivePing(x, Len(c))
    BY <1>2
  <2> DEFINE t == [task[x] EXCEPT !.pc = "ping"]
  <2>2. t \in TaskType /\ t.pc = "ping"
    BY MovedTask DEF Pcs
  <2>3. Quiet(x, t) /\ lock' = lock /\ x \notin Syncer
    BY <1>2, <2>1, <2>2 DEF ReceivePing, Go, Quiet, At, nodeVars, LightNodeAssumption
  <2> HIDE DEF t
  <2>4. Control' /\ Busy' = Busy
    BY <2>2, <2>3, QuietStep
  <2> QED BY <2>1, <2>4 DEF ReceivePing, nodeVars, Still
<1>3. CASE SetLastSeen(x)
  <2> DEFINE t == [task[x] EXCEPT !.pc = "accept"]
  <2>1. task[x].block \in Blocks
    BY <1>3 DEF SetLastSeen, Control
  <2>2. t \in TaskType /\ t.pc = "accept" /\ t.block = task[x].block
    BY MovedTask DEF Pcs
  <2>3. Quiet(x, t) /\ lock' = lock
    BY <1>3, <2>2 DEF SetLastSeen, Go, Quiet, At
  <2>4. x \in Syncer => lock' = x
    BY <1>3, <2>3 DEF SetLastSeen, At, Control
  <2> HIDE DEF t
  <2>5. Control' /\ Busy' = Busy
    BY <2>1, <2>2, <2>3, <2>4, QuietStep
  <2> QED BY <1>3, <2>5 DEF SetLastSeen, Still
<1>4. CASE RefuseBlock(x)
  <2>1. x \notin Syncer
    BY <1>4 DEF RefuseBlock, At, Control, Task, LightNodeAssumption
  <2>2. AfterError(x) \in TaskType /\ AfterError(x).pc \in {"idle", "end"}
    BY DEF AfterError, Idle, Pcs
  <2>3. Quiet(x, AfterError(x)) /\ lock' = lock
    BY <1>4, <2>2 DEF RefuseBlock, Quiet, At, nodeVars
  <2>4. Control' /\ Busy' = Busy
    BY <2>1, <2>2, <2>3, QuietStep
  <2> QED BY <1>4, <2>4 DEF RefuseBlock, nodeVars, Still
<1> QED BY <1>1, <1>2, <1>3, <1>4

\* A synchronisation is spawned, and takes the lock.
LEMMA SpawnControl ==
  ASSUME LightNodeAssumption, Control, NEW s \in Syncer,
         (\E x \in Peer : StartSync(x, s)) \/ SyncLock(s)
  PROVE  Control' /\ Busy' = Busy /\ Still
<1> USE TaskTypes
<1>1. s \in Task
  BY DEF Task
<1>2. CASE \E x \in Peer : StartSync(x, s)
  <2>1. PICK x \in Peer : StartSync(x, s)
    BY <1>2
  <2> DEFINE t == [Idle EXCEPT !.pc = "lock"]
  <2>2. t \in TaskType /\ t.pc = "lock" /\ Idle \in TaskType /\ Idle.pc = "idle"
    BY <1>1 DEF Idle, Pcs
  <2>3. x # s /\ x \in Task
    BY DEF Task, LightNodeAssumption
  <2> HIDE DEF t
  <2>4. /\ task' \in [Task -> TaskType] /\ task'[x] = Idle /\ task'[s] = t
        /\ \A y \in Task \ {x, s} : task'[y] = task[y]
    BY <1>1, <2>1, <2>2, <2>3 DEF StartSync, Control, t
  <2>5. lock' = lock /\ ~ At(x, "scanned") /\ ~ At(s, "scanned")
    BY <2>1 DEF StartSync, At
  <2>6. \A y \in Task : \/ y \in {x, s} /\ task'[y].pc \in {"idle", "lock"}
                        \/ y \notin {x, s} /\ task'[y] = task[y]
    BY <2>2, <2>4
  <2>7. \A y \in Syncer : y \in Task
    BY DEF Task
  <2>8. Control'
    BY <2>4, <2>5, <2>6, <2>7 DEF Control, At
  <2>9. \A y \in Task : At(y, "scanned")' <=> At(y, "scanned")
    BY <2>5, <2>6 DEF At
  <2> QED BY <2>1, <2>8, <2>9 DEF StartSync, Busy, Still
<1>3. CASE SyncLock(s)
  <2> DEFINE t == [task[s] EXCEPT !.pc = "first"]
  <2>1. t \in TaskType /\ t.pc = "first"
    BY <1>1, MovedTask DEF Pcs
  <2>2. Quiet(s, t) /\ lock = NoTask /\ lock' = s
    BY <1>3, <2>1 DEF SyncLock, Go, Quiet, At
  <2> HIDE DEF t
  <2>3. Control' /\ Busy' = Busy
    BY <1>1, <2>1, <2>2, QuietStep
  <2> QED BY <1>3, <2>3 DEF SyncLock, Still
<1> QED BY <1>2, <1>3

\* A synchronisation that only asks, compares and goes on.
LEMMA SyncControl ==
  ASSUME LightNodeAssumption, Control, height \in Nat, NEW x \in Syncer \cup {App},
         \/ AskFirst(x) \/ CompareFirst(x) \/ SyncFails(x) \/ FetchBlock(x) \/ SyncEnd(x)
         \/ \E c \in Chains : Probe(x, Len(c))
  PROVE  Control' /\ Busy' = Busy /\ Still
<1>1. x \in Task /\ task[x] \in TaskType
  BY DEF Task, Control
<1>2. x \in Syncer /\ task[x].pc \notin {"idle", "lock"} => lock = x
  BY DEF Control
<1>3. CASE AskFirst(x)
  <2>1. PICK b \in FirstAnswers(height) : Become(x, [task[x] EXCEPT !.pc = "compare", !.block = b])
    BY <1>3 DEF AskFirst
  <2>2. b \in Blocks \cup {NoBlock}
    <3>1. PICK on \in [Peer -> Chains] :
            b \in QuorumRequest([p \in Peer |-> FirstMetadata(on[p], height)], NoBlock)
      BY <2>1 DEF FirstAnswers
    <3> DEFINE answer == [p \in Peer |-> FirstMetadata(on[p], height)]
    <3>2. b = NoBlock \/ \E p \in Peer : b = answer[p]
      <4> HIDE DEF answer
      <4> QED BY <3>1, QuorumAnswers DEF answer
    <3>3. ASSUME NEW p \in Peer PROVE answer[p] \in Blocks \cup {NoBlock}
      <4>1. on[p] \in Seq(Blocks)
        BY DEF LightNodeAssumption
      <4>2. FirstMetadata(on[p], height) \in Blocks \cup {NoBlock}
        BY <4>1 DEF FirstMetadata
      <4> QED BY <4>2
    <3> QED BY <3>2, <3>3
  <2> DEFINE t == [task[x] EXCEPT !.pc = "compare", !.block = b]
  <2>3. t \in TaskType /\ t.pc = "compare"
    <3>1. t \in TaskType
      BY <1>1, <2>2, TaskTypes
    <3>2. t.pc = "compare"
      BY <1>1 DEF TaskType
    <3> QED BY <3>1, <3>2
  <2>4. Quiet(x, t) /\ lock' = lock
    BY <1>3, <2>1, <2>3 DEF AskFirst, Quiet, At, nodeVars
  <2>5. x \in Syncer => lock' = x
    BY <1>2, <1>3, <2>4 DEF AskFirst, At
  <2> HIDE DEF t
  <2>6. Control' /\ Busy' = Busy
    BY <1>1, <2>3, <2>4, <2>5, QuietStep
  <2> QED BY <1>3, <2>6 DEF AskFirst, nodeVars, Still
<1>4. CASE CompareFirst(x)
  <2>1. PICK t \in {[Idle EXCEPT !.pc = "pop", !.pops = Rollback], [Idle EXCEPT !.pc = "probe"]} :
          Become(x, t)
    BY <1>4 DEF CompareFirst
  <2>2. t \in TaskType /\ t.pc \in {"pop", "probe"}
    BY <1>1, <2>1, TaskTypes DEF Idle, Pcs
  <2>3. Quiet(x, t) /\ lock' = lock
    BY <1>4, <2>1, <2>2 DEF CompareFirst, Quiet, At, nodeVars
  <2>4. x \in Syncer => lock' = x
    BY <1>2, <1>4, <2>3 DEF CompareFirst, At
  <2>5. Control' /\ Busy' = Busy
    BY <1>1, <2>2, <2>3, <2>4, QuietStep
  <2> QED BY <1>4, <2>5 DEF CompareFirst, nodeVars, Still
<1>5. CASE \E c \in Chains : Probe(x, Len(c))
  <2>1. PICK c \in Chains : Probe(x, Len(c))
    BY <1>5
  <2>2. Len(c) \in Nat
    <3>1. c \in Seq(Blocks)
      BY DEF LightNodeAssumption
    <3> QED BY <3>1
  <2>3. PICK t \in TaskType : t.pc \in {"apply", "end"} /\ Become(x, t)
    <3>1. CASE height >= Len(c)
      <4> DEFINE t == [Idle EXCEPT !.pc = "end"]
      <4>1. t \in TaskType /\ t.pc = "end"
        BY <1>1, TaskTypes DEF Idle, Pcs
      <4>2. ~(height < Len(c))
        BY <2>2, <3>1
      <4>3. Become(x, t)
        BY <2>1, <4>2, Zenon DEF Probe
      <4> HIDE DEF t
      <4> QED BY <4>1, <4>3
    <3>2. CASE height < Len(c)
      <4> ~(height >= Len(c))
        BY <2>2, <3>2
      <4>1. PICK m \in FetchAll(height, Len(c)) : Become(x, [Idle EXCEPT !.pc = "apply", !.metas = m])
        BY <2>1, Zenon DEF Probe
      <4>2. m \in Seq(Blocks)
        BY <2>2, <3>2, <4>1, FetchAllType
      <4> DEFINE t == [Idle EXCEPT !.pc = "apply", !.metas = m]
      <4>3. t \in TaskType /\ t.pc = "apply"
        BY <1>1, <4>2, TaskTypes DEF Idle, Pcs
      <4>4. Become(x, t)
        BY <4>1
      <4> HIDE DEF t
      <4> QED BY <4>3, <4>4
    <3> QED BY <2>2, <3>1, <3>2
  <2>4. Quiet(x, t) /\ lock' = lock
    BY <2>1, <2>3 DEF Probe, Quiet, At, nodeVars
  <2>5. x \in Syncer => lock' = x
    BY <1>2, <2>1, <2>4 DEF Probe, At
  <2>6. Control' /\ Busy' = Busy
    BY <1>1, <2>3, <2>4, <2>5, QuietStep
  <2> QED BY <2>1, <2>6 DEF Probe, nodeVars, Still
<1>6. CASE SyncFails(x)
  <2> DEFINE t == [Idle EXCEPT !.pc = "end"]
  <2>1. t \in TaskType /\ t.pc = "end"
    BY <1>1, TaskTypes DEF Idle, Pcs
  <2>2. Quiet(x, t) /\ lock' = lock
    BY <1>6, <2>1 DEF SyncFails, Quiet, At, nodeVars
  <2>3. x \in Syncer => lock' = x
    BY <1>2, <1>6, <2>2 DEF SyncFails, At
  <2> HIDE DEF t
  <2>4. Control' /\ Busy' = Busy
    BY <1>1, <2>1, <2>2, <2>3, QuietStep
  <2> QED BY <1>6, <2>4 DEF SyncFails, nodeVars, Still
<1>7. CASE FetchBlock(x)
  <2> DEFINE b == Head(task[x].metas)
             rest == [task[x] EXCEPT !.metas = Tail(@)]
  <2>1. b \in Blocks /\ rest \in TaskType /\ rest.pc = task[x].pc
    <3>1. task[x].metas \in Seq(Blocks) /\ task[x].metas # <<>>
      BY <1>1, <1>7 DEF FetchBlock, TaskType
    <3>2. b \in Blocks /\ Tail(task[x].metas) \in Seq(Blocks)
      BY <3>1, HeadTailProperties
    <3> QED BY <1>1, <3>2 DEF TaskType
  <2> DEFINE t == IF lastSeen = b THEN rest ELSE [rest EXCEPT !.pc = "mark", !.block = b]
  <2>2. Become(x, t) /\ At(x, "apply") /\ UNCHANGED <<nodeVars, seen, trust>>
    BY <1>7 DEF FetchBlock
  <2> HIDE DEF b, rest
  <2>3. t \in TaskType /\ t.pc \in {"apply", "mark"} /\ (t.pc = "mark" => t.block \in Blocks)
    <3>1. rest \in TaskType /\ rest.pc = "apply" /\ b \in Blocks
      BY <2>1, <2>2 DEF At
    <3> DEFINE marked == [rest EXCEPT !.pc = "mark", !.block = b]
    <3>2. marked \in TaskType /\ marked.pc = "mark" /\ marked.block = b
      BY <3>1 DEF TaskType, Pcs
    <3> HIDE DEF marked
    <3>3. t = rest \/ t = marked
      BY DEF t, marked
    <3> QED BY <3>1, <3>2, <3>3
  <2> HIDE DEF t
  <2>4. Quiet(x, t) /\ lock' = lock
    BY <2>2, <2>3 DEF Quiet, At, nodeVars
  <2>5. x \in Syncer => lock' = x
    BY <1>2, <2>2, <2>4 DEF At
  <2>6. Control' /\ Busy' = Busy
    BY <1>1, <2>3, <2>4, <2>5, QuietStep
  <2> QED BY <2>2, <2>6 DEF nodeVars, Still
<1>8. CASE SyncEnd(x)
  <2>1. Idle \in TaskType /\ Idle.pc = "idle"
    BY <1>1, TaskTypes DEF Idle
  <2>2. Quiet(x, Idle)
    BY <1>8, <2>1 DEF SyncEnd, Quiet, At
  <2>3. lock' = lock \/ (lock = x /\ lock' = NoTask)
    BY <1>2, <1>8 DEF SyncEnd, At
  <2>4. Control' /\ Busy' = Busy
    BY <1>1, <2>1, <2>2, <2>3, QuietStep
  <2> QED BY <1>8, <2>4 DEF SyncEnd, Still
<1> QED BY <1>3, <1>4, <1>5, <1>6, <1>7, <1>8

\* While nobody has the lock, nobody is between a scan and its count.
LEMMA LockFree ==
  ASSUME LightNodeAssumption, Control, lock = NoTask
  PROVE  ~ Busy
BY DEF LightNodeAssumption, Control, Busy

\* accept_block: the scan takes the lock.
LEMMA AcceptControl ==
  ASSUME LightNodeAssumption, Control, NEW x \in Task, AcceptBlock(x)
  PROVE  Control' /\ ~ Busy /\ Busy' /\ task[x].block \in Blocks
<1> DEFINE t == [task[x] EXCEPT !.pc = "scanned"]
<1>1. task[x].block \in Blocks /\ lock = NoTask /\ lock' = x
  BY DEF AcceptBlock, Control
<1>2. t \in TaskType /\ t.pc = "scanned" /\ t.block = task[x].block
  BY MovedTask DEF Pcs
<1>3. Become(x, t)
  BY DEF AcceptBlock, Go
<1> HIDE DEF t
<1>4. Control' /\ task'[x] = t
  <2>1. x \in Syncer => lock = x
    BY DEF AcceptBlock, At, Control
  <2>2. x \notin Syncer
    BY <1>1, <2>1 DEF LightNodeAssumption
  <2> QED BY <1>1, <1>2, <1>3, <2>2, ControlStep
<1>5. Busy'
  BY <1>2, <1>4 DEF Busy, At
<1> QED BY <1>1, <1>4, <1>5, LockFree

\* accept_block: the count gives it back.
LEMMA FinishControl ==
  ASSUME LightNodeAssumption, Control, NEW x \in Task, FinishAccepting(x)
  PROVE  Control'
<1>1. lock = x /\ lock' = NoTask
  BY DEF FinishAccepting, Control
<1>2. task[x] \in TaskType
  BY DEF Control
<1>3. AfterOk(x) \in TaskType /\ AfterOk(x).pc \in {"idle", "apply"}
  <2>1. CASE x \in Peer
    BY <2>1, TaskTypes DEF AfterOk, Idle
  <2>2. CASE x \notin Peer
    <3>1. AfterOk(x) = [task[x] EXCEPT !.pc = "apply", !.block = NoBlock]
      BY <2>2 DEF AfterOk
    <3>2. AfterOk(x) \in TaskType
      BY <3>1, TaskTypes
    <3>3. AfterOk(x).pc = "apply"
      BY <1>2, <3>1 DEF TaskType
    <3> QED BY <3>2, <3>3
  <2> QED BY <2>1, <2>2
<1>4. Become(x, AfterOk(x))
  BY DEF FinishAccepting
<1>5. x \notin Syncer
  BY DEF FinishAccepting, Control
<1> QED BY <1>1, <1>3, <1>4, <1>5, ControlStep

\* A reader that is dropped gives back a lock that it has.
LEMMA DisconnectControl ==
  ASSUME LightNodeAssumption, Control, NEW x \in Peer, Disconnect(x)
  PROVE  Control' /\ (At(x, "accept") => Busy' = Busy)
<1>1. x \in Task /\ x \notin Syncer
  BY DEF Task, LightNodeAssumption
<1>2. Idle \in TaskType /\ Idle.pc = "idle"
  BY <1>1, TaskTypes DEF Idle
<1>3. Become(x, Idle)
  BY DEF Disconnect
<1>4. CASE At(x, "scanned")
  <2>1. lock = x /\ lock' = NoTask
    BY <1>1, <1>4 DEF Disconnect, Control
  <2>2. Control'
    BY <1>1, <1>2, <1>3, <2>1, ControlStep
  <2> QED BY <1>4, <2>2 DEF At
<1>5. CASE At(x, "accept")
  <2>1. Quiet(x, Idle) /\ lock' = lock
    BY <1>2, <1>3, <1>5 DEF Disconnect, Quiet, At
  <2> QED BY <1>1, <1>2, <2>1, QuietStep
<1> QED BY <1>4, <1>5 DEF Disconnect

\* pop_block takes the lock and gives it back: nobody is in accept_block after the scan.
LEMMA PopControl ==
  ASSUME LightNodeAssumption, Control, NEW x \in Syncer \cup {App}, PopBlock(x)
  PROVE  Control' /\ ~ Busy
<1>1. x \in Task /\ task[x] \in TaskType
  BY DEF Task, Control
<1>2. lock = NoTask /\ lock' = lock /\ At(x, "pop")
  BY DEF PopBlock
<1>3. x \notin Syncer
  <2>1. x \in Syncer => lock = x
    BY <1>2 DEF Control, At
  <2> QED BY <1>1, <1>2, <2>1 DEF LightNodeAssumption
<1> DEFINE t == IF task[x].pops > 1 THEN [task[x] EXCEPT !.pops = @ - 1] ELSE [Idle EXCEPT !.pc = "probe"]
<1>4. Become(x, t)
  BY DEF PopBlock
<1>5. t \in TaskType /\ t.pc \in {"pop", "probe"}
  <2>1. CASE task[x].pops > 1
    BY <1>1, <1>2, <2>1 DEF TaskType, At
  <2>2. CASE ~(task[x].pops > 1)
    BY <1>1, <2>2, TaskTypes DEF Idle, Pcs
  <2> QED BY <2>1, <2>2
<1> HIDE DEF t
<1>6. Control'
  BY <1>1, <1>2, <1>3, <1>4, <1>5, ControlStep
<1> QED BY <1>2, <1>6, LockFree

\* A block that matches nothing is counted without a scan.
LEMMA SkipControl ==
  ASSUME LightNodeAssumption, Control, NEW x \in Syncer \cup {App}, SkipBlock(x)
  PROVE  Control' /\ Busy' = Busy
<1>1. x \in Task /\ task[x] \in TaskType
  BY DEF Task, Control
<1>2. At(x, "apply") /\ lock' = lock
  BY DEF SkipBlock
<1> DEFINE t == [task[x] EXCEPT !.metas = Tail(@)]
<1>3. t \in TaskType /\ t.pc = "apply"
  <2>1. task[x].metas \in Seq(Blocks) /\ task[x].metas # <<>>
    BY <1>1 DEF SkipBlock, TaskType
  <2>2. Tail(task[x].metas) \in Seq(Blocks)
    BY <2>1, HeadTailProperties
  <2> QED BY <1>1, <1>2, <2>2 DEF TaskType, At
<1>4. Become(x, t)
  BY DEF SkipBlock
<1> HIDE DEF t
<1>5. Quiet(x, t)
  BY <1>2, <1>3, <1>4 DEF Quiet, At
<1>6. x \in Syncer => lock' = x
  BY <1>2 DEF Control, At
<1> QED BY <1>1, <1>2, <1>3, <1>5, <1>6, QuietStep

\* start_tracking looks at no lock.
LEMMA TrackingControl ==
  ASSUME LightNodeAssumption, Control, NEW a, NEW h, StartTracking(a, h)
  PROVE  Control' /\ Busy' = Busy
<1> DEFINE t == [Idle EXCEPT !.pc = "first"]
<1>1. App \in Task /\ App \notin Syncer
  BY DEF Task, LightNodeAssumption
<1>2. t \in TaskType /\ t.pc = "first"
  BY <1>1, TaskTypes DEF Idle, Pcs
<1>3. Quiet(App, t) /\ lock' = lock
  BY <1>2 DEF StartTracking, Quiet, At
<1> HIDE DEF t
<1> QED BY <1>1, <1>2, <1>3, QuietStep

-----------------------------------------------------------------------------
(* The databases.                                                          *)

IsDb(d) ==
  /\ d = [watched |-> d.watched, wallets |-> d.wallets, history |-> d.history]
  /\ d.watched \subseteq Addresses
  /\ DOMAIN d.wallets = Addresses

\* The addresses that scan_block has not scanned this height for.
Unscanned(d, h) == {a \in d.watched : h \notin DOMAIN d.wallets[a].rows}

\* What scan_block changes: the wallets of the addresses it scans for, and the history,
\* by transactions of the block that concern one of them.
LEMMA ScanFields ==
  ASSUME NEW d, IsDb(d), NEW h, NEW txs, NEW e, e = ScanBlock(d, h, txs)
  PROVE  /\ IsDb(e) /\ e.watched = d.watched
         /\ \A a \in Addresses :
              e.wallets[a] = IF a \in Unscanned(d, h) THEN ScanTransactions(d.wallets[a], a, h, txs)
                             ELSE d.wallets[a]
         /\ \A t \in DOMAIN e.history :
              \/ t \in DOMAIN d.history /\ e.history[t] = d.history[t]
              \/ /\ e.history[t].tx \in ToSet(txs) /\ e.history[t].height = h
                 /\ \E a \in Unscanned(d, h) : Concerns(e.history[t].tx, a)
<1> DEFINE scanned == Unscanned(d, h)
           found == {tx \in ToSet(txs) : \E a \in scanned : Concerns(tx, a)}
           info(id) == [tx |-> CHOOSE tx \in found : tx.id = id, height |-> h]
           ids == {tx.id : tx \in found}
           w == [a \in DOMAIN d.wallets |-> IF a \in scanned THEN ScanTransactions(d.wallets[a], a, h, txs)
                                            ELSE d.wallets[a]]
           hist == Over(d.history, [id \in ids |-> info(id)])
<1>1. e = [d EXCEPT !.wallets = w, !.history = hist]
  BY Zenon DEF ScanBlock, Unscanned
<1> HIDE DEF w, hist
<1>2. e = [watched |-> d.watched, wallets |-> w, history |-> hist]
  BY <1>1 DEF IsDb
<1>3. DOMAIN w = Addresses
      /\ \A a \in Addresses : w[a] = IF a \in scanned THEN ScanTransactions(d.wallets[a], a, h, txs)
                                     ELSE d.wallets[a]
  BY DEF IsDb, w
<1>4. ASSUME NEW t \in DOMAIN hist
      PROVE  \/ t \in DOMAIN d.history /\ hist[t] = d.history[t]
             \/ /\ hist[t].tx \in ToSet(txs) /\ hist[t].height = h
                /\ \E a \in scanned : Concerns(hist[t].tx, a)
  <2> HIDE DEF found, info
  <2>1. t \in DOMAIN d.history \cup ids
    BY DEF hist, Over
  <2>2. CASE t \notin ids
    BY <2>1, <2>2 DEF hist, Over
  <2>3. CASE t \in ids
    <3>1. hist[t] = info(t)
      BY <2>3 DEF hist, Over
    <3>2. \E tx \in found : tx.id = t
      BY <2>3
    <3>3. (CHOOSE tx \in found : tx.id = t) \in found
      BY <3>2
    <3>4. info(t).tx \in found /\ info(t).height = h
      BY <3>3 DEF info
    <3> QED BY <3>1, <3>4 DEF found
  <2> QED BY <2>2, <2>3
<1> QED BY <1>2, <1>3, <1>4 DEF IsDb

\* What pop_block changes.
LEMMA PopFields ==
  ASSUME NEW d, IsDb(d), NEW h, NEW e, e = PopOutputs(RemoveTransactionsAt(d, h), h)
  PROVE  /\ IsDb(e) /\ e.watched = d.watched
         /\ \A a \in Addresses : e.wallets[a] = PopRows(d.wallets[a], h)
         /\ \A t \in DOMAIN e.history :
              t \in DOMAIN d.history /\ e.history[t] = d.history[t] /\ e.history[t].height # h
<1> DEFINE hist == Without(d.history, {t \in DOMAIN d.history : d.history[t].height = h})
           w == [a \in DOMAIN d.wallets |-> PopRows(d.wallets[a], h)]
           m == RemoveTransactionsAt(d, h)
<1>1. m = [watched |-> d.watched, wallets |-> d.wallets, history |-> hist]
  BY DEF RemoveTransactionsAt, IsDb
<1>2. e = [m EXCEPT !.wallets = [a \in DOMAIN m.wallets |-> PopRows(m.wallets[a], h)]]
  BY DEF PopOutputs
<1>3. m.wallets = d.wallets
  BY <1>1
<1> HIDE DEF hist, m
<1>4. e = [watched |-> d.watched, wallets |-> w, history |-> hist]
  BY <1>1, <1>2, <1>3
<1>5. DOMAIN w = Addresses /\ \A a \in Addresses : w[a] = PopRows(d.wallets[a], h)
  BY DEF IsDb
<1>6. \A t \in DOMAIN hist : t \in DOMAIN d.history /\ hist[t] = d.history[t] /\ hist[t].height # h
  BY DEF hist, Without
<1> HIDE DEF w
<1> QED BY <1>4, <1>5, <1>6 DEF IsDb

\* What start_tracking changes.
LEMMA AddFields ==
  ASSUME NEW d, IsDb(d), NEW a \in Addresses, NEW e, e = AddAddress(d, a)
  PROVE  IsDb(e) /\ e.watched = d.watched \cup {a} /\ e.wallets = d.wallets /\ e.history = d.history
BY DEF IsDb, AddAddress

\* What stop_tracking changes.
LEMMA DeleteFields ==
  ASSUME NEW d, IsDb(d), NEW a \in Addresses, NEW e, e = DeleteAddress(d, a)
  PROVE  /\ IsDb(e) /\ e.watched = d.watched \ {a}
         /\ \A b \in Addresses : b # a => e.wallets[b] = d.wallets[b]
         /\ \A t \in DOMAIN e.history : t \in DOMAIN d.history /\ e.history[t] = d.history[t]
<1> DEFINE left == d.watched \ {a}
           hist == Without(d.history, {t \in DOMAIN d.history : \A w \in left : ~ Concerns(d.history[t].tx, w)})
           ws == [d.wallets EXCEPT ![a].rows = <<>>]
<1>1. e = [d EXCEPT !.watched = left, !.wallets = ws, !.history = hist]
  BY DEF DeleteAddress
<1>2. DOMAIN ws = Addresses /\ \A b \in Addresses : b # a => ws[b] = d.wallets[b]
  BY DEF IsDb
<1>3. \A t \in DOMAIN hist : t \in DOMAIN d.history /\ hist[t] = d.history[t]
  BY DEF Without
<1> HIDE DEF left, hist, ws
<1>4. e = [watched |-> left, wallets |-> ws, history |-> hist]
  BY <1>1 DEF IsDb
<1>5. left \subseteq Addresses
  BY DEF left, IsDb
<1> QED BY <1>2, <1>3, <1>4, <1>5 DEF IsDb, left

-----------------------------------------------------------------------------
(* The history.                                                            *)

TypeOK ==
  /\ height \in 0..UsizeMax
  /\ IsDb(db)
  /\ trust \in [Addresses -> {"new", "exact", "unknown"}]
  /\ DOMAIN seen = Addresses
  /\ \A a \in Addresses : \A h \in DOMAIN seen[a] : h \in Nat /\ seen[a][h] \in Blocks

\* An address whose scans are all known is watched, one that was never tracked has no
\* rows and no log, and the scans are recorded of the first kind only.
Tracking ==
  \A a \in Addresses :
    /\ trust[a] = "exact" => a \in db.watched
    /\ trust[a] = "new" => /\ a \notin db.watched
                           /\ DOMAIN db.wallets[a].rows = {} /\ DOMAIN db.wallets[a].spends = {}
    /\ trust[a] # "exact" => DOMAIN seen[a] = {}

\* Blocks were scanned below the height, and at it between a scan and its count.
Below == \A a \in Addresses : \A h \in DOMAIN seen[a] : h < height \/ (h = height /\ Busy)

OnlyConcerns(tx, a) == \A o \in Addresses : Concerns(tx, o) <=> o = a

\* A transaction of the history concerns an address that was tracked at some time; if
\* it concerns one only, it is in the block that was scanned at its height.
Recorded(e) ==
  /\ \E o \in Addresses : trust[o] # "new" /\ Concerns(e.tx, o)
  /\ \A a \in Addresses : trust[a] = "exact" /\ OnlyConcerns(e.tx, a)
       => e.height \in DOMAIN seen[a] /\ e.tx \in ToSet(TxsOf[seen[a][e.height]])

HistoryKept == \A t \in DOMAIN db.history : Recorded(db.history[t])

Data == TypeOK /\ Tracking /\ Below /\ HistoryKept

\* Most steps change nothing of this.
LEMMA StillData ==
  Data /\ Still /\ Busy' = Busy => Data'
<1> SUFFICES ASSUME Data, Still, Busy' = Busy PROVE Data'
  OBVIOUS
<1>1. TypeOK'
  BY DEF Data, TypeOK, Still
<1>2. Tracking'
  BY DEF Data, Tracking, Still
<1>3. Below'
  BY DEF Data, Below, Still
<1>4. HistoryKept'
  BY DEF Data, HistoryKept, Recorded, Still
<1> QED BY <1>1, <1>2, <1>3, <1>4 DEF Data

\* What Doubt does: nobody gains trust, and what is still exact loses the heights popped.
LEMMA DoubtFields ==
  ASSUME TypeOK, NEW as, NEW popped, Doubt(as, popped)
  PROVE  /\ trust' \in [Addresses -> {"new", "exact", "unknown"}] /\ DOMAIN seen' = Addresses
         /\ \A a \in Addresses :
              /\ trust'[a] = "new" <=> trust[a] = "new"
              /\ trust'[a] = "exact" <=> trust[a] = "exact" /\ a \notin as
              /\ a \in as => DOMAIN seen'[a] = {}
              /\ a \notin as => seen'[a] = Without(seen[a], popped)
              /\ DOMAIN seen'[a] \subseteq DOMAIN seen[a] \ popped
              /\ \A h \in DOMAIN seen'[a] : seen'[a][h] = seen[a][h]
<1>1. trust' = [a \in Addresses |-> IF a \in as /\ trust[a] = "exact" THEN "unknown" ELSE trust[a]]
  BY DEF Doubt
<1>2. seen' = [a \in Addresses |-> IF a \in as THEN <<>> ELSE Without(seen[a], popped)]
  BY DEF Doubt
<1>3. trust' \in [Addresses -> {"new", "exact", "unknown"}]
  BY <1>1 DEF TypeOK
<1>4. ASSUME NEW a \in Addresses
      PROVE  /\ trust'[a] = "new" <=> trust[a] = "new"
             /\ trust'[a] = "exact" <=> trust[a] = "exact" /\ a \notin as
  BY <1>1 DEF TypeOK
<1>5. DOMAIN seen' = Addresses
  BY <1>2
<1>6. ASSUME NEW a \in Addresses
      PROVE  /\ a \in as => DOMAIN seen'[a] = {}
             /\ a \notin as => seen'[a] = Without(seen[a], popped)
             /\ DOMAIN seen'[a] \subseteq DOMAIN seen[a] \ popped
             /\ \A h \in DOMAIN seen'[a] : seen'[a][h] = seen[a][h]
  <2>1. CASE a \in as
    <3>1. seen'[a] = <<>>
      BY <1>2, <2>1
    <3>2. DOMAIN seen'[a] = {}
      BY <3>1
    <3> QED BY <2>1, <3>2
  <2>2. CASE a \notin as
    <3>1. seen'[a] = Without(seen[a], popped)
      BY <1>2, <2>2
    <3> QED BY <2>2, <3>1 DEF Without
  <2> QED BY <2>1, <2>2
<1> QED BY <1>3, <1>4, <1>5, <1>6

\* Heights count up and down and wrap at their ends.
LEMMA Counts ==
  ASSUME LightNodeAssumption, NEW h \in 0..UsizeMax
  PROVE  /\ IncrementHeight(h) = IF h = UsizeMax THEN 0 ELSE h + 1
         /\ DecrementHeight(h) = IF h = 0 THEN UsizeMax ELSE h - 1
<1>1. UsizeMax \in Nat
  BY DEF LightNodeAssumption
<1>2. CASE h = 0
  <2>1. IncrementHeight(h) = IF h = UsizeMax THEN 0 ELSE h + 1
    BY <1>1, <1>2 DEF IncrementHeight
  <2>2. DecrementHeight(h) = UsizeMax
    BY <1>1, <1>2 DEF DecrementHeight
  <2> QED BY <1>2, <2>1, <2>2
<1>3. CASE h # 0
  <2>1. IncrementHeight(h) = IF h = UsizeMax THEN 0 ELSE h + 1
    <3>1. CASE h = UsizeMax
      BY <1>1, <3>1 DEF IncrementHeight
    <3>2. CASE h # UsizeMax
      <4>1. h + 1 \in 0..UsizeMax
        BY <1>1, <3>2
      <4>2. \A n \in 0..UsizeMax : n % (UsizeMax + 1) = n
        BY <1>1
      <4> QED BY <3>2, <4>1, <4>2 DEF IncrementHeight
    <3> QED BY <3>1, <3>2
  <2>2. DecrementHeight(h) = h - 1
    <3>1. h - 1 \in 0..UsizeMax
      BY <1>1, <1>3
    <3>2. \A n \in 0..UsizeMax : (n + (UsizeMax + 1)) % (UsizeMax + 1) = n
      BY <1>1
    <3>3. h + UsizeMax = (h - 1) + (UsizeMax + 1)
      BY <1>1
    <3> QED BY <3>1, <3>2, <3>3 DEF DecrementHeight
  <2> QED BY <1>3, <2>1, <2>2
<1> QED BY <1>2, <1>3

\* The count of a block keeps the data: where the height wraps, nothing is known.
LEMMA CountData ==
  ASSUME LightNodeAssumption, Data, height' = IncrementHeight(height), CountedUp, UNCHANGED db
  PROVE  Data'
<1> DEFINE as == IF height = UsizeMax THEN Addresses ELSE {}
<1>1. Doubt(as, {})
  BY DEF CountedUp
<1> HIDE DEF as
<1>2. /\ trust' \in [Addresses -> {"new", "exact", "unknown"}] /\ DOMAIN seen' = Addresses
      /\ \A a \in Addresses :
           /\ trust'[a] = "new" <=> trust[a] = "new"
           /\ trust'[a] = "exact" <=> trust[a] = "exact" /\ a \notin as
           /\ a \in as => DOMAIN seen'[a] = {}
           /\ a \notin as => seen'[a] = Without(seen[a], {})
           /\ DOMAIN seen'[a] \subseteq DOMAIN seen[a] \ {}
           /\ \A h \in DOMAIN seen'[a] : seen'[a][h] = seen[a][h]
  BY <1>1, DoubtFields DEF Data
<1>3. UsizeMax \in Nat /\ height \in 0..UsizeMax
  BY DEF LightNodeAssumption, Data, TypeOK
<1>4. height' \in 0..UsizeMax /\ (height # UsizeMax => height' = height + 1)
  BY <1>3, Counts
<1>5. TypeOK'
  BY <1>2, <1>4 DEF Data, TypeOK
<1>6. Tracking'
  BY <1>2 DEF Data, Tracking, TypeOK
<1>7. Below'
  <2> SUFFICES ASSUME NEW a \in Addresses, NEW h \in DOMAIN seen'[a] PROVE h < height'
    BY DEF Below
  <2>1. h \in DOMAIN seen[a] /\ height # UsizeMax
    BY <1>2 DEF as
  <2>2. h \in Nat /\ h <= height
    BY <1>3, <2>1 DEF Data, Below, TypeOK
  <2> QED BY <1>3, <1>4, <2>1, <2>2
<1>8. HistoryKept'
  <2> SUFFICES ASSUME NEW t \in DOMAIN db.history PROVE Recorded(db.history[t])'
    BY DEF HistoryKept
  <2> DEFINE e == db.history[t]
  <2>1. Recorded(e) /\ e' = e
    BY DEF Data, HistoryKept
  <2> HIDE DEF e
  <2>2. \E o \in Addresses : trust'[o] # "new" /\ Concerns(e.tx, o)
    BY <1>2, <2>1 DEF Recorded
  <2>3. ASSUME NEW a \in Addresses, trust'[a] = "exact", OnlyConcerns(e.tx, a)
        PROVE  e.height \in DOMAIN seen'[a] /\ e.tx \in ToSet(TxsOf[seen'[a][e.height]])
    <3>1. e.height \in DOMAIN seen[a] /\ e.tx \in ToSet(TxsOf[seen[a][e.height]])
      BY <1>2, <2>1, <2>3 DEF Recorded
    <3>2. e.height \in DOMAIN seen'[a]
      BY <1>2, <2>3, <3>1 DEF Without
    <3> QED BY <1>2, <3>1, <3>2
  <2> QED BY <2>1, <2>2, <2>3 DEF Recorded, e
<1> QED BY <1>5, <1>6, <1>7, <1>8 DEF Data

\* Where less is trusted and less is in the history, the history is kept.
LEMMA HistoryShrinks ==
  ASSUME Data, TypeOK',
         \A t \in DOMAIN db'.history : t \in DOMAIN db.history /\ db'.history[t] = db.history[t],
         \A a \in Addresses :
           /\ trust'[a] = "new" => trust[a] = "new"
           /\ trust'[a] = "exact" =>
                \A t \in DOMAIN db'.history : OnlyConcerns(db'.history[t].tx, a) =>
                  /\ trust[a] = "exact"
                  /\ LET h == db'.history[t].height
                     IN h \in DOMAIN seen[a] => h \in DOMAIN seen'[a] /\ seen'[a][h] = seen[a][h]
  PROVE  HistoryKept'
<1> SUFFICES ASSUME NEW t \in DOMAIN db'.history PROVE Recorded(db.history[t])'
  BY DEF HistoryKept
<1> DEFINE e == db.history[t]
<1>1. Recorded(e) /\ e' = e
  BY DEF Data, HistoryKept
<1> HIDE DEF e
<1>2. db'.history[t] = e
  BY DEF e
<1>3. \E o \in Addresses : trust'[o] # "new" /\ Concerns(e.tx, o)
  BY <1>1 DEF Recorded
<1>4. ASSUME NEW a \in Addresses, trust'[a] = "exact", OnlyConcerns(e.tx, a)
      PROVE  e.height \in DOMAIN seen'[a] /\ e.tx \in ToSet(TxsOf[seen'[a][e.height]])
  <2>1. trust[a] = "exact"
        /\ (e.height \in DOMAIN seen[a]
              => e.height \in DOMAIN seen'[a] /\ seen'[a][e.height] = seen[a][e.height])
    BY <1>2, <1>4
  <2>2. e.height \in DOMAIN seen[a] /\ e.tx \in ToSet(TxsOf[seen[a][e.height]])
    BY <1>1, <1>4, <2>1 DEF Recorded
  <2> QED BY <2>1, <2>2
<1> QED BY <1>1, <1>3, <1>4 DEF Recorded, e

\* A reader is dropped: after a scan that was not counted nothing is known.
LEMMA DisconnectData ==
  ASSUME LightNodeAssumption, Control, Data, NEW x \in Peer, Disconnect(x)
  PROVE  Data'
<1> DEFINE as == IF At(x, "scanned") THEN Addresses ELSE {}
<1>1. Doubt(as, {}) /\ UNCHANGED <<db, height>>
  BY DEF Disconnect
<1>2. At(x, "accept") \/ as = Addresses
  BY DEF Disconnect
<1> HIDE DEF as
<1>3. /\ trust' \in [Addresses -> {"new", "exact", "unknown"}] /\ DOMAIN seen' = Addresses
      /\ \A a \in Addresses :
           /\ trust'[a] = "new" <=> trust[a] = "new"
           /\ trust'[a] = "exact" <=> trust[a] = "exact" /\ a \notin as
           /\ a \in as => DOMAIN seen'[a] = {}
           /\ a \notin as => seen'[a] = Without(seen[a], {})
           /\ DOMAIN seen'[a] \subseteq DOMAIN seen[a] \ {}
           /\ \A h \in DOMAIN seen'[a] : seen'[a][h] = seen[a][h]
  BY <1>1, DoubtFields DEF Data
<1>4. TypeOK'
  BY <1>1, <1>3 DEF Data, TypeOK
<1>5. Tracking'
  BY <1>1, <1>3 DEF Data, Tracking, TypeOK
<1>6. Below'
  <2> SUFFICES ASSUME NEW a \in Addresses, NEW h \in DOMAIN seen'[a]
               PROVE  h < height' \/ (h = height' /\ Busy')
    BY DEF Below
  <2>1. a \notin as /\ h \in DOMAIN seen[a]
    BY <1>3
  <2>2. Busy' = Busy
    BY <1>2, <2>1, DisconnectControl
  <2> QED BY <1>1, <2>1, <2>2 DEF Data, Below
<1>7. ASSUME NEW a \in Addresses, trust'[a] = "exact", NEW h \in DOMAIN seen[a]
      PROVE  h \in DOMAIN seen'[a] /\ seen'[a][h] = seen[a][h]
  BY <1>3, <1>7 DEF Without
<1>8. HistoryKept'
  BY <1>1, <1>3, <1>4, <1>7, HistoryShrinks
<1> QED BY <1>4, <1>5, <1>6, <1>8 DEF Data

\* pop_block: the height goes down, and what is recorded of it goes.
LEMMA PopData ==
  ASSUME LightNodeAssumption, Control, Data, NEW x \in Syncer \cup {App}, PopBlock(x)
  PROVE  Data'
<1> DEFINE h == DecrementHeight(height)
           as == IF height = 0 THEN Addresses ELSE {}
<1>1. Doubt(as, {h}) /\ height' = h /\ db' = PopOutputs(RemoveTransactionsAt(db, h), h)
  BY DEF PopBlock
<1>2. height \in 0..UsizeMax /\ UsizeMax \in Nat /\ h = (IF height = 0 THEN UsizeMax ELSE height - 1)
  BY Counts DEF Data, TypeOK, LightNodeAssumption
<1> HIDE DEF h
<1>3. height = 0 => as = Addresses
  OBVIOUS
<1> HIDE DEF as
<1>4. /\ trust' \in [Addresses -> {"new", "exact", "unknown"}] /\ DOMAIN seen' = Addresses
      /\ \A a \in Addresses :
           /\ trust'[a] = "new" <=> trust[a] = "new"
           /\ trust'[a] = "exact" <=> trust[a] = "exact" /\ a \notin as
           /\ a \in as => DOMAIN seen'[a] = {}
           /\ a \notin as => seen'[a] = Without(seen[a], {h})
           /\ DOMAIN seen'[a] \subseteq DOMAIN seen[a] \ {h}
           /\ \A g \in DOMAIN seen'[a] : seen'[a][g] = seen[a][g]
  BY <1>1, DoubtFields DEF Data
<1>5. /\ IsDb(db') /\ db'.watched = db.watched
      /\ \A a \in Addresses : db'.wallets[a] = PopRows(db.wallets[a], h)
      /\ \A t \in DOMAIN db'.history :
           t \in DOMAIN db.history /\ db'.history[t] = db.history[t] /\ db'.history[t].height # h
  BY <1>1, PopFields DEF Data, TypeOK
<1>6. TypeOK'
  <2>1. height' \in 0..UsizeMax
    BY <1>1, <1>2
  <2> QED BY <1>4, <1>5, <2>1 DEF Data, TypeOK
<1>7. Tracking'
  <2> SUFFICES ASSUME NEW a \in Addresses
               PROVE  /\ trust'[a] = "exact" => a \in db'.watched
                      /\ trust'[a] = "new" => /\ a \notin db'.watched
                                              /\ DOMAIN db'.wallets[a].rows = {}
                                              /\ DOMAIN db'.wallets[a].spends = {}
                      /\ trust'[a] # "exact" => DOMAIN seen'[a] = {}
    BY DEF Tracking
  <2>1. trust'[a] = "exact" => a \in db'.watched
    BY <1>4, <1>5 DEF Data, Tracking
  <2>2. ASSUME trust'[a] = "new"
        PROVE  /\ a \notin db'.watched
               /\ DOMAIN db'.wallets[a].rows = {} /\ DOMAIN db'.wallets[a].spends = {}
    <3> DEFINE w == db.wallets[a]
    <3>1. a \notin db.watched /\ DOMAIN w.rows = {} /\ DOMAIN w.spends = {}
      BY <1>4, <2>2 DEF Data, Tracking
    <3> HIDE DEF w
    <3>2. DOMAIN PopRows(w, h).rows = {} /\ DOMAIN PopRows(w, h).spends = {}
      <4>1. LogOf(w, h) = <<>>
        BY <3>1 DEF LogOf
      <4>2. DOMAIN LogOf(w, h) = {}
        BY <4>1
      <4> QED BY <3>1, <4>2 DEF PopRows, Without, Over
    <3> QED BY <1>5, <3>1, <3>2 DEF w
  <2>3. trust'[a] # "exact" => DOMAIN seen'[a] = {}
    BY <1>4 DEF Data, Tracking
  <2> QED BY <2>1, <2>2, <2>3
<1>8. Below'
  <2> SUFFICES ASSUME NEW a \in Addresses, NEW g \in DOMAIN seen'[a] PROVE g < height'
    BY DEF Below
  <2>1. a \notin as /\ g \in DOMAIN seen[a] /\ g # h
    BY <1>4
  <2>2. g \in Nat /\ g < height
    BY <2>1, PopControl DEF Data, TypeOK, Below
  <2>3. height # 0
    BY <1>3, <2>1
  <2> QED BY <1>1, <1>2, <2>1, <2>2, <2>3
<1>9. ASSUME NEW a \in Addresses, trust'[a] = "exact", NEW g \in DOMAIN seen[a], g # h
      PROVE  g \in DOMAIN seen'[a] /\ seen'[a][g] = seen[a][g]
  BY <1>4, <1>9 DEF Without
<1>10. ASSUME NEW a \in Addresses, trust'[a] = "exact", NEW t \in DOMAIN db'.history
       PROVE  /\ trust[a] = "exact"
              /\ LET g == db'.history[t].height
                 IN g \in DOMAIN seen[a] => g \in DOMAIN seen'[a] /\ seen'[a][g] = seen[a][g]
  BY <1>4, <1>5, <1>9, <1>10
<1>11. HistoryKept'
  <2>1. \A t \in DOMAIN db'.history : t \in DOMAIN db.history /\ db'.history[t] = db.history[t]
    BY <1>5
  <2>2. ASSUME NEW a \in Addresses
        PROVE  /\ trust'[a] = "new" => trust[a] = "new"
               /\ trust'[a] = "exact" =>
                    \A t \in DOMAIN db'.history : OnlyConcerns(db'.history[t].tx, a) =>
                      /\ trust[a] = "exact"
                      /\ LET g == db'.history[t].height
                         IN g \in DOMAIN seen[a] => g \in DOMAIN seen'[a] /\ seen'[a][g] = seen[a][g]
    <3>1. trust'[a] = "new" => trust[a] = "new"
      BY <1>4
    <3>2. ASSUME trust'[a] = "exact", NEW t \in DOMAIN db'.history
          PROVE  /\ trust[a] = "exact"
                 /\ LET g == db'.history[t].height
                    IN g \in DOMAIN seen[a] => g \in DOMAIN seen'[a] /\ seen'[a][g] = seen[a][g]
      BY <1>10, <3>2
    <3> QED BY <3>1, <3>2
  <2> QED BY <1>6, <2>1, <2>2, HistoryShrinks
<1> QED BY <1>6, <1>7, <1>8, <1>11 DEF Data

\* start_tracking: what is known of other addresses is kept only when the height stays,
\* and nothing of the history concerns only an address that was never tracked.
LEMMA TrackingData ==
  ASSUME LightNodeAssumption, Control, Data, NEW a \in Addresses, NEW h \in RestoreHeights,
         StartTracking(a, h)
  PROVE  Data'
<1> DEFINE same == h = height /\ \A x \in Task : ~ At(x, "scanned")
<1>1. /\ a \notin db.watched /\ db' = AddAddress(db, a) /\ height' = h
      /\ trust' = [o \in Addresses |->
           IF o = a /\ trust[a] = "new" THEN "exact"
           ELSE IF trust[o] = "exact" /\ ~ same THEN "unknown" ELSE trust[o]]
      /\ seen' = IF same THEN seen ELSE [o \in Addresses |-> <<>>]
  BY DEF StartTracking
<1>2. h \in 0..UsizeMax
  BY DEF LightNodeAssumption
<1>3. same => height' = height /\ ~ Busy
  BY <1>1 DEF Busy
<1> HIDE DEF same
<1>4. IsDb(db') /\ db'.watched = db.watched \cup {a} /\ db'.wallets = db.wallets
      /\ db'.history = db.history
  BY <1>1, AddFields DEF Data, TypeOK
<1>5. trust' \in [Addresses -> {"new", "exact", "unknown"}]
  BY <1>1 DEF Data, TypeOK
<1>6. ASSUME NEW o \in Addresses
      PROVE  /\ trust'[o] = "new" => trust[o] = "new" /\ o # a
             /\ trust'[o] = "exact" => \/ o = a /\ trust[o] = "new"
                                       \/ trust[o] = "exact" /\ same
             /\ trust[o] = "exact" /\ same => trust'[o] = "exact"
  BY <1>1 DEF Data, TypeOK
<1>7. DOMAIN seen' = Addresses
      /\ \A o \in Addresses : \/ same /\ seen'[o] = seen[o]
                              \/ ~ same /\ DOMAIN seen'[o] = {}
  <2>1. CASE same
    BY <1>1, <2>1 DEF Data, TypeOK
  <2>2. CASE ~ same
    <3>1. DOMAIN seen' = Addresses /\ \A o \in Addresses : seen'[o] = <<>>
      BY <1>1, <2>2
    <3>2. \A o \in Addresses : DOMAIN seen'[o] = {}
      BY <3>1
    <3> QED BY <2>2, <3>1, <3>2
  <2> QED BY <2>1, <2>2
<1>8. TypeOK'
  <2>1. \A o \in Addresses : \A g \in DOMAIN seen'[o] : g \in Nat /\ seen'[o][g] \in Blocks
    BY <1>7 DEF Data, TypeOK
  <2> QED BY <1>1, <1>2, <1>4, <1>5, <1>7, <2>1 DEF TypeOK
<1>9. Tracking'
  <2> SUFFICES ASSUME NEW o \in Addresses
               PROVE  /\ trust'[o] = "exact" => o \in db'.watched
                      /\ trust'[o] = "new" => /\ o \notin db'.watched
                                              /\ DOMAIN db'.wallets[o].rows = {}
                                              /\ DOMAIN db'.wallets[o].spends = {}
                      /\ trust'[o] # "exact" => DOMAIN seen'[o] = {}
    BY DEF Tracking
  <2>1. trust'[o] = "exact" => o \in db'.watched
    BY <1>4, <1>6 DEF Data, Tracking
  <2>2. trust'[o] = "new" => /\ o \notin db'.watched
                             /\ DOMAIN db'.wallets[o].rows = {} /\ DOMAIN db'.wallets[o].spends = {}
    BY <1>4, <1>6 DEF Data, Tracking
  <2>3. trust'[o] # "exact" => DOMAIN seen'[o] = {}
    BY <1>6, <1>7 DEF Data, Tracking
  <2> QED BY <2>1, <2>2, <2>3
<1>10. Below'
  <2> SUFFICES ASSUME NEW o \in Addresses, NEW g \in DOMAIN seen'[o] PROVE g < height'
    BY DEF Below
  <2>1. same /\ g \in DOMAIN seen[o]
    BY <1>7
  <2> QED BY <1>3, <2>1 DEF Data, Below
<1>11. ASSUME NEW o \in Addresses, trust'[o] = "exact",
              NEW t \in DOMAIN db'.history, OnlyConcerns(db'.history[t].tx, o)
       PROVE  /\ trust[o] = "exact"
              /\ LET g == db'.history[t].height
                 IN g \in DOMAIN seen[o] => g \in DOMAIN seen'[o] /\ seen'[o][g] = seen[o][g]
  <2>1. PICK p \in Addresses : trust[p] # "new" /\ Concerns(db.history[t].tx, p)
    BY <1>4 DEF Data, HistoryKept, Recorded
  <2>2. p = o
    BY <1>4, <1>11, <2>1 DEF OnlyConcerns
  <2>3. trust[o] = "exact" /\ same
    BY <1>6, <1>11, <2>1, <2>2
  <2> QED BY <1>7, <2>3
<1>12. HistoryKept'
  BY <1>4, <1>6, <1>8, <1>11, HistoryShrinks
<1> QED BY <1>8, <1>9, <1>10, <1>12 DEF Data

\* stop_tracking: the address is not known any more.
LEMMA StopData ==
  ASSUME LightNodeAssumption, Control, Data, NEW a \in Addresses, StopTracking(a)
  PROVE  Data' /\ Control'
<1>1. /\ a \in db.watched /\ db' = DeleteAddress(db, a) /\ height' = height
      /\ seen' = [seen EXCEPT ![a] = <<>>] /\ trust' = [trust EXCEPT ![a] = "unknown"]
      /\ UNCHANGED <<lock, task>>
  BY DEF StopTracking
<1>2. Control' /\ Busy' = Busy
  BY <1>1 DEF Control, Busy, At
<1>3. /\ IsDb(db') /\ db'.watched = db.watched \ {a}
      /\ \A b \in Addresses : b # a => db'.wallets[b] = db.wallets[b]
      /\ \A t \in DOMAIN db'.history : t \in DOMAIN db.history /\ db'.history[t] = db.history[t]
  BY <1>1, DeleteFields DEF Data, TypeOK
<1>4. trust' \in [Addresses -> {"new", "exact", "unknown"}] /\ trust'[a] = "unknown"
      /\ \A o \in Addresses : o # a => trust'[o] = trust[o]
  BY <1>1 DEF Data, TypeOK
<1>5. DOMAIN seen' = Addresses /\ DOMAIN seen'[a] = {}
      /\ \A o \in Addresses : o # a => seen'[o] = seen[o]
  <2>1. DOMAIN seen' = Addresses /\ seen'[a] = <<>> /\ \A o \in Addresses : o # a => seen'[o] = seen[o]
    BY <1>1 DEF Data, TypeOK
  <2>2. DOMAIN seen'[a] = {}
    BY <2>1
  <2> QED BY <2>1, <2>2
<1>6. TypeOK'
  <2>1. \A o \in Addresses : \A g \in DOMAIN seen'[o] : g \in Nat /\ seen'[o][g] \in Blocks
    BY <1>5 DEF Data, TypeOK
  <2> QED BY <1>1, <1>3, <1>4, <1>5, <2>1 DEF Data, TypeOK
<1>7. Tracking'
  <2> SUFFICES ASSUME NEW o \in Addresses
               PROVE  /\ trust'[o] = "exact" => o \in db'.watched
                      /\ trust'[o] = "new" => /\ o \notin db'.watched
                                              /\ DOMAIN db'.wallets[o].rows = {}
                                              /\ DOMAIN db'.wallets[o].spends = {}
                      /\ trust'[o] # "exact" => DOMAIN seen'[o] = {}
    BY DEF Tracking
  <2>1. CASE o = a
    BY <1>4, <1>5, <2>1
  <2>2. CASE o # a
    BY <1>3, <1>4, <1>5, <2>2 DEF Data, Tracking
  <2> QED BY <2>1, <2>2
<1>8. Below'
  <2> SUFFICES ASSUME NEW o \in Addresses, NEW g \in DOMAIN seen'[o]
               PROVE  g < height' \/ (g = height' /\ Busy')
    BY DEF Below
  <2>1. o # a /\ g \in DOMAIN seen[o]
    BY <1>5
  <2> QED BY <1>1, <1>2, <2>1 DEF Data, Below
<1>9. \A o \in Addresses :
        /\ trust'[o] = "new" => trust[o] = "new"
        /\ trust'[o] = "exact" => trust[o] = "exact" /\ seen'[o] = seen[o]
  BY <1>4, <1>5
<1>10. HistoryKept'
  BY <1>3, <1>6, <1>9, HistoryShrinks
<1> QED BY <1>2, <1>6, <1>7, <1>8, <1>10 DEF Data

\* The scan of a block: it is recorded for every address whose scans are known.
LEMMA AcceptFields ==
  ASSUME LightNodeAssumption, Control, Data, NEW x \in Task, AcceptBlock(x)
  PROVE  /\ DOMAIN seen' = Addresses
         /\ \A a \in Addresses :
              /\ trust[a] # "exact" => seen'[a] = seen[a]
              /\ trust[a] = "exact" => /\ DOMAIN seen'[a] = DOMAIN seen[a] \cup {height}
                                       /\ seen'[a][height] = task[x].block
                                       /\ height \notin DOMAIN seen[a]
                                       /\ \A h \in DOMAIN seen[a] : seen'[a][h] = seen[a][h] /\ h < height
<1>1. seen' = [a \in Addresses |->
                 IF trust[a] = "exact" THEN With(seen[a], height, task[x].block) ELSE seen[a]]
  BY DEF AcceptBlock
<1>2. \A a \in Addresses : \A h \in DOMAIN seen[a] : h \in Nat /\ h < height
  BY AcceptControl DEF Data, TypeOK, Below
<1>3. \A a \in Addresses : height \notin DOMAIN seen[a]
  BY <1>2
<1>4. ASSUME NEW a \in Addresses, trust[a] = "exact"
      PROVE  /\ DOMAIN seen'[a] = DOMAIN seen[a] \cup {height}
             /\ seen'[a][height] = task[x].block
             /\ \A h \in DOMAIN seen[a] : seen'[a][h] = seen[a][h]
  <2>1. seen'[a] = With(seen[a], height, task[x].block)
    BY <1>1, <1>4
  <2> QED BY <1>3, <2>1 DEF With, Over
<1>5. \A a \in Addresses : trust[a] # "exact" => seen'[a] = seen[a]
  BY <1>1
<1>6. DOMAIN seen' = Addresses
  BY <1>1
<1> QED BY <1>2, <1>3, <1>4, <1>5, <1>6

\* The scan of a block records the transactions that it puts into the history.
LEMMA AcceptData ==
  ASSUME LightNodeAssumption, Control, Data, NEW x \in Task, AcceptBlock(x)
  PROVE  Data'
<1> DEFINE b == task[x].block
<1>1. b \in Blocks /\ Busy'
  BY AcceptControl
<1>2. /\ height' = height /\ trust' = trust /\ db' = ScanBlock(db, height, TxsOf[b])
  BY DEF AcceptBlock
<1>3. /\ DOMAIN seen' = Addresses
      /\ \A a \in Addresses :
           /\ trust[a] # "exact" => seen'[a] = seen[a]
           /\ trust[a] = "exact" => /\ DOMAIN seen'[a] = DOMAIN seen[a] \cup {height}
                                    /\ seen'[a][height] = b
                                    /\ \A h \in DOMAIN seen[a] : seen'[a][h] = seen[a][h] /\ h < height
  BY AcceptFields
<1>4. /\ IsDb(db') /\ db'.watched = db.watched
      /\ \A a \in Addresses :
           db'.wallets[a] = IF a \in Unscanned(db, height) THEN ScanTransactions(db.wallets[a], a, height, TxsOf[b])
                            ELSE db.wallets[a]
      /\ \A t \in DOMAIN db'.history :
           \/ t \in DOMAIN db.history /\ db'.history[t] = db.history[t]
           \/ /\ db'.history[t].tx \in ToSet(TxsOf[b]) /\ db'.history[t].height = height
              /\ \E a \in Unscanned(db, height) : Concerns(db'.history[t].tx, a)
  BY <1>2, ScanFields DEF Data, TypeOK
<1> HIDE DEF b
<1>5. Unscanned(db, height) \subseteq db.watched /\ db.watched \subseteq Addresses
  BY DEF Unscanned, Data, TypeOK, IsDb
<1>6. \A a \in db.watched : trust[a] # "new"
  BY <1>5 DEF Data, Tracking
<1>7. TypeOK'
  <2>1. height \in Nat
    BY DEF Data, TypeOK, LightNodeAssumption
  <2>2. \A a \in Addresses : \A h \in DOMAIN seen'[a] : h \in Nat /\ seen'[a][h] \in Blocks
    BY <1>1, <1>3, <2>1 DEF Data, TypeOK
  <2> QED BY <1>2, <1>3, <1>4, <2>2 DEF Data, TypeOK
<1>8. Tracking'
  <2> SUFFICES ASSUME NEW a \in Addresses
               PROVE  /\ trust[a] = "exact" => a \in db'.watched
                      /\ trust[a] = "new" => /\ a \notin db'.watched
                                             /\ DOMAIN db'.wallets[a].rows = {}
                                             /\ DOMAIN db'.wallets[a].spends = {}
                      /\ trust[a] # "exact" => DOMAIN seen'[a] = {}
    BY <1>2 DEF Tracking
  <2>1. trust[a] = "exact" => a \in db'.watched
    BY <1>4 DEF Data, Tracking
  <2>2. ASSUME trust[a] = "new"
        PROVE  /\ a \notin db'.watched
               /\ DOMAIN db'.wallets[a].rows = {} /\ DOMAIN db'.wallets[a].spends = {}
    <3>1. /\ a \notin db.watched
          /\ DOMAIN db.wallets[a].rows = {} /\ DOMAIN db.wallets[a].spends = {}
      BY <2>2 DEF Data, Tracking
    <3>2. db'.wallets[a] = db.wallets[a]
      BY <1>4, <1>5, <3>1
    <3> QED BY <1>4, <3>1, <3>2
  <2>3. trust[a] # "exact" => DOMAIN seen'[a] = {}
    BY <1>3 DEF Data, Tracking
  <2> QED BY <2>1, <2>2, <2>3
<1>9. Below'
  <2> SUFFICES ASSUME NEW a \in Addresses, NEW h \in DOMAIN seen'[a]
               PROVE  h < height \/ h = height
    BY <1>1, <1>2 DEF Below
  <2>1. CASE trust[a] = "exact"
    BY <1>3, <2>1
  <2>2. CASE trust[a] # "exact"
    BY <1>3, <2>2 DEF Data, Tracking
  <2> QED BY <2>1, <2>2
<1>10. HistoryKept'
  <2> SUFFICES ASSUME NEW t \in DOMAIN db'.history PROVE Recorded(db.history[t])'
    BY DEF HistoryKept
  <2> DEFINE e == db'.history[t]
  <2>1. CASE t \in DOMAIN db.history /\ e = db.history[t]
    <3>1. Recorded(e)
      BY <2>1 DEF Data, HistoryKept
    <3> HIDE DEF e
    <3>2. \E o \in Addresses : trust[o] # "new" /\ Concerns(e.tx, o)
      BY <3>1 DEF Recorded
    <3>3. ASSUME NEW a \in Addresses, trust[a] = "exact", OnlyConcerns(e.tx, a)
          PROVE  e.height \in DOMAIN seen'[a] /\ e.tx \in ToSet(TxsOf[seen'[a][e.height]])
      <4>1. e.height \in DOMAIN seen[a] /\ e.tx \in ToSet(TxsOf[seen[a][e.height]])
        BY <3>1, <3>3 DEF Recorded
      <4>2. e.height \in DOMAIN seen'[a] /\ seen'[a][e.height] = seen[a][e.height]
        BY <1>3, <3>3, <4>1
      <4> QED BY <4>1, <4>2
    <3> QED BY <1>2, <3>2, <3>3 DEF Recorded, e
  <2>2. CASE /\ e.tx \in ToSet(TxsOf[b]) /\ e.height = height
             /\ \E a \in Unscanned(db, height) : Concerns(e.tx, a)
    <3> HIDE DEF e
    <3>1. \E o \in Addresses : trust[o] # "new" /\ Concerns(e.tx, o)
      BY <1>5, <1>6, <2>2
    <3>2. ASSUME NEW a \in Addresses, trust[a] = "exact", OnlyConcerns(e.tx, a)
          PROVE  e.height \in DOMAIN seen'[a] /\ e.tx \in ToSet(TxsOf[seen'[a][e.height]])
      <4>1. height \in DOMAIN seen'[a] /\ seen'[a][height] = b
        BY <1>3, <3>2
      <4> QED BY <2>2, <4>1
    <3> QED BY <1>2, <3>1, <3>2 DEF Recorded, e
  <2> QED BY <1>4, <2>1, <2>2
<1> QED BY <1>7, <1>8, <1>9, <1>10 DEF Data

-----------------------------------------------------------------------------
(* Together.                                                               *)

\* At the start nothing is tracked and nothing runs.
LEMMA InitNode ==
  ASSUME LightNodeAssumption, Init
  PROVE  Control /\ Data
<1>1. Control
  BY DEF Init, Control, At, Idle, TaskType, Pcs, Task
<1>2. /\ db.watched = {} /\ DOMAIN db.history = {} /\ IsDb(db)
      /\ \A a \in Addresses : DOMAIN db.wallets[a].rows = {} /\ DOMAIN db.wallets[a].spends = {}
  <2>1. db = [watched |-> {}, wallets |-> [a \in Addresses |-> NoRows], history |-> <<>>]
    BY DEF Init, EmptyDb
  <2>2. \A a \in Addresses : db.wallets[a] = [rows |-> <<>>, spends |-> <<>>]
    BY <2>1 DEF NoRows
  <2> QED BY <2>1, <2>2 DEF IsDb
<1>3. DOMAIN seen = Addresses /\ \A a \in Addresses : DOMAIN seen[a] = {} /\ trust[a] = "new"
  <2>1. \A a \in Addresses : seen[a] = <<>> /\ trust[a] = "new"
    BY DEF Init
  <2>2. DOMAIN seen = Addresses
    BY DEF Init
  <2> QED BY <2>1, <2>2
<1>4. TypeOK
  <2>1. height \in 0..UsizeMax
    BY DEF Init, LightNodeAssumption
  <2>2. trust \in [Addresses -> {"new", "exact", "unknown"}]
    BY DEF Init
  <2> QED BY <1>2, <1>3, <2>1, <2>2 DEF TypeOK
<1>5. Tracking /\ Below /\ HistoryKept
  BY <1>2, <1>3 DEF Tracking, Below, HistoryKept
<1> QED BY <1>1, <1>4, <1>5 DEF Data

\* The kinds of steps: what a scan, a count, a rollback and the application change, and
\* the others, which change none of the data.
Counting == height' = IncrementHeight(height) /\ CountedUp /\ UNCHANGED db

LEMMA StepKinds ==
  ASSUME LightNodeAssumption, Control, Data, [Next]_vars
  PROVE  /\ Control'
         /\ \/ Still /\ Busy' = Busy
            \/ Counting
            \/ \E x \in Task : AcceptBlock(x)
            \/ \E x \in Peer : Disconnect(x)
            \/ \E x \in Syncer \cup {App} : PopBlock(x)
            \/ \E a \in Addresses : StopTracking(a)
            \/ \E a \in Addresses, h \in RestoreHeights : StartTracking(a, h)
<1>1. height \in Nat
  BY DEF Data, TypeOK, LightNodeAssumption
<1>2. CASE UNCHANGED vars
  BY <1>2 DEF vars, nodeVars, Control, Still, Busy, At
<1>3. CASE \E x \in Task : Accepts(x)
  <2>1. PICK x \in Task : Accepts(x)
    BY <1>3
  <2>2. CASE SetLastSeen(x) \/ RefuseBlock(x)
    BY <2>2, ReaderControl
  <2>3. CASE AcceptBlock(x)
    BY <2>3, AcceptControl
  <2>4. CASE FinishAccepting(x)
    BY <2>4, FinishControl DEF FinishAccepting, Counting
  <2> QED BY <2>1, <2>2, <2>3, <2>4 DEF Accepts
<1>4. CASE (\E x \in Peer, s \in Syncer : StartSync(x, s)) \/ \E s \in Syncer : SyncLock(s)
  BY <1>4, SpawnControl
<1>5. CASE \E x \in Syncer \cup {App} : Syncs(x)
  <2>1. PICK x \in Syncer \cup {App} : Syncs(x)
    BY <1>5
  <2>2. CASE \/ AskFirst(x) \/ CompareFirst(x) \/ SyncFails(x) \/ FetchBlock(x) \/ SyncEnd(x)
             \/ \E c \in Chains : Probe(x, Len(c))
    BY <1>1, <2>2, SyncControl
  <2>3. CASE PopBlock(x)
    BY <2>3, PopControl
  <2>4. CASE SkipBlock(x)
    BY <2>4, SkipControl DEF SkipBlock, Counting
  <2> QED BY <2>1, <2>2, <2>3, <2>4 DEF Syncs
<1>6. CASE \E x \in Peer : \/ Disconnect(x)
                           \/ \E b \in Blocks : ReceiveBlock(x, b)
                           \/ \E c \in Chains : ReceivePing(x, Len(c))
  <2>1. PICK x \in Peer : \/ Disconnect(x)
                          \/ \E b \in Blocks : ReceiveBlock(x, b)
                          \/ \E c \in Chains : ReceivePing(x, Len(c))
    BY <1>6
  <2>2. x \in Task
    BY DEF Task
  <2>3. CASE Disconnect(x)
    BY <2>3, DisconnectControl
  <2>4. CASE (\E b \in Blocks : ReceiveBlock(x, b)) \/ \E c \in Chains : ReceivePing(x, Len(c))
    BY <2>2, <2>4, ReaderControl
  <2> QED BY <2>1, <2>3, <2>4
<1>7. CASE \E a \in Addresses : StopTracking(a) \/ \E h \in RestoreHeights : StartTracking(a, h)
  BY <1>7, StopData, TrackingControl
<1>8. CASE Steps
  BY <1>3, <1>4, <1>5, <1>8 DEF Steps
<1>9. CASE Next
  <2>1. \/ Steps
        \/ \E x \in Peer : \/ Disconnect(x)
                           \/ \E b \in Blocks : ReceiveBlock(x, b)
                           \/ \E c \in Chains : ReceivePing(x, Len(c))
        \/ \E a \in Addresses : StopTracking(a) \/ \E h \in RestoreHeights : StartTracking(a, h)
    BY <1>9 DEF Next
  <2>2. CASE Steps
    BY <1>8, <2>2
  <2>3. CASE \E x \in Peer : \/ Disconnect(x)
                             \/ \E b \in Blocks : ReceiveBlock(x, b)
                             \/ \E c \in Chains : ReceivePing(x, Len(c))
    BY <1>6, <2>3
  <2>4. CASE \E a \in Addresses : StopTracking(a) \/ \E h \in RestoreHeights : StartTracking(a, h)
    BY <1>7, <2>4
  <2> QED BY <2>1, <2>2, <2>3, <2>4
<1> QED BY <1>2, <1>9

\* Every step keeps the data.
LEMMA NextData ==
  Control /\ Data /\ [Next]_vars => (Control /\ Data)'
<1> SUFFICES ASSUME Control, Data, [Next]_vars PROVE (Control /\ Data)'
  OBVIOUS
<1> USE LightNodeAssumption
<1>1. CASE Still /\ Busy' = Busy
  BY <1>1, StepKinds, StillData
<1>2. CASE Counting
  BY <1>2, StepKinds, CountData DEF Counting
<1>3. CASE \E x \in Task : AcceptBlock(x)
  BY <1>3, StepKinds, AcceptData
<1>4. CASE \E x \in Peer : Disconnect(x)
  BY <1>4, StepKinds, DisconnectData
<1>5. CASE \E x \in Syncer \cup {App} : PopBlock(x)
  BY <1>5, StepKinds, PopData
<1>6. CASE \E a \in Addresses : StopTracking(a)
  BY <1>6, StepKinds, StopData
<1>7. CASE \E a \in Addresses, h \in RestoreHeights : StartTracking(a, h)
  BY <1>7, StepKinds, TrackingData
<1> QED BY <1>1, <1>2, <1>3, <1>4, <1>5, <1>6, <1>7, StepKinds

\* The lock of a light node is dropped by whom it was taken, what is tracked is watched,
\* no block is scanned above the height, and the history is that of the scanned blocks.
THEOREM NodeInductive == Spec => [](Control /\ Data)
<1>1. Init => Control /\ Data
  BY InitNode, LightNodeAssumption
<1> QED BY <1>1, NextData, PTL DEF Spec

\* pop_block leaves no transaction behind: of those that concern one tracked address
\* only, the history holds none whose block was rolled back.
THEOREM HistoryIsSound == Spec => []HistorySound
<1>1. Control /\ Data => HistorySound
  <2> SUFFICES ASSUME Data, NEW a \in Addresses, trust[a] = "exact",
                      NEW t \in DOMAIN db.history, OnlyConcerns(db.history[t].tx, a)
               PROVE  \E h \in DOMAIN seen[a] : db.history[t].tx \in ToSet(TxsOf[seen[a][h]])
    BY DEF HistorySound, OnlyConcerns
  <2>1. Recorded(db.history[t])
    BY DEF Data, HistoryKept
  <2> QED BY <2>1 DEF Recorded
<1> QED BY <1>1, NodeInductive, PTL

-----------------------------------------------------------------------------
(* What scan_block does to the wallet of one address.                      *)

\* The coins that the inputs of a transaction take from an address.
TakenBy(ins, a) == {ins[i].coin : i \in {j \in DOMAIN ins : ins[j].owner = a}}

\* s is w after coins T were spent at height h, each row having lost one of them at most:
\* the log of h holds the rows that lost one, as they were.
SpentOf(s, w, h, T) ==
  /\ DOMAIN s.rows = {g \in DOMAIN w.rows : w.rows[g] \cap T = {} \/ w.rows[g] \ T # {}}
  /\ \A g \in DOMAIN s.rows : s.rows[g] = w.rows[g] \ T
  /\ DOMAIN s.spends \subseteq DOMAIN w.spends \cup {h}
  /\ \A g \in DOMAIN w.spends : g \in DOMAIN s.spends /\ s.spends[g] = w.spends[g]
  /\ DOMAIN LogOf(s, h) = {g \in DOMAIN w.rows : w.rows[g] \cap T # {}}
  /\ \A g \in DOMAIN LogOf(s, h) : LogOf(s, h)[g] = w.rows[g]

\* One more input.
LEMMA SpendCoinLeaves ==
  ASSUME NEW w, NEW s, NEW h, h \notin DOMAIN w.spends, NEW T, SpentOf(s, w, h, T), NEW c,
         \A g \in DOMAIN w.rows : c \in w.rows[g] => w.rows[g] \cap T = {}
  PROVE  SpentOf(SpendCoin(s, h, c), w, h, T \cup {c})
<1> DEFINE hit == {g \in DOMAIN s.rows : c \in s.rows[g]}
           left == [g \in DOMAIN s.rows |-> s.rows[g] \ {c}]
           old == [g \in hit |-> s.rows[g]]
           U == T \cup {c}
           e == SpendCoin(s, h, c)
<1>1. hit = {g \in DOMAIN w.rows : c \in w.rows[g]}
      /\ \A g \in hit : s.rows[g] = w.rows[g] /\ w.rows[g] \cap T = {}
  BY DEF SpentOf
<1>2. CASE hit = {}
  <2>1. e = s
    BY <1>2, Zenon DEF SpendCoin
  <2>2. \A g \in DOMAIN w.rows : w.rows[g] \cap U = w.rows[g] \cap T /\ w.rows[g] \ U = w.rows[g] \ T
    BY <1>1, <1>2
  <2> HIDE DEF U
  <2>3. DOMAIN s.rows = {g \in DOMAIN w.rows : w.rows[g] \cap U = {} \/ w.rows[g] \ U # {}}
    BY <2>2 DEF SpentOf
  <2>4. \A g \in DOMAIN s.rows : s.rows[g] = w.rows[g] \ U
    BY <2>2 DEF SpentOf
  <2>5. DOMAIN LogOf(s, h) = {g \in DOMAIN w.rows : w.rows[g] \cap U # {}}
    BY <2>2 DEF SpentOf
  <2>6. SpentOf(s, w, h, U)
    BY <2>3, <2>4, <2>5 DEF SpentOf
  <2> HIDE DEF e
  <2> QED BY <2>1, <2>6 DEF e, U
<1>3. CASE hit # {}
  <2>1. e = [rows |-> Without(left, {g \in hit : left[g] = {}}),
             spends |-> AppendSpendLog(s, h, old)]
    BY <1>3, Zenon DEF SpendCoin
  <2> HIDE DEF e
  <2>2. e.rows = Without(left, {g \in hit : left[g] = {}}) /\ e.spends = AppendSpendLog(s, h, old)
    BY <2>1
  <2>3. \A g \in DOMAIN w.rows :
          IF g \in hit THEN w.rows[g] \cap U # {} /\ w.rows[g] \ U = w.rows[g] \ {c}
          ELSE w.rows[g] \cap U = w.rows[g] \cap T /\ w.rows[g] \ U = w.rows[g] \ T
    BY <1>1
  <2>4. DOMAIN e.rows = {g \in DOMAIN s.rows : g \notin hit \/ s.rows[g] \ {c} # {}}
        /\ \A g \in DOMAIN e.rows : e.rows[g] = s.rows[g] \ {c}
    BY <2>2 DEF Without
  <2> HIDE DEF hit, U
  <2>5. DOMAIN e.rows = {g \in DOMAIN w.rows : w.rows[g] \cap U = {} \/ w.rows[g] \ U # {}}
    <3>1. ASSUME NEW g
          PROVE  g \in DOMAIN e.rows <=>
                   g \in DOMAIN w.rows /\ (w.rows[g] \cap U = {} \/ w.rows[g] \ U # {})
      <4>1. CASE g \in hit
        BY <1>1, <2>3, <2>4, <4>1 DEF hit
      <4>2. CASE g \notin hit
        BY <2>3, <2>4, <4>2 DEF SpentOf
      <4> QED BY <4>1, <4>2
    <3> QED BY <3>1
  <2>6. \A g \in DOMAIN e.rows : e.rows[g] = w.rows[g] \ U
    <3> SUFFICES ASSUME NEW g \in DOMAIN e.rows PROVE e.rows[g] = w.rows[g] \ U
      OBVIOUS
    <3>1. e.rows[g] = s.rows[g] \ {c} /\ s.rows[g] = w.rows[g] \ T
      BY <2>4 DEF SpentOf
    <3> QED BY <3>1 DEF U
  <2>7. e.spends = Over(s.spends, [k \in {h} |-> Over(LogOf(s, h), old)])
    BY <2>2 DEF AppendSpendLog, With
  <2>8. /\ DOMAIN e.spends = DOMAIN s.spends \cup {h}
        /\ e.spends[h] = Over(LogOf(s, h), old)
        /\ \A g \in DOMAIN s.spends : g # h => e.spends[g] = s.spends[g]
    BY <2>7 DEF Over
  <2>9. /\ DOMAIN e.spends \subseteq DOMAIN w.spends \cup {h}
        /\ \A g \in DOMAIN w.spends : g \in DOMAIN e.spends /\ e.spends[g] = w.spends[g]
    BY <2>8 DEF SpentOf
  <2>10. LogOf(e, h) = Over(LogOf(s, h), old)
    BY <2>8 DEF LogOf
  <2>11. DOMAIN LogOf(e, h) = DOMAIN LogOf(s, h) \cup hit
    BY <2>10 DEF Over, old
  <2>12. DOMAIN LogOf(e, h) = {g \in DOMAIN w.rows : w.rows[g] \cap U # {}}
    <3>1. ASSUME NEW g
          PROVE  g \in DOMAIN LogOf(e, h) <=> g \in DOMAIN w.rows /\ w.rows[g] \cap U # {}
      <4>1. CASE g \in hit
        BY <1>1, <2>3, <2>11, <4>1
      <4>2. CASE g \notin hit
        BY <2>3, <2>11, <4>2 DEF SpentOf
      <4> QED BY <4>1, <4>2
    <3> QED BY <3>1
  <2>13. \A g \in DOMAIN LogOf(e, h) : LogOf(e, h)[g] = w.rows[g]
    <3> SUFFICES ASSUME NEW g \in DOMAIN LogOf(e, h) PROVE LogOf(e, h)[g] = w.rows[g]
      OBVIOUS
    <3>1. CASE g \in hit
      <4>1. LogOf(e, h)[g] = s.rows[g]
        BY <2>10, <2>11, <3>1 DEF Over, old
      <4> QED BY <1>1, <3>1, <4>1
    <3>2. CASE g \notin hit
      <4>1. g \in DOMAIN LogOf(s, h) /\ LogOf(e, h)[g] = LogOf(s, h)[g]
        BY <2>10, <2>11, <3>2 DEF Over, old
      <4> QED BY <4>1 DEF SpentOf
    <3> QED BY <3>1, <3>2
  <2> HIDE DEF e
  <2>14. SpentOf(e, w, h, U)
    BY <2>5, <2>6, <2>9, <2>12, <2>13 DEF SpentOf
  <2> QED BY <2>14 DEF e, U
<1> QED BY <1>2, <1>3

-----------------------------------------------------------------------------
(* The recursions of scan_block.                                           *)

NextSpent(u, n, a, h, ins) ==
  IF ins[n].owner = a THEN SpendCoin(u, h, ins[n].coin) ELSE u

Spending(f, k, w, a, h, ins) ==
  f = [n \in 0..k |-> IF n = 0 THEN w ELSE NextSpent(f[n - 1], n, a, h, ins)]

\* The recursion of SpendInputs defines a function.
LEMMA SpendingExists ==
  ASSUME NEW k \in Nat, NEW w, NEW a, NEW h, NEW ins
  PROVE  \E f : Spending(f, k, w, a, h, ins)
<1> DEFINE Good(j) == \E f : Spending(f, j, w, a, h, ins)
           Bad == {j \in Nat : ~ Good(j)}
<1>1. Good(0)
  <2>1. [n \in 0..0 |-> w]
          = [n \in 0..0 |-> IF n = 0 THEN w ELSE NextSpent([o \in 0..0 |-> w][n - 1], n, a, h, ins)]
    OBVIOUS
  <2> QED BY <2>1 DEF Spending
<1>2. ASSUME NEW j \in Nat, Good(j) PROVE Good(j + 1)
  <2>1. PICK f : f = [n \in 0..j |-> IF n = 0 THEN w ELSE NextSpent(f[n - 1], n, a, h, ins)]
    BY <1>2 DEF Spending
  <2> DEFINE g == [n \in 0..(j + 1) |-> IF n = j + 1 THEN NextSpent(f[j], j + 1, a, h, ins) ELSE f[n]]
  <2>2. \A n \in 0..j : g[n] = f[n]
    OBVIOUS
  <2>3. ASSUME NEW n \in 0..(j + 1)
        PROVE  g[n] = IF n = 0 THEN w ELSE NextSpent(g[n - 1], n, a, h, ins)
    <3>1. CASE n = 0
      <4>1. g[n] = f[0] /\ f[0] = w
        BY <2>1, <3>1
      <4> QED BY <3>1, <4>1
    <3>2. CASE n = j + 1
      <4>1. g[n] = NextSpent(f[j], n, a, h, ins) /\ g[n - 1] = f[j]
        BY <3>2
      <4> QED BY <3>2, <4>1
    <3>3. CASE n \in 1..j
      <4>1. g[n] = f[n] /\ n - 1 \in 0..j
        BY <3>3
      <4>2. g[n - 1] = f[n - 1]
        BY <4>1, <2>2
      <4>3. n \in 0..j /\ n # 0
        BY <3>3
      <4>4. f[n] = NextSpent(f[n - 1], n, a, h, ins)
        BY <2>1, <4>3
      <4> QED BY <4>1, <4>2, <4>3, <4>4
    <3> QED BY <3>1, <3>2, <3>3
  <2>4. g = [n \in 0..(j + 1) |-> IF n = 0 THEN w ELSE NextSpent(g[n - 1], n, a, h, ins)]
    <3> HIDE DEF g
    <3>1. g = [n \in 0..(j + 1) |-> g[n]]
      BY DEF g
    <3> QED BY <2>3, <3>1
  <2> QED BY <2>4 DEF Spending
<1>3. Good(k)
  <2> HIDE DEF Good
  <2> SUFFICES ASSUME ~ Good(k) PROVE FALSE
    OBVIOUS
  <2>1. Bad \in SUBSET Nat /\ Bad # {}
    OBVIOUS
  <2>2. PICK m \in Bad : \A j \in Bad : m <= j
    BY <2>1, Least
  <2>3. m \in Nat /\ m # 0
    BY <1>1, <2>2
  <2>4. m - 1 \in Nat /\ m - 1 \notin Bad
    BY <2>2, <2>3
  <2>5. Good((m - 1) + 1)
    BY <1>2, <2>4
  <2> QED BY <2>2, <2>3, <2>5
<1> QED BY <1>3

\* So SpendInputs ends with the last value of such a function.
LEMMA SpendInputsSteps ==
  ASSUME NEW w, NEW a, NEW h, NEW ins, Len(ins) \in Nat
  PROVE  \E f : /\ SpendInputs(w, a, h, ins) = f[Len(ins)]
                /\ f[0] = w
                /\ \A n \in 1..Len(ins) : f[n] = NextSpent(f[n - 1], n, a, h, ins)
<1> DEFINE k == Len(ins)
           f == CHOOSE g : Spending(g, k, w, a, h, ins)
<1>1. Spending(f, k, w, a, h, ins)
  BY SpendingExists
<1>2. SpendInputs(w, a, h, ins) = f[k]
  BY Zenon DEF SpendInputs, Spending, NextSpent
<1> HIDE DEF f, k
<1>3. k \in Nat
  BY DEF k
<1>4. f[0] = w
  BY <1>1, <1>3 DEF Spending
<1>5. ASSUME NEW n \in 1..k PROVE f[n] = NextSpent(f[n - 1], n, a, h, ins)
  <2>1. n \in 0..k /\ n # 0
    BY <1>3
  <2>2. f[n] = IF n = 0 THEN w ELSE NextSpent(f[n - 1], n, a, h, ins)
    BY <1>1, <2>1 DEF Spending
  <2> QED BY <2>1, <2>2
<1> QED BY <1>2, <1>4, <1>5 DEF k

NextScanned(u, n, a, h, txs) == ScanTransaction(u, a, h, txs[n])

Scanning(f, k, w, a, h, txs) ==
  f = [n \in 0..k |-> IF n = 0 THEN w ELSE NextScanned(f[n - 1], n, a, h, txs)]

\* The recursion of ScanTransactions defines a function.
LEMMA ScanningExists ==
  ASSUME NEW k \in Nat, NEW w, NEW a, NEW h, NEW txs
  PROVE  \E f : Scanning(f, k, w, a, h, txs)
<1> DEFINE Good(j) == \E f : Scanning(f, j, w, a, h, txs)
           Bad == {j \in Nat : ~ Good(j)}
<1>1. Good(0)
  <2>1. [n \in 0..0 |-> w]
          = [n \in 0..0 |-> IF n = 0 THEN w ELSE NextScanned([o \in 0..0 |-> w][n - 1], n, a, h, txs)]
    OBVIOUS
  <2> QED BY <2>1 DEF Scanning
<1>2. ASSUME NEW j \in Nat, Good(j) PROVE Good(j + 1)
  <2>1. PICK f : f = [n \in 0..j |-> IF n = 0 THEN w ELSE NextScanned(f[n - 1], n, a, h, txs)]
    BY <1>2 DEF Scanning
  <2> DEFINE g == [n \in 0..(j + 1) |-> IF n = j + 1 THEN NextScanned(f[j], j + 1, a, h, txs) ELSE f[n]]
  <2>2. \A n \in 0..j : g[n] = f[n]
    OBVIOUS
  <2>3. ASSUME NEW n \in 0..(j + 1)
        PROVE  g[n] = IF n = 0 THEN w ELSE NextScanned(g[n - 1], n, a, h, txs)
    <3>1. CASE n = 0
      <4>1. g[n] = f[0] /\ f[0] = w
        BY <2>1, <3>1
      <4> QED BY <3>1, <4>1
    <3>2. CASE n = j + 1
      <4>1. g[n] = NextScanned(f[j], n, a, h, txs) /\ g[n - 1] = f[j]
        BY <3>2
      <4> QED BY <3>2, <4>1
    <3>3. CASE n \in 1..j
      <4>1. g[n] = f[n] /\ n - 1 \in 0..j
        BY <3>3
      <4>2. g[n - 1] = f[n - 1]
        BY <4>1, <2>2
      <4>3. n \in 0..j /\ n # 0
        BY <3>3
      <4>4. f[n] = NextScanned(f[n - 1], n, a, h, txs)
        BY <2>1, <4>3
      <4> QED BY <4>1, <4>2, <4>3, <4>4
    <3> QED BY <3>1, <3>2, <3>3
  <2>4. g = [n \in 0..(j + 1) |-> IF n = 0 THEN w ELSE NextScanned(g[n - 1], n, a, h, txs)]
    <3> HIDE DEF g
    <3>1. g = [n \in 0..(j + 1) |-> g[n]]
      BY DEF g
    <3> QED BY <2>3, <3>1
  <2> QED BY <2>4 DEF Scanning
<1>3. Good(k)
  <2> HIDE DEF Good
  <2> SUFFICES ASSUME ~ Good(k) PROVE FALSE
    OBVIOUS
  <2>1. Bad \in SUBSET Nat /\ Bad # {}
    OBVIOUS
  <2>2. PICK m \in Bad : \A j \in Bad : m <= j
    BY <2>1, Least
  <2>3. m \in Nat /\ m # 0
    BY <1>1, <2>2
  <2>4. m - 1 \in Nat /\ m - 1 \notin Bad
    BY <2>2, <2>3
  <2>5. Good((m - 1) + 1)
    BY <1>2, <2>4
  <2> QED BY <2>2, <2>3, <2>5
<1> QED BY <1>3

\* So ScanTransactions ends with the last value of such a function.
LEMMA ScanTransactionsSteps ==
  ASSUME NEW w, NEW a, NEW h, NEW txs, Len(txs) \in Nat
  PROVE  \E f : /\ ScanTransactions(w, a, h, txs) = f[Len(txs)]
                /\ f[0] = w
                /\ \A n \in 1..Len(txs) : f[n] = NextScanned(f[n - 1], n, a, h, txs)
<1> DEFINE k == Len(txs)
           f == CHOOSE g : Scanning(g, k, w, a, h, txs)
<1>1. Scanning(f, k, w, a, h, txs)
  BY ScanningExists
<1>2. ScanTransactions(w, a, h, txs) = f[k]
  BY Zenon DEF ScanTransactions, Scanning, NextScanned
<1> HIDE DEF f, k
<1>3. k \in Nat
  BY DEF k
<1>4. f[0] = w
  BY <1>1, <1>3 DEF Scanning
<1>5. ASSUME NEW n \in 1..k PROVE f[n] = NextScanned(f[n - 1], n, a, h, txs)
  <2>1. n \in 0..k /\ n # 0
    BY <1>3
  <2>2. f[n] = IF n = 0 THEN w ELSE NextScanned(f[n - 1], n, a, h, txs)
    BY <1>1, <2>1 DEF Scanning
  <2> QED BY <2>1, <2>2
<1> QED BY <1>2, <1>4, <1>5 DEF k

\* No row loses two coins to the inputs of one transaction.
Apart(rows, a, ins) ==
  \A i, j \in DOMAIN ins :
    ins[i].owner = a /\ ins[j].owner = a /\ i # j
      => \A g \in DOMAIN rows : ins[i].coin \in rows[g] => ins[j].coin \notin rows[g]

\* The inputs of a transaction spend their coins, one after the other.
LEMMA SpendInputsLeaves ==
  ASSUME NEW w, NEW a, NEW h, h \notin DOMAIN w.spends, NEW ins, IsList(ins), Apart(w.rows, a, ins)
  PROVE  SpentOf(SpendInputs(w, a, h, ins), w, h, TakenBy(ins, a))
<1> DEFINE k == Len(ins)
           Taken(n) == {ins[i].coin : i \in {j \in 1..n : ins[j].owner = a}}
<1>1. k \in Nat /\ DOMAIN ins = 1..k
  BY DEF IsList
<1>2. PICK f : /\ SpendInputs(w, a, h, ins) = f[k] /\ f[0] = w
               /\ \A n \in 1..k : f[n] = NextSpent(f[n - 1], n, a, h, ins)
  BY <1>1, SpendInputsSteps
<1> HIDE DEF k
<1>3. SpentOf(w, w, h, {})
  <2>1. LogOf(w, h) = <<>>
    BY DEF LogOf
  <2>2. DOMAIN LogOf(w, h) = {}
    BY <2>1
  <2> QED BY <2>2 DEF SpentOf
<1> DEFINE Good(n) == SpentOf(f[n], w, h, Taken(n))
           Bad == {n \in 0..k : ~ Good(n)}
<1>4. Good(0)
  <2>1. Taken(0) = {}
    OBVIOUS
  <2> HIDE DEF Taken
  <2> QED BY <1>2, <1>3, <2>1
<1>5. ASSUME NEW n \in 1..k, Good(n - 1) PROVE Good(n)
  <2>1. f[n] = NextSpent(f[n - 1], n, a, h, ins)
    BY <1>2
  <2>2. n \in DOMAIN ins /\ n - 1 \in Nat
    BY <1>1
  <2>3. CASE ins[n].owner # a
    <3>1. f[n] = f[n - 1]
      BY <2>1, <2>3 DEF NextSpent
    <3>2. {j \in 1..n : ins[j].owner = a} = {j \in 1..(n - 1) : ins[j].owner = a}
      BY <1>1, <2>2, <2>3
    <3>3. Taken(n) = Taken(n - 1)
      BY <3>2, Zenon
    <3> HIDE DEF Taken
    <3> QED BY <1>5, <3>1, <3>3
  <2>4. CASE ins[n].owner = a
    <3> DEFINE c == ins[n].coin
    <3>1. f[n] = SpendCoin(f[n - 1], h, c)
      BY <2>1, <2>4 DEF NextSpent
    <3>2. Taken(n) = Taken(n - 1) \cup {c}
      <4>1. {j \in 1..n : ins[j].owner = a} = {j \in 1..(n - 1) : ins[j].owner = a} \cup {n}
        BY <1>1, <2>2, <2>4
      <4> QED BY <4>1
    <3>3. ASSUME NEW g \in DOMAIN w.rows, c \in w.rows[g]
          PROVE  w.rows[g] \cap Taken(n - 1) = {}
      <4>1. ASSUME NEW j \in 1..(n - 1), ins[j].owner = a PROVE ins[j].coin \notin w.rows[g]
        <5>1. j \in DOMAIN ins /\ j # n
          BY <1>1
        <5> QED BY <2>2, <2>4, <3>3, <4>1, <5>1 DEF Apart
      <4> QED BY <4>1
    <3> HIDE DEF Taken, c
    <3>4. SpentOf(SpendCoin(f[n - 1], h, c), w, h, Taken(n - 1) \cup {c})
      BY <1>5, <3>3, SpendCoinLeaves
    <3> QED BY <3>1, <3>2, <3>4
  <2> QED BY <2>3, <2>4
<1>6. Good(k)
  <2> HIDE DEF Good
  <2> SUFFICES ASSUME ~ Good(k) PROVE FALSE
    OBVIOUS
  <2>1. Bad \in SUBSET Nat /\ Bad # {}
    BY <1>1
  <2>2. PICK m \in Bad : \A j \in Bad : m <= j
    BY <2>1, Least
  <2>3. m # 0
    BY <1>4, <2>2
  <2>4. m \in 1..k /\ m - 1 \in 0..k /\ m - 1 \notin Bad
    BY <1>1, <2>2, <2>3
  <2> QED BY <1>5, <2>2, <2>4
<1>7. Taken(k) = TakenBy(ins, a)
  BY <1>1 DEF TakenBy
<1> HIDE DEF Taken
<1> QED BY <1>2, <1>6, <1>7

\* A list of transactions of which none concerns an address changes nothing of it; if one
\* does, that one alone counts.
LEMMA ScanTransactionsAlone ==
  ASSUME NEW w, NEW a, NEW h, NEW txs, IsList(txs),
         \A m, n \in DOMAIN txs : Concerns(txs[m], a) /\ Concerns(txs[n], a) => m = n
  PROVE  /\ (\A n \in DOMAIN txs : ~ Concerns(txs[n], a)) => ScanTransactions(w, a, h, txs) = w
         /\ \A n \in DOMAIN txs : Concerns(txs[n], a)
              => ScanTransactions(w, a, h, txs) = ScanTransaction(w, a, h, txs[n])
<1> DEFINE k == Len(txs)
<1>1. k \in Nat /\ DOMAIN txs = 1..k
  BY DEF IsList
<1>2. PICK f : /\ ScanTransactions(w, a, h, txs) = f[k] /\ f[0] = w
               /\ \A n \in 1..k : f[n] = NextScanned(f[n - 1], n, a, h, txs)
  BY <1>1, ScanTransactionsSteps
<1> HIDE DEF k
<1>3. ASSUME NEW n \in 1..k, ~ Concerns(txs[n], a) PROVE f[n] = f[n - 1]
  <2>1. f[n] = ScanTransaction(f[n - 1], a, h, txs[n])
    BY <1>2 DEF NextScanned
  <2> QED BY <1>3, <2>1, Zenon DEF ScanTransaction
<1> DEFINE Good(n) == \/ f[n] = w /\ \A m \in 1..n : ~ Concerns(txs[m], a)
                      \/ \E m \in 1..n : Concerns(txs[m], a) /\ f[n] = ScanTransaction(w, a, h, txs[m])
           Bad == {n \in 0..k : ~ Good(n)}
<1>4. Good(0)
  BY <1>2
<1>5. ASSUME NEW n \in 1..k, Good(n - 1) PROVE Good(n)
  <2>1. n - 1 \in Nat /\ 1..n = 1..(n - 1) \cup {n} /\ n \in DOMAIN txs
    BY <1>1
  <2>2. CASE ~ Concerns(txs[n], a)
    <3>1. f[n] = f[n - 1]
      BY <1>3, <2>2
    <3> QED BY <1>5, <2>1, <2>2, <3>1
  <2>3. CASE Concerns(txs[n], a)
    <3>1. \A m \in 1..(n - 1) : ~ Concerns(txs[m], a)
      <4> SUFFICES ASSUME NEW m \in 1..(n - 1), Concerns(txs[m], a) PROVE FALSE
        OBVIOUS
      <4>1. m \in DOMAIN txs /\ m # n
        BY <1>1
      <4> QED BY <2>1, <2>3, <4>1
    <3>2. f[n - 1] = w
      BY <1>5, <3>1
    <3>3. f[n] = ScanTransaction(w, a, h, txs[n])
      BY <1>2, <3>2 DEF NextScanned
    <3> QED BY <2>1, <2>3, <3>3
  <2> QED BY <2>2, <2>3
<1>6. Good(k)
  <2> HIDE DEF Good
  <2> SUFFICES ASSUME ~ Good(k) PROVE FALSE
    OBVIOUS
  <2>1. Bad \in SUBSET Nat /\ Bad # {}
    BY <1>1
  <2>2. PICK m \in Bad : \A j \in Bad : m <= j
    BY <2>1, Least
  <2>3. m # 0
    BY <1>4, <2>2
  <2>4. m \in 1..k /\ m - 1 \in 0..k /\ m - 1 \notin Bad
    BY <1>1, <2>2, <2>3
  <2> QED BY <1>5, <2>2, <2>4
<1>7. CASE f[k] = w /\ \A m \in 1..k : ~ Concerns(txs[m], a)
  BY <1>1, <1>2, <1>7
<1>8. CASE \E m \in 1..k : Concerns(txs[m], a) /\ f[k] = ScanTransaction(w, a, h, txs[m])
  <2>1. PICK m \in 1..k : Concerns(txs[m], a) /\ f[k] = ScanTransaction(w, a, h, txs[m])
    BY <1>8
  <2>2. \A n \in DOMAIN txs : Concerns(txs[n], a) => n = m
    BY <1>1, <2>1
  <2> QED BY <1>1, <1>2, <2>1, <2>2
<1> QED BY <1>6, <1>7, <1>8

-----------------------------------------------------------------------------
(* What the wallet of an address holds.                                    *)

ReceivedIn(b, a) == UNION {Received(TxsOf[b][n], a) : n \in DOMAIN TxsOf[b]}
TakenIn(b, a) == UNION {TakenBy(TxsOf[b][n].ins, a) : n \in DOMAIN TxsOf[b]}

Row(w, g) == IF g \in DOMAIN w.rows THEN w.rows[g] ELSE {}

\* A block in which one transaction concerns an address receives and takes what that one does.
LEMMA BlockOfOne ==
  ASSUME NEW b, NEW a, Simple(b, a)
  PROVE  /\ (\A n \in DOMAIN TxsOf[b] : ~ Concerns(TxsOf[b][n], a))
              => ReceivedIn(b, a) = {} /\ TakenIn(b, a) = {}
         /\ \A n \in DOMAIN TxsOf[b] : Concerns(TxsOf[b][n], a)
              => ReceivedIn(b, a) = Received(TxsOf[b][n], a) /\ TakenIn(b, a) = TakenBy(TxsOf[b][n].ins, a)
<1>1. ASSUME NEW n \in DOMAIN TxsOf[b], ~ Concerns(TxsOf[b][n], a)
      PROVE  Received(TxsOf[b][n], a) = {} /\ TakenBy(TxsOf[b][n].ins, a) = {}
  BY <1>1 DEF Concerns, Received, TakenBy
<1>2. ASSUME \A n \in DOMAIN TxsOf[b] : ~ Concerns(TxsOf[b][n], a)
      PROVE  ReceivedIn(b, a) = {} /\ TakenIn(b, a) = {}
  BY <1>1, <1>2 DEF ReceivedIn, TakenIn
<1>3. ASSUME NEW n \in DOMAIN TxsOf[b], Concerns(TxsOf[b][n], a)
      PROVE  ReceivedIn(b, a) = Received(TxsOf[b][n], a) /\ TakenIn(b, a) = TakenBy(TxsOf[b][n].ins, a)
  <2>1. \A m \in DOMAIN TxsOf[b] : m # n => ~ Concerns(TxsOf[b][m], a)
    BY <1>3 DEF Simple
  <2>2. \A m \in DOMAIN TxsOf[b] :
          m # n => Received(TxsOf[b][m], a) = {} /\ TakenBy(TxsOf[b][m].ins, a) = {}
    BY <1>1, <2>1
  <2>3. ReceivedIn(b, a) = Received(TxsOf[b][n], a)
    BY <2>2 DEF ReceivedIn
  <2>4. TakenIn(b, a) = TakenBy(TxsOf[b][n].ins, a)
    BY <2>2 DEF TakenIn
  <2> QED BY <2>3, <2>4
<1> QED BY <1>2, <1>3

\* The coins of a row were made by one transaction.
OfOne(row) == \A c, d \in row : c[1] = d[1]

LEMMA ReceivedOfOne ==
  ASSUME NEW b, NEW a, Simple(b, a)
  PROVE  OfOne(ReceivedIn(b, a))
<1>1. ASSUME NEW tx PROVE OfOne(Received(tx, a))
  BY DEF OfOne, Received
<1>2. CASE \A n \in DOMAIN TxsOf[b] : ~ Concerns(TxsOf[b][n], a)
  BY <1>2, BlockOfOne DEF OfOne
<1>3. CASE \E n \in DOMAIN TxsOf[b] : Concerns(TxsOf[b][n], a)
  BY <1>1, <1>3, BlockOfOne
<1> QED BY <1>2, <1>3

\* e is w after the scan of a block: its coins are taken out of the rows, those rows are in
\* the log, and there is a row for what it received.
ScannedTo(e, w, h, b, a) ==
  /\ DOMAIN e.rows \subseteq DOMAIN w.rows \cup {h}
  /\ Row(e, h) = ReceivedIn(b, a)
  /\ \A g : g # h => Row(e, g) = Row(w, g) \ TakenIn(b, a)
  /\ DOMAIN e.spends \subseteq DOMAIN w.spends \cup {h}
  /\ \A k : k # h => LogOf(e, k) = LogOf(w, k)
  /\ DOMAIN LogOf(e, h) \subseteq DOMAIN w.rows
  /\ \A g \in DOMAIN LogOf(e, h) : LogOf(e, h)[g] = Row(w, g)
  /\ \A g : g \notin DOMAIN LogOf(e, h) => Row(w, g) \cap TakenIn(b, a) = {}

\* The scan of a simple block at a height that has no row and no log.
LEMMA BlockScanned ==
  ASSUME LightNodeAssumption, NEW a, NEW b \in Blocks, Simple(b, a), NEW w, NEW h,
         h \notin DOMAIN w.rows, h \notin DOMAIN w.spends,
         \A g \in DOMAIN w.rows : OfOne(w.rows[g]),
         NEW e, e = ScanTransactions(w, a, h, TxsOf[b])
  PROVE  ScannedTo(e, w, h, b, a)
<1> DEFINE txs == TxsOf[b]
<1>1. IsList(txs) /\ \A n \in DOMAIN txs : IsList(txs[n].ins)
  BY DEF LightNodeAssumption
<1>2. \A m, n \in DOMAIN txs : Concerns(txs[m], a) /\ Concerns(txs[n], a) => m = n
  BY DEF Simple
<1>3. /\ (\A n \in DOMAIN txs : ~ Concerns(txs[n], a)) => e = w
      /\ \A n \in DOMAIN txs : Concerns(txs[n], a) => e = ScanTransaction(w, a, h, txs[n])
  <2> HIDE DEF txs
  <2> QED BY <1>1, <1>2, ScanTransactionsAlone DEF txs
<1>4. CASE \A n \in DOMAIN txs : ~ Concerns(txs[n], a)
  <2>1. ReceivedIn(b, a) = {} /\ TakenIn(b, a) = {}
    BY <1>4, BlockOfOne
  <2>2. e = w
    BY <1>3, <1>4
  <2>3. LogOf(e, h) = <<>>
    BY <2>2 DEF LogOf
  <2>4. DOMAIN LogOf(e, h) = {}
    BY <2>3
  <2>5. Row(e, h) = {}
    BY <2>2 DEF Row
  <2> QED BY <2>1, <2>2, <2>4, <2>5 DEF ScannedTo
<1>5. CASE \E n \in DOMAIN txs : Concerns(txs[n], a)
  <2>1. PICK n \in DOMAIN txs : Concerns(txs[n], a)
    BY <1>5
  <2> DEFINE tx == txs[n]
             s == SpendInputs(w, a, h, tx.ins)
  <2>2. ReceivedIn(b, a) = Received(tx, a) /\ TakenIn(b, a) = TakenBy(tx.ins, a)
    BY <2>1, BlockOfOne
  <2>3. Apart(w.rows, a, tx.ins)
    <3>1. ApartInputs(tx.ins, a)
      BY DEF Simple
    <3> HIDE DEF tx
    <3> QED BY <3>1 DEF Apart, ApartInputs, OfOne
  <2>4. SpentOf(s, w, h, TakenIn(b, a))
    <3>1. IsList(tx.ins)
      BY <1>1
    <3> HIDE DEF tx
    <3> QED BY <2>2, <2>3, <3>1, SpendInputsLeaves
  <2>5. e = [rows |-> With(s.rows, h, Received(tx, a)), spends |-> s.spends]
    <3>1. e = ScanTransaction(w, a, h, tx)
      BY <1>3, <2>1
    <3> HIDE DEF txs
    <3> QED BY <2>1, <3>1, Zenon DEF ScanTransaction
  <2> HIDE DEF s, tx
  <2> DEFINE T == TakenIn(b, a)
  <2> HIDE DEF T
  <2>6. e.spends = s.spends
    BY <2>5
  <2>7. /\ DOMAIN e.rows = DOMAIN s.rows \cup {h} /\ e.rows[h] = ReceivedIn(b, a)
        /\ \A g \in DOMAIN s.rows : g # h => e.rows[g] = s.rows[g]
    <3>1. e.rows = Over(s.rows, [k \in {h} |-> ReceivedIn(b, a)])
      BY <2>2, <2>5 DEF With
    <3> QED BY <3>1 DEF Over
  <2>8. \A k : LogOf(e, k) = LogOf(s, k)
    BY <2>6 DEF LogOf
  <2>9. /\ DOMAIN s.rows = {g \in DOMAIN w.rows : w.rows[g] \cap T = {} \/ w.rows[g] \ T # {}}
        /\ \A g \in DOMAIN s.rows : s.rows[g] = w.rows[g] \ T
    BY <2>4 DEF SpentOf, T
  <2>10. /\ DOMAIN s.spends \subseteq DOMAIN w.spends \cup {h}
         /\ \A g \in DOMAIN w.spends : g \in DOMAIN s.spends /\ s.spends[g] = w.spends[g]
    BY <2>4 DEF SpentOf, T
  <2>11. /\ DOMAIN LogOf(s, h) = {g \in DOMAIN w.rows : w.rows[g] \cap T # {}}
         /\ \A g \in DOMAIN LogOf(s, h) : LogOf(s, h)[g] = w.rows[g]
    BY <2>4 DEF SpentOf, T
  <2>12. DOMAIN e.rows \subseteq DOMAIN w.rows \cup {h}
    BY <2>7, <2>9
  <2>13. Row(e, h) = ReceivedIn(b, a)
    BY <2>7 DEF Row
  <2>14. ASSUME NEW g, g # h PROVE Row(e, g) = Row(w, g) \ T
    <3>1. CASE g \in DOMAIN s.rows
      <4>1. Row(e, g) = s.rows[g] /\ Row(w, g) = w.rows[g]
        BY <2>7, <2>9, <2>14, <3>1 DEF Row
      <4> QED BY <2>9, <3>1, <4>1
    <3>2. CASE g \notin DOMAIN s.rows
      <4>1. Row(e, g) = {}
        BY <2>7, <2>14, <3>2 DEF Row
      <4>2. Row(w, g) \ T = {}
        BY <2>9, <3>2 DEF Row
      <4> QED BY <4>1, <4>2
    <3> QED BY <3>1, <3>2
  <2>15. DOMAIN e.spends \subseteq DOMAIN w.spends \cup {h}
    BY <2>6, <2>10
  <2>16. ASSUME NEW k, k # h PROVE LogOf(e, k) = LogOf(w, k)
    BY <2>6, <2>10, <2>16 DEF LogOf
  <2>17. DOMAIN LogOf(e, h) \subseteq DOMAIN w.rows
    BY <2>8, <2>11
  <2>18. ASSUME NEW g \in DOMAIN LogOf(e, h) PROVE LogOf(e, h)[g] = Row(w, g)
    BY <2>8, <2>11 DEF Row
  <2>19. ASSUME NEW g, g \notin DOMAIN LogOf(e, h) PROVE Row(w, g) \cap T = {}
    BY <2>8, <2>11, <2>19 DEF Row
  <2> QED BY <2>12, <2>13, <2>14, <2>15, <2>16, <2>17, <2>18, <2>19 DEF T, ScannedTo
<1> QED BY <1>4, <1>5

\* The coins received in the block at g of s, without those that later ones of s take.
Left(s, g, a) == {c \in ReceivedIn(s[g], a) : \A j \in DOMAIN s : g < j => c \notin TakenIn(s[j], a)}

Before(s, k) == Without(s, {j \in DOMAIN s : ~(j < k)})

\* w is the wallet after the blocks s: the rows hold what is left of each of them, and the
\* log of a height the rows that lost a coin there, as they were.
WalletOf(w, s, a) ==
  /\ DOMAIN w.rows \subseteq DOMAIN s /\ DOMAIN w.spends \subseteq DOMAIN s
  /\ \A g \in DOMAIN s : Row(w, g) = Left(s, g, a)
  /\ \A k \in DOMAIN s : DOMAIN LogOf(w, k) \subseteq {g \in DOMAIN s : g < k}
  /\ \A k \in DOMAIN s : \A g \in DOMAIN s : g < k =>
       /\ g \in DOMAIN LogOf(w, k) => LogOf(w, k)[g] = Left(Before(s, k), g, a)
       /\ g \notin DOMAIN LogOf(w, k) => Left(Before(s, k), g, a) \cap TakenIn(s[k], a) = {}

LEMMA BeforeFields ==
  ASSUME NEW s, NEW k
  PROVE  /\ DOMAIN Before(s, k) = {j \in DOMAIN s : j < k}
         /\ \A j \in DOMAIN Before(s, k) : Before(s, k)[j] = s[j]
BY DEF Before, Without

\* What is left depends on the blocks from its height on.
LEMMA LeftSame ==
  ASSUME NEW s, NEW t, NEW g, NEW a, DOMAIN s = DOMAIN t, g \in DOMAIN s,
         \A j \in DOMAIN s : s[j] = t[j]
  PROVE  Left(s, g, a) = Left(t, g, a)
BY DEF Left

\* A block above all others takes its coins from what was left.
LEMMA LeftOnTop ==
  ASSUME NEW s, NEW a, NEW h \in Nat, NEW g \in Nat, g \in DOMAIN s, g < h, h \in DOMAIN s,
         \A j \in DOMAIN s : j \in Nat /\ j <= h
  PROVE  Left(s, g, a) = Left(Before(s, h), g, a) \ TakenIn(s[h], a)
<1>1. /\ DOMAIN Before(s, h) = {j \in DOMAIN s : j < h}
      /\ \A j \in DOMAIN Before(s, h) : Before(s, h)[j] = s[j]
  BY BeforeFields
<1>2. DOMAIN s = DOMAIN Before(s, h) \cup {h}
  BY <1>1
<1>3. Before(s, h)[g] = s[g]
  BY <1>1
<1> QED BY <1>1, <1>2, <1>3 DEF Left

\* The rows of a wallet hold coins of one transaction each, and none is above the blocks.
LEMMA WalletFields ==
  ASSUME NEW a, NEW h \in Nat,
         NEW s, \A g \in DOMAIN s : g \in Nat /\ g < h /\ Simple(s[g], a),
         NEW w, WalletOf(w, s, a)
  PROVE  /\ h \notin DOMAIN w.rows /\ h \notin DOMAIN w.spends
         /\ \A g \in DOMAIN w.rows : OfOne(w.rows[g])
<1>1. h \notin DOMAIN s
  OBVIOUS
<1>2. ASSUME NEW g \in DOMAIN w.rows PROVE OfOne(w.rows[g])
  <2>1. g \in DOMAIN s /\ w.rows[g] = Left(s, g, a)
    BY DEF WalletOf, Row
  <2>2. OfOne(ReceivedIn(s[g], a))
    BY <2>1, ReceivedOfOne
  <2> QED BY <2>1, <2>2 DEF Left, OfOne
<1> QED BY <1>1, <1>2 DEF WalletOf

\* The scan of a block above all others adds it to the wallet.
LEMMA ScanKeeps ==
  ASSUME NEW a, NEW b, NEW h \in Nat,
         NEW s, \A g \in DOMAIN s : g \in Nat /\ g < h,
         NEW t, DOMAIN t = DOMAIN s \cup {h}, t[h] = b, \A g \in DOMAIN s : t[g] = s[g],
         NEW w, WalletOf(w, s, a), NEW e, ScannedTo(e, w, h, b, a)
  PROVE  WalletOf(e, t, a)
<1> DEFINE T == TakenIn(b, a)
<1>1. h \notin DOMAIN s
  OBVIOUS
<1>3. /\ DOMAIN e.rows \subseteq DOMAIN w.rows \cup {h}
      /\ Row(e, h) = ReceivedIn(b, a)
      /\ \A g : g # h => Row(e, g) = Row(w, g) \ T
      /\ DOMAIN e.spends \subseteq DOMAIN w.spends \cup {h}
      /\ \A k : k # h => LogOf(e, k) = LogOf(w, k)
      /\ DOMAIN LogOf(e, h) \subseteq DOMAIN w.rows
      /\ \A g \in DOMAIN LogOf(e, h) : LogOf(e, h)[g] = Row(w, g)
      /\ \A g : g \notin DOMAIN LogOf(e, h) => Row(w, g) \cap T = {}
  BY DEF ScannedTo
<1> HIDE DEF T
<1>4. /\ DOMAIN w.rows \subseteq DOMAIN s /\ DOMAIN w.spends \subseteq DOMAIN s
      /\ \A g \in DOMAIN s : Row(w, g) = Left(s, g, a)
  BY DEF WalletOf
<1>5. DOMAIN e.rows \subseteq DOMAIN t /\ DOMAIN e.spends \subseteq DOMAIN t
  BY <1>3, <1>4
<1>6. \A g \in DOMAIN t : g \in Nat /\ g <= h
  OBVIOUS
<1>7. ASSUME NEW k \in DOMAIN s, NEW g \in DOMAIN s, g < k
      PROVE  Left(Before(t, k), g, a) = Left(Before(s, k), g, a)
  <2>1. /\ DOMAIN Before(s, k) = {j \in DOMAIN s : j < k}
        /\ \A j \in DOMAIN Before(s, k) : Before(s, k)[j] = s[j]
    BY BeforeFields
  <2>2. /\ DOMAIN Before(t, k) = {j \in DOMAIN t : j < k}
        /\ \A j \in DOMAIN Before(t, k) : Before(t, k)[j] = t[j]
    BY BeforeFields
  <2>3. DOMAIN Before(s, k) = DOMAIN Before(t, k)
    BY <2>1, <2>2
  <2>4. g \in DOMAIN Before(t, k) /\ \A j \in DOMAIN Before(t, k) : Before(t, k)[j] = Before(s, k)[j]
    BY <1>7, <2>1, <2>2, <2>3
  <2> QED BY <2>3, <2>4, LeftSame
<1>8. ASSUME NEW g \in DOMAIN s PROVE Left(Before(t, h), g, a) = Left(s, g, a)
  <2>1. /\ DOMAIN Before(t, h) = {j \in DOMAIN t : j < h}
        /\ \A j \in DOMAIN Before(t, h) : Before(t, h)[j] = t[j]
    BY BeforeFields
  <2>2. DOMAIN Before(t, h) = DOMAIN s /\ \A j \in DOMAIN s : Before(t, h)[j] = s[j]
    BY <1>1, <2>1
  <2> QED BY <2>2, LeftSame
<1>9. ASSUME NEW g \in DOMAIN t PROVE Row(e, g) = Left(t, g, a)
  <2>1. CASE g = h
    <3>1. Left(t, h, a) = ReceivedIn(b, a)
      BY <1>6 DEF Left
    <3> QED BY <1>3, <2>1, <3>1
  <2>2. CASE g # h
    <3>1. g \in DOMAIN s /\ g < h /\ g \in Nat
      BY <2>2
    <3>2. Left(t, g, a) = Left(Before(t, h), g, a) \ TakenIn(t[h], a)
      BY <1>6, <3>1, LeftOnTop
    <3>3. Left(t, g, a) = Left(s, g, a) \ T
      BY <1>8, <3>1, <3>2 DEF T
    <3> QED BY <1>3, <1>4, <2>2, <3>1, <3>3
  <2> QED BY <2>1, <2>2
<1>10. ASSUME NEW k \in DOMAIN t PROVE DOMAIN LogOf(e, k) \subseteq {g \in DOMAIN t : g < k}
  <2>1. CASE k = h
    BY <1>3, <1>4, <2>1
  <2>2. CASE k # h
    <3>1. k \in DOMAIN s /\ LogOf(e, k) = LogOf(w, k)
      BY <1>3, <2>2
    <3> QED BY <3>1 DEF WalletOf
  <2> QED BY <2>1, <2>2
<1>11. ASSUME NEW k \in DOMAIN t, NEW g \in DOMAIN t, g < k
       PROVE  /\ g \in DOMAIN LogOf(e, k) => LogOf(e, k)[g] = Left(Before(t, k), g, a)
              /\ g \notin DOMAIN LogOf(e, k) => Left(Before(t, k), g, a) \cap TakenIn(t[k], a) = {}
  <2>1. g \in DOMAIN s
    BY <1>6, <1>11
  <2>2. CASE k = h
    <3>1. Left(Before(t, h), g, a) = Row(w, g)
      BY <1>4, <1>8, <2>1
    <3> QED BY <1>3, <2>2, <3>1 DEF T
  <2>3. CASE k # h
    <3>1. k \in DOMAIN s /\ LogOf(e, k) = LogOf(w, k)
      BY <1>3, <2>3
    <3>2. Left(Before(t, k), g, a) = Left(Before(s, k), g, a)
      BY <1>7, <1>11, <2>1, <3>1
    <3>3. /\ g \in DOMAIN LogOf(w, k) => LogOf(w, k)[g] = Left(Before(s, k), g, a)
          /\ g \notin DOMAIN LogOf(w, k) => Left(Before(s, k), g, a) \cap TakenIn(s[k], a) = {}
      BY <1>11, <2>1, <3>1 DEF WalletOf
    <3> QED BY <3>1, <3>2, <3>3
  <2> QED BY <2>2, <2>3
<1> QED BY <1>5, <1>9, <1>10, <1>11 DEF WalletOf

\* pop_block takes the block on top off the wallet: what it spent comes back.
LEMMA PopKeeps ==
  ASSUME NEW a, NEW h \in Nat,
         NEW s, \A g \in DOMAIN s : g \in Nat /\ g <= h,
         NEW t, t = Without(s, {h}),
         NEW w, WalletOf(w, s, a)
  PROVE  WalletOf(PopRows(w, h), t, a)
<1> DEFINE e == PopRows(w, h)
<1>1. e.rows = Without(Over(w.rows, LogOf(w, h)), {h}) /\ e.spends = Without(w.spends, {h})
  BY DEF PopRows
<1>2. DOMAIN t = DOMAIN s \ {h} /\ \A g \in DOMAIN t : t[g] = s[g]
  BY DEF Without
<1> HIDE DEF e
<1>3. /\ DOMAIN w.rows \subseteq DOMAIN s /\ DOMAIN w.spends \subseteq DOMAIN s
      /\ \A g \in DOMAIN s : Row(w, g) = Left(s, g, a)
  BY DEF WalletOf
<1>4. DOMAIN LogOf(w, h) \subseteq DOMAIN t
  <2>1. CASE h \in DOMAIN s
    BY <1>2, <2>1 DEF WalletOf
  <2>2. CASE h \notin DOMAIN s
    <3>1. LogOf(w, h) = <<>>
      BY <1>3, <2>2 DEF LogOf
    <3>2. DOMAIN LogOf(w, h) = {}
      BY <3>1
    <3> QED BY <3>2
  <2> QED BY <2>1, <2>2
<1>5. /\ DOMAIN e.rows \subseteq DOMAIN t
      /\ \A g \in DOMAIN t : Row(e, g) = IF g \in DOMAIN LogOf(w, h) THEN LogOf(w, h)[g] ELSE Row(w, g)
  <2> DEFINE r == Over(w.rows, LogOf(w, h))
  <2>1. /\ DOMAIN r = DOMAIN w.rows \cup DOMAIN LogOf(w, h)
        /\ \A g \in DOMAIN r : r[g] = IF g \in DOMAIN LogOf(w, h) THEN LogOf(w, h)[g] ELSE w.rows[g]
    BY DEF Over
  <2> HIDE DEF r
  <2>2. DOMAIN e.rows = DOMAIN r \ {h} /\ \A g \in DOMAIN e.rows : e.rows[g] = r[g]
    BY <1>1 DEF Without, r
  <2>3. DOMAIN e.rows \subseteq DOMAIN t
    BY <1>2, <1>3, <1>4, <2>1, <2>2
  <2>4. ASSUME NEW g \in DOMAIN t
        PROVE  Row(e, g) = IF g \in DOMAIN LogOf(w, h) THEN LogOf(w, h)[g] ELSE Row(w, g)
    <3>1. g # h
      BY <1>2
    <3>2. CASE g \in DOMAIN LogOf(w, h)
      <4>1. g \in DOMAIN e.rows /\ e.rows[g] = LogOf(w, h)[g]
        BY <2>1, <2>2, <3>1, <3>2
      <4> QED BY <3>2, <4>1 DEF Row
    <3>3. CASE g \notin DOMAIN LogOf(w, h)
      <4>1. g \in DOMAIN e.rows <=> g \in DOMAIN w.rows
        BY <2>1, <2>2, <3>1, <3>3
      <4>2. g \in DOMAIN e.rows => e.rows[g] = w.rows[g]
        BY <2>1, <2>2, <3>3
      <4> QED BY <3>3, <4>1, <4>2 DEF Row
    <3> QED BY <3>2, <3>3
  <2> QED BY <2>3, <2>4
<1>6. /\ DOMAIN e.spends \subseteq DOMAIN t
      /\ \A k : k # h => LogOf(e, k) = LogOf(w, k)
  BY <1>1, <1>2, <1>3 DEF Without, LogOf
<1>7. ASSUME NEW g \in DOMAIN t PROVE Left(Before(s, h), g, a) = Left(t, g, a)
  <2>1. /\ DOMAIN Before(s, h) = {j \in DOMAIN s : j < h}
        /\ \A j \in DOMAIN Before(s, h) : Before(s, h)[j] = s[j]
    BY BeforeFields
  <2>2. DOMAIN Before(s, h) = DOMAIN t /\ \A j \in DOMAIN t : Before(s, h)[j] = t[j]
    BY <1>2, <2>1
  <2> QED BY <2>2, LeftSame
<1>8. ASSUME NEW g \in DOMAIN t PROVE Row(e, g) = Left(t, g, a)
  <2>1. CASE h \in DOMAIN s
    <3>1. g \in DOMAIN s /\ g \in Nat /\ g < h
      BY <1>2
    <3>2. Left(s, g, a) = Left(Before(s, h), g, a) \ TakenIn(s[h], a)
      BY <2>1, <3>1, LeftOnTop
    <3>3. /\ g \in DOMAIN LogOf(w, h) => LogOf(w, h)[g] = Left(Before(s, h), g, a)
          /\ g \notin DOMAIN LogOf(w, h) => Left(Before(s, h), g, a) \cap TakenIn(s[h], a) = {}
      BY <2>1, <3>1 DEF WalletOf
    <3>4. Row(w, g) = Left(s, g, a)
      BY <1>3, <3>1
    <3>5. CASE g \in DOMAIN LogOf(w, h)
      BY <1>5, <1>7, <3>3, <3>5
    <3>6. CASE g \notin DOMAIN LogOf(w, h)
      <4>1. Left(s, g, a) = Left(Before(s, h), g, a)
        BY <3>2, <3>3, <3>6
      <4> QED BY <1>5, <1>7, <3>4, <3>6, <4>1
    <3> QED BY <3>5, <3>6
  <2>2. CASE h \notin DOMAIN s
    <3>1. LogOf(w, h) = <<>>
      BY <1>3, <2>2 DEF LogOf
    <3>2. DOMAIN LogOf(w, h) = {}
      BY <3>1
    <3>3. Row(e, g) = Left(s, g, a)
      BY <1>2, <1>3, <1>5, <3>2
    <3>4. Left(s, g, a) = Left(t, g, a)
      <4>1. DOMAIN s = DOMAIN t
        BY <1>2, <2>2
      <4> QED BY <1>2, <4>1, LeftSame
    <3> QED BY <3>3, <3>4
  <2> QED BY <2>1, <2>2
<1>9. ASSUME NEW k \in DOMAIN t PROVE DOMAIN LogOf(e, k) \subseteq {g \in DOMAIN t : g < k}
  <2>1. k \in DOMAIN s /\ k # h /\ k < h /\ LogOf(e, k) = LogOf(w, k)
    BY <1>2, <1>6
  <2>2. DOMAIN LogOf(w, k) \subseteq {g \in DOMAIN s : g < k}
    BY <2>1 DEF WalletOf
  <2> QED BY <1>2, <2>1, <2>2
<1>10. ASSUME NEW k \in DOMAIN t, NEW g \in DOMAIN t, g < k
       PROVE  /\ g \in DOMAIN LogOf(e, k) => LogOf(e, k)[g] = Left(Before(t, k), g, a)
              /\ g \notin DOMAIN LogOf(e, k) => Left(Before(t, k), g, a) \cap TakenIn(t[k], a) = {}
  <2>1. k \in DOMAIN s /\ k # h /\ k < h /\ LogOf(e, k) = LogOf(w, k) /\ g \in DOMAIN s
    BY <1>2, <1>6
  <2>2. Left(Before(t, k), g, a) = Left(Before(s, k), g, a)
    <3>1. /\ DOMAIN Before(s, k) = {j \in DOMAIN s : j < k}
          /\ \A j \in DOMAIN Before(s, k) : Before(s, k)[j] = s[j]
      BY BeforeFields
    <3>2. /\ DOMAIN Before(t, k) = {j \in DOMAIN t : j < k}
          /\ \A j \in DOMAIN Before(t, k) : Before(t, k)[j] = t[j]
      BY BeforeFields
    <3>3. DOMAIN Before(s, k) = DOMAIN Before(t, k)
      BY <1>2, <2>1, <3>1, <3>2
    <3>4. g \in DOMAIN Before(t, k) /\ \A j \in DOMAIN Before(t, k) : Before(t, k)[j] = Before(s, k)[j]
      BY <1>2, <1>10, <3>1, <3>2, <3>3
    <3> QED BY <3>3, <3>4, LeftSame
  <2>3. /\ g \in DOMAIN LogOf(w, k) => LogOf(w, k)[g] = Left(Before(s, k), g, a)
        /\ g \notin DOMAIN LogOf(w, k) => Left(Before(s, k), g, a) \cap TakenIn(s[k], a) = {}
    BY <1>10, <2>1 DEF WalletOf
  <2> QED BY <1>2, <2>1, <2>2, <2>3
<1> QED BY <1>5, <1>6, <1>8, <1>9, <1>10 DEF WalletOf, e

\* Nothing was scanned and there are no rows.
LEMMA WalletEmpty ==
  ASSUME NEW w, NEW s, NEW a, DOMAIN w.rows = {}, DOMAIN w.spends = {}, DOMAIN s = {}
  PROVE  WalletOf(w, s, a)
BY DEF WalletOf

\* A wallet is that of the blocks at each height.
LEMMA WalletSame ==
  ASSUME NEW w, NEW s, NEW t, NEW a, WalletOf(w, s, a),
         DOMAIN s = DOMAIN t, \A g \in DOMAIN s : s[g] = t[g]
  PROVE  WalletOf(w, t, a)
<1>1. ASSUME NEW g \in DOMAIN s PROVE Left(s, g, a) = Left(t, g, a)
  BY LeftSame
<1>2. ASSUME NEW k, NEW g \in DOMAIN s, g < k
      PROVE  Left(Before(s, k), g, a) = Left(Before(t, k), g, a)
  <2>1. /\ DOMAIN Before(s, k) = {j \in DOMAIN s : j < k}
        /\ \A j \in DOMAIN Before(s, k) : Before(s, k)[j] = s[j]
    BY BeforeFields
  <2>2. /\ DOMAIN Before(t, k) = {j \in DOMAIN t : j < k}
        /\ \A j \in DOMAIN Before(t, k) : Before(t, k)[j] = t[j]
    BY BeforeFields
  <2>3. DOMAIN Before(s, k) = DOMAIN Before(t, k) /\ g \in DOMAIN Before(s, k)
        /\ \A j \in DOMAIN Before(s, k) : Before(s, k)[j] = Before(t, k)[j]
    BY <1>2, <2>1, <2>2
  <2> QED BY <2>3, LeftSame
<1> QED BY <1>1, <1>2 DEF WalletOf

\* The rows of a wallet list what was received and is not spent.
LEMMA WalletListed ==
  ASSUME Data, NEW a \in Addresses, \A b \in Blocks : Simple(b, a),
         WalletOf(db.wallets[a], seen[a], a)
  PROVE  Listed(a) = Unspent(a)
<1> DEFINE s == seen[a]
           rows == db.wallets[a].rows
<1>1. ASSUME NEW h \in DOMAIN s, NEW n \in DOMAIN TxsOf[s[h]], NEW c \in Received(TxsOf[s[h]][n], a)
      PROVE  SpentAfter(a, h, n, c) <=> \E g \in DOMAIN s : h < g /\ c \in TakenIn(s[g], a)
  <2>1. h \in Nat /\ \A g \in DOMAIN s : g \in Nat /\ Simple(s[g], a)
    BY DEF Data, TypeOK
  <2>2. Concerns(TxsOf[s[h]][n], a)
    BY DEF Received, Concerns
  <2>3. ASSUME NEW m \in DOMAIN TxsOf[s[h]], m > n
        PROVE  c \notin TakenBy(TxsOf[s[h]][m].ins, a)
    <3>1. CASE m = n
      <4>1. m > m
        BY <2>3, <3>1
      <4>2. m \in Nat
        BY LightNodeAssumption DEF IsList, Data, TypeOK
      <4> QED BY <4>1, <4>2
    <3>2. CASE m # n
      <4>1. ~ Concerns(TxsOf[s[h]][m], a)
        BY <2>1, <2>2, <3>2 DEF Simple
      <4> QED BY <4>1 DEF Concerns, TakenBy
    <3> QED BY <3>1, <3>2
  <2>4. SpentAfter(a, h, n, c) <=>
          \E g \in DOMAIN s : \E m \in DOMAIN TxsOf[s[g]] :
            /\ g > h \/ (g = h /\ m > n)
            /\ c \in TakenBy(TxsOf[s[g]][m].ins, a)
    BY DEF SpentAfter, TakenBy
  <2> HIDE DEF s
  <2>5. ASSUME SpentAfter(a, h, n, c) PROVE \E g \in DOMAIN s : h < g /\ c \in TakenIn(s[g], a)
    <3>1. PICK g \in DOMAIN s : \E m \in DOMAIN TxsOf[s[g]] :
            /\ g > h \/ (g = h /\ m > n)
            /\ c \in TakenBy(TxsOf[s[g]][m].ins, a)
      BY <2>4, <2>5
    <3>2. g > h
      BY <2>3, <3>1
    <3>3. h < g
      BY <2>1, <3>2
    <3> QED BY <3>1, <3>3 DEF TakenIn
  <2>6. ASSUME NEW g \in DOMAIN s, h < g, c \in TakenIn(s[g], a) PROVE SpentAfter(a, h, n, c)
    <3>1. g > h
      BY <2>1, <2>6
    <3>2. PICK m \in DOMAIN TxsOf[s[g]] : c \in TakenBy(TxsOf[s[g]][m].ins, a)
      BY <2>6 DEF TakenIn
    <3> QED BY <2>4, <3>1, <3>2
  <2> QED BY <2>5, <2>6
<1>2. ASSUME NEW h \in DOMAIN s, NEW c
      PROVE  c \in Left(s, h, a) <=>
               \E n \in DOMAIN TxsOf[s[h]] : c \in Received(TxsOf[s[h]][n], a) /\ ~ SpentAfter(a, h, n, c)
  <2> HIDE DEF s
  <2> QED BY <1>1 DEF Left, ReceivedIn
<1>3. DOMAIN rows \subseteq DOMAIN s /\ \A h \in DOMAIN s : Left(s, h, a) = IF h \in DOMAIN rows THEN rows[h] ELSE {}
  BY DEF WalletOf, Row
<1>4. ASSUME NEW x
      PROVE  x \in Listed(a) <=> \E h \in DOMAIN rows : \E c \in rows[h] : x = <<h, c>>
  <2>1. Listed(a) = UNION {{<<h, coin>> : coin \in rows[h]} : h \in DOMAIN rows}
    BY DEF Listed
  <2> HIDE DEF rows
  <2> QED BY <2>1
<1>5. ASSUME NEW x
      PROVE  x \in Unspent(a) <=> \E h \in DOMAIN s : \E n \in DOMAIN TxsOf[s[h]] :
               \E c \in Received(TxsOf[s[h]][n], a) : ~ SpentAfter(a, h, n, c) /\ x = <<h, c>>
  <2> DEFINE kept(h, n) == {c \in Received(TxsOf[s[h]][n], a) : ~ SpentAfter(a, h, n, c)}
  <2>1. Unspent(a) = UNION {UNION {{<<h, coin>> : coin \in kept(h, n)} : n \in DOMAIN TxsOf[s[h]]} :
                              h \in DOMAIN s}
    BY Zenon DEF Unspent
  <2>2. ASSUME NEW h, NEW n, NEW c
        PROVE c \in kept(h, n) <=> c \in Received(TxsOf[s[h]][n], a) /\ ~ SpentAfter(a, h, n, c)
    OBVIOUS
  <2> HIDE DEF kept, s
  <2>3. x \in Unspent(a) <=> \E h \in DOMAIN s : \E n \in DOMAIN TxsOf[s[h]] :
                               \E c \in kept(h, n) : x = <<h, c>>
    BY <2>1
  <2> QED BY <2>2, <2>3
<1> HIDE DEF s, rows
<1>6. ASSUME NEW x PROVE x \in Listed(a) <=> x \in Unspent(a)
  <2>1. x \in Listed(a) <=> \E h \in DOMAIN s : \E c \in Left(s, h, a) : x = <<h, c>>
    BY <1>3, <1>4
  <2> QED BY <1>2, <1>5, <2>1
<1> QED BY <1>6

\* Every address whose scans are all known has the wallet of the blocks scanned for it.
Wallets == \A a \in Addresses : trust[a] = "exact" => WalletOf(db.wallets[a], seen[a], a)

\* Where the wallets stay as they are, and so does what is known.
LEMMA WalletsStay ==
  ASSUME Wallets,
         \A a \in Addresses : trust'[a] = "exact" =>
           /\ trust[a] = "exact" /\ db'.wallets[a] = db.wallets[a]
           /\ DOMAIN seen'[a] = DOMAIN seen[a]
           /\ \A h \in DOMAIN seen[a] : seen'[a][h] = seen[a][h]
  PROVE  Wallets'
<1> SUFFICES ASSUME NEW a \in Addresses, trust'[a] = "exact"
             PROVE  WalletOf(db'.wallets[a], seen'[a], a)
  BY DEF Wallets
<1>1. WalletOf(db.wallets[a], seen[a], a)
  BY DEF Wallets
<1>2. WalletOf(db.wallets[a], seen'[a], a)
  BY <1>1, WalletSame
<1> QED BY <1>2

\* A doubt takes the trust away, or what was scanned at the heights popped.
LEMMA DoubtStays ==
  ASSUME Data, Wallets, NEW as, Doubt(as, {}), UNCHANGED db
  PROVE  Wallets'
<1>1. TypeOK
  BY DEF Data
<1>2. /\ trust' \in [Addresses -> {"new", "exact", "unknown"}] /\ DOMAIN seen' = Addresses
      /\ \A a \in Addresses :
           /\ trust'[a] = "new" <=> trust[a] = "new"
           /\ trust'[a] = "exact" <=> trust[a] = "exact" /\ a \notin as
           /\ a \in as => DOMAIN seen'[a] = {}
           /\ a \notin as => seen'[a] = Without(seen[a], {})
           /\ DOMAIN seen'[a] \subseteq DOMAIN seen[a] \ {}
           /\ \A h \in DOMAIN seen'[a] : seen'[a][h] = seen[a][h]
  BY <1>1, DoubtFields
<1>3. \A a \in Addresses : trust'[a] = "exact" =>
        /\ DOMAIN seen'[a] = DOMAIN seen[a]
        /\ \A h \in DOMAIN seen[a] : seen'[a][h] = seen[a][h]
  BY <1>2 DEF Without
<1> QED BY <1>2, <1>3, WalletsStay

\* The scan of a block.
LEMMA AcceptWallets ==
  ASSUME LightNodeAssumption, SimpleBlocks, Control, Data, Wallets, NEW x \in Task, AcceptBlock(x)
  PROVE  Wallets'
<1> SUFFICES ASSUME NEW a \in Addresses, trust'[a] = "exact"
             PROVE  WalletOf(db'.wallets[a], seen'[a], a)
  BY DEF Wallets
<1> DEFINE b == task[x].block
           w == db.wallets[a]
           s == seen[a]
<1>1. b \in Blocks
  BY AcceptControl
<1>2. trust[a] = "exact" /\ db' = ScanBlock(db, height, TxsOf[b])
  BY DEF AcceptBlock
<1>3. WalletOf(w, s, a)
  BY <1>2 DEF Wallets
<1>4. height \in Nat
  BY DEF Data, TypeOK, LightNodeAssumption
<1>5. /\ DOMAIN seen'[a] = DOMAIN s \cup {height} /\ seen'[a][height] = b
      /\ \A g \in DOMAIN s : seen'[a][g] = s[g] /\ g < height
  BY <1>2, AcceptFields
<1>6. \A g \in DOMAIN s : g \in Nat /\ g < height /\ Simple(s[g], a)
  BY <1>5 DEF Data, TypeOK, SimpleBlocks
<1>7. Simple(b, a)
  BY <1>1 DEF SimpleBlocks
<1>8. /\ height \notin DOMAIN w.rows /\ height \notin DOMAIN w.spends
      /\ \A g \in DOMAIN w.rows : OfOne(w.rows[g])
  <2> HIDE DEF w, s
  <2> QED BY <1>3, <1>4, <1>6, WalletFields
<1>9. a \in Unscanned(db, height)
  BY <1>2, <1>8 DEF Unscanned, Data, Tracking
<1>10. db'.wallets[a] = ScanTransactions(w, a, height, TxsOf[b])
  BY <1>2, <1>9, ScanFields DEF Data, TypeOK
<1> HIDE DEF w, s, b
<1>11. ScannedTo(db'.wallets[a], w, height, b, a)
  BY <1>1, <1>7, <1>8, <1>10, BlockScanned
<1> QED BY <1>3, <1>4, <1>5, <1>6, <1>11, ScanKeeps

\* The rollback of a block.
LEMMA PopWallets ==
  ASSUME LightNodeAssumption, Control, Data, Wallets, NEW x \in Syncer \cup {App}, PopBlock(x)
  PROVE  Wallets'
<1> SUFFICES ASSUME NEW a \in Addresses, trust'[a] = "exact"
             PROVE  WalletOf(db'.wallets[a], seen'[a], a)
  BY DEF Wallets
<1> DEFINE h == DecrementHeight(height)
           as == IF height = 0 THEN Addresses ELSE {}
           w == db.wallets[a]
           s == seen[a]
<1>1. Doubt(as, {h}) /\ db' = PopOutputs(RemoveTransactionsAt(db, h), h)
  BY DEF PopBlock
<1>2. height \in 0..UsizeMax /\ UsizeMax \in Nat /\ h = (IF height = 0 THEN UsizeMax ELSE height - 1)
  BY Counts DEF Data, TypeOK, LightNodeAssumption
<1>3. trust[a] = "exact" /\ a \notin as /\ seen'[a] = Without(s, {h})
  BY <1>1, DoubtFields DEF Data
<1>4. db'.wallets[a] = PopRows(w, h)
  BY <1>1, PopFields DEF Data, TypeOK
<1>5. WalletOf(w, s, a)
  BY <1>3 DEF Wallets
<1>6. \A g \in DOMAIN s : g \in Nat /\ g < height
  BY PopControl DEF Data, TypeOK, Below
<1> HIDE DEF h, w, s
<1>7. h \in Nat /\ \A g \in DOMAIN s : g \in Nat /\ g <= h
  BY <1>2, <1>3, <1>6
<1> QED BY <1>3, <1>4, <1>5, <1>7, PopKeeps

\* Every step keeps the wallets.
LEMMA NextWallets ==
  ASSUME SimpleBlocks, Control, Data, Wallets, [Next]_vars
  PROVE  Wallets'
<1> USE LightNodeAssumption
<1>1. CASE Still
  BY <1>1 DEF Still, Wallets
<1>2. CASE Counting
  BY <1>2, DoubtStays DEF Counting, CountedUp
<1>3. CASE \E x \in Task : AcceptBlock(x)
  BY <1>3, AcceptWallets
<1>4. CASE \E x \in Peer : Disconnect(x)
  BY <1>4, DoubtStays DEF Disconnect
<1>5. CASE \E x \in Syncer \cup {App} : PopBlock(x)
  BY <1>5, PopWallets
<1>6. CASE \E a \in Addresses : StopTracking(a)
  <2>1. PICK a \in Addresses : StopTracking(a)
    BY <1>6
  <2>2. /\ seen' = [seen EXCEPT ![a] = <<>>] /\ trust' = [trust EXCEPT ![a] = "unknown"]
        /\ db' = DeleteAddress(db, a)
    BY <2>1 DEF StopTracking
  <2>3. \A o \in Addresses : o # a => db'.wallets[o] = db.wallets[o]
    BY <2>2, DeleteFields DEF Data, TypeOK
  <2>4. \A o \in Addresses : trust'[o] = "exact" => o # a /\ trust[o] = "exact" /\ seen'[o] = seen[o]
    BY <2>2 DEF Data, TypeOK
  <2> QED BY <2>3, <2>4, WalletsStay
<1>7. CASE \E a \in Addresses, h \in RestoreHeights : StartTracking(a, h)
  <2>1. PICK a \in Addresses, h \in RestoreHeights : StartTracking(a, h)
    BY <1>7
  <2> DEFINE same == h = height /\ \A x \in Task : ~ At(x, "scanned")
  <2>2. /\ db' = AddAddress(db, a)
        /\ trust' = [o \in Addresses |->
             IF o = a /\ trust[a] = "new" THEN "exact"
             ELSE IF trust[o] = "exact" /\ ~ same THEN "unknown" ELSE trust[o]]
        /\ seen' = IF same THEN seen ELSE [o \in Addresses |-> <<>>]
    BY <2>1 DEF StartTracking
  <2> HIDE DEF same
  <2>3. db'.wallets = db.wallets
    BY <2>2, AddFields DEF Data, TypeOK
  <2>4. ASSUME NEW o \in Addresses, trust'[o] = "exact"
        PROVE  WalletOf(db'.wallets[o], seen'[o], o)
    <3>1. trust[o] = "new" \/ (trust[o] = "exact" /\ same)
      BY <2>2, <2>4 DEF Data, TypeOK
    <3>2. CASE trust[o] = "exact" /\ same
      BY <2>2, <2>3, <3>2 DEF Wallets
    <3>3. CASE trust[o] = "new"
      <4>1. /\ DOMAIN db.wallets[o].rows = {} /\ DOMAIN db.wallets[o].spends = {}
            /\ DOMAIN seen[o] = {}
        BY <3>3 DEF Data, Tracking
      <4>2. DOMAIN seen'[o] = {}
        <5>1. CASE same
          BY <2>2, <4>1, <5>1
        <5>2. CASE ~ same
          <6>1. seen'[o] = <<>>
            BY <2>2, <5>2
          <6> QED BY <6>1
        <5> QED BY <5>1, <5>2
      <4> QED BY <2>3, <4>1, <4>2, WalletEmpty
    <3> QED BY <3>1, <3>2, <3>3
  <2> QED BY <2>4 DEF Wallets
<1> QED BY <1>1, <1>2, <1>3, <1>4, <1>5, <1>6, <1>7, StepKinds

\* scan_block and pop_block undo each other over any sequence of simple blocks, linked or
\* not and more than once: the rows of an address whose scans are all known hold exactly
\* what it received in the blocks that are not rolled back and did not spend in later ones.
THEOREM WalletIsExact ==
  ASSUME SimpleBlocks PROVE Spec => []WalletExact
<1> DEFINE IInv == Control /\ Data /\ Wallets
<1>1. Init => IInv
  <2> SUFFICES ASSUME Init PROVE IInv
    OBVIOUS
  <2>1. Control /\ Data
    BY InitNode, LightNodeAssumption
  <2>2. \A a \in Addresses : trust[a] = "new"
    BY DEF Init
  <2> QED BY <2>1, <2>2 DEF Wallets
<1>2. IInv /\ [Next]_vars => IInv'
  BY NextData, NextWallets
<1>3. IInv => WalletExact
  BY WalletListed DEF WalletExact, Wallets, SimpleBlocks
<1> QED BY <1>1, <1>2, <1>3, PTL DEF Spec

\* What SimpleBlocks is needed for: pop_block does not bring back the state before
\* scan_block, as its comment says, where a block takes two coins c and d of one row.  The
\* log holds the row as it was before each of them, both are put back in this order, and c
\* is lost.
THEOREM SpendLogForgets ==
  ASSUME NEW a, NEW g, NEW h, g # h, NEW c, NEW d, c # d,
         NEW w, w = [rows |-> [k \in {g} |-> {c, d}], spends |-> <<>>],
         NEW tx, tx.ins = <<[owner |-> a, coin |-> c], [owner |-> a, coin |-> d]>>, tx.outs = <<>>
  PROVE  PopRows(ScanTransaction(w, a, h, tx), h).rows = [k \in {g} |-> {d}]
<1> DEFINE ins == tx.ins
           f1 == SpendCoin(w, h, c)
           f2 == SpendCoin(f1, h, d)
<1>1. Len(ins) = 2 /\ ins[1] = [owner |-> a, coin |-> c] /\ ins[2] = [owner |-> a, coin |-> d]
      /\ DOMAIN ins = 1..2
  OBVIOUS
<1> HIDE DEF ins
<1>2. SpendInputs(w, a, h, ins) = f2
  <2>1. Len(ins) \in Nat
    BY <1>1
  <2>2. PICK f : /\ SpendInputs(w, a, h, ins) = f[Len(ins)]
                 /\ f[0] = w
                 /\ \A n \in 1..Len(ins) : f[n] = NextSpent(f[n - 1], n, a, h, ins)
    BY <2>1, SpendInputsSteps
  <2>3. f[1] = NextSpent(w, 1, a, h, ins) /\ f[2] = NextSpent(f[1], 2, a, h, ins)
    BY <1>1, <2>2
  <2>4. f[1] = f1
    BY <1>1, <2>3 DEF NextSpent
  <2>5. f[2] = f2
    BY <1>1, <2>3, <2>4 DEF NextSpent
  <2> QED BY <1>1, <2>2, <2>5
<1>3. f1.rows = [k \in {g} |-> {d}] /\ f1.spends = [k \in {h} |-> [i \in {g} |-> {c, d}]]
  <2> DEFINE hit == {k \in DOMAIN w.rows : c \in w.rows[k]}
             left == [k \in DOMAIN w.rows |-> w.rows[k] \ {c}]
             old == [k \in hit |-> w.rows[k]]
  <2>1. hit = {g} /\ left = [k \in {g} |-> {d}] /\ old = [k \in {g} |-> {c, d}]
    OBVIOUS
  <2>2. f1 = [rows |-> Without(left, {k \in hit : left[k] = {}}), spends |-> AppendSpendLog(w, h, old)]
    BY <2>1, Zenon DEF SpendCoin
  <2> HIDE DEF hit, left, old
  <2>3. {k \in hit : left[k] = {}} = {}
    BY <2>1
  <2>4. Without(left, {}) = [k \in {g} |-> {d}]
    BY <2>1 DEF Without
  <2>5. LogOf(w, h) = <<>> /\ DOMAIN w.spends = {}
    BY DEF LogOf
  <2>6. DOMAIN <<>> = {}
    OBVIOUS
  <2>7. Over(LogOf(w, h), old) = [k \in {g} |-> {c, d}]
    <3>1. Over(LogOf(w, h), old) = [k \in {g} |-> IF k \in {g} THEN old[k] ELSE LogOf(w, h)[k]]
      BY <2>1, <2>5, <2>6 DEF Over
    <3> QED BY <2>1, <3>1
  <2>8. AppendSpendLog(w, h, old) = [k \in {h} |-> [i \in {g} |-> {c, d}]]
    BY <2>5, <2>7 DEF AppendSpendLog, With, Over
  <2>9. f1.rows = Without(left, {k \in hit : left[k] = {}}) /\ f1.spends = AppendSpendLog(w, h, old)
    BY <2>2
  <2> HIDE DEF f1
  <2> QED BY <2>3, <2>4, <2>8, <2>9
<1> HIDE DEF f1
<1>4. DOMAIN f2.rows = {} /\ f2.spends = [k \in {h} |-> [i \in {g} |-> {d}]]
  <2> DEFINE hit == {k \in DOMAIN f1.rows : d \in f1.rows[k]}
             left == [k \in DOMAIN f1.rows |-> f1.rows[k] \ {d}]
             old == [k \in hit |-> f1.rows[k]]
  <2>1. hit = {g} /\ left = [k \in {g} |-> {}] /\ old = [k \in {g} |-> {d}]
    BY <1>3
  <2>2. f2 = [rows |-> Without(left, {k \in hit : left[k] = {}}), spends |-> AppendSpendLog(f1, h, old)]
    BY <2>1, Zenon DEF SpendCoin
  <2> HIDE DEF hit, left, old
  <2>3. {k \in hit : left[k] = {}} = {g}
    BY <2>1
  <2>4. DOMAIN Without(left, {g}) = {}
    BY <2>1 DEF Without
  <2>5. LogOf(f1, h) = [i \in {g} |-> {c, d}]
    BY <1>3 DEF LogOf
  <2>6. Over(LogOf(f1, h), old) = [i \in {g} |-> {d}]
    BY <2>1, <2>5 DEF Over
  <2>7. AppendSpendLog(f1, h, old) = [k \in {h} |-> [i \in {g} |-> {d}]]
    BY <1>3, <2>6 DEF AppendSpendLog, With, Over
  <2>8. f2.rows = Without(left, {k \in hit : left[k] = {}}) /\ f2.spends = AppendSpendLog(f1, h, old)
    BY <2>2
  <2> HIDE DEF f2
  <2> QED BY <2>3, <2>4, <2>7, <2>8
<1> HIDE DEF f2
<1> DEFINE e == ScanTransaction(w, a, h, tx)
<1>5. e = [rows |-> With(f2.rows, h, Received(tx, a)), spends |-> f2.spends]
  <2>1. Concerns(tx, a)
    BY <1>1 DEF Concerns, ins
  <2> QED BY <1>2, <2>1, Zenon DEF ScanTransaction, ins
<1>6. e.rows = [k \in {h} |-> Received(tx, a)] /\ e.spends = [k \in {h} |-> [i \in {g} |-> {d}]]
  <2>1. e.rows = With(f2.rows, h, Received(tx, a)) /\ e.spends = f2.spends
    BY <1>5
  <2> HIDE DEF e
  <2>2. With(f2.rows, h, Received(tx, a)) = [k \in {h} |-> Received(tx, a)]
    BY <1>4 DEF With, Over
  <2> QED BY <1>4, <2>1, <2>2
<1> HIDE DEF e
<1>7. LogOf(e, h) = [i \in {g} |-> {d}]
  BY <1>6 DEF LogOf
<1>8. Over(e.rows, LogOf(e, h)) = [k \in {g, h} |-> IF k = g THEN {d} ELSE Received(tx, a)]
  BY <1>6, <1>7 DEF Over
<1>9. Without(Over(e.rows, LogOf(e, h)), {h}) = [k \in {g} |-> {d}]
  <2>1. {g, h} \ {h} = {g}
    OBVIOUS
  <2> QED BY <1>8, <2>1 DEF Without
<1> QED BY <1>9 DEF PopRows, e
=============================================================================
