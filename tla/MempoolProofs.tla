---------------------------- MODULE MempoolProofs ----------------------------
(***************************************************************************)
(* Proofs about Mempool, for every number of callers, every set of         *)
(* transactions and all sizes: how far callers that are between a check    *)
(* and the insertion can push the pool over its limits.                    *)
(***************************************************************************)
EXTENDS Mempool, SequenceTheorems, FiniteSetTheorems, TLAPS

Busy == {"read", "send", "live", "utxo", "pool", "add"}

\* What is remembered as seen: never too much, and nothing twice.
Remembered(s) == s \in Seq(Tx) /\ Len(s) <= RingSize /\ IsInjective(s)

CallType == [pc : {"idle"} \cup Busy, tx : Tx \cup {NoTx}, seen : Seq(Tx)]

TypeOK ==
  /\ task \in [Task -> CallType]
  /\ \A x \in Task : task[x].pc # "idle" => task[x].tx \in Tx
  /\ \A x \in Task : Remembered(task[x].seen)
  /\ Remembered(ring)
  /\ IsFiniteSet(DOMAIN pending) /\ DOMAIN pending \subseteq Nat
  /\ \A i \in DOMAIN pending : pending[i] \in [tx : Tx, left : Nat]

\* Callers that have found a place in the pool and are on their way to it.
Coming == {x \in Task : task[x].pc \in {"utxo", "pool", "add"}}

\* Entries that claim a coin, and callers that are about to add one that does.
Claims(c) == {i \in DOMAIN pending : c \in Inputs[pending[i].tx]}
Claiming(c) == {x \in Task : task[x].pc = "add" /\ c \in Inputs[task[x].tx]}

Room == Size + Cardinality(Coming) <= PoolLimit + Cardinality(Task) - 1
ClaimRoom ==
  \A t \in Tx : \A c \in Inputs[t] :
    Cardinality(Claims(c)) + Cardinality(Claiming(c)) <= Cardinality(Task)

PoolInv == TypeOK /\ Room /\ ClaimRoom

-----------------------------------------------------------------------------
(* Finite sets.                                                            *)

\* All sets that are counted here are finite.
LEMMA Counts ==
  ASSUME TypeOK
  PROVE  /\ IsFiniteSet(Task) /\ Cardinality(Task) \in Nat
         /\ Size \in Nat
         /\ IsFiniteSet(Coming) /\ Cardinality(Coming) \in Nat
         /\ Cardinality(Coming) <= Cardinality(Task)
         /\ \A c : /\ IsFiniteSet(Claims(c)) /\ Cardinality(Claims(c)) \in Nat
                   /\ IsFiniteSet(Claiming(c)) /\ Cardinality(Claiming(c)) \in Nat
                   /\ Cardinality(Claiming(c)) <= Cardinality(Task)
<1>1. IsFiniteSet(Task) /\ IsFiniteSet(DOMAIN pending)
  BY MempoolAssumption DEF TypeOK
<1>2. ASSUME NEW S, IsFiniteSet(S), NEW T, T \subseteq S
      PROVE  IsFiniteSet(T) /\ Cardinality(T) \in Nat /\ Cardinality(T) <= Cardinality(S)
  BY <1>2, FS_Subset, FS_CardinalityType
<1>3. Coming \subseteq Task /\ \A c : Claiming(c) \subseteq Task /\ Claims(c) \subseteq DOMAIN pending
  BY DEF Coming, Claiming, Claims
<1> QED BY <1>1, <1>2, <1>3 DEF Size

\* There is a free slot.
LEMMA FreeSlotIsFree ==
  ASSUME TypeOK
  PROVE  FreeSlot \in Nat /\ FreeSlot \notin DOMAIN pending
<1>1. Size \in Nat
  BY Counts
<1>2. ~(1..(Size + 1) \subseteq DOMAIN pending)
  <2>1. Cardinality(1..(Size + 1)) = Size + 1
    BY <1>1, FS_Interval
  <2> QED BY <1>1, <2>1, FS_Subset DEF TypeOK, Size
<1>3. \E i \in 1..(Size + 1) : i \notin DOMAIN pending
  BY <1>2
<1>4. FreeSlot \in 1..(Size + 1) /\ FreeSlot \notin DOMAIN pending
  BY <1>3 DEF FreeSlot
<1> QED BY <1>1, <1>4

\* A pool that has lost entries.
Shrunk ==
  /\ DOMAIN pending' \subseteq DOMAIN pending
  /\ \A i \in DOMAIN pending' :
       pending'[i].tx = pending[i].tx /\ pending'[i] \in [tx : Tx, left : Nat]

\* The steps that only take from the pool keep everything.
LEMMA ShrinkStep ==
  ASSUME PoolInv, Shrunk, UNCHANGED <<task, ring>>
  PROVE  PoolInv'
<1> USE DEF PoolInv
<1>1. TypeOK'
  <2>1. IsFiniteSet(DOMAIN pending')
    BY FS_Subset DEF TypeOK, Shrunk
  <2> QED BY <2>1 DEF TypeOK, Shrunk
<1>2. Size' <= Size /\ Size' \in Nat
  BY <1>1, FS_Subset, FS_CardinalityType DEF TypeOK, Shrunk, Size
<1>3. Room'
  BY <1>2, Counts, MempoolAssumption DEF Room, Coming
<1>4. ClaimRoom'
  <2>1. ASSUME NEW t \in Tx, NEW c \in Inputs[t]
        PROVE  Cardinality(Claims(c)') + Cardinality(Claiming(c)') <= Cardinality(Task)
    <3>1. Claims(c)' \subseteq Claims(c)
      BY DEF Claims, Shrunk
    <3>2. Cardinality(Claims(c)') <= Cardinality(Claims(c)) /\ Cardinality(Claims(c)') \in Nat
      BY <3>1, Counts, FS_Subset, FS_CardinalityType
    <3>3. Claiming(c)' = Claiming(c)
      BY DEF Claiming
    <3> QED BY <2>1, <3>2, <3>3, Counts DEF ClaimRoom
  <2> QED BY <2>1 DEF ClaimRoom
<1> QED BY <1>1, <1>3, <1>4

-----------------------------------------------------------------------------
(* The ring.                                                               *)

\* add_last_seen_transaction keeps the ring short and without repetitions.
LEMMA PushedRemembered ==
  ASSUME NEW s, Remembered(s), NEW t \in Tx
  PROVE  Remembered(Pushed(s, t))
<1> DEFINE longer == Append(s, t)
<1>1. CASE Contains(s, t)
  BY <1>1 DEF Pushed
<1>2. CASE ~Contains(s, t)
  <2>1. /\ longer \in Seq(Tx) /\ Len(longer) = Len(s) + 1 /\ Len(s) \in Nat
        /\ \A i \in 1..Len(s) : longer[i] = s[i]
        /\ longer[Len(s) + 1] = t /\ longer # <<>>
        /\ DOMAIN longer = 1..(Len(s) + 1) /\ DOMAIN s = 1..Len(s)
    BY AppendProperties, LenProperties DEF Remembered
  <2>2. \A i \in 1..Len(s) : s[i] # t
    BY <1>2 DEF Contains
  <2> HIDE DEF longer
  <2>3. IsInjective(longer)
    <3>1. ASSUME NEW a \in DOMAIN longer, NEW b \in DOMAIN longer, longer[a] = longer[b]
          PROVE  a = b
      <4>1. CASE a \in 1..Len(s) /\ b \in 1..Len(s)
        BY <2>1, <3>1, <4>1 DEF IsInjective, Remembered
      <4>2. CASE a = Len(s) + 1 \/ b = Len(s) + 1
        BY <2>1, <2>2, <3>1, <4>2
      <4> QED BY <2>1, <4>1, <4>2
    <3> QED BY <3>1 DEF IsInjective
  <2>4. CASE Len(longer) > RingSize
    <3>1. /\ Tail(longer) \in Seq(Tx) /\ Len(Tail(longer)) = Len(s)
          /\ \A i \in 1..Len(s) : Tail(longer)[i] = longer[i + 1]
          /\ DOMAIN Tail(longer) = 1..Len(s)
      BY <2>1, HeadTailProperties, LenProperties
    <3>2. IsInjective(Tail(longer))
      <4>1. ASSUME NEW a \in 1..Len(s), NEW b \in 1..Len(s), longer[a + 1] = longer[b + 1]
            PROVE  a = b
        BY <2>1, <2>3, <4>1 DEF IsInjective
      <4> QED BY <3>1, <4>1 DEF IsInjective
    <3> QED BY <1>2, <2>4, <3>1, <3>2 DEF Pushed, Remembered, longer
  <2>5. CASE ~(Len(longer) > RingSize)
    BY <1>2, <2>1, <2>3, <2>5, MempoolAssumption DEF Pushed, Remembered, longer
  <2> QED BY <2>4, <2>5
<1> QED BY <1>1, <1>2

-----------------------------------------------------------------------------
(* The pool, step by step.                                                 *)

\* A call moves on without a claim on the pool, or ends.
LEMMA CallMoves ==
  ASSUME PoolInv, NEW x \in Task, NEW k \in CallType,
         k.pc # "idle" => k.tx \in Tx,
         Remembered(k.seen),
         k.pc \in {"utxo", "pool", "add"} =>
           k.tx = task[x].tx /\ task[x].pc \in {"utxo", "pool", "add"},
         k.pc = "add" => task[x].pc = "add",
         task' = [task EXCEPT ![x] = k], UNCHANGED <<ring, pending>>
  PROVE  PoolInv'
<1> USE DEF PoolInv
<1>1. TypeOK'
  BY DEF TypeOK
<1>2. Coming' \subseteq Coming
  BY DEF Coming, TypeOK
<1>3. Cardinality(Coming') <= Cardinality(Coming) /\ Cardinality(Coming') \in Nat
  BY <1>2, Counts, FS_Subset, FS_CardinalityType
<1>4. Room'
  BY <1>3, Counts, MempoolAssumption DEF Room, Size
<1>5. ASSUME NEW t \in Tx, NEW c \in Inputs[t]
      PROVE  Cardinality(Claims(c)') + Cardinality(Claiming(c)') <= Cardinality(Task)
  <2>1. Claiming(c)' \subseteq Claiming(c)
    BY DEF Claiming, TypeOK
  <2>2. Cardinality(Claiming(c)') <= Cardinality(Claiming(c))
        /\ Cardinality(Claiming(c)') \in Nat
    BY <2>1, Counts, FS_Subset, FS_CardinalityType
  <2>3. Claims(c)' = Claims(c)
    BY DEF Claims
  <2> QED BY <1>5, <2>2, <2>3, Counts DEF ClaimRoom
<1>6. ClaimRoom'
  BY <1>5 DEF ClaimRoom
<1> QED BY <1>1, <1>4, <1>6

\* The fields of a call that a check lets through.
LEMMA CallFields ==
  ASSUME TypeOK, NEW x \in Task, NEW p \in Busy,
         NEW k, k = [task[x] EXCEPT !.pc = p]
  PROVE  k \in CallType /\ k.pc = p /\ k.tx = task[x].tx /\ k.seen = task[x].seen
BY DEF TypeOK, CallType

\* A call that is over.
LEMMA IdleIsCall == Idle \in CallType /\ Remembered(Idle.seen) /\ Idle.pc = "idle"
BY EmptySeq, MempoolAssumption DEF Idle, CallType, Remembered, IsInjective

\* The steps of a call before the pool is looked at.
LEMMA EarlyStep ==
  ASSUME PoolInv, NEW x \in Task,
         (\E t \in Tx : Submit(x, t)) \/ ReadRing(x) \/ SendRing(x)
  PROVE  PoolInv'
<1> USE DEF PoolInv
<1>1. CASE \E t \in Tx : Submit(x, t)
  <2>1. PICK t \in Tx : task' = [task EXCEPT ![x] = [pc |-> "read", tx |-> t, seen |-> <<>>]]
                        /\ UNCHANGED <<ring, pending>>
    BY <1>1 DEF Submit
  <2> DEFINE k == [pc |-> "read", tx |-> t, seen |-> <<>>]
  <2>2. /\ k \in CallType /\ k.pc = "read" /\ k.tx \in Tx /\ Remembered(k.seen)
    BY IdleIsCall DEF Idle, CallType, Busy
  <2> HIDE DEF k
  <2> QED BY <2>1, <2>2, CallMoves DEF k
<1>2. CASE ReadRing(x)
  <2> DEFINE k == [task[x] EXCEPT !.pc = "send", !.seen = ring]
  <2>1. task' = [task EXCEPT ![x] = k] /\ UNCHANGED <<ring, pending>> /\ task[x].pc = "read"
    BY <1>2 DEF ReadRing, TypeOK
  <2>2. /\ k \in CallType /\ k.pc = "send" /\ k.tx \in Tx /\ Remembered(k.seen)
    BY <2>1 DEF TypeOK, CallType, Busy, Remembered
  <2> HIDE DEF k
  <2> QED BY <2>1, <2>2, CallMoves
<1>3. CASE SendRing(x)
  <2> DEFINE k == [task[x] EXCEPT !.pc = "live", !.seen = <<>>]
  <2>1. task' = [task EXCEPT ![x] = k] /\ UNCHANGED pending /\ task[x].pc = "send"
        /\ ring' = IF Contains(task[x].seen, task[x].tx)
                   THEN ring ELSE Pushed(task[x].seen, task[x].tx)
    BY <1>3 DEF SendRing, TypeOK
  <2>2. /\ k \in CallType /\ k.pc = "live" /\ k.tx \in Tx /\ Remembered(k.seen)
    BY <2>1, IdleIsCall DEF TypeOK, CallType, Busy, Idle
  <2>3. Remembered(ring')
    BY <2>1, PushedRemembered DEF TypeOK
  <2> HIDE DEF k
  <2>4. TypeOK'
    BY <2>1, <2>2, <2>3 DEF TypeOK
  <2>5. Coming' = Coming /\ \A c : Claiming(c)' = Claiming(c) /\ Claims(c)' = Claims(c)
    BY <2>1, <2>2 DEF Coming, Claiming, Claims, TypeOK
  <2>6. Room' /\ ClaimRoom'
    BY <2>1, <2>5 DEF Room, ClaimRoom, Size
  <2> QED BY <2>4, <2>6
<1> QED BY <1>1, <1>2, <1>3

\* With a full pool the target is zero: a check that lets a call through has found
\* room.
LEMMA PressureHolds ==
  ASSUME NEW n \in Nat, NEW t \in Tx, Pow[t] <= LiveTarget(n)
  PROVE  n <= PoolLimit - 1
<1> SUFFICES ASSUME n >= PoolLimit PROVE FALSE
  BY MempoolAssumption
<1>1. LiveTarget(n) = (TxTarget * ((1000000 * 0) \div PoolLimit)) \div 1000000
  BY MempoolAssumption DEF LiveTarget
<1>2. 1000000 * 0 = 0 /\ 0 \div PoolLimit = 0 /\ TxTarget * 0 = 0 /\ 0 \div 1000000 = 0
  BY MempoolAssumption
<1>3. LiveTarget(n) = 0
  BY <1>1, <1>2
<1>4. Pow[t] \in Nat \ {0}
  BY MempoolAssumption
<1> QED BY <1>3, <1>4

\* A check that fails, or one behind the first.
LEMMA CheckStep ==
  ASSUME PoolInv, NEW x \in Task, CheckUtxos(x)
  PROVE  PoolInv'
<1> USE DEF PoolInv
<1> DEFINE k == task'[x]
<1>1. /\ task[x].pc = "utxo" /\ UNCHANGED <<ring, pending>>
      /\ \/ task' = [task EXCEPT ![x] = [task[x] EXCEPT !.pc = "pool"]]
         \/ task' = [task EXCEPT ![x] = Idle]
  BY DEF CheckUtxos, Check, TypeOK
<1>2. CASE task' = [task EXCEPT ![x] = [task[x] EXCEPT !.pc = "pool"]]
  <2>1. k = [task[x] EXCEPT !.pc = "pool"]
    BY <1>2 DEF TypeOK
  <2>2. k \in CallType /\ k.pc = "pool" /\ k.tx = task[x].tx /\ k.seen = task[x].seen
    BY <2>1, CallFields DEF Busy
  <2>3. k.tx \in Tx /\ Remembered(k.seen) /\ task' = [task EXCEPT ![x] = k]
    BY <1>1, <1>2, <2>1, <2>2 DEF TypeOK
  <2> HIDE DEF k
  <2> QED BY <1>1, <2>2, <2>3, CallMoves
<1>3. CASE task' = [task EXCEPT ![x] = Idle]
  BY <1>1, <1>3, IdleIsCall, CallMoves
<1> QED BY <1>1, <1>2, <1>3

\* The first check: a call that passes is counted with the pool from here on.
LEMMA LiveStep ==
  ASSUME PoolInv, NEW x \in Task, CheckLive(x)
  PROVE  PoolInv'
<1> USE DEF PoolInv
<1>1. /\ task[x].pc = "live" /\ UNCHANGED <<ring, pending>>
      /\ \/ /\ Pow[task[x].tx] <= LiveTarget(Size)
            /\ task' = [task EXCEPT ![x] = [task[x] EXCEPT !.pc = "utxo"]]
         \/ task' = [task EXCEPT ![x] = Idle]
  BY DEF CheckLive, Check, TypeOK
<1>2. CASE /\ Pow[task[x].tx] <= LiveTarget(Size)
           /\ task' = [task EXCEPT ![x] = [task[x] EXCEPT !.pc = "utxo"]]
  <2> DEFINE k == [task[x] EXCEPT !.pc = "utxo"]
  <2>1. k \in CallType /\ k.pc = "utxo" /\ k.tx = task[x].tx /\ k.seen = task[x].seen
    BY CallFields DEF Busy
  <2>2. TypeOK'
    BY <1>1, <1>2, <2>1 DEF TypeOK
  <2>3. Size <= PoolLimit - 1
    BY <1>1, <1>2, Counts, PressureHolds DEF TypeOK
  <2>4. Cardinality(Coming') <= Cardinality(Task) /\ Cardinality(Coming') \in Nat
    BY <2>2, Counts, FS_Subset, FS_CardinalityType DEF Coming
  <2>5. Room'
    BY <1>1, <2>3, <2>4, Counts, MempoolAssumption DEF Room, Size
  <2>6. \A c : Claiming(c)' = Claiming(c) /\ Claims(c)' = Claims(c)
    BY <1>1, <1>2, <2>1 DEF Claiming, Claims, TypeOK
  <2>7. ClaimRoom'
    BY <2>6 DEF ClaimRoom
  <2> QED BY <2>2, <2>5, <2>7
<1>3. CASE task' = [task EXCEPT ![x] = Idle]
  BY <1>1, <1>3, IdleIsCall, CallMoves
<1> QED BY <1>1, <1>2, <1>3

\* The last check: no entry claims what the transaction spends, or the call ends.
LEMMA PoolStep ==
  ASSUME PoolInv, NEW x \in Task, CheckPool(x)
  PROVE  PoolInv'
<1> USE DEF PoolInv
<1>1. /\ task[x].pc = "pool" /\ UNCHANGED <<ring, pending>>
      /\ \/ /\ PoolAllows(task[x].tx)
            /\ task' = [task EXCEPT ![x] = [task[x] EXCEPT !.pc = "add"]]
         \/ task' = [task EXCEPT ![x] = Idle]
  BY DEF CheckPool, Check, TypeOK
<1>2. CASE /\ PoolAllows(task[x].tx)
           /\ task' = [task EXCEPT ![x] = [task[x] EXCEPT !.pc = "add"]]
  <2> DEFINE k == [task[x] EXCEPT !.pc = "add"]
  <2>1. k \in CallType /\ k.pc = "add" /\ k.tx = task[x].tx /\ k.seen = task[x].seen
    BY CallFields DEF Busy
  <2>2. TypeOK'
    BY <1>1, <1>2, <2>1 DEF TypeOK
  <2>3. Coming' = Coming
    BY <1>1, <1>2, <2>1 DEF Coming, TypeOK
  <2>4. ASSUME NEW t \in Tx, NEW c \in Inputs[t]
        PROVE  Cardinality(Claims(c)') + Cardinality(Claiming(c)') <= Cardinality(Task)
    <3>1. Claims(c)' = Claims(c) /\ Claiming(c)' \subseteq Task
      BY <1>1 DEF Claims, Claiming
    <3>2. CASE c \in Inputs[task[x].tx]
      <4>1. Claims(c) = {}
        <5>1. ASSUME NEW i \in Claims(c) PROVE FALSE
          BY <1>2, <3>2 DEF Claims, PoolAllows, Conflict, Pooled
        <5> QED BY <5>1
      <4>2. Cardinality(Claiming(c)') <= Cardinality(Task) /\ Cardinality(Claiming(c)') \in Nat
        BY <3>1, Counts, FS_Subset, FS_CardinalityType
      <4>3. Cardinality(Claims(c)') = 0
        BY <3>1, <4>1, FS_EmptySet
      <4> QED BY <4>2, <4>3, Counts
    <3>3. CASE c \notin Inputs[task[x].tx]
      <4>1. Claiming(c)' = Claiming(c)
        BY <1>1, <1>2, <2>1, <3>3 DEF Claiming, TypeOK
      <4> QED BY <2>4, <3>1, <4>1 DEF ClaimRoom
    <3> QED BY <3>2, <3>3
  <2>5. ClaimRoom'
    BY <2>4 DEF ClaimRoom
  <2>6. Room'
    BY <1>1, <2>3 DEF Room, Size
  <2> QED BY <2>2, <2>5, <2>6
<1>3. CASE task' = [task EXCEPT ![x] = Idle]
  BY <1>1, <1>3, IdleIsCall, CallMoves
<1> QED BY <1>1, <1>2, <1>3

\* The entry takes the place of the call that was coming.
LEMMA AddStep ==
  ASSUME PoolInv, NEW x \in Task, AddTransaction(x)
  PROVE  PoolInv'
<1> USE DEF PoolInv
<1> DEFINE s == FreeSlot
           entry == [tx |-> task[x].tx, left |-> Lifetime]
<1>1. /\ task[x].pc = "add" /\ task' = [task EXCEPT ![x] = Idle] /\ UNCHANGED ring
      /\ pending' = [i \in DOMAIN pending \cup {s} |-> IF i = s THEN entry ELSE pending[i]]
  BY DEF AddTransaction
<1>2. s \in Nat /\ s \notin DOMAIN pending /\ entry.tx = task[x].tx /\ task[x].tx \in Tx
      /\ entry \in [tx : Tx, left : Nat]
  BY <1>1, FreeSlotIsFree, MempoolAssumption DEF TypeOK
<1> HIDE DEF s, entry
<1>3. /\ DOMAIN pending' = DOMAIN pending \cup {s} /\ pending'[s] = entry
      /\ \A i \in DOMAIN pending : pending'[i] = pending[i]
  BY <1>1, <1>2
<1>4. IsFiniteSet(DOMAIN pending') /\ Size' = Size + 1
  BY <1>2, <1>3, FS_AddElement DEF TypeOK, Size
<1>5. TypeOK'
  <2>1. \A i \in DOMAIN pending' : pending'[i] \in [tx : Tx, left : Nat]
    BY <1>2, <1>3 DEF TypeOK
  <2>2. /\ task' \in [Task -> CallType]
        /\ \A y \in Task : task'[y].pc # "idle" => task'[y].tx \in Tx
        /\ \A y \in Task : Remembered(task'[y].seen)
    BY <1>1, IdleIsCall DEF TypeOK
  <2> QED BY <1>1, <1>2, <1>3, <1>4, <2>1, <2>2 DEF TypeOK, Remembered
<1>6. x \in Coming /\ Coming' = Coming \ {x}
  BY <1>1, IdleIsCall DEF Coming, TypeOK
<1>7. Cardinality(Coming') = Cardinality(Coming) - 1
  BY <1>6, Counts, FS_RemoveElement
<1>8. Room'
  BY <1>4, <1>7, Counts, MempoolAssumption DEF Room
<1>9. ASSUME NEW t \in Tx, NEW c \in Inputs[t]
      PROVE  Cardinality(Claims(c)') + Cardinality(Claiming(c)') <= Cardinality(Task)
  <2>1. CASE c \in Inputs[task[x].tx]
    <3>1. Claims(c)' = Claims(c) \cup {s} /\ s \notin Claims(c)
      BY <1>2, <1>3, <2>1 DEF Claims
    <3>2. Claiming(c)' = Claiming(c) \ {x} /\ x \in Claiming(c)
      BY <1>1, <2>1, IdleIsCall DEF Claiming, TypeOK
    <3>3. Cardinality(Claims(c)') = Cardinality(Claims(c)) + 1
      BY <3>1, Counts, FS_AddElement
    <3>4. Cardinality(Claiming(c)') = Cardinality(Claiming(c)) - 1
      BY <3>2, Counts, FS_RemoveElement
    <3> QED BY <1>9, <3>3, <3>4, Counts DEF ClaimRoom
  <2>2. CASE c \notin Inputs[task[x].tx]
    <3>1. Claims(c)' = Claims(c)
      BY <1>2, <1>3, <2>2 DEF Claims
    <3>2. Claiming(c)' = Claiming(c)
      BY <1>1, <2>2, IdleIsCall DEF Claiming, TypeOK
    <3> QED BY <1>9, <3>1, <3>2 DEF ClaimRoom
  <2> QED BY <2>1, <2>2
<1>10. ClaimRoom'
  BY <1>9 DEF ClaimRoom
<1> QED BY <1>5, <1>8, <1>10

-----------------------------------------------------------------------------
\* Every step keeps the room.
LEMMA PoolInvKept == PoolInv /\ [Next]_vars => PoolInv'
<1> SUFFICES ASSUME PoolInv, [Next]_vars PROVE PoolInv'
  OBVIOUS
<1>1. ASSUME NEW x \in Task, AcceptStep(x) \/ \E t \in Tx : Submit(x, t)
      PROVE  PoolInv'
  BY <1>1, EarlyStep, CheckStep, LiveStep, PoolStep, AddStep DEF AcceptStep
<1>2. CASE SpendTransactions \/ ClearPool \/ Tick \/ Watchdog
  <2>1. UNCHANGED <<task, ring>>
    BY <1>2 DEF SpendTransactions, ClearPool, Tick, Watchdog
  <2>2. Shrunk
    <3>1. CASE SpendTransactions
      BY <3>1 DEF SpendTransactions, PoolInv, TypeOK, Shrunk, RestrictValues, Restrict
    <3>2. CASE ClearPool
      BY <3>2 DEF ClearPool, Shrunk
    <3>3. CASE Tick
      <4>1. pending' = [i \in DOMAIN pending |->
                          [pending[i] EXCEPT !.left = IF pending[i].left > 0
                                                      THEN pending[i].left - 1 ELSE 0]]
        BY <3>3 DEF Tick
      <4>2. ASSUME NEW i \in DOMAIN pending
            PROVE  pending'[i].tx = pending[i].tx /\ pending'[i] \in [tx : Tx, left : Nat]
        BY <4>1 DEF PoolInv, TypeOK
      <4> QED BY <4>1, <4>2 DEF Shrunk
    <3>4. CASE Watchdog
      BY <3>4 DEF Watchdog, PoolInv, TypeOK, Shrunk, RestrictValues, Restrict
    <3> QED BY <1>2, <3>1, <3>2, <3>3, <3>4
  <2> QED BY <2>1, <2>2, ShrinkStep
<1>3. CASE \/ \E txs \in Blocks : AcceptBlock(txs) \/ SyncAdd(txs)
           \/ SyncLock \/ SyncPop \/ SyncEnd \/ UNCHANGED vars
  <2>1. UNCHANGED <<task, ring, pending>>
    BY <1>3 DEF AcceptBlock, SyncAdd, SyncLock, SyncPop, SyncEnd, vars
  <2> QED BY <2>1, ShrinkStep DEF Shrunk, PoolInv, TypeOK
<1> QED BY <1>1, <1>2, <1>3 DEF Next

\* The pool and those who are on their way to it fit into the room there is.
THEOREM PoolInductive == Spec => []PoolInv
<1>1. Init => PoolInv
  <2> SUFFICES ASSUME Init PROVE PoolInv
    OBVIOUS
  <2>1. task = [x \in Task |-> Idle] /\ ring = <<>> /\ DOMAIN pending = {}
    BY DEF Init
  <2>2. Remembered(<<>>)
    BY IdleIsCall DEF Idle
  <2>3. TypeOK
    BY <2>1, <2>2, IdleIsCall, FS_EmptySet DEF TypeOK
  <2>4. Size = 0 /\ Cardinality(Coming) = 0 /\ \A c : Cardinality(Claims(c)) = 0
        /\ Cardinality(Claiming(c)) = 0
    <3>1. Coming = {} /\ \A c : Claims(c) = {} /\ Claiming(c) = {}
      BY <2>1, IdleIsCall DEF Coming, Claims, Claiming
    <3> QED BY <2>1, <3>1, FS_EmptySet DEF Size
  <2>5. Room /\ ClaimRoom
    BY <2>3, <2>4, Counts, MempoolAssumption DEF Room, ClaimRoom
  <2> QED BY <2>3, <2>5 DEF PoolInv
<1>2. PoolInv /\ [Next]_vars => PoolInv'
  BY PoolInvKept
<1> QED BY <1>1, <1>2, PTL DEF Spec

\* With n callers at once the pool never holds more than a full block and n - 1
\* entries, and the ring of seen transactions keeps its size without a repetition.
THEOREM PoolIsBounded == Spec => []PoolBounded
<1>1. PoolInv => PoolBounded
  <2> SUFFICES ASSUME PoolInv PROVE PoolBounded
    OBVIOUS
  <2>1. Size <= PoolLimit + Cardinality(Task) - 1
    BY Counts, MempoolAssumption DEF PoolInv, Room
  <2> QED BY <2>1 DEF PoolInv, PoolBounded, TypeOK, Remembered
<1> QED BY <1>1, PoolInductive, PTL

\* No coin is ever claimed by more entries of the pool than there are callers.
THEOREM ClaimsAreBounded == Spec => []ClaimsBounded
<1>1. PoolInv => ClaimsBounded
  <2> SUFFICES ASSUME PoolInv PROVE ClaimsBounded
    OBVIOUS
  <2>1. ASSUME NEW t \in Tx, NEW c \in Inputs[t]
        PROVE  Cardinality(Claims(c)) <= Cardinality(Task)
    BY <2>1, Counts DEF PoolInv, ClaimRoom
  <2> QED BY <2>1 DEF ClaimsBounded, Claims
<1> QED BY <1>1, PoolInductive, PTL
=============================================================================
