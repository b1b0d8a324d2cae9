-------------------------- MODULE DurabilityProofs --------------------------
(***************************************************************************)
(* Proofs about Durability, for every number of transactions, any height   *)
(* and any sequence of crashes, restarts and pops that fail: what can be   *)
(* read of the chain that a node believes to have, and what its outputs    *)
(* are.                                                                    *)
(***************************************************************************)
EXTENDS Durability, SequenceTheorems, TLAPS

Chains == Seq(Label)

Adding == {"spend", "create", "block", "diff", "index", "added"}
PopSteps == {"restore", "remove", "unblock", "undiff", "unindex", "popped"}
Saving == {"delete", "truncate", "write"}

OpType(o) ==
  /\ o = [pc |-> o.pc, k |-> o.k, block |-> o.block, from |-> o.from]
  /\ o.pc \in {"idle"} \cup Adding \cup PopSteps \cup Saving
  /\ o.k \in Nat /\ o.block \in Chains \cup {NoBlock}

\* The chain that Blockchain::new will start with.
Recovered == IF info = NoInfo THEN NoChain ELSE info

TypeOK ==
  /\ up \in BOOLEAN
  /\ height \in Nat /\ last \in Chains
  /\ committed \in [height : Nat, last : Chains]
  /\ Recovered \in [height : Nat, last : Chains]
  /\ OpType(op)

\* What the block store reads back are blocks.
FileTypes ==
  /\ \A h \in DOMAIN blockFile : blockFile[h] \in Chains
  /\ \A h \in DOMAIN diffFile : diffFile[h].block \in Chains \cup {NoBlock}

\* What the files hold of the n blocks up to c, all but those in H: each of them,
\* and below it nothing that is not of this chain.
Kept(bf, df, ix, n, c, H) ==
  \A h \in 0..(n - 1) \ H :
    /\ h \in DOMAIN bf /\ h \in DOMAIN df /\ h \in DOMAIN ix
    /\ df[h].block = bf[h] /\ ix[h] = bf[h]
    /\ Under(bf[h], c)
    /\ h = 0 => Len(bf[h]) = 1
    /\ h > 0 /\ h - 1 \notin H => Front(bf[h]) = bf[h - 1]
    /\ \A g \in (h + 1)..(n - 1) : g \in DOMAIN bf => Under(bf[h], bf[g])

Top(bf, n, c, H) == n - 1 \in 0..(n - 1) \ H => bf[n - 1] = c

Readable(n, c, H) ==
  Kept(blockFile, diffFile, by_height, n, c, H) /\ Top(blockFile, n, c, H)

\* What will not be found of the saved chain if the process dies now.
Missing == IF Unsaved THEN holes \cup {committed.height - 1} ELSE holes

\* The saved chain is the one in memory.
Saved == committed = Chain

\* A pop has failed: memory has one block less than the saved chain.
Failed ==
  /\ committed.height = height + 1 /\ committed.last = last
  /\ height \in holes
  /\ height # 0 /\ height - 1 \notin DOMAIN blockFile

\* How the chain in memory, the one on disk and the files go together while the
\* process runs, by the step it is at.
Running ==
  /\ height = 0 => last = <<>>
  /\ committed.height = 0 => committed.last = <<>>
  /\ IF op.pc \in {"undiff", "unindex", "popped"}
       THEN Kept(blockFile, diffFile, by_height, height - 1, last, holes)
       ELSE Readable(height, last, holes)
  /\ op.pc # "write" =>
       Recovered = committed /\ Readable(committed.height, committed.last, Missing)
  /\ op.pc = "write" => Recovered = NoChain
  /\ op.pc \in {"idle"} \cup Adding => Saved \/ Failed
  /\ op.pc \in Adding => \E l \in Label : op.block = Append(last, l)
  /\ op.pc \in {"diff", "index", "added"} =>
       height \in DOMAIN blockFile /\ blockFile[height] = op.block
  /\ op.pc \in {"index", "added"} =>
       height \in DOMAIN diffFile /\ diffFile[height].block = op.block
  /\ op.pc = "added" => height \in DOMAIN by_height /\ by_height[height] = op.block
  /\ op.pc \in PopSteps => height # 0 /\ Saved
  /\ op.pc \in {"undiff", "unindex", "popped"} => height - 1 \notin DOMAIN blockFile
  /\ op.pc = "delete" => committed.height = height + 1

\* What a process that died leaves behind.
Dead ==
  /\ op.pc = "idle"
  /\ Readable(Recovered.height, Recovered.last, holes)
  /\ Recovered.height = 0 => Recovered.last = <<>>
  /\ Recovered = IF died = "write" THEN NoChain ELSE committed

StoreInv == TypeOK /\ FileTypes /\ (IF up THEN Running ELSE Dead)

-----------------------------------------------------------------------------
(* Blocks and files.                                                       *)

\* A chain without its last block.
LEMMA FrontProperties ==
  ASSUME NEW c \in Chains, c # <<>>
  PROVE  /\ Front(c) \in Chains /\ Len(Front(c)) = Len(c) - 1 /\ Len(c) \in Nat \ {0}
         /\ \A n \in 0..(Len(c) - 1) : SubSeq(Front(c), 1, n) = SubSeq(c, 1, n)
<1>1. Len(c) \in Nat \ {0}
  BY EmptySeq, LenProperties DEF Chains
<1>2. Front(c) \in Chains /\ Len(Front(c)) = Len(c) - 1
      /\ \A i \in 1..(Len(c) - 1) : Front(c)[i] = c[i]
  <2>1. \A i \in 1..(Len(c) - 1) : c[i] \in Label
    BY <1>1 DEF Chains
  <2>2. 1 \in Int /\ Len(c) - 1 \in Int /\ Len(c) - 1 - 1 + 1 = Len(c) - 1
        /\ \A i \in 1..(Len(c) - 1) : 1 + i - 1 = i
    BY <1>1
  <2>3. /\ SubSeq(c, 1, Len(c) - 1) \in Seq(Label)
        /\ Len(SubSeq(c, 1, Len(c) - 1)) = Len(c) - 1
        /\ \A i \in 1..(Len(c) - 1) : SubSeq(c, 1, Len(c) - 1)[i] = c[1 + i - 1]
    BY <1>1, <2>1, <2>2, SubSeqProperties
  <2> QED BY <2>2, <2>3 DEF Front, Chains
<1>3. ASSUME NEW n \in 0..(Len(c) - 1)
      PROVE  SubSeq(Front(c), 1, n) = SubSeq(c, 1, n)
  BY <1>1, <1>2 DEF Chains
<1> QED BY <1>1, <1>2, <1>3

\* A chain with one block more.
LEMMA AppendProperty ==
  ASSUME NEW c \in Chains, NEW l \in Label, NEW b, b = Append(c, l)
  PROVE  /\ b \in Chains /\ b # <<>> /\ Front(b) = c
         /\ Len(b) = Len(c) + 1 /\ Len(c) \in Nat /\ SubSeq(b, 1, Len(c) + 1) = b
         /\ \A n \in 0..Len(c) : SubSeq(b, 1, n) = SubSeq(c, 1, n)
<1>1. /\ b \in Chains /\ Len(b) = Len(c) + 1 /\ Len(c) \in Nat
      /\ \A i \in 1..Len(c) : b[i] = c[i]
  BY AppendProperties, LenProperties DEF Chains
<1>2. b # <<>>
  BY <1>1, EmptySeq
<1>3. \A n \in 0..Len(c) : SubSeq(b, 1, n) = SubSeq(c, 1, n)
  BY <1>1 DEF Chains
<1>4. SubSeq(b, 1, Len(c) + 1) = b
  BY <1>1 DEF Chains
<1>5. Front(b) = c
  BY <1>1, <1>3 DEF Front, Chains
<1> QED BY <1>1, <1>2, <1>3, <1>4, <1>5

\* A block stands on itself, and the next one on what it stands on.
LEMMA UnderProperties ==
  ASSUME NEW c \in Chains
  PROVE  /\ Under(c, c)
         /\ \A b : \A l \in Label : Under(b, c) => Under(b, Append(c, l))
<1>1. Under(c, c)
  <2>1. c = SubSeq(c, 1, Len(c)) /\ Len(c) \in 0..Len(c)
    BY DEF Chains
  <2> QED BY <2>1 DEF Under
<1>2. ASSUME NEW b, NEW l \in Label, Under(b, c) PROVE Under(b, Append(c, l))
  <2>1. PICK n \in 0..Len(c) : b = SubSeq(c, 1, n)
    BY <1>2 DEF Under
  <2>2. /\ Len(Append(c, l)) = Len(c) + 1 /\ Len(c) \in Nat
        /\ SubSeq(Append(c, l), 1, n) = SubSeq(c, 1, n)
    BY AppendProperty
  <2>3. n \in 0..Len(Append(c, l)) /\ b = SubSeq(Append(c, l), 1, n)
    BY <2>1, <2>2
  <2> QED BY <2>3 DEF Under
<1> QED BY <1>1, <1>2

\* Only the files of the blocks matter.
LEMMA KeptSame ==
  ASSUME NEW n \in Nat, NEW c, NEW H, NEW G, NEW bf, NEW df, NEW ix, NEW bg, NEW dg, NEW ig,
         \A h \in 0..(n - 1) : h \in H <=> h \in G,
         \A h \in 0..(n - 1) : h \notin H =>
           /\ h \in DOMAIN df => h \in DOMAIN dg /\ dg[h] = df[h]
           /\ h \in DOMAIN ix => h \in DOMAIN ig /\ ig[h] = ix[h],
         \A h \in 0..(n - 1) : (h \in DOMAIN bg <=> h \in DOMAIN bf) /\ bg[h] = bf[h],
         Kept(bf, df, ix, n, c, H)
  PROVE  Kept(bg, dg, ig, n, c, G)
<1>1. ASSUME NEW h \in 0..(n - 1) \ G
      PROVE  /\ h \in DOMAIN bg /\ h \in DOMAIN dg /\ h \in DOMAIN ig
             /\ dg[h].block = bg[h] /\ ig[h] = bg[h]
             /\ Under(bg[h], c)
             /\ h = 0 => Len(bg[h]) = 1
             /\ h > 0 /\ h - 1 \notin G => Front(bg[h]) = bg[h - 1]
             /\ \A g \in (h + 1)..(n - 1) : g \in DOMAIN bg => Under(bg[h], bg[g])
  <2>1. h \in 0..(n - 1) \ H
    OBVIOUS
  <2>2. /\ h \in DOMAIN bf /\ h \in DOMAIN df /\ h \in DOMAIN ix
        /\ df[h].block = bf[h] /\ ix[h] = bf[h]
        /\ Under(bf[h], c)
        /\ h = 0 => Len(bf[h]) = 1
        /\ h > 0 /\ h - 1 \notin H => Front(bf[h]) = bf[h - 1]
        /\ \A g \in (h + 1)..(n - 1) : g \in DOMAIN bf => Under(bf[h], bf[g])
    BY <2>1 DEF Kept
  <2>3. h > 0 => h - 1 \in 0..(n - 1)
    OBVIOUS
  <2>4. \A g \in (h + 1)..(n - 1) : g \in 0..(n - 1)
    OBVIOUS
  <2> QED BY <2>1, <2>2, <2>3, <2>4
<1> QED BY <1>1 DEF Kept

\* The blocks below the last one.
LEMMA KeptLess ==
  ASSUME NEW n \in Nat \ {0}, NEW c, NEW H, NEW bf, NEW df, NEW ix,
         Kept(bf, df, ix, n, c, H)
  PROVE  Kept(bf, df, ix, n - 1, c, H)
<1>1. \A h \in 0..(n - 1 - 1) \ H :
        h \in 0..(n - 1) \ H /\ \A g \in (h + 1)..(n - 1 - 1) : g \in (h + 1)..(n - 1)
  OBVIOUS
<1> QED BY <1>1 DEF Kept

\* A block that is gone.
LEMMA KeptHole ==
  ASSUME NEW n \in Nat \ {0}, NEW c, NEW H, NEW bf, NEW df, NEW ix,
         Kept(bf, df, ix, n - 1, c, H), n - 1 \notin DOMAIN bf
  PROVE  /\ Kept(bf, df, ix, n, c, H \cup {n - 1})
         /\ Top(bf, n, c, H \cup {n - 1})
<1>1. \A h \in 0..(n - 1) \ (H \cup {n - 1}) :
        /\ h \in 0..(n - 1 - 1) \ H
        /\ h - 1 \notin H \cup {n - 1} => h - 1 \notin H
        /\ \A g \in (h + 1)..(n - 1) : g \in (h + 1)..(n - 1 - 1) \/ g = n - 1
  OBVIOUS
<1> QED BY <1>1 DEF Kept, Top

\* A block that joins the chain.
LEMMA KeptAdd ==
  ASSUME NEW n \in Nat, NEW c \in Chains, NEW H, NEW bf, NEW df, NEW ix, NEW l \in Label, NEW b,
         b = Append(c, l), n = 0 => c = <<>>,
         Kept(bf, df, ix, n, c, H), Top(bf, n, c, H),
         n \in DOMAIN bf, bf[n] = b, n \in DOMAIN df, df[n].block = b,
         n \in DOMAIN ix, ix[n] = b
  PROVE  Kept(bf, df, ix, n + 1, b, H \ {n}) /\ Top(bf, n + 1, b, H \ {n})
<1>1. Under(b, b) /\ Front(b) = c /\ (n = 0 => Len(b) = 1)
  <2>1. b \in Chains /\ Front(b) = c /\ Len(b) = Len(c) + 1
    <3>1. \A d \in Chains : \A m \in Label : \A a : a = Append(d, m) =>
            a \in Chains /\ Front(a) = d /\ Len(a) = Len(d) + 1
      BY AppendProperty
    <3> QED BY <3>1
  <2>2. Under(b, b)
    BY <2>1, UnderProperties
  <2>3. n = 0 => Len(c) = 0
    BY EmptySeq
  <2> QED BY <2>1, <2>2, <2>3
<1>2. \A x : Under(x, c) => Under(x, b)
  BY UnderProperties
<1>3. ASSUME NEW h \in 0..(n + 1 - 1) \ (H \ {n})
      PROVE  /\ h \in DOMAIN bf /\ h \in DOMAIN df /\ h \in DOMAIN ix
             /\ df[h].block = bf[h] /\ ix[h] = bf[h]
             /\ Under(bf[h], b)
             /\ h = 0 => Len(bf[h]) = 1
             /\ h > 0 /\ h - 1 \notin H \ {n} => Front(bf[h]) = bf[h - 1]
             /\ \A g \in (h + 1)..(n + 1 - 1) : g \in DOMAIN bf => Under(bf[h], bf[g])
  <2>1. CASE h = n
    <3>1. h > 0 /\ h - 1 \notin H \ {n} => n - 1 \in 0..(n - 1) \ H
      BY <2>1
    <3>2. (h + 1)..(n + 1 - 1) = {}
      BY <2>1
    <3>3. h > 0 /\ h - 1 \notin H \ {n} => Front(bf[h]) = bf[h - 1]
      BY <1>1, <2>1, <3>1 DEF Top
    <3> QED BY <1>1, <2>1, <3>2, <3>3
  <2>2. CASE h # n
    <3>1. h \in 0..(n - 1) \ H /\ h - 1 # n
      BY <2>2
    <3>2. /\ h \in DOMAIN bf /\ h \in DOMAIN df /\ h \in DOMAIN ix
          /\ df[h].block = bf[h] /\ ix[h] = bf[h]
          /\ Under(bf[h], c)
          /\ h = 0 => Len(bf[h]) = 1
          /\ h > 0 /\ h - 1 \notin H => Front(bf[h]) = bf[h - 1]
          /\ \A g \in (h + 1)..(n - 1) : g \in DOMAIN bf => Under(bf[h], bf[g])
      BY <3>1 DEF Kept
    <3>3. \A g \in (h + 1)..(n + 1 - 1) : g \in (h + 1)..(n - 1) \/ g = n
      OBVIOUS
    <3> QED BY <1>2, <3>1, <3>2, <3>3
  <2> QED BY <2>1, <2>2
<1> QED BY <1>3 DEF Kept, Top

\* The file of the next block, at a height that has lost its block.
LEMMA KeptWrite ==
  ASSUME NEW n \in Nat, NEW c \in Chains, NEW H, NEW bf, NEW df, NEW ix, NEW l \in Label,
         NEW m \in {n, n + 1}, m = n + 1 => n \in H, Kept(bf, df, ix, m, c, H)
  PROVE  Kept(Put(bf, n, Append(c, l)), df, ix, m, c, H)
<1> DEFINE b == Append(c, l)
           bg == Put(bf, n, b)
<1>1. \A h : h # n => (h \in DOMAIN bg <=> h \in DOMAIN bf) /\ (h \in DOMAIN bf => bg[h] = bf[h])
  BY DEF Put
<1>2. n \in DOMAIN bg /\ bg[n] = b
  BY DEF Put
<1>3. \A x : Under(x, c) => Under(x, b)
  BY UnderProperties
<1> HIDE DEF bg, b
<1>4. ASSUME NEW h \in 0..(m - 1) \ H
      PROVE  /\ h \in DOMAIN bg /\ h \in DOMAIN df /\ h \in DOMAIN ix
             /\ df[h].block = bg[h] /\ ix[h] = bg[h]
             /\ Under(bg[h], c)
             /\ h = 0 => Len(bg[h]) = 1
             /\ h > 0 /\ h - 1 \notin H => Front(bg[h]) = bg[h - 1]
             /\ \A g \in (h + 1)..(m - 1) : g \in DOMAIN bg => Under(bg[h], bg[g])
  <2>1. h # n /\ h - 1 # n /\ (h > 0 => h - 1 \in 0..(m - 1))
    OBVIOUS
  <2>2. /\ h \in DOMAIN bf /\ h \in DOMAIN df /\ h \in DOMAIN ix
        /\ df[h].block = bf[h] /\ ix[h] = bf[h]
        /\ Under(bf[h], c)
        /\ h = 0 => Len(bf[h]) = 1
        /\ h > 0 /\ h - 1 \notin H => Front(bf[h]) = bf[h - 1]
        /\ \A g \in (h + 1)..(m - 1) : g \in DOMAIN bf => Under(bf[h], bf[g])
    BY DEF Kept
  <2>3. bg[h] = bf[h] /\ h \in DOMAIN bg
    BY <1>1, <2>1, <2>2
  <2>4. h > 0 /\ h - 1 \notin H => bg[h - 1] = bf[h - 1]
    <3>1. ASSUME h > 0, h - 1 \notin H PROVE h - 1 \in DOMAIN bf
      BY <2>1, <3>1 DEF Kept
    <3> QED BY <1>1, <2>1, <3>1
  <2>5. ASSUME NEW g \in (h + 1)..(m - 1), g \in DOMAIN bg PROVE Under(bg[h], bg[g])
    <3>1. CASE g = n
      BY <1>2, <1>3, <2>2, <2>3, <3>1
    <3>2. CASE g # n
      BY <1>1, <2>2, <2>3, <2>5, <3>2
    <3> QED BY <3>1, <3>2
  <2> QED BY <2>2, <2>3, <2>4, <2>5
<1> QED BY <1>4 DEF Kept, bg, b

\* A block that becomes the last one.
LEMMA KeptPop ==
  ASSUME NEW n \in Nat \ {0}, NEW c, NEW H, NEW bf, NEW df, NEW ix,
         Kept(bf, df, ix, n, c, H), n - 1 \in DOMAIN bf, bf[n - 1] \in Chains
  PROVE  Kept(bf, df, ix, n, bf[n - 1], H) /\ Top(bf, n, bf[n - 1], H)
<1>1. Under(bf[n - 1], bf[n - 1])
  BY UnderProperties
<1>2. \A h \in 0..(n - 1) \ H : h = n - 1 \/ n - 1 \in (h + 1)..(n - 1)
  OBVIOUS
<1>3. \A h \in 0..(n - 1) \ H : Under(bf[h], bf[n - 1])
  BY <1>1, <1>2 DEF Kept
<1> QED BY <1>3 DEF Kept, Top

-----------------------------------------------------------------------------
(* The store, step by step.                                                *)

\* Moving on to another step of an operation.
LEMMA StepMoves ==
  ASSUME TypeOK, NEW p \in {"idle"} \cup Adding \cup PopSteps \cup Saving, Step(p)
  PROVE  /\ op'.pc = p /\ op'.block = op.block /\ op'.k = op.k /\ op'.from = op.from
         /\ OpType(op')
BY DEF TypeOK, OpType, Step

\* Nothing that the store is about changes.
LEMMA StoreRests ==
  ASSUME UNCHANGED <<height, last, files, holes, committed>>
  PROVE  /\ Recovered' = Recovered /\ Chain' = Chain /\ (FileTypes' <=> FileTypes)
         /\ \A n, c, H : Readable(n, c, H)' <=> Readable(n, c, H)
         /\ (Saved' <=> Saved) /\ (Failed' <=> Failed)
BY DEF files, Recovered, FileTypes, Readable, Saved, Failed, Chain

\* add_block up to the block store.
LEMMA ExecuteStep ==
  ASSUME StoreInv, (\E l \in Label : StartAdd(l)) \/ ExecuteSpend \/ ExecuteCreate
  PROVE  StoreInv'
<1> USE DEF StoreInv, Adding, PopSteps, Saving
<1>1. UNCHANGED <<up, height, last, files, holes, committed>> /\ up
  BY DEF StartAdd, ExecuteSpend, ExecuteCreate, history
<1>2. /\ Recovered' = Recovered /\ FileTypes'
      /\ \A n, c, H : Readable(n, c, H)' <=> Readable(n, c, H)
      /\ (Saved' <=> Saved) /\ (Failed' <=> Failed)
  BY <1>1, StoreRests
<1>3. /\ op.pc \in {"idle", "spend", "create"} /\ op'.pc \in {"spend", "create", "block"}
      /\ OpType(op') /\ \E l \in Label : op'.block = Append(last, l)
  <2>1. CASE \E l \in Label : StartAdd(l)
    <3>1. PICK l \in Label : StartAdd(l)
      BY <2>1
    <3>2. PICK c \in Sources \cup (IF last = <<>> \/ Sources = {} THEN {<<>>} ELSE {}) :
            op' = [pc |-> "spend", k |-> 1, block |-> Append(last, l), from |-> c]
      BY <3>1 DEF StartAdd
    <3>3. op.pc = "idle"
      BY <3>1 DEF StartAdd, Idle
    <3>4. Append(last, l) \in Chains
      BY AppendProperty DEF TypeOK
    <3> QED BY <3>2, <3>3, <3>4 DEF OpType
  <2>2. CASE ExecuteSpend
    <3>1. op.pc = "spend" /\ op'.pc = "create" /\ op'.block = op.block /\ OpType(op')
      BY <2>2, StepMoves DEF ExecuteSpend
    <3> QED BY <1>1, <3>1 DEF Running
  <2>3. CASE ExecuteCreate
    <3>1. op.pc = "create" /\ op'.pc \in {"block", "spend"} /\ op'.block = op.block
          /\ OpType(op')
      <4>1. CASE op.k = TxCount
        <5>1. op' = [op EXCEPT !.pc = "block"]
          BY <2>3, <4>1 DEF ExecuteCreate
        <5> QED BY <2>3, <5>1 DEF ExecuteCreate, TypeOK, OpType
      <4>2. CASE op.k # TxCount
        <5>1. op' = [op EXCEPT !.pc = "spend", !.k = op.k + 1]
          BY <2>3, <4>2 DEF ExecuteCreate
        <5>2. op.k + 1 \in Nat
          BY DEF TypeOK, OpType
        <5> QED BY <2>3, <5>1, <5>2 DEF ExecuteCreate, TypeOK, OpType
      <4> QED BY <4>1, <4>2
    <3> QED BY <1>1, <3>1 DEF Running
  <2> QED BY <2>1, <2>2, <2>3
<1>4. Missing' = Missing
  BY <1>1, <1>3 DEF Missing, Unsaved
<1> QED BY <1>1, <1>2, <1>3, <1>4 DEF TypeOK, Running

\* BlockStore::add_block writes its files at the height above the chain, where the
\* saved chain has no block, or has lost it.
LEMMA StoreAddStep ==
  ASSUME StoreInv, RenameBlock \/ RenameDiff \/ InsertIndex
  PROVE  StoreInv'
<1> USE DEF StoreInv, Adding, PopSteps, Saving
<1>1. /\ UNCHANGED <<up, height, last, info, holes, committed>> /\ up
      /\ op.pc \in {"block", "diff", "index"} /\ op'.pc \in {"diff", "index", "added"}
      /\ op'.block = op.block /\ OpType(op')
  BY StepMoves DEF RenameBlock, RenameDiff, InsertIndex, history
<1>2. PICK l \in Label : op.block = Append(last, l)
  BY <1>1 DEF Running
<1>3. op.block \in Chains /\ height \in Nat /\ last \in Chains
  BY <1>2, AppendProperty DEF TypeOK
<1>4. FileTypes'
  BY <1>1, <1>3 DEF FileTypes, RenameBlock, RenameDiff, InsertIndex, Put
<1>5. /\ Recovered' = Recovered /\ Missing' = Missing /\ Missing = holes
      /\ (Saved' <=> Saved)
  BY <1>1 DEF Recovered, Missing, Unsaved, Saved, Chain
<1>6. Failed => Failed'
  BY <1>1, <1>3 DEF Failed, RenameBlock, RenameDiff, InsertIndex, Put
<1>7. /\ \A h : h # height =>
           /\ h \in DOMAIN blockFile' <=> h \in DOMAIN blockFile
           /\ h \in DOMAIN blockFile => blockFile'[h] = blockFile[h]
      /\ \A h \in DOMAIN diffFile : h # height =>
           h \in DOMAIN diffFile' /\ diffFile'[h] = diffFile[h]
      /\ \A h \in DOMAIN by_height : h # height =>
           h \in DOMAIN by_height' /\ by_height'[h] = by_height[h]
  BY DEF RenameBlock, RenameDiff, InsertIndex, Put
<1>8. ASSUME NEW m \in {height, height + 1}, m = height + 1 => height \in holes,
             Readable(m, last, holes)
      PROVE  Readable(m, last, holes)'
  <2>1. Kept(blockFile', diffFile', by_height', m, last, holes)
    <3>1. CASE RenameBlock
      BY <1>2, <1>3, <1>8, <3>1, KeptWrite DEF RenameBlock, Readable
    <3>2. CASE RenameDiff \/ InsertIndex
      <4>1. blockFile' = blockFile
        BY <3>2 DEF RenameDiff, InsertIndex
      <4>2. \A h \in 0..(m - 1) : h \notin holes => h # height
        BY <1>3, <1>8
      <4>3. m \in Nat /\ Kept(blockFile, diffFile, by_height, m, last, holes)
        BY <1>3, <1>8 DEF Readable
      <4> QED BY <1>7, <4>1, <4>2, <4>3, KeptSame
    <3> QED BY <3>1, <3>2
  <2>2. Top(blockFile', m, last, holes)
    <3>1. \A h \in 0..(m - 1) \ holes : h # height
      BY <1>3, <1>8
    <3>2. \A h \in 0..(m - 1) \ holes : h \in DOMAIN blockFile
      BY <1>8 DEF Readable, Kept
    <3>3. Top(blockFile, m, last, holes)
      BY <1>8 DEF Readable
    <3>4. ASSUME NEW h \in 0..(m - 1) \ holes PROVE blockFile'[h] = blockFile[h]
      <4>1. h # height /\ h \in DOMAIN blockFile
        BY <3>1, <3>2
      <4> QED BY <1>7, <4>1
    <3> QED BY <3>3, <3>4 DEF Top
  <2> QED BY <1>1, <2>1, <2>2 DEF Readable
<1>9. Readable(height, last, holes)'
  BY <1>1, <1>3, <1>8 DEF Running
<1>10. Readable(committed.height, committed.last, Missing)'
  <2>1. Readable(committed.height, committed.last, holes)
    BY <1>1, <1>5 DEF Running
  <2>2. /\ committed.last = last /\ committed.height \in {height, height + 1}
        /\ committed.height = height + 1 => height \in holes
    BY <1>1, <1>3 DEF Running, Saved, Failed, Chain
  <2> QED BY <1>1, <1>5, <1>8, <2>1, <2>2
<1>11. /\ op'.pc \in {"diff", "index", "added"} =>
            (height \in DOMAIN blockFile /\ blockFile[height] = op.block)'
       /\ op'.pc \in {"index", "added"} =>
            (height \in DOMAIN diffFile /\ diffFile[height].block = op.block)'
       /\ op'.pc = "added" => (height \in DOMAIN by_height /\ by_height[height] = op.block)'
  <2>1. CASE RenameBlock
    <3>1. op'.pc = "diff"
      BY <2>1, StepMoves DEF RenameBlock
    <3> QED BY <1>1, <2>1, <3>1 DEF RenameBlock, Put
  <2>2. CASE RenameDiff
    <3>1. op.pc = "diff" /\ op'.pc = "index"
      BY <2>2, StepMoves DEF RenameDiff
    <3> QED BY <1>1, <2>2, <3>1 DEF RenameDiff, Put, Running
  <2>3. CASE InsertIndex
    <3>1. op.pc = "index" /\ op'.pc = "added"
      BY <2>3, StepMoves DEF InsertIndex
    <3> QED BY <1>1, <2>3, <3>1 DEF InsertIndex, Put, Running
  <2> QED BY <2>1, <2>2, <2>3
<1>12. TypeOK'
  BY <1>1, <1>5 DEF TypeOK
<1>13. Running'
  BY <1>1, <1>2, <1>5, <1>6, <1>9, <1>10, <1>11 DEF Running
<1> QED BY <1>1, <1>4, <1>12, <1>13

\* The block joins the chain.
LEMMA SetAddedStep ==
  ASSUME StoreInv, SetAdded
  PROVE  StoreInv'
<1> USE DEF StoreInv, Adding, PopSteps, Saving
<1>1. /\ UNCHANGED <<up, files, committed>> /\ up /\ op.pc = "added"
      /\ height' = height + 1 /\ last' = op.block /\ holes' = holes \ {height}
      /\ op'.pc = "truncate" /\ OpType(op')
  BY StepMoves DEF SetAdded
<1>2. PICK l \in Label : op.block = Append(last, l)
  BY <1>1 DEF Running
<1>3. op.block \in Chains /\ height \in Nat /\ last \in Chains
  BY <1>2, AppendProperty DEF TypeOK
<1>4. /\ Recovered' = Recovered /\ FileTypes' /\ UNCHANGED <<blockFile, diffFile, by_height>>
      /\ Recovered = committed
  BY <1>1 DEF Recovered, FileTypes, files, Running
<1>5. Readable(height, last, holes)'
  <2>1. /\ Kept(blockFile, diffFile, by_height, height, last, holes)
        /\ Top(blockFile, height, last, holes)
        /\ height = 0 => last = <<>>
    BY <1>1 DEF Running, Readable
  <2>2. /\ height \in DOMAIN blockFile /\ blockFile[height] = op.block
        /\ height \in DOMAIN diffFile /\ diffFile[height].block = op.block
        /\ height \in DOMAIN by_height /\ by_height[height] = op.block
    BY <1>1 DEF Running
  <2>3. /\ Kept(blockFile, diffFile, by_height, height + 1, op.block, holes \ {height})
        /\ Top(blockFile, height + 1, op.block, holes \ {height})
    BY <1>2, <1>3, <2>1, <2>2, KeptAdd
  <2> QED BY <1>1, <1>4, <2>3 DEF Readable
<1>6. Readable(committed.height, committed.last, Missing)'
  <2>1. Readable(committed.height, committed.last, holes)
    BY <1>1 DEF Running, Missing, Unsaved
  <2>2. CASE Saved
    <3>1. Missing' = holes \ {height} /\ committed.height = height /\ committed.last = last
      BY <1>1, <1>3, <2>2 DEF Saved, Chain, Missing, Unsaved
    <3>2. \A h \in 0..(height - 1) : h \in holes <=> h \in holes \ {height}
      BY <1>3
    <3>3. Kept(blockFile, diffFile, by_height, height, last, holes \ {height})
      BY <1>3, <2>1, <3>1, <3>2, KeptSame DEF Readable
    <3>4. Top(blockFile, height, last, holes \ {height})
      BY <1>3, <2>1, <3>1 DEF Readable, Top
    <3> QED BY <1>1, <1>4, <3>1, <3>3, <3>4 DEF Readable
  <2>3. CASE Failed
    <3>1. Missing' = holes /\ committed.height = height + 1
      BY <1>1, <1>3, <2>3 DEF Failed, Missing, Unsaved
    <3> QED BY <1>1, <1>4, <2>1, <3>1 DEF Readable
  <2> QED BY <1>1, <2>2, <2>3 DEF Running
<1>7. TypeOK'
  BY <1>1, <1>3, <1>4 DEF TypeOK
<1>8. Running'
  BY <1>1, <1>3, <1>4, <1>5, <1>6 DEF Running
<1> QED BY <1>1, <1>4, <1>7, <1>8

\* pop_block up to the block store: after a pop that failed there is no block to pop.
LEMMA RecallStep ==
  ASSUME StoreInv, StartPop \/ PopNotFound \/ RecallSpent \/ RecallCreated \/ RecallError
  PROVE  StoreInv'
<1> USE DEF StoreInv, Adding, PopSteps, Saving
<1>1. UNCHANGED <<up, height, last, files, holes, committed>> /\ up
  BY DEF StartPop, PopNotFound, RecallSpent, RecallCreated, RecallError, history, vars, memory
<1>2. /\ Recovered' = Recovered /\ FileTypes'
      /\ \A n, c, H : Readable(n, c, H)' <=> Readable(n, c, H)
      /\ (Saved' <=> Saved) /\ (Failed' <=> Failed)
  BY <1>1, StoreRests
<1>3. CASE PopNotFound
  <2>1. UNCHANGED op /\ Missing' = Missing
    BY <1>3 DEF PopNotFound, vars, memory, Missing, Unsaved, history
  <2> QED BY <1>1, <1>2, <2>1, <1>3 DEF TypeOK, Running, PopNotFound, vars, files
<1>4. ASSUME StartPop \/ RecallSpent \/ RecallCreated \/ RecallError
      PROVE  /\ op.pc \in {"idle", "restore", "remove"}
             /\ op'.pc \in {"idle", "restore", "remove", "unblock"}
             /\ OpType(op') /\ height # 0 /\ Saved
  <2>1. CASE StartPop
    <3>1. op' = [pc |-> "restore", k |-> 1, block |-> diffFile[height - 1].block,
                 from |-> diffFile[height - 1].from]
      BY <2>1 DEF StartPop
    <3>2. op.pc = "idle" /\ height # 0 /\ height - 1 \in DOMAIN blockFile
          /\ diffFile[height - 1].block \in Chains \cup {NoBlock}
      BY <2>1 DEF StartPop, Idle, FileTypes
    <3>3. Saved
      BY <1>1, <3>2 DEF Running, Failed
    <3> QED BY <3>1, <3>2, <3>3 DEF OpType
  <2>2. CASE RecallSpent
    <3>1. CASE op.k = TxCount
      <4>1. op' = [op EXCEPT !.pc = "remove", !.k = 1] /\ op.pc = "restore"
        BY <2>2, <3>1 DEF RecallSpent
      <4> QED BY <1>1, <4>1 DEF Running, TypeOK, OpType
    <3>2. CASE op.k # TxCount
      <4>1. op' = [op EXCEPT !.k = op.k + 1] /\ op.pc = "restore"
        BY <2>2, <3>2 DEF RecallSpent
      <4>2. op.k + 1 \in Nat
        BY DEF TypeOK, OpType
      <4> QED BY <1>1, <4>1, <4>2 DEF Running, TypeOK, OpType
    <3> QED BY <3>1, <3>2
  <2>3. CASE RecallCreated
    <3>1. CASE op.k = TxCount
      <4>1. op' = [op EXCEPT !.pc = "unblock"] /\ op.pc = "remove"
        BY <2>3, <3>1 DEF RecallCreated
      <4> QED BY <1>1, <4>1 DEF Running, TypeOK, OpType
    <3>2. CASE op.k # TxCount
      <4>1. op' = [op EXCEPT !.k = op.k + 1] /\ op.pc = "remove"
        BY <2>3, <3>2 DEF RecallCreated
      <4>2. op.k + 1 \in Nat
        BY DEF TypeOK, OpType
      <4> QED BY <1>1, <4>1, <4>2 DEF Running, TypeOK, OpType
    <3> QED BY <3>1, <3>2
  <2>4. CASE RecallError
    BY <1>1, <2>4 DEF RecallError, Running, OpType, Idle
  <2> QED BY <1>4, <2>1, <2>2, <2>3, <2>4
<1>5. CASE StartPop \/ RecallSpent \/ RecallCreated \/ RecallError
  <2>1. /\ op.pc \in {"idle", "restore", "remove"}
        /\ op'.pc \in {"idle", "restore", "remove", "unblock"}
        /\ OpType(op') /\ height # 0 /\ Saved
    BY <1>4, <1>5
  <2>2. Missing' = Missing
    BY <1>1, <2>1 DEF Missing, Unsaved
  <2> QED BY <1>1, <1>2, <2>1, <2>2 DEF TypeOK, Running
<1> QED BY <1>3, <1>5

\* BlockStore::pop_block takes away the last block and nothing else.
LEMMA StorePopStep ==
  ASSUME StoreInv, RemoveBlock \/ RemoveDiff \/ RemoveIndex
  PROVE  StoreInv'
<1> USE DEF StoreInv, Adding, PopSteps, Saving
<1>1. /\ UNCHANGED <<up, height, last, info, holes, committed>> /\ up
      /\ op.pc \in {"unblock", "undiff", "unindex"} /\ OpType(op')
      /\ op'.pc \in {"undiff", "unindex", "popped"}
  BY StepMoves DEF RemoveBlock, RemoveDiff, RemoveIndex, history
<1>2. /\ height \in Nat \ {0} /\ last \in Chains /\ Recovered' = Recovered
      /\ Recovered = committed /\ Saved /\ Saved'
      /\ committed.height = height /\ committed.last = last
  BY <1>1 DEF Running, TypeOK, Recovered, Saved, Chain
<1>3. /\ FileTypes'
      /\ \A h : h # height - 1 =>
           /\ h \in DOMAIN blockFile' <=> h \in DOMAIN blockFile
           /\ h \in DOMAIN blockFile => blockFile'[h] = blockFile[h]
           /\ h \in DOMAIN diffFile => h \in DOMAIN diffFile' /\ diffFile'[h] = diffFile[h]
           /\ h \in DOMAIN by_height => h \in DOMAIN by_height' /\ by_height'[h] = by_height[h]
  BY DEF FileTypes, RemoveBlock, RemoveDiff, RemoveIndex, Delete
<1>4. height - 1 \notin DOMAIN blockFile'
  <2>1. CASE RemoveBlock
    BY <2>1 DEF RemoveBlock, Delete
  <2>2. CASE RemoveDiff \/ RemoveIndex
    BY <1>1, <2>2 DEF RemoveDiff, RemoveIndex, Running
  <2> QED BY <2>1, <2>2
<1>5. Kept(blockFile', diffFile', by_height', height - 1, last, holes)
  <2>1. Kept(blockFile, diffFile, by_height, height - 1, last, holes)
    <3>1. CASE RemoveBlock
      <4>1. op.pc = "unblock"
        BY <3>1 DEF RemoveBlock
      <4>2. Kept(blockFile, diffFile, by_height, height, last, holes)
        BY <1>1, <4>1 DEF Running, Readable
      <4> QED BY <1>2, <4>2, KeptLess
    <3>2. CASE RemoveDiff \/ RemoveIndex
      BY <1>1, <3>2 DEF RemoveDiff, RemoveIndex, Running
    <3> QED BY <3>1, <3>2
  <2>2. height - 1 \in Nat /\ \A h \in 0..(height - 1 - 1) : h # height - 1
    BY <1>2
  <2>3. ASSUME NEW f, NEW g, NEW H, NEW n \in Nat, NEW c,
               Kept(blockFile, f, g, n, c, H), \A h \in 0..(n - 1) : h # height - 1
        PROVE  Kept(blockFile', f, g, n, c, H)
    BY <1>3, <2>3 DEF Kept
  <2>4. Kept(blockFile', diffFile, by_height, height - 1, last, holes)
    BY <2>1, <2>2, <2>3
  <2>5. \A h \in 0..(height - 1 - 1) : h \notin holes =>
           /\ h \in DOMAIN diffFile => h \in DOMAIN diffFile' /\ diffFile'[h] = diffFile[h]
           /\ h \in DOMAIN by_height => h \in DOMAIN by_height' /\ by_height'[h] = by_height[h]
    BY <1>3, <2>2
  <2> QED BY <2>2, <2>4, <2>5, KeptSame
<1>6. Readable(committed.height, committed.last, Missing)'
  <2>1. Missing' = holes \cup {height - 1}
    BY <1>1, <1>2 DEF Missing, Unsaved
  <2>2. /\ Kept(blockFile', diffFile', by_height', height, last, holes \cup {height - 1})
        /\ Top(blockFile', height, last, holes \cup {height - 1})
    BY <1>2, <1>4, <1>5, KeptHole
  <2> QED BY <1>1, <1>2, <2>1, <2>2 DEF Readable
<1>7. TypeOK'
  BY <1>1, <1>2 DEF TypeOK
<1>8. Running'
  BY <1>1, <1>2, <1>4, <1>5, <1>6 DEF Running
<1> QED BY <1>1, <1>3, <1>7, <1>8

\* The block has left the chain, or the one below it cannot be read.
LEMMA SetPoppedStep ==
  ASSUME StoreInv, SetPopped \/ PopIncomplete
  PROVE  StoreInv'
<1> USE DEF StoreInv, Adding, PopSteps, Saving
<1>1. /\ UNCHANGED <<up, files, committed>> /\ up /\ op.pc = "popped"
      /\ height' = height - 1
  BY DEF SetPopped, PopIncomplete, history
<1>2. /\ height \in Nat \ {0} /\ last \in Chains
      /\ committed.height = height /\ committed.last = last
      /\ Kept(blockFile, diffFile, by_height, height - 1, last, holes)
      /\ height - 1 \notin DOMAIN blockFile
      /\ Readable(height, last, holes \cup {height - 1})
  <2>1. /\ height \in Nat \ {0} /\ last \in Chains /\ Saved
        /\ Kept(blockFile, diffFile, by_height, height - 1, last, holes)
        /\ height - 1 \notin DOMAIN blockFile
        /\ Readable(committed.height, committed.last, Missing)
    BY <1>1 DEF Running, TypeOK
  <2>2. committed.height = height /\ committed.last = last
    BY <2>1 DEF Saved, Chain
  <2>3. Missing = holes \cup {height - 1}
    BY <1>1, <2>2 DEF Missing, Unsaved
  <2> QED BY <2>1, <2>2, <2>3
<1>3. /\ Recovered' = Recovered /\ FileTypes' /\ UNCHANGED <<blockFile, diffFile, by_height>>
      /\ Recovered = committed
  BY <1>1 DEF Recovered, FileTypes, files, Running
<1>4. CASE SetPopped
  <2>1. /\ op'.pc = "delete" /\ OpType(op') /\ holes' = holes
    BY <1>4, StepMoves DEF SetPopped, history
  <2>2. CASE height' = 0 /\ last' = <<>>
    <3>1. Readable(height, last, holes)'
      BY <1>1, <2>2 DEF Readable, Kept, Top
    <3>2. Missing' = holes \cup {height - 1}
      BY <1>1, <1>2, <2>1 DEF Missing, Unsaved
    <3>3. Readable(committed.height, committed.last, Missing)'
      BY <1>1, <1>2, <1>3, <3>2 DEF Readable
    <3>4. last' \in Chains
      BY <2>2 DEF Chains
    <3> QED BY <1>1, <1>2, <1>3, <2>1, <2>2, <3>1, <3>3, <3>4 DEF TypeOK, Running
  <2>3. CASE height' # 0 /\ height' - 1 \in DOMAIN blockFile /\ last' = blockFile[height' - 1]
    <3>1. height - 1 \in Nat \ {0} /\ last' = blockFile[height - 1 - 1]
          /\ height - 1 - 1 \in DOMAIN blockFile
      BY <1>1, <1>2, <2>3
    <3>2. last' \in Chains
      BY <3>1 DEF FileTypes
    <3>3. /\ Kept(blockFile, diffFile, by_height, height - 1, last', holes)
          /\ Top(blockFile, height - 1, last', holes)
      BY <1>2, <3>1, <3>2, KeptPop
    <3>4. Readable(height, last, holes)'
      BY <1>1, <1>3, <2>1, <3>3 DEF Readable
    <3>5. Missing' = holes \cup {height - 1}
      BY <1>1, <1>2, <2>1 DEF Missing, Unsaved
    <3>6. Readable(committed.height, committed.last, Missing)'
      BY <1>1, <1>2, <1>3, <3>5 DEF Readable
    <3> QED BY <1>1, <1>2, <1>3, <2>1, <3>1, <3>2, <3>4, <3>6 DEF TypeOK, Running
  <2> QED BY <1>4, <2>2, <2>3 DEF SetPopped
<1>5. CASE PopIncomplete
  <2>1. /\ op' = Idle /\ last' = last /\ holes' = holes \cup {height - 1}
        /\ height - 1 # 0 /\ height - 1 - 1 \notin DOMAIN blockFile
    BY <1>1, <1>5 DEF PopIncomplete
  <2>2. op'.pc = "idle" /\ OpType(op')
    BY <2>1 DEF Idle, OpType
  <2>3. Readable(height, last, holes)'
    <3>1. height - 1 \in Nat /\ \A h \in 0..(height - 1 - 1) : h \in holes <=> h \in holes \cup {height - 1}
      BY <1>2
    <3>2. Kept(blockFile, diffFile, by_height, height - 1, last, holes \cup {height - 1})
      BY <1>2, <3>1, KeptSame
    <3>3. Top(blockFile, height - 1, last, holes \cup {height - 1})
      BY <1>2, <2>1, <3>2 DEF Top, Kept
    <3> QED BY <1>1, <1>3, <2>1, <3>2, <3>3 DEF Readable
  <2>4. Readable(committed.height, committed.last, Missing)'
    <3>1. Missing' = holes \cup {height - 1}
      BY <2>1, <2>2 DEF Missing, Unsaved
    <3> QED BY <1>1, <1>2, <1>3, <3>1 DEF Readable
  <2>5. Failed'
    BY <1>1, <1>2, <1>3, <2>1 DEF Failed
  <2> QED BY <1>1, <1>2, <1>3, <2>1, <2>2, <2>3, <2>4, <2>5 DEF TypeOK, Running
<1> QED BY <1>4, <1>5

\* What comes after, and save_blockchain_data.
LEMMA SaveStep ==
  ASSUME StoreInv, FinalDelete \/ TruncateInfo \/ WriteInfo
  PROVE  StoreInv'
<1> USE DEF StoreInv, Adding, PopSteps, Saving
<1>1. /\ UNCHANGED <<up, height, last, blockFile, diffFile, by_height, holes>> /\ up
      /\ op.pc \in {"delete", "truncate", "write"} /\ last \in Chains /\ height \in Nat
      /\ FileTypes' /\ \A n, c, H : Readable(n, c, H)' <=> Readable(n, c, H)
  BY DEF FinalDelete, TruncateInfo, WriteInfo, history, files, Readable, TypeOK, FileTypes
<1>2. CASE FinalDelete
  <2>1. /\ op.pc = "delete" /\ op'.pc = "truncate" /\ OpType(op')
        /\ committed' = committed /\ Recovered' = Recovered
        /\ committed.height = height + 1
    BY <1>1, <1>2, StepMoves DEF FinalDelete, history, files, Recovered, Running
  <2>2. Missing' = Missing
    BY <1>1, <2>1 DEF Missing, Unsaved
  <2> QED BY <1>1, <2>1, <2>2 DEF TypeOK, Running
<1>3. CASE TruncateInfo
  <2>1. /\ op'.pc = "write" /\ OpType(op') /\ info' = NoInfo /\ committed' = committed
    BY <1>3, StepMoves DEF TruncateInfo, history
  <2>2. Recovered' = NoChain /\ <<>> \in Chains
    BY <2>1 DEF Recovered, Chains
  <2>3. Recovered' \in [height : Nat, last : Chains]
    BY <2>2 DEF NoChain
  <2> QED BY <1>1, <1>3, <2>1, <2>2, <2>3 DEF TypeOK, Running, TruncateInfo
<1>4. CASE WriteInfo
  <2>1. op' = Idle /\ info' = Chain /\ committed' = Chain
    BY <1>4 DEF WriteInfo
  <2>2. Chain \in [height : Nat, last : Chains] /\ Chain' = Chain
        /\ Chain.height = height /\ Chain.last = last
    BY <1>1 DEF Chain
  <2>3. Recovered' = Chain
    BY <2>1, <2>2, DurabilityAssumption DEF Recovered, Chains
  <2>4. op'.pc = "idle" /\ OpType(op') /\ op.pc = "write"
    BY <1>4, <2>1 DEF Idle, OpType, WriteInfo
  <2>5. Missing' = holes /\ Saved'
    BY <1>1, <2>1, <2>2, <2>4 DEF Missing, Unsaved, Saved
  <2>6. Readable(height, last, holes) /\ (height = 0 => last = <<>>)
    BY <1>1, <2>4 DEF Running
  <2>7. Readable(committed.height, committed.last, Missing)'
    BY <1>1, <2>1, <2>2, <2>5, <2>6
  <2>8. Readable(height, last, holes)'
    BY <1>1, <2>6
  <2> QED BY <1>1, <2>1, <2>2, <2>3, <2>4, <2>5, <2>6, <2>7, <2>8 DEF TypeOK, Running
<1> QED BY <1>2, <1>3, <1>4

\* The process dies: what is on disk is readable as the chain it will start with.
LEMMA CrashStep ==
  ASSUME StoreInv, Crash
  PROVE  StoreInv'
<1> USE DEF StoreInv, Adding, PopSteps, Saving
<1>1. /\ UNCHANGED <<files, committed>> /\ up /\ up' = FALSE /\ height' = 0
      /\ last' = <<>> /\ op' = Idle /\ died' = op.pc /\ holes' = Missing
  BY DEF Crash, Missing
<1>2. /\ Recovered' = Recovered /\ FileTypes' /\ <<>> \in Chains
      /\ op'.pc = "idle" /\ OpType(op')
  BY <1>1 DEF Recovered, FileTypes, files, Chains, Idle, OpType
<1>3. CASE op.pc = "write"
  <2>1. Recovered' = NoChain /\ NoChain.height = 0 /\ NoChain.last = <<>>
    BY <1>1, <1>2, <1>3 DEF Running, NoChain
  <2>2. Readable(Recovered.height, Recovered.last, holes)'
    BY <2>1 DEF Readable, Kept, Top
  <2> QED BY <1>1, <1>2, <1>3, <2>1, <2>2 DEF TypeOK, Dead
<1>4. CASE op.pc # "write"
  <2>1. Recovered = committed /\ Readable(committed.height, committed.last, Missing)
    BY <1>1, <1>4 DEF Running
  <2>2. Readable(Recovered.height, Recovered.last, holes)'
    BY <1>1, <1>2, <2>1 DEF Readable, files
  <2>3. committed.height = 0 => committed.last = <<>>
    BY <1>1, <1>4 DEF Running
  <2> QED BY <1>1, <1>2, <1>4, <2>1, <2>2, <2>3 DEF TypeOK, Dead
<1> QED BY <1>3, <1>4

\* Blockchain::new.
LEMMA RestartStep ==
  ASSUME StoreInv, Restart
  PROVE  StoreInv'
<1> USE DEF StoreInv, Adding, PopSteps, Saving
<1>1. /\ UNCHANGED <<op, files, holes>> /\ ~up /\ up' = TRUE
      /\ committed' = Recovered /\ height' = Recovered.height /\ last' = Recovered.last
      /\ op.pc = "idle"
  BY DEF Restart, Recovered, Dead
<1>2. Recovered' = Recovered /\ FileTypes' /\ Recovered \in [height : Nat, last : Chains]
  BY <1>1 DEF Recovered, FileTypes, files, TypeOK
<1>3. Readable(height, last, holes)' /\ Readable(committed.height, committed.last, holes)'
  BY <1>1, <1>2 DEF Dead, Readable, files
<1>4. Missing' = holes' /\ Saved'
  BY <1>1, <1>2 DEF Missing, Unsaved, Saved, Chain
<1> QED BY <1>1, <1>2, <1>3, <1>4 DEF TypeOK, Running, Dead

\* Every step of the program, and of the machine under it, keeps the store.
LEMMA StoreInvKept == StoreInv /\ [Next]_vars => StoreInv'
<1> SUFFICES ASSUME StoreInv, [Next]_vars PROVE StoreInv'
  OBVIOUS
<1>1. CASE (\E l \in Label : StartAdd(l)) \/ ExecuteSpend \/ ExecuteCreate
  BY <1>1, ExecuteStep
<1>2. CASE RenameBlock \/ RenameDiff \/ InsertIndex
  BY <1>2, StoreAddStep
<1>3. CASE SetAdded
  BY <1>3, SetAddedStep
<1>4. CASE StartPop \/ PopNotFound \/ RecallSpent \/ RecallCreated \/ RecallError
  BY <1>4, RecallStep
<1>5. CASE RemoveBlock \/ RemoveDiff \/ RemoveIndex
  BY <1>5, StorePopStep
<1>6. CASE SetPopped \/ PopIncomplete
  BY <1>6, SetPoppedStep
<1>7. CASE FinalDelete \/ TruncateInfo \/ WriteInfo
  BY <1>7, SaveStep
<1>8. CASE Crash
  BY <1>8, CrashStep
<1>9. CASE Restart
  BY <1>9, RestartStep
<1>10. CASE Flush \/ UNCHANGED vars
  <2>1. UNCHANGED <<up, height, last, op, files, committed, died, holes>>
    BY <1>10 DEF Flush, vars, memory, history
  <2>2. /\ Recovered' = Recovered /\ Chain' = Chain /\ (FileTypes' <=> FileTypes)
        /\ \A n, c, H : Readable(n, c, H)' <=> Readable(n, c, H)
        /\ (Saved' <=> Saved) /\ (Failed' <=> Failed)
    BY <2>1, StoreRests
  <2>3. Missing' = Missing
    BY <2>1 DEF Missing, Unsaved
  <2>4. UNCHANGED <<blockFile, diffFile, by_height>>
    BY <2>1 DEF files
  <2> QED BY <2>1, <2>2, <2>3, <2>4 DEF StoreInv, TypeOK, Running, Dead
<1> QED
  BY <1>1, <1>2, <1>3, <1>4, <1>5, <1>6, <1>7, <1>8, <1>9, <1>10 DEF Next

\* What a node finds in a directory that is empty.
LEMMA StoreInvInit == Init => StoreInv
<1> SUFFICES ASSUME Init PROVE StoreInv
  OBVIOUS
<1>1. <<>> \in Chains /\ Recovered = NoChain /\ NoChain.height = 0 /\ NoChain.last = <<>>
  BY DEF Chains, Recovered, Init, NoChain
<1>2. Readable(0, <<>>, holes)
  BY DEF Readable, Kept, Top
<1>3. NoChain \in [height : Nat, last : Chains] /\ Chain = NoChain
  BY <1>1 DEF NoChain, Chain, Init
<1>4. Missing = holes /\ OpType(op) /\ op.pc = "idle"
  BY DEF Init, Missing, Unsaved, OpType, Idle
<1> QED BY <1>1, <1>2, <1>3, <1>4 DEF Init, StoreInv, TypeOK, FileTypes, Running, Saved,
                                      Adding, PopSteps, Saving

\* The files, the index and the data of the chain go together at every step.
THEOREM StoreInductive == Spec => []StoreInv
<1>1. Init => StoreInv
  BY StoreInvInit
<1>2. StoreInv /\ [Next]_vars => StoreInv'
  BY StoreInvKept
<1> QED BY <1>1, <1>2, PTL DEF Spec

-----------------------------------------------------------------------------
\* Between two operations the file, the diff and the index entry of every block of
\* the chain can be read and are those of this chain, after any number of crashes
\* in the middle of add_block, pop_block and save_blockchain_data, and of pops that
\* failed because a crash had taken the block below.
THEOREM ChainIsReadable == Spec => []StoreReadable
<1>1. StoreInv => StoreReadable
  <2> SUFFICES ASSUME StoreInv, up, op = Idle,
                      NEW h \in 0..(height - 1) \ holes
               PROVE  /\ h \in DOMAIN blockFile /\ h \in DOMAIN diffFile /\ h \in DOMAIN by_height
                      /\ diffFile[h].block = blockFile[h] /\ by_height[h] = blockFile[h]
                      /\ Under(blockFile[h], last)
                      /\ h = height - 1 => blockFile[h] = last
                      /\ h = 0 => Len(blockFile[h]) = 1
                      /\ h > 0 /\ h - 1 \notin holes => Front(blockFile[h]) = blockFile[h - 1]
    BY DEF StoreReadable
  <2>1. op.pc = "idle"
    BY DEF Idle
  <2>2. Readable(height, last, holes)
    BY <2>1 DEF StoreInv, Running
  <2> QED BY <2>2 DEF Readable, Kept, Top
<1> QED BY <1>1, StoreInductive, PTL

\* A node that restarts has the chain of the last add_block or pop_block that
\* succeeded, whatever pops have failed since, or the empty one if it died while
\* blockchain-info.dat was empty.
THEOREM RestartFindsChain == Spec => ChainSurvives
<1> DEFINE A == ~up /\ up' => Chain' = IF died = "write" THEN NoChain ELSE committed
<1>1. StoreInv /\ [Next]_vars => [A]_vars
  <2> SUFFICES ASSUME StoreInv, Next, ~up, up' PROVE A
    OBVIOUS
  <2>1. Restart
    BY DEF Next, StartAdd, ExecuteSpend, ExecuteCreate, RenameBlock, RenameDiff,
           InsertIndex, SetAdded, StartPop, PopNotFound, vars, RecallSpent, RecallCreated, RecallError,
           RemoveBlock, RemoveDiff, RemoveIndex, SetPopped, PopIncomplete, FinalDelete, TruncateInfo,
           WriteInfo, Flush, Crash
  <2>2. height' = Recovered.height /\ last' = Recovered.last
    BY <2>1 DEF Restart, Recovered
  <2>3. Chain' = Recovered
    BY <2>2 DEF Chain, StoreInv, TypeOK
  <2> QED BY <2>3 DEF StoreInv, Dead
<1> HIDE DEF A
<1> QED BY <1>1, StoreInductive, PTL DEF Spec, ChainSurvives, A

-----------------------------------------------------------------------------
(* The unspent outputs, while no death of the process has torn them.       *)

\* Those of the transactions in S of the last block of a chain.
Outs(c, S) == IF c = <<>> THEN {} ELSE {<<c, k>> : k \in S}

\* What is unspent at each step of an operation: the transactions before k have
\* been executed, or undone, those after it have not.
Expected ==
  IF op.pc = "spend"
    THEN Outs(last, op.k..TxCount) \cup Outs(op.block, 1..(op.k - 1))
  ELSE IF op.pc = "create"
    THEN Outs(last, (op.k + 1)..TxCount) \cup Outs(op.block, 1..(op.k - 1))
  ELSE IF op.pc \in {"block", "diff", "index", "added"}
    THEN Outs(op.block, 1..TxCount)
  ELSE IF op.pc = "restore"
    THEN Outs(last, 1..TxCount) \cup Outs(Front(last), 1..(op.k - 1))
  ELSE IF op.pc = "remove"
    THEN Outs(last, op.k..TxCount) \cup Outs(Front(last), 1..TxCount)
  ELSE IF op.pc \in {"unblock", "undiff", "unindex", "popped"}
    THEN Outs(Front(last), 1..TxCount)
  ELSE Outs(last, 1..TxCount)

\* While pop_block undoes the transactions it has the diff of the last block, and
\* then it finds the block before.
Exact ==
  /\ holes = {} /\ op.k \in 1..TxCount
  /\ \A h \in DOMAIN diffFile : diffFile[h].from = Front(diffFile[h].block)
  /\ up => /\ Len(last) = height
           /\ op.pc \in Adding => op.from = last
           /\ op.pc \in {"restore", "remove"} => op.block = last /\ op.from = Front(last)
           /\ op.pc \in {"undiff", "unindex", "popped"} /\ height > 1 =>
                height - 2 \in DOMAIN blockFile /\ blockFile[height - 2] = Front(last)
           /\ utxos = Expected
  /\ ~up => /\ utxoDisk = Outs(Recovered.last, 1..TxCount)
            /\ Len(Recovered.last) = Recovered.height

OutInv == ~torn => Exact

\* The outputs of two groups of transactions together.
LEMMA OutsMore ==
  ASSUME NEW c, NEW S, NEW K, NEW W, \A j : j \in W <=> j \in S \/ j \in K
  PROVE  \A x : x \in Outs(c, W) <=> x \in Outs(c, S) \/ x \in Outs(c, K)
<1> DEFINE In(x, d, X) == d # <<>> /\ \E j \in X : x = <<d, j>>
<1>1. ASSUME NEW x, NEW d, NEW X PROVE x \in Outs(d, X) <=> In(x, d, X)
  BY DEF Outs
<1>2. ASSUME NEW x
      PROVE  In(x, c, W) <=> In(x, c, S) \/ In(x, c, K)
  OBVIOUS
<1> HIDE DEF In
<1> QED BY <1>1, <1>2

\* The outputs of all transactions but some.
LEMMA OutsFewer ==
  ASSUME NEW c, NEW S, NEW K, NEW W, \A j : j \in W <=> j \in S /\ j \notin K
  PROVE  \A x : x \in Outs(c, W) <=> x \in Outs(c, S) /\ x \notin Outs(c, K)
<1> DEFINE In(x, d, X) == d # <<>> /\ \E j \in X : x = <<d, j>>
<1>1. ASSUME NEW x, NEW d, NEW X PROVE x \in Outs(d, X) <=> In(x, d, X)
  BY DEF Outs
<1>2. ASSUME NEW x
      PROVE  In(x, c, W) <=> In(x, c, S) /\ ~In(x, c, K)
  OBVIOUS
<1> HIDE DEF In
<1> QED BY <1>1, <1>2

\* Two blocks have no output in common.
LEMMA OutsApart ==
  ASSUME NEW c, NEW S, NEW b, NEW U, b # c
  PROVE  \A x : x \notin Outs(c, S) \/ x \notin Outs(b, U)
BY DEF Outs

\* What the transactions of a block spend and create.
LEMMA SpentCreated ==
  ASSUME NEW c, NEW b, b # <<>>, NEW k
  PROVE  Spent(c, k) = Outs(c, {k}) /\ Created(b, k) = Outs(b, {k})
BY DEF Spent, Created, Outs

\* A block is not the one before it.
LEMMA FrontOther ==
  ASSUME NEW c \in Chains, c # <<>>
  PROVE  Front(c) # c
<1>1. Len(Front(c)) = Len(c) - 1 /\ Len(c) \in Nat \ {0}
  BY FrontProperties
<1> QED BY <1>1

\* add_block executes the transactions.
LEMMA OutsAdd ==
  ASSUME StoreInv, OutInv, ~torn',
         (\E l \in Label : StartAdd(l)) \/ ExecuteSpend \/ ExecuteCreate
  PROVE  Exact'
<1> USE DEF StoreInv
<1>1. UNCHANGED <<up, height, last, holes, diffFile>> /\ up /\ ~torn /\ Exact
  BY DEF StartAdd, ExecuteSpend, ExecuteCreate, history, files, OutInv
<1>2. last \in Chains /\ TxCount \in Nat \ {0} /\ OpType(op) /\ op.k \in 1..TxCount
      /\ utxos = Expected
  BY <1>1, DurabilityAssumption DEF TypeOK, Exact
<1>3. CASE \E l \in Label : StartAdd(l)
  <2>1. PICK l \in Label : StartAdd(l)
    BY <1>3
  <2>2. PICK c \in Sources \cup (IF last = <<>> \/ Sources = {} THEN {<<>>} ELSE {}) :
          op' = [pc |-> "spend", k |-> 1, block |-> Append(last, l), from |-> c]
    BY <2>1 DEF StartAdd
  <2>3. op.pc = "idle" /\ utxos' = utxos
    BY <2>1 DEF StartAdd, Idle
  <2>4. utxos = Outs(last, 1..TxCount)
    BY <1>2, <2>3 DEF Expected
  <2>5. c = last
    <3>1. \A x \in Sources : last # <<>> /\ x = last
      <4>1. ASSUME NEW v \in utxos PROVE last # <<>> /\ v[1] = last
        BY <2>4, <4>1 DEF Outs
      <4> QED BY <4>1 DEF Sources
    <3>2. last # <<>> => last \in Sources
      <4> SUFFICES ASSUME last # <<>> PROVE last \in Sources
        OBVIOUS
      <4>1. \A k \in 1..TxCount : <<last, k>> \in utxos
        BY <2>4 DEF Outs
      <4>2. <<last, 1>> \in utxos /\ <<last, 1>>[1] = last
        BY <1>2, <4>1
      <4> QED BY <4>1, <4>2 DEF Sources
    <3> QED BY <3>1, <3>2
  <2>6. Outs(Append(last, l), 1..(1 - 1)) = {}
    BY DEF Outs
  <2>7. op'.pc = "spend" /\ op'.k = 1 /\ op'.block = Append(last, l) /\ op'.from = last
    BY <2>2, <2>5
  <2>8. Expected' = Outs(last, 1..TxCount) \cup Outs(Append(last, l), 1..(1 - 1))
    BY <1>1, <2>7 DEF Expected
  <2>9. 1 \in 1..TxCount
    BY <1>2
  <2> QED BY <1>1, <2>3, <2>4, <2>6, <2>7, <2>8, <2>9 DEF Exact
<1>4. ASSUME op.pc \in {"spend", "create"}
      PROVE  /\ op.block \in Chains /\ op.block # <<>> /\ op.block # last /\ op.from = last
             /\ Spent(op.from, op.k) = Outs(last, {op.k})
             /\ Created(op.block, op.k) = Outs(op.block, {op.k})
  <2>1. PICK l \in Label : op.block = Append(last, l)
    BY <1>1, <1>4 DEF Running, Adding
  <2>2. op.block \in Chains /\ op.block # <<>> /\ Len(op.block) = Len(last) + 1 /\ Len(last) \in Nat
    BY <1>2, <2>1, AppendProperty
  <2>3. op.block # last /\ op.from = last
    BY <1>1, <1>4, <2>2 DEF Exact, Adding
  <2> QED BY <2>2, <2>3, SpentCreated
<1>5. CASE ExecuteSpend
  <2>1. /\ op.pc = "spend" /\ op'.pc = "create" /\ op'.k = op.k /\ op'.block = op.block
        /\ op'.from = op.from
        /\ utxos' = utxos \ Spent(op.from, op.k)
    BY <1>5, <1>2 DEF ExecuteSpend, Step, OpType
  <2>2. utxos = Outs(last, op.k..TxCount) \cup Outs(op.block, 1..(op.k - 1))
    BY <1>2, <2>1 DEF Expected
  <2>3. utxos' = Outs(last, (op.k + 1)..TxCount) \cup Outs(op.block, 1..(op.k - 1))
    <3>1. op.block # last
      BY <1>4, <2>1
    <3>2. \A x : x \in Outs(last, (op.k + 1)..TxCount)
                   <=> x \in Outs(last, op.k..TxCount) /\ x \notin Outs(last, {op.k})
      <4> DEFINE S == op.k..TxCount
                 K == {op.k}
                 W == (op.k + 1)..TxCount
      <4>1. \A j : j \in W <=> j \in S /\ j \notin K
        BY <1>2
      <4> HIDE DEF S, K, W
      <4>2. \A x : x \in Outs(last, W) <=> x \in Outs(last, S) /\ x \notin Outs(last, K)
        BY <4>1, OutsFewer
      <4> QED BY <4>2 DEF S, K, W
    <3>3. \A x : x \notin Outs(last, {op.k}) \/ x \notin Outs(op.block, 1..(op.k - 1))
      BY <3>1, OutsApart
    <3> QED BY <1>4, <2>1, <2>2, <3>2, <3>3
  <2> QED BY <1>1, <1>2, <1>4, <2>1, <2>3 DEF Exact, Expected
<1>6. CASE ExecuteCreate
  <2>1. /\ op.pc = "create" /\ op'.block = op.block /\ op'.from = op.from
        /\ utxos' = utxos \cup Created(op.block, op.k)
        /\ IF op.k = TxCount THEN op'.pc = "block" /\ op'.k = op.k
                             ELSE op'.pc = "spend" /\ op'.k = op.k + 1
    BY <1>6, <1>2 DEF ExecuteCreate, OpType
  <2>2. utxos = Outs(last, (op.k + 1)..TxCount) \cup Outs(op.block, 1..(op.k - 1))
    BY <1>2, <2>1 DEF Expected
  <2>3. utxos' = Outs(last, (op.k + 1)..TxCount) \cup Outs(op.block, 1..op.k)
    <3>1. op.block # last
      BY <1>4, <2>1
    <3>2. \A x : x \in Outs(op.block, 1..op.k)
                   <=> x \in Outs(op.block, 1..(op.k - 1)) \/ x \in Outs(op.block, {op.k})
      BY <1>2, OutsMore
    <3> QED BY <1>4, <2>1, <2>2, <3>2
  <2>4. CASE op.k = TxCount
    <3>1. (op.k + 1)..TxCount = {} /\ Outs(last, {}) = {}
      BY <1>2, <2>4 DEF Outs
    <3> QED BY <1>1, <1>2, <1>4, <2>1, <2>3, <2>4, <3>1 DEF Exact, Expected
  <2>5. CASE op.k # TxCount
    <3>1. op.k + 1 \in 1..TxCount /\ op.k + 1 - 1 = op.k
      BY <1>2, <2>5
    <3> QED BY <1>1, <1>2, <1>4, <2>1, <2>3, <2>5, <3>1 DEF Exact, Expected
  <2> QED BY <2>4, <2>5
<1> QED BY <1>3, <1>5, <1>6

\* pop_block undoes them.
LEMMA OutsPop ==
  ASSUME StoreInv, OutInv, ~torn', StartPop \/ RecallSpent \/ RecallCreated \/ RecallError
  PROVE  Exact'
<1> USE DEF StoreInv
<1>1. UNCHANGED <<up, height, last, holes, diffFile>> /\ up /\ ~torn /\ Exact
  BY DEF StartPop, RecallSpent, RecallCreated, RecallError, history, files, OutInv
<1>2. last \in Chains /\ TxCount \in Nat \ {0} /\ OpType(op) /\ op.k \in 1..TxCount
      /\ utxos = Expected /\ holes = {} /\ Len(last) = height /\ height \in Nat
  BY <1>1, DurabilityAssumption DEF TypeOK, Exact
<1>3. CASE StartPop
  <2> DEFINE d == diffFile[height - 1]
  <2>1. /\ op.pc = "idle" /\ height # 0 /\ height - 1 \in DOMAIN diffFile /\ utxos' = utxos
        /\ op' = [pc |-> "restore", k |-> 1, block |-> d.block, from |-> d.from]
    BY <1>3 DEF StartPop, Idle
  <2>2. d.block = last /\ d.from = Front(last)
    <3>1. Readable(height, last, holes)
      BY <1>1, <2>1 DEF Running
    <3>2. height - 1 \in 0..(height - 1) \ holes
      BY <1>2, <2>1
    <3>3. d.block = last
      BY <3>1, <3>2 DEF Readable, Kept, Top
    <3> QED BY <1>1, <2>1, <3>3 DEF Exact
  <2>3. Outs(Front(last), 1..(1 - 1)) = {}
    BY DEF Outs
  <2> HIDE DEF d
  <2>4. op'.pc = "restore" /\ op'.k = 1 /\ op'.block = last /\ op'.from = Front(last)
    BY <2>1, <2>2
  <2>5. Expected' = Outs(last, 1..TxCount) \cup Outs(Front(last), 1..(1 - 1))
    BY <1>1, <2>4 DEF Expected
  <2>6. utxos = Outs(last, 1..TxCount) /\ 1 \in 1..TxCount
    BY <1>2, <2>1 DEF Expected
  <2>7. utxos' = Expected'
    BY <2>1, <2>3, <2>5, <2>6
  <2> QED BY <1>1, <2>4, <2>6, <2>7 DEF Exact, Adding
<1>4. ASSUME op.pc \in {"restore", "remove"}
      PROVE  /\ op.block = last /\ last # <<>> /\ Front(last) # last /\ op.from = Front(last)
             /\ Spent(op.from, op.k) = Outs(Front(last), {op.k})
             /\ Created(last, op.k) = Outs(last, {op.k})
  <2>1. op.block = last /\ op.from = Front(last) /\ height # 0
    BY <1>1, <1>4 DEF Exact, Running, PopSteps
  <2>2. last # <<>>
    BY <1>2, <2>1, EmptySeq
  <2> QED BY <1>2, <2>1, <2>2, SpentCreated, FrontOther
<1>5. CASE RecallSpent
  <2>1. /\ op.pc = "restore" /\ op'.block = op.block /\ op'.from = op.from
        /\ utxos' = utxos \cup Spent(op.from, op.k)
        /\ IF op.k = TxCount THEN op'.pc = "remove" /\ op'.k = 1
                             ELSE op'.pc = "restore" /\ op'.k = op.k + 1
    BY <1>5, <1>2 DEF RecallSpent, OpType
  <2>2. utxos = Outs(last, 1..TxCount) \cup Outs(Front(last), 1..(op.k - 1))
    BY <1>2, <2>1 DEF Expected
  <2>3. utxos' = Outs(last, 1..TxCount) \cup Outs(Front(last), 1..op.k)
    <3>1. Front(last) # last
      BY <1>4, <2>1
    <3>2. \A x : x \in Outs(Front(last), 1..op.k)
                   <=> x \in Outs(Front(last), 1..(op.k - 1)) \/ x \in Outs(Front(last), {op.k})
      BY <1>2, OutsMore
    <3> QED BY <1>4, <2>1, <2>2, <3>2
  <2>4. CASE op.k = TxCount
    <3>1. op'.pc = "remove" /\ op'.k = 1 /\ 1 \in 1..TxCount
      BY <1>2, <2>1, <2>4
    <3>2. Expected' = Outs(last, 1..TxCount) \cup Outs(Front(last), 1..TxCount)
      BY <1>1, <3>1 DEF Expected
    <3>3. utxos' = Expected'
      BY <2>3, <2>4, <3>2
    <3> QED BY <1>1, <1>4, <2>1, <3>1, <3>3 DEF Exact, Adding
  <2>5. CASE op.k # TxCount
    <3>1. op.k + 1 \in 1..TxCount /\ op.k + 1 - 1 = op.k
      BY <1>2, <2>5
    <3> QED BY <1>1, <1>2, <1>4, <2>1, <2>3, <2>5, <3>1 DEF Exact, Expected
  <2> QED BY <2>4, <2>5
<1>6. ASSUME op.pc = "remove"
      PROVE  utxos = Outs(last, op.k..TxCount) \cup Outs(Front(last), 1..TxCount)
  BY <1>2, <1>6 DEF Expected
<1>7. CASE RecallCreated
  <2>1. /\ op.pc = "remove" /\ op'.block = op.block /\ op'.from = op.from
        /\ utxos' = utxos \ Created(op.block, op.k)
        /\ IF op.k = TxCount THEN op'.pc = "unblock" /\ op'.k = op.k
                             ELSE op'.pc = "remove" /\ op'.k = op.k + 1
    BY <1>7, <1>2 DEF RecallCreated, OpType
  <2>2. utxos' = Outs(last, (op.k + 1)..TxCount) \cup Outs(Front(last), 1..TxCount)
    <3>1. Front(last) # last
      BY <1>4, <2>1
    <3>2. \A x : x \in Outs(last, (op.k + 1)..TxCount)
                   <=> x \in Outs(last, op.k..TxCount) /\ x \notin Outs(last, {op.k})
      <4> DEFINE S == op.k..TxCount
                 K == {op.k}
                 W == (op.k + 1)..TxCount
      <4>1. \A j : j \in W <=> j \in S /\ j \notin K
        BY <1>2
      <4> HIDE DEF S, K, W
      <4>2. \A x : x \in Outs(last, W) <=> x \in Outs(last, S) /\ x \notin Outs(last, K)
        BY <4>1, OutsFewer
      <4> QED BY <4>2 DEF S, K, W
    <3>3. \A x : x \notin Outs(last, {op.k}) \/ x \notin Outs(Front(last), 1..TxCount)
      BY <3>1, OutsApart
    <3> QED BY <1>4, <1>6, <2>1, <3>2, <3>3
  <2>3. CASE op.k = TxCount
    <3>1. (op.k + 1)..TxCount = {} /\ Outs(last, {}) = {}
      BY <1>2, <2>3 DEF Outs
    <3> QED BY <1>1, <1>2, <2>1, <2>2, <2>3, <3>1 DEF Exact, Expected
  <2>4. CASE op.k # TxCount
    <3>1. op.k + 1 \in 1..TxCount
      BY <1>2, <2>4
    <3> QED BY <1>1, <1>2, <1>4, <2>1, <2>2, <2>4, <3>1 DEF Exact, Expected
  <2> QED BY <2>3, <2>4
<1>8. CASE RecallError
  \* Nothing that the block created can be missing.
  <2>1. op.pc = "remove" /\ ~(Created(last, op.k) \subseteq utxos)
    BY <1>4, <1>8 DEF RecallError
  <2>2. <<last, op.k>> \in Outs(last, op.k..TxCount)
    BY <1>2, <1>4, <2>1 DEF Outs
  <2> QED BY <1>4, <1>6, <2>1, <2>2 DEF Created
<1> QED BY <1>3, <1>5, <1>7, <1>8

\* The block store, when it adds a block.
LEMMA OutsStoreAdd ==
  ASSUME StoreInv, OutInv, ~torn', RenameBlock \/ RenameDiff \/ InsertIndex \/ SetAdded
  PROVE  Exact'
<1> USE DEF StoreInv, Adding, PopSteps, Saving
<1>1. /\ UNCHANGED <<up, utxos>> /\ up /\ ~torn /\ Exact
      /\ op.pc \in {"block", "diff", "index", "added"}
  BY DEF RenameBlock, RenameDiff, InsertIndex, SetAdded, history, OutInv
<1>2. /\ op.k \in 1..TxCount /\ utxos = Expected /\ holes' = {} /\ op.from = last
      /\ height \in Nat /\ last \in Chains /\ Len(last) = height
  <2>1. holes' = holes \/ holes' = holes \ {height}
    BY DEF RenameBlock, RenameDiff, InsertIndex, SetAdded, history
  <2> QED BY <1>1, <2>1 DEF TypeOK, Exact
<1>3. PICK l \in Label : op.block = Append(last, l)
  BY <1>1 DEF Running
<1>4. Front(op.block) = last /\ Len(op.block) = height + 1
  <2>1. \A d \in Chains : \A m \in Label : \A a : a = Append(d, m) =>
          Front(a) = d /\ Len(a) = Len(d) + 1
    BY AppendProperty
  <2> QED BY <1>2, <1>3, <2>1
<1>5. \A h \in DOMAIN diffFile' : diffFile'[h].from = Front(diffFile'[h].block)
  <2>1. CASE RenameDiff
    BY <1>1, <1>2, <1>4, <2>1 DEF RenameDiff, Put, Exact
  <2>2. CASE RenameBlock \/ InsertIndex \/ SetAdded
    BY <1>1, <2>2 DEF RenameBlock, InsertIndex, SetAdded, files, Exact
  <2> QED BY <2>1, <2>2
<1>6. CASE RenameBlock \/ RenameDiff \/ InsertIndex
  <2>1. /\ op'.pc \in {"diff", "index", "added"} /\ UNCHANGED <<height, last>>
        /\ op'.k = op.k /\ op'.block = op.block /\ op'.from = op.from
    BY <1>6, StepMoves DEF RenameBlock, RenameDiff, InsertIndex
  <2> QED BY <1>1, <1>2, <1>5, <2>1 DEF Exact, Expected
<1>7. CASE SetAdded
  <2>1. op'.pc = "truncate" /\ op'.k = op.k /\ last' = op.block /\ height' = height + 1
    BY <1>7, StepMoves DEF SetAdded
  <2> QED BY <1>1, <1>2, <1>4, <1>5, <2>1 DEF Exact, Expected
<1> QED BY <1>6, <1>7

\* The block store, when it pops one: as no block is gone it finds the one below.
LEMMA OutsStorePop ==
  ASSUME StoreInv, OutInv, ~torn',
         RemoveBlock \/ RemoveDiff \/ RemoveIndex \/ SetPopped \/ PopIncomplete
  PROVE  Exact'
<1> USE DEF StoreInv, Adding, PopSteps, Saving
<1>1. /\ UNCHANGED <<up, utxos>> /\ up /\ ~torn /\ Exact
      /\ op.pc \in {"unblock", "undiff", "unindex", "popped"}
  BY DEF RemoveBlock, RemoveDiff, RemoveIndex, SetPopped, PopIncomplete, history, OutInv
<1>2. /\ op.k \in 1..TxCount /\ utxos = Outs(Front(last), 1..TxCount) /\ holes = {}
      /\ height \in Nat \ {0} /\ last \in Chains /\ last # <<>> /\ Len(last) = height
      /\ Len(Front(last)) = height - 1
  <2>1. /\ op.k \in 1..TxCount /\ utxos = Outs(Front(last), 1..TxCount) /\ holes = {}
        /\ height \in Nat \ {0} /\ last \in Chains /\ Len(last) = height
    BY <1>1 DEF TypeOK, Exact, Expected, Running
  <2>2. last # <<>>
    BY <2>1, EmptySeq
  <2> QED BY <2>1, <2>2, FrontProperties
<1>3. \A h \in DOMAIN diffFile' : diffFile'[h].from = Front(diffFile'[h].block)
  BY <1>1 DEF RemoveBlock, RemoveDiff, RemoveIndex, SetPopped, PopIncomplete, files, Delete, Exact
<1>4. CASE RemoveBlock \/ RemoveDiff \/ RemoveIndex
  <2>1. /\ op'.pc \in {"undiff", "unindex", "popped"} /\ op'.k = op.k
        /\ UNCHANGED <<height, last, holes>>
    BY <1>4, StepMoves DEF RemoveBlock, RemoveDiff, RemoveIndex, history
  <2>2. ASSUME height > 1
        PROVE  height - 2 \in DOMAIN blockFile' /\ blockFile'[height - 2] = Front(last)
    <3>1. CASE RemoveBlock
      <4>1. Readable(height, last, holes)
        BY <1>1, <3>1 DEF Running, RemoveBlock
      <4>2. /\ height - 1 \in 0..(height - 1) \ holes /\ height - 2 \in 0..(height - 1) \ holes
            /\ height - 1 > 0 /\ height - 1 - 1 = height - 2 /\ height - 2 \notin holes
        BY <1>2, <2>2
      <4>3. height - 2 \in DOMAIN blockFile /\ blockFile[height - 1] = last
        BY <4>1, <4>2 DEF Readable, Kept, Top
      <4>4. Front(blockFile[height - 1]) = blockFile[height - 2]
        BY <4>1, <4>2 DEF Readable, Kept
      <4> QED BY <1>2, <3>1, <4>3, <4>4 DEF RemoveBlock, Delete
    <3>2. CASE RemoveDiff \/ RemoveIndex
      BY <1>1, <2>2, <3>2 DEF RemoveDiff, RemoveIndex, Exact
    <3> QED BY <1>4, <3>1, <3>2
  <2> QED BY <1>1, <1>2, <1>3, <2>1, <2>2 DEF Exact, Expected
<1>5. CASE SetPopped
  <2>1. /\ op.pc = "popped" /\ op'.pc = "delete" /\ op'.k = op.k /\ height' = height - 1
        /\ holes' = holes
    BY <1>5, StepMoves DEF SetPopped, history
  <2>2. last' = Front(last)
    <3>1. CASE height' = 0 /\ last' = <<>>
      <4>1. Len(Front(last)) = 0 /\ Front(last) \in Chains
        BY <1>2, <2>1, <3>1, FrontProperties
      <4> QED BY <3>1, <4>1, EmptySeq DEF Chains
    <3>2. CASE height' # 0 /\ last' = blockFile[height' - 1]
      <4>1. height > 1 /\ height' - 1 = height - 2
        BY <1>2, <2>1, <3>2
      <4> QED BY <1>1, <2>1, <3>2, <4>1 DEF Exact
    <3> QED BY <1>5, <3>1, <3>2 DEF SetPopped
  <2> QED BY <1>1, <1>2, <1>3, <2>1, <2>2 DEF Exact, Expected
<1>6. CASE PopIncomplete
  <2>1. height > 1 /\ height - 1 - 1 \notin DOMAIN blockFile /\ op.pc = "popped"
    BY <1>2, <1>6 DEF PopIncomplete
  <2>2. height - 2 \in DOMAIN blockFile /\ height - 1 - 1 = height - 2
    BY <1>1, <1>2, <2>1 DEF Exact
  <2> QED BY <2>1, <2>2
<1> QED BY <1>4, <1>5, <1>6

\* save_blockchain_data.
LEMMA OutsSave ==
  ASSUME StoreInv, OutInv, ~torn', FinalDelete \/ TruncateInfo \/ WriteInfo
  PROVE  Exact'
<1> USE DEF StoreInv, Adding, PopSteps, Saving
<1>1. UNCHANGED <<up, height, last, utxos, diffFile, holes>> /\ up /\ ~torn /\ Exact
  BY DEF FinalDelete, TruncateInfo, WriteInfo, history, files, OutInv
<1>2. CASE FinalDelete \/ TruncateInfo
  <2>1. /\ op.pc \in {"delete", "truncate"} /\ op'.pc \in {"truncate", "write"}
        /\ op'.k = op.k
    BY <1>2, StepMoves DEF FinalDelete, TruncateInfo
  <2> QED BY <1>1, <2>1 DEF Exact, Expected
<1>3. CASE WriteInfo
  <2>1. op.pc = "write" /\ op'.pc = "idle" /\ op'.k = 1
    BY <1>3 DEF WriteInfo, Idle
  <2>2. 1 \in 1..TxCount
    BY DurabilityAssumption
  <2> QED BY <1>1, <2>1, <2>2 DEF Exact, Expected
<1> QED BY <1>2, <1>3

\* The process dies between two operations with all outputs saved, and restarts.
LEMMA OutsSurvive ==
  ASSUME StoreInv, OutInv, ~torn', Crash \/ Restart
  PROVE  Exact'
<1> USE DEF StoreInv
<1>1. ~torn /\ Exact
  <2>1. ~torn
    <3>1. CASE Crash
      <4>1. torn' = (torn \/ op.pc # "idle" \/ utxoDisk # utxos)
        BY <3>1 DEF Crash
      <4> QED BY <4>1
    <3>2. CASE Restart
      BY <3>2 DEF Restart
    <3> QED BY <3>1, <3>2
  <2> QED BY <2>1 DEF OutInv
<1>2. Recovered' = Recovered
  BY DEF Crash, Restart, files, Recovered
<1>3. CASE Crash
  <2>1. /\ up /\ op.pc = "idle" /\ utxoDisk = utxos /\ up' = FALSE /\ utxoDisk' = utxoDisk
        /\ holes' = holes /\ op'.k \in 1..TxCount /\ diffFile' = diffFile
    <3>1. torn' = (torn \/ op.pc # "idle" \/ utxoDisk # utxos)
      BY <1>3 DEF Crash
    <3>2. op.pc = "idle" /\ utxoDisk = utxos
      BY <3>1
    <3>3. 1 \in 1..TxCount /\ op' = Idle
      BY <1>3, DurabilityAssumption DEF Crash
    <3> QED BY <1>3, <3>2, <3>3 DEF Crash, Unsaved, Idle, files
  <2>2. utxos = Outs(last, 1..TxCount) /\ Recovered = Chain /\ Len(last) = height /\ holes = {}
    <3>1. utxos = Outs(last, 1..TxCount) /\ Len(last) = height /\ holes = {}
      BY <1>1, <2>1 DEF Exact, Expected
    <3>2. Recovered = committed /\ Saved
      BY <2>1, <3>1 DEF Running, Failed
    <3> QED BY <3>1, <3>2 DEF Saved
  <2>3. Recovered'.last = last /\ Recovered'.height = height
    BY <1>2, <2>2 DEF Chain
  <2> QED BY <1>1, <2>1, <2>2, <2>3 DEF Exact
<1>4. CASE Restart
  <2>1. /\ ~up /\ up' = TRUE /\ utxos' = utxoDisk
        /\ last' = Recovered.last /\ height' = Recovered.height
        /\ op' = op /\ op.pc = "idle" /\ holes' = holes /\ diffFile' = diffFile
    BY <1>4 DEF Restart, Recovered, Dead, files
  <2>2. Expected' = Outs(Recovered.last, 1..TxCount)
    BY <2>1 DEF Expected
  <2>3. utxos' = Expected' /\ Len(last') = height'
    BY <1>1, <2>1, <2>2 DEF Exact
  <2> QED BY <1>1, <2>1, <2>3 DEF Exact, Adding
<1> QED BY <1>3, <1>4

\* Every step keeps the outputs exact, or tears them.
LEMMA OutInvKept == StoreInv /\ OutInv /\ [Next]_vars => OutInv'
<1> SUFFICES ASSUME StoreInv, OutInv, [Next]_vars, ~torn' PROVE Exact'
  BY DEF OutInv
<1>1. CASE (\E l \in Label : StartAdd(l)) \/ ExecuteSpend \/ ExecuteCreate
  BY <1>1, OutsAdd
<1>2. CASE StartPop \/ RecallSpent \/ RecallCreated \/ RecallError
  BY <1>2, OutsPop
<1>3. CASE RenameBlock \/ RenameDiff \/ InsertIndex \/ SetAdded
  BY <1>3, OutsStoreAdd
<1>6. CASE RemoveBlock \/ RemoveDiff \/ RemoveIndex \/ SetPopped \/ PopIncomplete
  BY <1>6, OutsStorePop
<1>7. CASE FinalDelete \/ TruncateInfo \/ WriteInfo
  BY <1>7, OutsSave
<1>4. CASE Crash \/ Restart
  BY <1>4, OutsSurvive
<1>5. CASE Flush \/ PopNotFound \/ UNCHANGED vars
  <2>1. /\ UNCHANGED <<up, height, last, op, utxos, info, blockFile, diffFile, holes, torn>>
        /\ up => utxoDisk' \in {utxoDisk, utxos}
        /\ ~up => utxoDisk' = utxoDisk
    BY <1>5 DEF Flush, PopNotFound, vars, memory, files, history
  <2>2. Expected' = Expected /\ Recovered' = Recovered
    BY <2>1 DEF Expected, Recovered
  <2> QED BY <2>1, <2>2 DEF OutInv, Exact
<1> QED BY <1>1, <1>2, <1>3, <1>4, <1>5, <1>6, <1>7 DEF Next

\* The outputs follow the chain through add_block, pop_block and their steps.
THEOREM OutsInductive == Spec => []OutInv
<1>1. Init => OutInv
  <2> SUFFICES ASSUME Init PROVE Exact
    BY DEF OutInv
  <2>1. op.k = 1 /\ op.pc = "idle" /\ 1 \in 1..TxCount /\ Len(<<>>) = 0
    BY DurabilityAssumption DEF Init, Idle
  <2>2. Expected = {}
    BY <2>1 DEF Init, Expected, Outs
  <2>3. DOMAIN diffFile = {}
    BY DEF Init
  <2> QED BY <2>1, <2>2, <2>3 DEF Init, Exact, Adding
<1>2. StoreInv /\ OutInv /\ [Next]_vars => OutInv'
  BY OutInvKept
<1> QED BY <1>1, <1>2, StoreInductive, PTL DEF Spec

\* Between two operations the unspent outputs are exactly those of the chain, after
\* any number of restarts, if the process died between operations only and sled had
\* saved what the last pop put back.
THEOREM OutputsAreExact == Spec => []OutputsExact
<1>1. OutInv => OutputsExact
  <2> SUFFICES ASSUME Exact, up, op = Idle PROVE utxos = OutputsOf(last)
    BY DEF OutInv, OutputsExact
  <2>1. op.pc = "idle"
    BY DEF Idle
  <2> QED BY <2>1 DEF Exact, Expected, Outs, OutputsOf
<1> QED BY <1>1, OutsInductive, PTL
=============================================================================
