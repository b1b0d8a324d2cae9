------------------------------ MODULE ApiProofs ------------------------------
(***************************************************************************)
(* Proofs about Api, for any number of callers, any page size and any      *)
(* capacities: a listener gets the events without a gap, a call gets its   *)
(* own answer unless it was overtaken or another one was dropped, and the  *)
(* pages of a listing leave out nothing that was there all the time.       *)
(***************************************************************************)
EXTENDS Api, SequenceTheorems, TLAPS

Tx == Nat \X Nat
Item == Tx \cup Nat
Fetched == Kinds \cup {"block"}
Busy == {"lock", "write", "gap", "read"}

CallType ==
  {k \in [pc : Busy \cup {"idle", "ok", "err", "done"}, kind : Fetched \cup {None},
          page : Item, max : Nat \cup {None}, got : Seq(Item), own : BOOLEAN,
          there : Seq(Item), removed : BOOLEAN] :
     k.pc \in Busy => k.kind \in Fetched /\ (k.kind # "block" => k.page \in Nat)}
Request ==
  {r \in [for : Caller \cup {None}, kind : Fetched \cup {"subscribe", "cut"}, page : Item] :
     r.kind \notin {"block", "cut"} => r.page \in Nat}
Message ==
  [kind : Fetched \cup {"event"}, items : Seq(Item), next : Nat \cup {None},
   for : Caller \cup {None}]
StreamType == [on : BOOLEAN, first : Nat \ {0}, next : Nat \ {0}, lagged : BOOLEAN]
ListenerType == [pc : {"off", "ask", "on", "err", "stopped"}, got : Seq(Item)]

TypeOK ==
  /\ light \in BOOLEAN /\ up \in BOOLEAN
  /\ lock \in Seq(Caller)
  /\ call \in [Caller -> CallType]
  /\ inbox \in Seq(Request) /\ outbox \in Seq(Message)
  /\ chain \in Seq(Tx) /\ pool \in Seq(Nat) /\ events \in Seq(Tx)
  /\ stream \in StreamType /\ listener \in ListenerType
  /\ changes \in Nat
  /\ overtaken \in BOOLEAN /\ stale \in BOOLEAN

\* A task is in the queue for the stream once, while it writes or reads.
Locking ==
  /\ \A i, j \in DOMAIN lock : lock[i] = lock[j] => i = j
  /\ \A c \in Caller : (\E i \in DOMAIN lock : lock[i] = c) <=> call[c].pc \in {"write", "read"}

\* The client has lost its place in the responses, or the node in the requests, only
\* after a call was dropped.
Framing ==
  /\ frame \in {"start", "inside", "cut", "lost"}
  /\ frame \in {"cut", "lost"} => stale
  /\ \A i \in DOMAIN inbox : inbox[i].kind = "cut" => stale

BaseInv == TypeOK /\ Locking /\ Framing

\* What a call does at the beginning or the end of a message, and in the middle of one
\* that will not be read or written to its end.
Plain(c) == Call(c) \/ Lock(c) \/ Write(c) \/ Read(c) \/ Return(c) \/ Drop(c)
Strays(c) == ReadLost(c) \/ ReadFails(c) \/ DropWriting(c) \/ DropReading(c)

-----------------------------------------------------------------------------
(* The event stream.                                                       *)

\* Nothing was sent as an event yet.
Fresh ==
  /\ stream = [on |-> FALSE, first |-> 1, next |-> 1, lagged |-> FALSE]
  /\ listener.got = <<>>
  /\ \A i \in DOMAIN outbox : outbox[i].kind # "event"

\* A client that has become a listener sends one last request and makes no calls.
Converted ==
  /\ listener.pc \in {"off", "ask"} \/ inbox # <<>> => Fresh
  /\ \A i \in DOMAIN inbox :
       inbox[i].kind = "subscribe" => i = Len(inbox) /\ listener.pc \notin {"off", "ask"}
  /\ listener.pc # "off" => \A c \in Caller : call[c].pc \in {"idle", "done"}

\* The event on the way at place i of outbox, counted back from the last one sent.
EventAt(i) == stream.next - 1 - (Len(outbox) - i)
Heard == stream.first + Len(listener.got)

\* Every event that was sent is on the way or was heard.
Streaming ==
  /\ Heard <= stream.next /\ stream.next <= Len(events) + 1
  /\ \A i \in DOMAIN outbox : outbox[i].kind = "event" =>
       EventAt(i) >= Heard /\ outbox[i].items = <<events[EventAt(i)]>>
  /\ listener.pc = "on" /\ frame = "start" => Heard >= stream.next - Len(outbox)
  /\ EventsContiguous

EventInv == BaseInv /\ Converted /\ Streaming

-----------------------------------------------------------------------------
(* Whose answer it is.                                                     *)

\* Whose request, or answer to it, is the k-th that is on its way to the client.
Fors ==
  [k \in 1..(Len(outbox) + Len(inbox)) |->
     IF k <= Len(outbox) THEN outbox[k].for ELSE inbox[k - Len(outbox)].for]

Reading(c) == call[c].pc = "read"
Awaiting(c) == call[c].pc \in {"gap", "read"}

Before(d, c) == \E i, j \in DOMAIN lock : i < j /\ lock[i] = d /\ lock[j] = c

\* What comes before the answer to reader c belongs to readers before it in the queue.
InTurn(c) ==
  \A k \in DOMAIN Fors :
    (\E l \in 1..k : Fors[l] = c) \/ (Reading(Fors[k]) /\ Before(Fors[k], c))

Turns ==
  /\ \A k, l \in DOMAIN Fors : Fors[k] = Fors[l] => k = l
  /\ \A k \in DOMAIN Fors : Fors[k] \in Caller /\ Awaiting(Fors[k])
  /\ up => \A c \in Caller : Awaiting(c) => \E k \in DOMAIN Fors : Fors[k] = c
  /\ \A c \in Caller : Reading(c) => InTurn(c)

TurnInv ==
  /\ EventInv
  /\ ~up => inbox = <<>>
  /\ Undisturbed /\ listener.pc = "off" => Turns
  /\ OwnAnswer

-----------------------------------------------------------------------------
(* What the pages leave out.                                               *)

\* The list that is served in pages, in the order of the pages.
Listing(kind, ch, po) == IF kind = "list" THEN Reverse(ch) ELSE po

\* x comes after the first n entries of s.
Beyond(x, s, n) == \E i \in DOMAIN s : s[i] = x /\ i > n

\* What a call that nothing was removed from still has before it.
Ahead(k, ch, po) ==
  /\ k.kind \in {"list", "pool"} => \A x \in Range(k.there) :
       x \in Range(k.got) \/ Beyond(x, Listing(k.kind, ch, po), k.page * PAGE_SIZE)
  /\ k.kind = "hash" => k.page = 0 /\ (k.there # <<>> => ch # <<>>)
  /\ k.kind = "block" => k.page \in Range(ch)

\* The response m carries call k on.
Carries(k, m, ch, po) ==
  /\ k.kind \in {"list", "pool"} => \A x \in Range(k.there) :
       \/ x \in Range(k.got) \cup Range(m.items)
       \/ m.next # None /\ Beyond(x, Listing(k.kind, ch, po), m.next * PAGE_SIZE)
  /\ k.kind = "hash" => IF m.items = <<>> THEN k.there = <<>> ELSE m.items[1] \in Range(ch)
  /\ k.kind = "block" => m.items # <<>>

\* Call k has everything it asked for.
Complete(k) ==
  /\ k.kind \in {"list", "pool"} /\ k.max = None => Range(k.there) \subseteq Range(k.got)
  /\ k.kind = "hash" => k.there = <<>>
  /\ k.kind = "block" => k.got # <<>>

\* Every request and every response is about the page that its call stands at.
Paging ==
  /\ \A c \in Caller :
       call[c].pc \in Busy /\ ~call[c].removed => Ahead(call[c], chain, pool)
  /\ \A i \in DOMAIN inbox :
       LET k == call[inbox[i].for] IN inbox[i].kind = k.kind /\ inbox[i].page = k.page
  /\ \A i \in DOMAIN outbox :
       LET k == call[outbox[i].for] IN
       outbox[i].kind = k.kind /\ (~k.removed => Carries(k, outbox[i], chain, pool))

PageInv ==
  /\ TurnInv /\ NothingLeftOut
  /\ Undisturbed /\ listener.pc = "off" => Paging

-----------------------------------------------------------------------------
(* Lists.                                                                  *)

\* InsertAt puts one element in and moves those from its place on by one.
LEMMA InsertProperties ==
  ASSUME NEW S, NEW s \in Seq(S), NEW i \in 1..(Len(s) + 1), NEW e \in S
  PROVE  /\ InsertAt(s, i, e) \in Seq(S)
         /\ Len(InsertAt(s, i, e)) = Len(s) + 1
         /\ \A j \in 1..Len(s) : j < i => InsertAt(s, i, e)[j] = s[j]
         /\ InsertAt(s, i, e)[i] = e
         /\ \A j \in 1..Len(s) : j >= i => InsertAt(s, i, e)[j + 1] = s[j]
<1> DEFINE a == SubSeq(s, 1, i - 1)
           b == SubSeq(s, i, Len(s))
           ae == a \o <<e>>
<1>1. /\ a \in Seq(S) /\ Len(a) = i - 1
      /\ \A j \in 1..(i - 1) : a[j] = s[j]
  <2>1. \A j \in 1..(i - 1) : s[j] \in S
    BY LenProperties, ElementOfSeq
  <2>2. 1 \in Int /\ i - 1 \in Int /\ (i - 1) - 1 + 1 = i - 1
    BY LenProperties
  <2> HIDE DEF a
  <2>3. /\ a \in Seq(S) /\ Len(a) = IF 1 <= i - 1 THEN (i - 1) - 1 + 1 ELSE 0
        /\ \A j \in 1..((i - 1) - 1 + 1) : a[j] = s[1 + j - 1]
    BY <2>1, <2>2, SubSeqProperties DEF a
  <2> QED BY <2>2, <2>3, LenProperties
<1>2. /\ b \in Seq(S) /\ Len(b) = Len(s) - i + 1
      /\ \A j \in 1..(Len(s) - i + 1) : b[j] = s[i + j - 1]
  <2>1. \A j \in i..Len(s) : s[j] \in S
    BY LenProperties, ElementOfSeq
  <2>2. i \in Int /\ Len(s) \in Int
    BY LenProperties
  <2> HIDE DEF b
  <2>3. /\ b \in Seq(S) /\ Len(b) = IF i <= Len(s) THEN Len(s) - i + 1 ELSE 0
        /\ \A j \in 1..(Len(s) - i + 1) : b[j] = s[i + j - 1]
    BY <2>1, <2>2, SubSeqProperties DEF b
  <2> QED BY <2>2, <2>3, LenProperties
<1>3. <<e>> \in Seq(S) /\ Len(<<e>>) = 1 /\ <<e>>[1] = e
  OBVIOUS
<1> HIDE DEF a, b
<1>4. /\ ae \in Seq(S) /\ Len(ae) = i
      /\ \A j \in 1..i : ae[j] = IF j < i THEN s[j] ELSE e
  <2>1. /\ ae \in Seq(S) /\ Len(ae) = Len(a) + Len(<<e>>)
        /\ \A j \in 1..(Len(a) + Len(<<e>>)) :
             ae[j] = IF j <= Len(a) THEN a[j] ELSE <<e>>[j - Len(a)]
    BY <1>1, <1>3, ConcatProperties
  <2> HIDE DEF ae
  <2> QED BY <1>1, <1>3, <2>1, LenProperties
<1> HIDE DEF ae
<1>5. /\ ae \o b \in Seq(S) /\ Len(ae \o b) = Len(ae) + Len(b)
      /\ \A j \in 1..(Len(ae) + Len(b)) : (ae \o b)[j] = IF j <= Len(ae) THEN ae[j] ELSE b[j - Len(ae)]
  BY <1>2, <1>4, ConcatProperties
<1>6. InsertAt(s, i, e) = ae \o b
  BY DEF InsertAt, ae, a, b
<1>7. /\ InsertAt(s, i, e) \in Seq(S) /\ Len(InsertAt(s, i, e)) = Len(s) + 1
      /\ \A j \in 1..(Len(s) + 1) :
           InsertAt(s, i, e)[j] = IF j < i THEN s[j] ELSE IF j = i THEN e ELSE s[j - 1]
  BY <1>2, <1>4, <1>5, <1>6, LenProperties
<1>8. ASSUME NEW j \in 1..Len(s), j >= i  PROVE InsertAt(s, i, e)[j + 1] = s[j]
  <2>1. j + 1 \in 1..(Len(s) + 1) /\ ~(j + 1 < i) /\ j + 1 # i /\ (j + 1) - 1 = j
    BY <1>8, LenProperties
  <2> QED BY <1>7, <2>1
<1>9. ASSUME NEW j \in 1..Len(s), j < i  PROVE InsertAt(s, i, e)[j] = s[j]
  BY <1>7, <1>9, LenProperties
<1> QED BY <1>7, <1>8, <1>9

\* RemoveAt takes one element out and moves those after it back by one.
LEMMA RemoveProperties ==
  ASSUME NEW S, NEW s \in Seq(S), NEW i \in 1..Len(s)
  PROVE  /\ RemoveAt(s, i) \in Seq(S)
         /\ Len(RemoveAt(s, i)) = Len(s) - 1
         /\ \A j \in 1..(Len(s) - 1) : RemoveAt(s, i)[j] = IF j < i THEN s[j] ELSE s[j + 1]
<1> DEFINE a == SubSeq(s, 1, i - 1)
           b == SubSeq(s, i + 1, Len(s))
<1>1. /\ a \in Seq(S) /\ Len(a) = i - 1
      /\ \A j \in 1..(i - 1) : a[j] = s[j]
  <2>1. \A j \in 1..(i - 1) : s[j] \in S
    BY LenProperties, ElementOfSeq
  <2>2. 1 \in Int /\ i - 1 \in Int /\ (i - 1) - 1 + 1 = i - 1
    BY LenProperties
  <2> HIDE DEF a
  <2>3. /\ a \in Seq(S) /\ Len(a) = IF 1 <= i - 1 THEN (i - 1) - 1 + 1 ELSE 0
        /\ \A j \in 1..((i - 1) - 1 + 1) : a[j] = s[1 + j - 1]
    BY <2>1, <2>2, SubSeqProperties DEF a
  <2> QED BY <2>2, <2>3, LenProperties
<1>2. /\ b \in Seq(S) /\ Len(b) = Len(s) - i
      /\ \A j \in 1..(Len(s) - i) : b[j] = s[i + j]
  <2>1. \A j \in (i + 1)..Len(s) : s[j] \in S
    BY LenProperties, ElementOfSeq
  <2>2. i + 1 \in Int /\ Len(s) \in Int
    BY LenProperties
  <2> HIDE DEF b
  <2>3. /\ b \in Seq(S) /\ Len(b) = IF i + 1 <= Len(s) THEN Len(s) - (i + 1) + 1 ELSE 0
        /\ \A j \in 1..(Len(s) - (i + 1) + 1) : b[j] = s[(i + 1) + j - 1]
    BY <2>1, <2>2, SubSeqProperties DEF b
  <2> QED BY <2>2, <2>3, LenProperties
<1> HIDE DEF a, b
<1>3. /\ a \o b \in Seq(S) /\ Len(a \o b) = Len(a) + Len(b)
      /\ \A j \in 1..(Len(a) + Len(b)) : (a \o b)[j] = IF j <= Len(a) THEN a[j] ELSE b[j - Len(a)]
  BY <1>1, <1>2, ConcatProperties
<1>4. RemoveAt(s, i) = a \o b
  BY DEF RemoveAt, a, b
<1>5. Len(s) \in Nat /\ i \in Nat /\ Len(a) + Len(b) = Len(s) - 1
  BY <1>1, <1>2, LenProperties
<1>6. ASSUME NEW j \in 1..(Len(s) - 1)
      PROVE  (a \o b)[j] = IF j < i THEN s[j] ELSE s[j + 1]
  <2>1. CASE j < i
    BY <1>1, <1>3, <1>5, <2>1
  <2>2. CASE ~(j < i)
    <3>1. j - Len(a) \in 1..(Len(s) - i) /\ i + (j - Len(a)) = j + 1
      BY <1>1, <1>5, <2>2
    <3>2. (a \o b)[j] = b[j - Len(a)]
      BY <1>1, <1>3, <1>5, <2>2
    <3> QED BY <1>2, <2>2, <3>1, <3>2
  <2> QED BY <2>1, <2>2
<1> QED BY <1>3, <1>4, <1>5, <1>6

\* A page is a part of the list.
LEMMA PageProperties ==
  ASSUME NEW S, NEW s \in Seq(S), NEW p \in Nat, NEW n, n = p * PAGE_SIZE
  PROVE  /\ n \in Nat /\ (p + 1) * PAGE_SIZE = n + PAGE_SIZE
         /\ Page(s, p) \in Seq(S)
         /\ Len(Page(s, p)) = IF n >= Len(s) THEN 0
                              ELSE IF n + PAGE_SIZE < Len(s) THEN PAGE_SIZE ELSE Len(s) - n
         /\ \A j \in 1..Len(Page(s, p)) : Page(s, p)[j] = s[n + j]
<1>1. n \in Nat /\ PAGE_SIZE \in Nat \ {0} /\ (p + 1) * PAGE_SIZE = n + PAGE_SIZE
  BY ApiAssumption
<1> DEFINE m == IF n + PAGE_SIZE < Len(s) THEN n + PAGE_SIZE ELSE Len(s)
<1>2. Page(s, p) = IF n >= Len(s) THEN <<>> ELSE SubSeq(s, n + 1, m)
  BY <1>1 DEF Page, slice_vec
<1>3. CASE n >= Len(s)
  BY <1>1, <1>2, <1>3
<1>4. CASE ~(n >= Len(s))
  <2>1. n + 1 \in Int /\ m \in Int /\ n + 1 <= m /\ m <= Len(s) /\ Len(s) \in Nat
    BY <1>1, <1>4, LenProperties
  <2>2. \A j \in (n + 1)..m : s[j] \in S
    BY <1>1, <2>1, ElementOfSeq
  <2>3. Page(s, p) = SubSeq(s, n + 1, m)
    BY <1>2, <1>4
  <2>4. Len(s) \in Nat /\ m = IF n + PAGE_SIZE < Len(s) THEN n + PAGE_SIZE ELSE Len(s)
    BY <2>1
  <2> HIDE DEF m
  <2>5. /\ Page(s, p) \in Seq(S) /\ Len(Page(s, p)) = m - (n + 1) + 1
        /\ \A j \in 1..(m - (n + 1) + 1) : Page(s, p)[j] = s[(n + 1) + j - 1]
    BY <2>1, <2>2, <2>3, SubSeqProperties
  <2>6. Len(Page(s, p)) = m - n /\ \A j \in 1..(m - n) : Page(s, p)[j] = s[n + j]
    <3>1. m - (n + 1) + 1 = m - n /\ \A j \in 1..(m - n) : (n + 1) + j - 1 = n + j
      BY <1>1, <2>1, <2>4
    <3> QED BY <2>5, <3>1
  <2>7. m - n = IF n + PAGE_SIZE < Len(s) THEN PAGE_SIZE ELSE Len(s) - n
    <3>1. CASE n + PAGE_SIZE < Len(s)
      <4>1. m = n + PAGE_SIZE
        BY <2>4, <3>1
      <4> QED BY <1>1, <3>1, <4>1
    <3>2. CASE ~(n + PAGE_SIZE < Len(s))
      BY <2>4, <3>2
    <3> QED BY <3>1, <3>2
  <2> QED BY <1>1, <1>4, <2>5, <2>6, <2>7
<1> QED BY <1>3, <1>4

\* Reverse turns a list around.
LEMMA ReverseProperties ==
  ASSUME NEW S, NEW s \in Seq(S)
  PROVE  /\ Reverse(s) \in Seq(S) /\ Len(Reverse(s)) = Len(s)
         /\ \A j \in 1..Len(s) : Reverse(s)[j] = s[(Len(s) - j) + 1]
<1>1. \A j \in 1..Len(s) : s[(Len(s) - j) + 1] \in S
  BY LenProperties, ElementOfSeq
<1>2. Reverse(s) = [j \in 1..Len(s) |-> s[(Len(s) - j) + 1]]
  BY DEF Reverse
<1> QED BY <1>1, <1>2, LenProperties

-----------------------------------------------------------------------------
(* Types.                                                                  *)

\* The server answers with a response to the request, of its kind.
LEMMA AnswerType ==
  ASSUME TypeOK, NEW r \in Request, r.kind \notin {"subscribe", "cut"}
  PROVE  Answer(r) \in Message /\ Answer(r).for = r.for /\ Answer(r).kind = r.kind
<1> DEFINE a == Response(r)
<1>1. r.for \in Caller \cup {None} /\ r.kind \in Fetched
      /\ (r.kind # "block" => r.page \in Nat) /\ r.page \in Item
  BY DEF Request
<1>2. chain \in Seq(Item) /\ pool \in Seq(Item)
  BY SeqMonotonic DEF TypeOK, Tx, Item
<1>3. a.kind = r.kind /\ a.items \in Seq(Item) /\ a.next \in Nat \cup {None}
  <2>1. CASE r.kind = "pool"
    <3>1. a = PoolPage(r.page)
      BY <2>1 DEF Response
    <3>2. Page(pool, r.page) \in Seq(Item)
      BY <1>1, <1>2, <2>1, PageProperties
    <3> QED BY <1>1, <2>1, <3>1, <3>2 DEF PoolPage
  <2>2. CASE r.kind = "list"
    <3>1. a = ListPage(r.page)
      BY <2>2 DEF Response
    <3>2. Reverse(chain) \in Seq(Item)
      BY <1>2, ReverseProperties
    <3>3. Page(Reverse(chain), r.page) \in Seq(Item)
      BY <1>1, <2>2, <3>2, PageProperties
    <3> QED BY <1>1, <2>2, <3>1, <3>3 DEF ListPage
  <2>3. CASE r.kind = "hash"
    <3>1. a = BlockHash(r.page)
      BY <2>3 DEF Response
    <3>2. r.page < Len(chain) => chain[r.page + 1] \in Item
      BY <1>1, <1>2, <2>3, ElementOfSeq, LenProperties
    <3> QED BY <2>3, <3>1, <3>2 DEF BlockHash
  <2>4. CASE r.kind = "block"
    <3>1. a = Block(r.page)
      BY <2>4 DEF Response
    <3> QED BY <1>1, <2>4, <3>1 DEF Block
  <2>5. CASE r.kind = "single"
    <3>1. a = Single
      BY <2>5 DEF Response
    <3> QED BY <2>5, <3>1, EmptySeq DEF Single
  <2> QED BY <1>1, <2>1, <2>2, <2>3, <2>4, <2>5 DEF Fetched, Kinds
<1> HIDE DEF a
<1>4. Answer(r) = [kind |-> a.kind, items |-> a.items, next |-> a.next, for |-> r.for]
  BY DEF Answer, a
<1> QED BY <1>1, <1>3, <1>4 DEF Message

\* A call that has read a response fetches again, or is over.
LEMMA AfterType ==
  ASSUME NEW k \in CallType, k.pc = "read", NEW m \in Message,
         NEW a, a = After(k, m)
  PROVE  /\ a \in CallType /\ a.pc \in {"err", "lock", "ok"}
         /\ a.own = k.own /\ a.max = k.max /\ a.there = k.there /\ a.removed = k.removed
         /\ m.kind # k.kind => a.pc = "err"
         /\ m.kind = k.kind /\ FindsHash(k, m) =>
              a.pc = "lock" /\ a.kind = "block" /\ a.page = m.items[1]
         /\ m.kind = k.kind /\ ~FindsHash(k, m) =>
              /\ a.kind = k.kind /\ a.got = k.got \o m.items
              /\ IF HasNextPage(k, m) THEN a.pc = "lock" /\ a.page = m.next ELSE a.pc = "ok"
<1>1. k.kind \in Fetched /\ k.page \in Item /\ k.got \in Seq(Item) /\ k.kind \in Fetched \cup {None}
      /\ (k.kind # "block" => k.page \in Nat)
      /\ k = [pc |-> k.pc, kind |-> k.kind, page |-> k.page, max |-> k.max, got |-> k.got,
              own |-> k.own, there |-> k.there, removed |-> k.removed]
  BY DEF CallType, Busy
<1>2. m.items \in Seq(Item) /\ m.next \in Nat \cup {None}
  BY DEF Message
<1>3. CASE m.kind # k.kind
  <2>1. a = [k EXCEPT !.pc = "err"]
    BY <1>3 DEF After
  <2> QED BY <1>3, <2>1 DEF CallType, Busy
<1>4. CASE m.kind = k.kind /\ FindsHash(k, m)
  <2>1. a = [k EXCEPT !.pc = "lock", !.kind = "block", !.page = m.items[1]]
    BY <1>4 DEF After, FindsHash, HasNextPage
  <2>2. m.items[1] \in Item
    <3>1. m.items # <<>>
      BY <1>4 DEF FindsHash
    <3> QED BY <1>2, <3>1, EmptySeq, ElementOfSeq
  <2> QED BY <1>4, <2>1, <2>2 DEF CallType, Busy, Fetched
<1>5. CASE m.kind = k.kind /\ ~FindsHash(k, m)
  <2>1. k.got \o m.items \in Seq(Item)
    BY <1>1, <1>2, ConcatProperties
  <2>2. CASE HasNextPage(k, m)
    <3>1. a = [[k EXCEPT !.got = k.got \o m.items] EXCEPT !.pc = "lock", !.page = m.next]
      BY <1>5, <2>2 DEF After
    <3>2. m.next \in Nat
      BY <1>2, <2>2 DEF HasNextPage
    <3> QED BY <1>1, <1>5, <2>1, <2>2, <3>1, <3>2 DEF CallType, Busy, Item
  <2>3. CASE ~HasNextPage(k, m)
    <3>1. a = [[k EXCEPT !.got = k.got \o m.items] EXCEPT !.pc = "ok"]
      BY <1>5, <2>3 DEF After
    <3> QED BY <1>1, <1>5, <2>1, <2>3, <3>1 DEF CallType, Busy
  <2> QED BY <2>2, <2>3
<1> QED BY <1>3, <1>4, <1>5

-----------------------------------------------------------------------------
(* The types and the queue for the stream are kept.                        *)

\* A task that is in the queue leaves it, and those behind it move up.
LEMMA ReleaseProperties ==
  ASSUME BaseInv, NEW c \in Caller, call[c].pc \in {"write", "read"}, Release(c)
  PROVE  \E i \in 1..Len(lock) :
           /\ lock[i] = c
           /\ lock' \in Seq(Caller) /\ Len(lock') = Len(lock) - 1
           /\ \A j \in 1..(Len(lock) - 1) : lock'[j] = IF j < i THEN lock[j] ELSE lock[j + 1]
<1> DEFINE i == CHOOSE i \in DOMAIN lock : lock[i] = c
<1>1. lock \in Seq(Caller) /\ DOMAIN lock = 1..Len(lock)
  BY LenProperties DEF BaseInv, TypeOK
<1>2. i \in 1..Len(lock) /\ lock[i] = c
  <2>1. \E j \in DOMAIN lock : lock[j] = c
    BY DEF BaseInv, Locking
  <2> QED BY <1>1, <2>1
<1>3. lock' = RemoveAt(lock, i)
  BY DEF Release
<1> HIDE DEF i
<1> QED BY <1>1, <1>2, <1>3, RemoveProperties

\* Who leaves the queue has nothing to write or to read.
LEMMA Leaves ==
  ASSUME BaseInv, NEW c \in Caller, call[c].pc \in {"write", "read"}, Release(c),
         call' \in [Caller -> CallType], call'[c].pc \notin {"write", "read"},
         \A d \in Caller \ {c} : call'[d] = call[d]
  PROVE  lock' \in Seq(Caller) /\ Locking'
<1>1. PICK i \in 1..Len(lock) :
        /\ lock[i] = c
        /\ lock' \in Seq(Caller) /\ Len(lock') = Len(lock) - 1
        /\ \A j \in 1..(Len(lock) - 1) : lock'[j] = IF j < i THEN lock[j] ELSE lock[j + 1]
  BY ReleaseProperties
<1>2. DOMAIN lock = 1..Len(lock) /\ DOMAIN lock' = 1..(Len(lock) - 1) /\ Len(lock) \in Nat
  BY <1>1, LenProperties DEF BaseInv, TypeOK
<1>3. \A j, k \in 1..Len(lock) : lock[j] = lock[k] => j = k
  BY <1>2 DEF BaseInv, Locking
<1>4. ASSUME NEW j \in DOMAIN lock', NEW k \in DOMAIN lock', lock'[j] = lock'[k]
      PROVE  j = k
  <2>1. j \in 1..(Len(lock) - 1) /\ k \in 1..(Len(lock) - 1)
    BY <1>2
  <2>2. /\ lock'[j] = lock[IF j < i THEN j ELSE j + 1]
        /\ lock'[k] = lock[IF k < i THEN k ELSE k + 1]
    BY <1>1, <2>1
  <2>3. (IF j < i THEN j ELSE j + 1) = (IF k < i THEN k ELSE k + 1)
    <3> DEFINE a == IF j < i THEN j ELSE j + 1
               b == IF k < i THEN k ELSE k + 1
    <3>1. a \in 1..Len(lock) /\ b \in 1..Len(lock)
      BY <1>2, <2>1
    <3>2. lock[a] = lock[b]
      BY <1>4, <2>2
    <3> HIDE DEF a, b
    <3>3. a = b
      BY <1>3, <3>1, <3>2
    <3> QED BY <3>3 DEF a, b
  <2> QED BY <2>1, <2>3
<1>5. ASSUME NEW d \in Caller
      PROVE  (\E j \in DOMAIN lock' : lock'[j] = d) <=> (d # c /\ \E j \in DOMAIN lock : lock[j] = d)
  <2>1. ASSUME NEW j \in DOMAIN lock', lock'[j] = d
        PROVE  d # c /\ \E k \in DOMAIN lock : lock[k] = d
    <3> DEFINE k == IF j < i THEN j ELSE j + 1
    <3>1. k \in 1..Len(lock) /\ k # i /\ lock[k] = d
      BY <1>1, <1>2, <2>1
    <3> HIDE DEF k
    <3> QED BY <1>1, <1>2, <1>3, <3>1
  <2>2. ASSUME d # c, NEW j \in DOMAIN lock, lock[j] = d
        PROVE  \E k \in DOMAIN lock' : lock'[k] = d
    <3> DEFINE k == IF j < i THEN j ELSE j - 1
    <3>1. j # i /\ j \in 1..Len(lock)
      BY <1>1, <1>2, <2>2
    <3>2. k \in 1..(Len(lock) - 1) /\ (IF k < i THEN k ELSE k + 1) = j
      BY <1>2, <3>1
    <3>3. lock'[k] = d
      BY <1>1, <2>2, <3>2
    <3> HIDE DEF k
    <3> QED BY <1>2, <3>2, <3>3
  <2> QED BY <2>1, <2>2
<1>6. ASSUME NEW d \in Caller
      PROVE  (\E j \in DOMAIN lock' : lock'[j] = d) <=> call'[d].pc \in {"write", "read"}
  BY <1>5 DEF BaseInv, Locking
<1> QED BY <1>1, <1>4, <1>6 DEF Locking

\* Who joins the queue was not in it.
LEMMA Joins ==
  ASSUME BaseInv, NEW c \in Caller, Lock(c)
  PROVE  /\ call' \in [Caller -> CallType] /\ lock' \in Seq(Caller) /\ Locking'
         /\ Len(lock') = Len(lock) + 1 /\ lock'[Len(lock) + 1] = c
         /\ \A i \in 1..Len(lock) : lock'[i] = lock[i]
         /\ \A d \in Caller \ {c} : call'[d] = call[d]
         /\ call'[c] = [call[c] EXCEPT !.pc = IF call[c].pc = "lock" THEN "write" ELSE "read"]
<1>1. /\ lock \in Seq(Caller) /\ DOMAIN lock = 1..Len(lock) /\ Len(lock) \in Nat
      /\ call \in [Caller -> CallType] /\ call[c] \in CallType
  BY LenProperties DEF BaseInv, TypeOK
<1>2. PICK p \in {"write", "read"} :
        /\ p = IF call[c].pc = "lock" THEN "write" ELSE "read"
        /\ call' = [call EXCEPT ![c].pc = p]
  BY DEF Lock
<1>3. [call[c] EXCEPT !.pc = p] \in CallType /\ [call[c] EXCEPT !.pc = p].pc = p
  BY <1>1 DEF CallType, Busy, Lock
<1>4. call' \in [Caller -> CallType] /\ call'[c] = [call[c] EXCEPT !.pc = p]
      /\ \A d \in Caller \ {c} : call'[d] = call[d]
  BY <1>1, <1>2, <1>3
<1>5. /\ lock' \in Seq(Caller) /\ Len(lock') = Len(lock) + 1 /\ lock'[Len(lock) + 1] = c
      /\ \A i \in 1..Len(lock) : lock'[i] = lock[i]
  BY <1>1, AppendProperties DEF Lock
<1>6. DOMAIN lock' = 1..(Len(lock) + 1)
  BY <1>5, LenProperties
<1>7. ~\E i \in 1..Len(lock) : lock[i] = c
  BY <1>1 DEF BaseInv, Locking, Lock
<1>8. ASSUME NEW d \in Caller
      PROVE  (\E j \in DOMAIN lock' : lock'[j] = d) <=> call'[d].pc \in {"write", "read"}
  <2>1. CASE d = c
    <3>1. Len(lock) + 1 \in DOMAIN lock' /\ lock'[Len(lock) + 1] = c
      BY <1>1, <1>5, <1>6
    <3>2. call'[c].pc \in {"write", "read"}
      BY <1>3, <1>4
    <3> QED BY <2>1, <3>1, <3>2
  <2>2. CASE d # c
    <3>1. (\E j \in DOMAIN lock' : lock'[j] = d) <=> (\E j \in DOMAIN lock : lock[j] = d)
      BY <1>1, <1>5, <1>6, <2>2
    <3> QED BY <1>4, <2>2, <3>1 DEF BaseInv, Locking
  <2> QED BY <2>1, <2>2
<1>9. \A i, j \in DOMAIN lock' : lock'[i] = lock'[j] => i = j
  <2>1. \A i, j \in 1..Len(lock) : lock[i] = lock[j] => i = j
    BY <1>1 DEF BaseInv, Locking
  <2> QED BY <1>1, <1>5, <1>6, <1>7, <2>1
<1> QED BY <1>2, <1>4, <1>5, <1>8, <1>9 DEF Locking

\* The reader of a response leaves the queue with what After makes of it.
LEMMA Reads ==
  ASSUME BaseInv, NEW c \in Caller, Read(c)
  PROVE  /\ call[c] \in CallType /\ call[c].pc = "read"
         /\ call' \in [Caller -> CallType] /\ call'[c].pc \in {"err", "lock", "ok"}
         /\ \A d \in Caller \ {c} : call'[d] = call[d]
         /\ lock' \in Seq(Caller) /\ Locking'
         /\ outbox' \in Seq(Message)
         /\ outbox # <<>> =>
              /\ Head(outbox) \in Message /\ outbox' = Tail(outbox)
              /\ \E k \in CallType :
                   /\ k = After(call[c], Head(outbox))
                   /\ call'[c] \in CallType
                   /\ call'[c] = [k EXCEPT !.own = call[c].own /\ Head(outbox).for = c]
         /\ outbox = <<>> => ~up /\ call'[c] = [call[c] EXCEPT !.pc = "err"] /\ outbox' = outbox
<1>1. /\ call \in [Caller -> CallType] /\ call[c] \in CallType /\ call[c].pc = "read"
      /\ outbox \in Seq(Message)
  BY DEF BaseInv, TypeOK, Read, Reader
<1>2. ASSUME NEW k \in CallType, call' = [call EXCEPT ![c] = k], k.pc \in {"err", "lock", "ok"}
      PROVE  /\ call' \in [Caller -> CallType] /\ call'[c] = k
             /\ \A d \in Caller \ {c} : call'[d] = call[d]
             /\ lock' \in Seq(Caller) /\ Locking'
  <2>1. /\ call' \in [Caller -> CallType] /\ call'[c] = k
        /\ \A d \in Caller \ {c} : call'[d] = call[d]
    BY <1>1, <1>2
  <2> QED BY <1>1, <1>2, <2>1, Leaves DEF Read, Reader
<1>3. CASE outbox # <<>>
  <2>1. Head(outbox) \in Message /\ Tail(outbox) \in Seq(Message)
    BY <1>1, <1>3, HeadTailProperties
  <2>2. PICK k \in CallType : k = After(call[c], Head(outbox)) /\ k.pc \in {"err", "lock", "ok"}
    BY <1>1, <2>1, AfterType
  <2>3. outbox' = Tail(outbox) /\ call' = [call EXCEPT ![c] = Judged(c, After(call[c], Head(outbox)))]
    BY <1>3 DEF Read, Reader
  <2>4. PICK j : j = Judged(c, k)
    OBVIOUS
  <2>5. j \in CallType /\ j.pc = k.pc /\ j = [k EXCEPT !.own = call[c].own /\ Head(outbox).for = c]
    <3>1. (call[c].own /\ Head(outbox).for = c) \in BOOLEAN
      OBVIOUS
    <3> QED BY <2>2, <2>4, <3>1 DEF Judged, CallType
  <2>6. call' = [call EXCEPT ![c] = j]
    BY <2>2, <2>3, <2>4
  <2>7. /\ call' \in [Caller -> CallType] /\ call'[c] = j
        /\ \A d \in Caller \ {c} : call'[d] = call[d]
        /\ lock' \in Seq(Caller) /\ Locking'
    BY <1>2, <2>2, <2>5, <2>6
  <2> QED BY <1>1, <1>3, <2>1, <2>2, <2>3, <2>5, <2>7
<1>4. CASE outbox = <<>>
  <2>1. ~up /\ call' = [call EXCEPT ![c].pc = "err"] /\ outbox' = outbox
    BY <1>4 DEF Read, Reader
  <2>2. PICK k : k = [call[c] EXCEPT !.pc = "err"]
    OBVIOUS
  <2>3. k \in CallType /\ k.pc = "err"
    BY <1>1, <2>2 DEF CallType, Busy
  <2>4. call' = [call EXCEPT ![c] = k]
    BY <1>1, <2>1, <2>2
  <2> QED BY <1>1, <1>2, <1>4, <2>1, <2>2, <2>3, <2>4
<1> QED BY <1>3, <1>4

\* A step of a caller that puts k in the place of its call.
LEMMA Puts ==
  ASSUME BaseInv, NEW c \in Caller, NEW k \in CallType, call' = [call EXCEPT ![c] = k],
         \/ Release(c) /\ call[c].pc \in {"write", "read"} /\ k.pc \notin {"write", "read"}
         \/ /\ lock' = lock
            /\ call[c].pc \notin {"write", "read"} /\ k.pc \notin {"write", "read"}
  PROVE  /\ call' \in [Caller -> CallType] /\ call'[c] = k
         /\ \A d \in Caller \ {c} : call'[d] = call[d]
         /\ lock' \in Seq(Caller) /\ Locking'
<1>1. /\ call' \in [Caller -> CallType] /\ call'[c] = k
      /\ \A d \in Caller \ {c} : call'[d] = call[d]
  BY DEF BaseInv, TypeOK
<1>2. CASE Release(c) /\ call[c].pc \in {"write", "read"} /\ k.pc \notin {"write", "read"}
  BY <1>1, <1>2, Leaves
<1>3. CASE /\ lock' = lock
           /\ call[c].pc \notin {"write", "read"} /\ k.pc \notin {"write", "read"}
  <2>1. \A d \in Caller : call'[d].pc \in {"write", "read"} <=> call[d].pc \in {"write", "read"}
    BY <1>1, <1>3
  <2> QED BY <1>1, <1>3, <2>1 DEF BaseInv, TypeOK, Locking
<1> QED BY <1>2, <1>3

\* What a call becomes when it is made, has written, returns, or is dropped.
LEMMA CallPuts ==
  ASSUME BaseInv, NEW c \in Caller, Call(c) \/ Write(c) \/ Return(c) \/ Drop(c)
  PROVE  /\ call' \in [Caller -> CallType]
         /\ \A d \in Caller \ {c} : call'[d] = call[d]
         /\ lock' \in Seq(Caller) /\ Locking'
         /\ Write(c) => call[c].pc = "write" /\ call'[c] = [call[c] EXCEPT !.pc = "gap"]
         /\ Return(c) \/ Drop(c) => call'[c] = [NoCall EXCEPT !.pc = "done"]
         /\ Call(c) =>
              /\ call[c].pc = "idle" /\ call'[c].pc = "lock" /\ call'[c].own
              /\ call'[c].kind \in Kinds /\ call'[c].page = 0
              /\ call'[c].kind \in {"pool", "list", "hash"} =>
                   call'[c].there = IF call'[c].kind = "pool" THEN pool ELSE chain
<1>1. call \in [Caller -> CallType] /\ call[c] \in CallType
  BY DEF BaseInv, TypeOK
<1>2. <<>> \in Seq(Item) /\ 0 \in Item
  BY EmptySeq DEF Item
<1>3. CASE Call(c)
  <2>1. PICK k \in Kinds, m \in MaxPages :
          /\ call' = [call EXCEPT ![c] = [NoCall EXCEPT !.pc = "lock", !.kind = k, !.max = m,
                             !.there = CASE k = "pool" -> pool [] k = "single" -> <<>>
                                         [] OTHER -> chain]]
    BY <1>3 DEF Call
  <2>2. PICK t : t = CASE k = "pool" -> pool [] k = "single" -> <<>> [] OTHER -> chain
    OBVIOUS
  <2>3. t \in Seq(Item) /\ (k = "pool" => t = pool) /\ (k \in {"list", "hash"} => t = chain)
    <3>1. chain \in Seq(Item) /\ pool \in Seq(Item)
      BY SeqMonotonic DEF BaseInv, TypeOK, Tx, Item
    <3> QED BY <1>2, <2>2, <3>1
  <2>4. PICK n : n = [NoCall EXCEPT !.pc = "lock", !.kind = k, !.max = m, !.there = t]
    OBVIOUS
  <2>5. /\ n \in CallType /\ n.pc = "lock" /\ n.own /\ n.kind = k /\ n.page = 0 /\ n.there = t
    <3>1. m \in Nat \cup {None} /\ k \in Fetched /\ k # "block"
      BY ApiAssumption DEF Fetched, Kinds
    <3> QED BY <1>2, <2>3, <2>4, <3>1 DEF NoCall, CallType, Busy
  <2>6. call' = [call EXCEPT ![c] = n]
    BY <2>1, <2>2, <2>4
  <2>7. call[c].pc = "idle" /\ lock' = lock
    BY <1>3 DEF Call
  <2>8. /\ call' \in [Caller -> CallType] /\ call'[c] = n
        /\ \A d \in Caller \ {c} : call'[d] = call[d]
        /\ lock' \in Seq(Caller) /\ Locking'
    BY <2>5, <2>6, <2>7, Puts
  <2> QED BY <1>3, <2>3, <2>5, <2>7, <2>8 DEF Write, Sent, RequestOf, Return, Drop, Dropped
<1>4. CASE Write(c)
  <2>1. PICK n : n = [call[c] EXCEPT !.pc = "gap"]
    OBVIOUS
  <2>2. n \in CallType /\ n.pc = "gap"
    BY <1>1, <1>4, <2>1 DEF CallType, Busy, Write, Sent, RequestOf
  <2>3. call' = [call EXCEPT ![c] = n] /\ call[c].pc = "write" /\ Release(c)
    BY <1>4, <2>1 DEF Write, Sent, RequestOf
  <2>4. /\ call' \in [Caller -> CallType] /\ call'[c] = n
        /\ \A d \in Caller \ {c} : call'[d] = call[d]
        /\ lock' \in Seq(Caller) /\ Locking'
    BY <2>2, <2>3, Puts
  <2> QED BY <1>4, <2>1, <2>3, <2>4 DEF Return, Drop, Dropped, Call
<1>5. CASE Return(c) \/ Drop(c)
  <2>1. PICK n : n = [NoCall EXCEPT !.pc = "done"]
    OBVIOUS
  <2>2. n \in CallType /\ n.pc = "done"
    BY <1>2, <2>1 DEF NoCall, CallType, Busy
  <2>3. call' = [call EXCEPT ![c] = n]
    BY <1>5, <2>1 DEF Return, Drop, Dropped
  <2>4. \/ Release(c) /\ call[c].pc \in {"write", "read"}
        \/ lock' = lock /\ call[c].pc \in {"ok", "err"}
    BY <1>5 DEF Return, Drop, Dropped
  <2>5. /\ call' \in [Caller -> CallType] /\ call'[c] = n
        /\ \A d \in Caller \ {c} : call'[d] = call[d]
        /\ lock' \in Seq(Caller) /\ Locking'
    BY <2>2, <2>3, <2>4, Puts
  <2>6. ~Call(c) /\ ~(Write(c) /\ Return(c))
    BY <1>5 DEF Call, Write, Sent, RequestOf, Return, Drop, Dropped
  <2>7. ASSUME Write(c)  PROVE FALSE
    <3>1. call' = [call EXCEPT ![c] = [call[c] EXCEPT !.pc = "gap"]]
      BY <2>7 DEF Write, Sent, RequestOf
    <3>2. PICK g : g = [call[c] EXCEPT !.pc = "gap"]
      OBVIOUS
    <3>3. g.pc = "gap" /\ call'[c] = g
      BY <1>1, <3>1, <3>2 DEF CallType
    <3> QED BY <2>2, <2>5, <3>3
  <2> QED BY <1>5, <2>1, <2>5, <2>6, <2>7
<1> QED BY <1>3, <1>4, <1>5

\* A removal marks calls, and moves none of them.
LEMMA Marks ==
  ASSUME BaseInv, NEW kinds, call' = Removed(kinds), lock' = lock
  PROVE  /\ call' \in [Caller -> CallType] /\ lock' \in Seq(Caller) /\ Locking'
         /\ \A c \in Caller :
              /\ call'[c] = [call[c] EXCEPT !.removed = call'[c].removed]
              /\ call'[c].removed <=>
                   call[c].removed \/ (Ongoing(c) /\ call[c].kind \in kinds)
<1>1. call \in [Caller -> CallType]
  BY DEF BaseInv, TypeOK
<1>2. ASSUME NEW c \in Caller
      PROVE  /\ call'[c] \in CallType
             /\ call'[c] = [call[c] EXCEPT !.removed = call'[c].removed]
             /\ call'[c].removed <=>
                  call[c].removed \/ (Ongoing(c) /\ call[c].kind \in kinds)
             /\ call'[c].pc = call[c].pc
  <2>1. PICK b \in BOOLEAN : b = (call[c].removed \/ (Ongoing(c) /\ call[c].kind \in kinds))
    OBVIOUS
  <2>2. PICK n : n = [call[c] EXCEPT !.removed = b]
    OBVIOUS
  <2>3. n \in CallType /\ n.removed = b /\ n.pc = call[c].pc
    BY <1>1, <2>2 DEF CallType
  <2>4. call'[c] = n
    BY <2>1, <2>2 DEF Removed
  <2> QED BY <2>1, <2>2, <2>3, <2>4
<1>3. call' \in [Caller -> CallType]
  <2>1. call' = [c \in Caller |-> call'[c]]
    BY DEF Removed
  <2> QED BY <1>2, <2>1
<1> QED BY <1>2, <1>3 DEF BaseInv, TypeOK, Locking

\* A step that leaves the calls and the queue for the stream alone.
LEMMA SameCalls ==
  ASSUME BaseInv, UNCHANGED <<call, lock>>
  PROVE  call' \in [Caller -> CallType] /\ lock' \in Seq(Caller) /\ Locking'
BY DEF BaseInv, TypeOK, Locking

\* A call that is over in the middle of a message, or has lost its place in the responses,
\* keeps the types and the queue; something was dropped.
LEMMA StrayPuts ==
  ASSUME BaseInv, NEW c \in Caller, Strays(c)
  PROVE  /\ call' \in [Caller -> CallType] /\ lock' \in Seq(Caller) /\ Locking'
         /\ inbox' \in Seq(Request) /\ outbox' \in Seq(Message)
         /\ stale' = TRUE
<1>1. /\ call \in [Caller -> CallType] /\ call[c] \in CallType
      /\ inbox \in Seq(Request) /\ outbox \in Seq(Message) /\ stale \in BOOLEAN
  BY DEF BaseInv, TypeOK
<1>2. CASE ReadLost(c)
  <2>1. /\ UNCHANGED <<call, lock, inbox, stale>> /\ frame = "lost"
        /\ outbox # <<>> /\ outbox' = Tail(outbox)
    BY <1>2 DEF ReadLost, client, history
  <2>2. outbox' \in Seq(Message)
    BY <1>1, <2>1, HeadTailProperties
  <2> QED BY <1>1, <2>1, <2>2, SameCalls DEF BaseInv, Framing
<1>3. CASE ReadFails(c)
  <2>1. PICK k : k = [call[c] EXCEPT !.pc = "err"]
    OBVIOUS
  <2>2. k \in CallType /\ k.pc = "err"
    BY <1>1, <2>1 DEF CallType, Busy
  <2>3. /\ call' = [call EXCEPT ![c] = k] /\ Release(c) /\ call[c].pc = "read"
        /\ UNCHANGED <<inbox, outbox, stale>> /\ frame = "lost"
    BY <1>1, <1>3, <2>1 DEF ReadFails, Reader, history
  <2>4. call' \in [Caller -> CallType] /\ lock' \in Seq(Caller) /\ Locking'
    BY <2>2, <2>3, Puts
  <2> QED BY <1>1, <2>3, <2>4 DEF BaseInv, Framing
<1>4. CASE DropWriting(c) \/ DropReading(c)
  <2>1. PICK k : k = [NoCall EXCEPT !.pc = "done"]
    OBVIOUS
  <2>2. k \in CallType /\ k.pc = "done"
    <3>1. <<>> \in Seq(Item) /\ 0 \in Item
      BY EmptySeq DEF Item
    <3> QED BY <2>1, <3>1 DEF NoCall, CallType, Busy
  <2>3. /\ call' = [call EXCEPT ![c] = k] /\ Release(c) /\ call[c].pc \in {"write", "read"}
        /\ outbox' = outbox /\ stale' = TRUE
    BY <1>4, <2>1 DEF DropWriting, DropReading, Reader, Dropped
  <2>4. call' \in [Caller -> CallType] /\ lock' \in Seq(Caller) /\ Locking'
    BY <2>2, <2>3, Puts
  <2>5. inbox' \in Seq(Request)
    <3>1. CASE DropReading(c)
      BY <1>1, <3>1 DEF DropReading
    <3>2. CASE DropWriting(c)
      <4>1. PICK r : r = [RequestOf(c) EXCEPT !.kind = "cut"]
        OBVIOUS
      <4>2. r \in Request
        <5>1. call[c].page \in Item
          BY <1>1 DEF CallType
        <5> QED BY <4>1, <5>1 DEF RequestOf, Request
      <4>3. inbox' = Append(inbox, r)
        BY <3>2, <4>1 DEF DropWriting, Sent
      <4> QED BY <1>1, <4>2, <4>3, AppendProperties
    <3> QED BY <1>4, <3>1, <3>2
  <2> QED BY <1>1, <2>3, <2>4, <2>5
<1> QED BY <1>2, <1>3, <1>4 DEF Strays

\* The client loses its place in the responses, and the node in the requests, only with
\* or after a call that is dropped.
LEMMA FrameKept == BaseInv /\ [Next]_vars => Framing'
<1> SUFFICES ASSUME BaseInv, [Next]_vars  PROVE Framing'
  OBVIOUS
<1>0. /\ frame \in {"start", "inside", "cut", "lost"} /\ (frame \in {"cut", "lost"} => stale)
      /\ \A i \in DOMAIN inbox : inbox[i].kind = "cut" => stale
      /\ inbox \in Seq(Request) /\ call \in [Caller -> CallType]
  BY DEF BaseInv, TypeOK, Framing
<1>1. ASSUME stale', frame' \in {"start", "inside", "cut", "lost"}
      PROVE  Framing'
  BY <1>1 DEF Framing
<1>2. ASSUME UNCHANGED <<inbox, stale>>, frame' \in {"start", "inside", "cut", "lost"},
             frame' \in {"cut", "lost"} => frame \in {"cut", "lost"}
      PROVE  Framing'
  BY <1>0, <1>2 DEF Framing
<1>3. ASSUME inbox # <<>>, inbox' = Tail(inbox), UNCHANGED <<frame, stale>>
      PROVE  Framing'
  <2>1. /\ DOMAIN inbox = 1..Len(inbox) /\ DOMAIN inbox' = 1..(Len(inbox) - 1) /\ Len(inbox) \in Nat
        /\ \A i \in 1..(Len(inbox) - 1) : inbox'[i] = inbox[i + 1]
    BY <1>0, <1>3, HeadTailProperties, LenProperties
  <2>2. \A i \in DOMAIN inbox' : i + 1 \in DOMAIN inbox /\ inbox'[i] = inbox[i + 1]
    BY <2>1
  <2> QED BY <1>0, <1>3, <2>2 DEF Framing
<1>4. ASSUME NEW r \in Request, r.kind # "cut", inbox' = inbox \/ inbox' = Append(inbox, r),
             UNCHANGED <<frame, stale>>
      PROVE  Framing'
  <2>1. CASE inbox' = inbox
    BY <1>2, <1>4, <2>1, <1>0
  <2>2. CASE inbox' = Append(inbox, r)
    <3>1. /\ DOMAIN inbox = 1..Len(inbox) /\ DOMAIN inbox' = 1..(Len(inbox) + 1) /\ Len(inbox) \in Nat
          /\ inbox'[Len(inbox) + 1] = r /\ \A i \in 1..Len(inbox) : inbox'[i] = inbox[i]
      BY <1>0, <2>2, AppendProperties, LenProperties
    <3> QED BY <1>0, <1>4, <3>1 DEF Framing
  <2> QED BY <1>4, <2>1, <2>2
<1>5. CASE AddBlock \/ PopBlock \/ PoolAdd \/ PoolRemove \/ StreamLags \/ SendEvent
  <2>1. UNCHANGED <<inbox, frame, stale>>
    BY <1>5 DEF AddBlock, PopBlock, PoolAdd, PoolRemove, StreamLags, SendEvent, wires, history
  <2> QED BY <1>0, <1>2, <2>1
<1>6. CASE Serve \/ Subscribe
  <2>1. inbox # <<>> /\ inbox' = Tail(inbox) /\ UNCHANGED <<frame, stale>>
    BY <1>6 DEF Serve, Subscribe, Serving, Taken, history
  <2> QED BY <1>3, <2>1
<1>7. CASE ServeFails
  <2>1. inbox' = <<>> /\ UNCHANGED <<frame, stale>>
    BY <1>7 DEF ServeFails, history
  <2> QED BY <1>0, <2>1 DEF Framing
<1>8. CASE ServeCut
  <2>1. inbox # <<>> /\ Head(inbox).kind = "cut" /\ UNCHANGED <<frame, stale>>
    BY <1>8 DEF ServeCut, history
  <2>2. 1 \in DOMAIN inbox /\ inbox[1].kind = "cut"
    BY <1>0, <2>1, LenProperties, EmptySeq, HeadTailProperties
  <2> QED BY <1>0, <1>1, <2>1, <2>2
<1>9. ASSUME NEW c \in Caller, Call(c) \/ Lock(c) \/ Return(c)
      PROVE  Framing'
  <2>1. UNCHANGED <<inbox, frame, stale>>
    BY <1>9 DEF Call, Lock, Return, wires, history
  <2> QED BY <1>0, <1>2, <2>1
<1>10. ASSUME NEW c \in Caller, Write(c)
       PROVE  Framing'
  <2>1. call[c] \in CallType /\ call[c].pc = "write"
    BY <1>0, <1>10 DEF Write
  <2>2. RequestOf(c) \in Request /\ RequestOf(c).kind # "cut"
    BY <2>1 DEF RequestOf, CallType, Busy, Request, Fetched, Kinds
  <2>3. (inbox' = inbox \/ inbox' = Append(inbox, RequestOf(c))) /\ UNCHANGED <<frame, stale>>
    BY <1>10 DEF Write, Sent, history
  <2> QED BY <1>4, <2>2, <2>3
<1>11. ASSUME NEW c \in Caller, ReadLength(c) \/ Read(c)
       PROVE  Framing'
  <2>1. /\ UNCHANGED <<inbox, stale>> /\ frame' \in {"start", "inside", "lost"}
        /\ frame' = "lost" => frame = "cut"
    BY <1>11 DEF ReadLength, Read, history
  <2> QED BY <1>2, <2>1
<1>12. ASSUME NEW c \in Caller, Drop(c)
       PROVE  Framing'
  <2>1. UNCHANGED <<inbox, frame>> /\ (stale => stale')
    BY <1>12 DEF Drop, wires
  <2> QED BY <1>0, <2>1 DEF Framing
<1>13. ASSUME NEW c \in Caller, Strays(c)
       PROVE  Framing'
  <2>1. stale'
    BY <1>13, StrayPuts
  <2>2. frame' \in {"start", "inside", "cut", "lost"}
    BY <1>0, <1>13 DEF Strays, ReadLost, ReadFails, DropWriting, DropReading, Astray
  <2> QED BY <1>1, <2>1, <2>2
<1>14. CASE Listen \/ ListenerFails \/ ListenerStop \/ ListenerRead
  <2>1. UNCHANGED <<inbox, frame, stale>>
    BY <1>14 DEF Listen, ListenerFails, ListenerStop, ListenerRead, wires, history
  <2> QED BY <1>0, <1>2, <2>1
<1>15. CASE ListenerAsk
  <2>1. PICK r : r = [for |-> None, kind |-> "subscribe", page |-> 0]
    OBVIOUS
  <2>2. r \in Request /\ r.kind # "cut"
    BY <2>1 DEF Request, Item
  <2>3. (inbox' = inbox \/ inbox' = Append(inbox, r)) /\ UNCHANGED <<frame, stale>>
    BY <1>15, <2>1 DEF ListenerAsk, Sent, history
  <2> QED BY <1>4, <2>2, <2>3
<1>16. CASE ListenerLost
  <2>1. UNCHANGED <<inbox, stale>> /\ frame' = "lost" /\ frame \in {"cut", "lost"}
    BY <1>16 DEF ListenerLost, client, history
  <2> QED BY <1>2, <2>1
<1>17. CASE UNCHANGED vars
  <2>1. UNCHANGED <<inbox, frame, stale>>
    BY <1>17 DEF vars, wires, history
  <2> QED BY <1>0, <1>2, <2>1
<1> QED BY <1>5, <1>6, <1>7, <1>8, <1>9, <1>10, <1>11, <1>12, <1>13, <1>14, <1>15, <1>16, <1>17
        DEF Next, ServerStep, CallStep, CallEnds, ListenerStep, Strays

\* The types and the queue for the stream are kept by every step.
LEMMA BaseKept == BaseInv /\ [Next]_vars => BaseInv'
<1> SUFFICES ASSUME BaseInv, [Next]_vars  PROVE TypeOK' /\ Locking'
  BY FrameKept DEF BaseInv
<1>0. /\ light \in BOOLEAN /\ up \in BOOLEAN
      /\ inbox \in Seq(Request) /\ outbox \in Seq(Message)
      /\ chain \in Seq(Tx) /\ pool \in Seq(Nat) /\ events \in Seq(Tx)
      /\ stream \in StreamType /\ listener \in ListenerType
      /\ changes \in Nat /\ overtaken \in BOOLEAN /\ stale \in BOOLEAN
      /\ Len(chain) \in Nat /\ Len(pool) \in Nat /\ Len(events) \in Nat
      /\ DOMAIN chain = 1..Len(chain) /\ DOMAIN pool = 1..Len(pool)
  BY LenProperties DEF BaseInv, TypeOK
<1>1. CASE AddBlock
  <2>1. UNCHANGED <<light, up, lock, call, listener, inbox, outbox, pool, stream, overtaken, stale>>
    BY <1>1 DEF AddBlock, client, wires, history, server
  <2>2. PICK tx : tx = <<Len(chain) + 1, changes + 1>>
    OBVIOUS
  <2>3. tx \in Tx
    BY <1>0, <2>2 DEF Tx
  <2>4. \E i \in 1..(Len(chain) + 1) : chain' = InsertAt(chain, i, tx)
    BY <1>1, <2>2 DEF AddBlock
  <2>5. chain' \in Seq(Tx)
    BY <1>0, <2>3, <2>4, InsertProperties
  <2>6. events' \in Seq(Tx) /\ changes' \in Nat
    BY <1>0, <1>1, <2>2, <2>3, AppendProperties DEF AddBlock
  <2> QED BY <1>0, <2>1, <2>5, <2>6, SameCalls DEF BaseInv, TypeOK
<1>2. CASE PopBlock
  <2>1. UNCHANGED <<light, up, lock, listener, inbox, outbox, pool, events, stream, overtaken, stale>>
    BY <1>2 DEF PopBlock, wires, history, server
  <2>2. chain' \in Seq(Tx) /\ changes' \in Nat
    BY <1>0, <1>2, RemoveProperties DEF PopBlock
  <2>3. call' \in [Caller -> CallType] /\ lock' \in Seq(Caller) /\ Locking'
    BY <1>2, <2>1, Marks DEF PopBlock
  <2> QED BY <1>0, <2>1, <2>2, <2>3 DEF BaseInv, TypeOK
<1>3. CASE PoolAdd
  <2>1. UNCHANGED <<light, up, lock, call, listener, inbox, outbox, chain, events, stream,
                    overtaken, stale>>
    BY <1>3 DEF PoolAdd, client, wires, history, server
  <2>2. Len(pool) + changes + 1 \in Nat
    BY <1>0, ApiAssumption
  <2>3. pool' \in Seq(Nat) /\ changes' \in Nat
    BY <1>0, <1>3, <2>2, InsertProperties DEF PoolAdd
  <2> QED BY <1>0, <2>1, <2>3, SameCalls DEF BaseInv, TypeOK
<1>4. CASE PoolRemove
  <2>1. UNCHANGED <<light, up, lock, listener, inbox, outbox, chain, events, stream, overtaken, stale>>
    BY <1>4 DEF PoolRemove, wires, history, server
  <2>2. pool' \in Seq(Nat) /\ changes' \in Nat
    BY <1>0, <1>4, RemoveProperties DEF PoolRemove
  <2>3. call' \in [Caller -> CallType] /\ lock' \in Seq(Caller) /\ Locking'
    BY <1>4, <2>1, Marks DEF PoolRemove
  <2> QED BY <1>0, <2>1, <2>2, <2>3 DEF BaseInv, TypeOK
<1>5. CASE Serve
  <2>1. /\ UNCHANGED <<light, up, lock, call, listener, chain, pool, events, changes, stream,
                       overtaken, stale>>
        /\ inbox # <<>> /\ inbox' = Tail(inbox)
        /\ outbox' = Append(outbox, Answer(Head(inbox))) /\ Head(inbox).kind \notin {"subscribe", "cut"}
    BY <1>5 DEF Serve, Serving, Taken, client, node, history, server
  <2>2. Head(inbox) \in Request /\ inbox' \in Seq(Request)
    BY <1>0, <2>1, HeadTailProperties
  <2>3. Answer(Head(inbox)) \in Message
    BY <2>1, <2>2, AnswerType DEF BaseInv
  <2>4. outbox' \in Seq(Message)
    BY <1>0, <2>1, <2>3, AppendProperties
  <2> QED BY <1>0, <2>1, <2>2, <2>4, SameCalls DEF BaseInv, TypeOK
<1>6. CASE ServeFails
  <2>1. /\ UNCHANGED <<light, lock, call, listener, outbox, chain, pool, events, changes, stream,
                       overtaken, stale>>
        /\ inbox' = <<>> /\ up' = FALSE
    BY <1>6 DEF ServeFails, client, node, history
  <2>2. inbox' \in Seq(Request)
    BY <2>1, EmptySeq
  <2> QED BY <1>0, <2>1, <2>2, SameCalls DEF BaseInv, TypeOK
<1>7. CASE Subscribe
  <2>1. /\ UNCHANGED <<light, up, lock, call, listener, outbox, chain, pool, events, changes,
                       overtaken, stale>>
        /\ inbox # <<>> /\ inbox' = Tail(inbox)
    BY <1>7 DEF Subscribe, Serving, Taken, client, node, history, server
  <2>2. inbox' \in Seq(Request)
    BY <1>0, <2>1, HeadTailProperties
  <2>3. stream' \in StreamType
    BY <1>0, <1>7 DEF Subscribe, StreamType
  <2> QED BY <1>0, <2>1, <2>2, <2>3, SameCalls DEF BaseInv, TypeOK
<1>8. CASE SendEvent
  <2>1. /\ UNCHANGED <<light, up, lock, call, listener, inbox, chain, pool, events, changes,
                       overtaken, stale>>
    BY <1>8 DEF SendEvent, client, node, history, server
  <2>2. stream' \in StreamType
    <3>1. stream' = [stream EXCEPT !.next = stream.next + 1]
      BY <1>8 DEF SendEvent
    <3>2. stream.next + 1 \in Nat \ {0}
      BY <1>0 DEF StreamType
    <3> QED BY <1>0, <3>1, <3>2 DEF StreamType
  <2>3. EventOf(events[stream.next]) \in Message
    <3>1. <<events[stream.next]>> \in Seq(Item)
      <4>1. stream.next \in 1..Len(events)
        BY <1>0, <1>8 DEF SendEvent, StreamType
      <4>2. events[stream.next] \in Item
        BY <1>0, <4>1, ElementOfSeq DEF Item
      <4> QED BY <4>2
    <3> QED BY <3>1 DEF EventOf, Message
  <2>4. outbox' \in Seq(Message)
    BY <1>0, <1>8, <2>3, AppendProperties DEF SendEvent
  <2> QED BY <1>0, <2>1, <2>2, <2>4, SameCalls DEF BaseInv, TypeOK
<1>9. CASE StreamLags
  <2>1. UNCHANGED <<light, up, lock, call, listener, inbox, outbox, chain, pool, events, changes,
                    overtaken, stale>>
    BY <1>9 DEF StreamLags, wires, client, node, history, server
  <2>2. stream' \in StreamType
    BY <1>0, <1>9 DEF StreamLags, StreamType
  <2> QED BY <1>0, <2>1, <2>2, SameCalls DEF BaseInv, TypeOK
<1>10. ASSUME NEW c \in Caller, Call(c) \/ Write(c) \/ Return(c) \/ Drop(c)
       PROVE  TypeOK' /\ Locking'
  <2>1. call' \in [Caller -> CallType] /\ lock' \in Seq(Caller) /\ Locking'
    BY <1>10, CallPuts
  <2>2. /\ UNCHANGED <<light, up, listener, outbox, chain, pool, events, changes, stream>>
        /\ overtaken' = overtaken
    BY <1>10 DEF Call, Write, Sent, RequestOf, Return, Drop, Dropped, wires, node, history, server
  <2>3. stale' \in BOOLEAN
    BY <1>0, <1>10 DEF Call, Write, Sent, RequestOf, Return, Drop, Dropped, history
  <2>4. inbox' \in Seq(Request)
    <3>1. CASE Write(c) /\ up
      <4>1. call[c] \in CallType /\ call[c].pc = "write"
        BY <3>1 DEF BaseInv, TypeOK, Write, Sent, RequestOf
      <4>2. [for |-> c, kind |-> call[c].kind, page |-> call[c].page] \in Request
        BY <4>1 DEF CallType, Busy, Request
      <4>3. inbox' = Append(inbox, [for |-> c, kind |-> call[c].kind, page |-> call[c].page])
        BY <3>1 DEF Write, Sent, RequestOf
      <4> QED BY <1>0, <4>2, <4>3, AppendProperties
    <3>2. CASE ~(Write(c) /\ up)
      <4>1. inbox' = inbox
        BY <1>10, <3>2 DEF Call, Write, Sent, RequestOf, Return, Drop, Dropped, wires
      <4> QED BY <1>0, <4>1
    <3> QED BY <3>1, <3>2
  <2> QED BY <1>0, <2>1, <2>2, <2>3, <2>4 DEF BaseInv, TypeOK
<1>11. ASSUME NEW c \in Caller, Lock(c)
       PROVE  TypeOK' /\ Locking'
  <2>1. call' \in [Caller -> CallType] /\ lock' \in Seq(Caller) /\ Locking'
    BY <1>11, Joins
  <2>2. UNCHANGED <<light, up, listener, inbox, outbox, chain, pool, events, changes, stream, stale>>
    BY <1>11 DEF Lock, wires, node, server
  <2>3. overtaken' \in BOOLEAN
    BY <1>0, <1>11 DEF Lock
  <2> QED BY <1>0, <2>1, <2>2, <2>3 DEF BaseInv, TypeOK
<1>12. ASSUME NEW c \in Caller, Read(c)
       PROVE  TypeOK' /\ Locking'
  <2>1. call' \in [Caller -> CallType] /\ lock' \in Seq(Caller) /\ Locking' /\ outbox' \in Seq(Message)
    BY <1>12, Reads
  <2>2. UNCHANGED <<light, up, listener, inbox, chain, pool, events, changes, stream, overtaken, stale>>
    BY <1>12 DEF Read, Reader, node, history, server
  <2> QED BY <1>0, <2>1, <2>2 DEF BaseInv, TypeOK
<1>13. CASE Listen \/ ListenerFails
  <2>1. UNCHANGED <<light, up, lock, call, inbox, outbox, chain, pool, events, changes, stream,
                    overtaken, stale>>
    BY <1>13 DEF Listen, ListenerFails, wires, node, history, server
  <2>2. listener' \in ListenerType
    BY <1>0, <1>13 DEF Listen, ListenerFails, ListenerType
  <2> QED BY <1>0, <2>1, <2>2, SameCalls DEF BaseInv, TypeOK
<1>17. CASE ListenerAsk
  <2>1. UNCHANGED <<light, up, lock, call, outbox, chain, pool, events, changes, stream, overtaken, stale>>
    BY <1>17 DEF ListenerAsk, node, history, server
  <2>2. listener' \in ListenerType
    BY <1>0, <1>17 DEF ListenerAsk, ListenerType
  <2>3. inbox' \in Seq(Request)
    <3>1. [for |-> None, kind |-> "subscribe", page |-> 0] \in Request
      BY DEF Request, Item
    <3> QED BY <1>0, <1>17, <3>1, AppendProperties DEF ListenerAsk, Sent
  <2> QED BY <1>0, <2>1, <2>2, <2>3, SameCalls DEF BaseInv, TypeOK
<1>18. CASE ListenerLost
  <2>1. UNCHANGED <<light, up, lock, call, listener, inbox, chain, pool, events, changes, stream,
                    overtaken, stale>>
    BY <1>18 DEF ListenerLost, client, node, history, server
  <2>2. outbox' \in Seq(Message)
    BY <1>0, <1>18, HeadTailProperties DEF ListenerLost
  <2> QED BY <1>0, <2>1, <2>2, SameCalls DEF BaseInv, TypeOK
<1>19. CASE ServeCut
  <2>1. /\ UNCHANGED <<light, lock, call, listener, outbox, chain, pool, events, changes, stream,
                       overtaken, stale>>
        /\ inbox # <<>> /\ (inbox' = <<Head(inbox)>> \/ inbox' = <<>>) /\ up' \in BOOLEAN
    <3>1. inbox # <<>>
      <4>1. Len(inbox) > 1
        BY <1>19 DEF ServeCut
      <4> QED BY <4>1
    <3>2. up' = up \/ up' = FALSE
      BY <1>19 DEF ServeCut
    <3> QED BY <1>0, <1>19, <3>1, <3>2 DEF ServeCut, client, node, history
  <2>2. inbox' \in Seq(Request)
    <3>1. PICK h \in Request : h = Head(inbox)
      BY <1>0, <2>1, HeadTailProperties
    <3>2. <<h>> \in Seq(Request) /\ <<>> \in Seq(Request)
      BY EmptySeq
    <3> QED BY <2>1, <3>1, <3>2
  <2> QED BY <1>0, <2>1, <2>2, SameCalls DEF BaseInv, TypeOK
<1>20. ASSUME NEW c \in Caller, Strays(c)
       PROVE  TypeOK' /\ Locking'
  <2>1. /\ call' \in [Caller -> CallType] /\ lock' \in Seq(Caller) /\ Locking'
        /\ inbox' \in Seq(Request) /\ outbox' \in Seq(Message)
    BY <1>20, StrayPuts
  <2>2. UNCHANGED <<light, up, listener, chain, pool, events, changes, stream, overtaken>>
    BY <1>20 DEF Strays, ReadLost, ReadFails, DropWriting, DropReading, client, node, history, server
  <2>3. stale' \in BOOLEAN
    BY <1>0, <1>20 DEF Strays, ReadLost, ReadFails, DropWriting, DropReading, history
  <2> QED BY <1>0, <2>1, <2>2, <2>3 DEF BaseInv, TypeOK
<1>21. ASSUME NEW c \in Caller, ReadLength(c)
       PROVE  TypeOK' /\ Locking'
  <2>1. UNCHANGED <<light, up, lock, call, listener, inbox, outbox, chain, pool, events, changes, stream,
                    overtaken, stale>>
    BY <1>21 DEF ReadLength, client, node, history, server
  <2> QED BY <1>0, <2>1, SameCalls DEF BaseInv, TypeOK
<1>14. CASE ListenerRead
  <2>1. UNCHANGED <<light, up, lock, call, inbox, chain, pool, events, changes, stream, overtaken, stale>>
    BY <1>14 DEF ListenerRead, node, history, server
  <2>2. listener' \in ListenerType /\ outbox' \in Seq(Message)
    <3>1. CASE outbox # <<>>
      <4>1. Head(outbox) \in Message /\ Tail(outbox) \in Seq(Message)
        BY <1>0, <3>1, HeadTailProperties
      <4>2. listener.got \o Head(outbox).items \in Seq(Item)
        BY <1>0, <4>1, ConcatProperties DEF ListenerType, Message
      <4> QED BY <1>0, <1>14, <3>1, <4>1, <4>2 DEF ListenerRead, ListenerType
    <3>2. CASE outbox = <<>>
      BY <1>0, <1>14, <3>2 DEF ListenerRead, ListenerType
    <3> QED BY <3>1, <3>2
  <2> QED BY <1>0, <2>1, <2>2, SameCalls DEF BaseInv, TypeOK
<1>15. CASE ListenerStop
  <2>1. UNCHANGED <<light, up, lock, call, inbox, outbox, chain, pool, events, changes, stream,
                    overtaken, stale>>
    BY <1>15 DEF ListenerStop, wires, node, history, server
  <2>2. listener' \in ListenerType
    BY <1>0, <1>15 DEF ListenerStop, ListenerType
  <2> QED BY <1>0, <2>1, <2>2, SameCalls DEF BaseInv, TypeOK
<1>16. CASE UNCHANGED vars
  <2>1. UNCHANGED <<light, up, lock, call, listener, inbox, outbox, chain, pool, events, changes, stream,
                    overtaken, stale>>
    BY <1>16 DEF vars, client, wires, node, history, server
  <2> QED BY <1>0, <2>1, SameCalls DEF BaseInv, TypeOK
<1> QED BY <1>1, <1>2, <1>3, <1>4, <1>5, <1>6, <1>7, <1>8, <1>9, <1>10, <1>11, <1>12, <1>13, <1>14,
           <1>15, <1>16, <1>17, <1>18, <1>19, <1>20, <1>21
        DEF Next, ServerStep, CallStep, CallEnds, ListenerStep, Strays

-----------------------------------------------------------------------------
(* A listener gets the events without a gap.                               *)

\* Before the first event nothing was sent and nothing heard.
LEMMA FreshStreams == BaseInv /\ Fresh => Streaming
<1> SUFFICES ASSUME BaseInv, Fresh  PROVE Streaming
  OBVIOUS
<1>1. Len(events) \in Nat /\ Len(outbox) \in Nat /\ Len(listener.got) = 0
  BY LenProperties DEF BaseInv, TypeOK, Fresh
<1>2. stream.first = 1 /\ stream.next = 1
  BY DEF Fresh
<1>3. SubSeq(events, 1, 0) = <<>>
  BY SubSeqEmpty
<1>4. EventsContiguous
  BY <1>1, <1>2, <1>3 DEF EventsContiguous, Fresh
<1> QED BY <1>1, <1>2, <1>4 DEF Fresh, Streaming, Heard

\* A step of a caller: there is no listener yet, and what it sends is no subscription.
LEMMA CallerStreams ==
  ASSUME EventInv, BaseInv', UNCHANGED <<stream, listener>>, listener.pc = "off",
         \A i \in DOMAIN outbox' : outbox'[i].kind # "event",
         \A i \in DOMAIN inbox' : inbox'[i].kind # "subscribe"
  PROVE  EventInv'
<1>1. Fresh
  BY DEF EventInv, Converted
<1>2. Fresh'
  BY <1>1 DEF Fresh
<1>3. Streaming'
  <2>1. (BaseInv /\ Fresh => Streaming)'
    BY FreshStreams, PTL
  <2> QED BY <1>2, <2>1
<1>4. Converted'
  BY <1>2 DEF Converted
<1> QED BY <1>3, <1>4 DEF EventInv

\* A step that touches neither the stream nor the listener nor what is on its way.
LEMMA SameStream ==
  ASSUME EventInv, BaseInv', UNCHANGED <<stream, listener, events, wires>>,
         listener.pc # "off" => \A c \in Caller : call'[c].pc \in {"idle", "done"}
  PROVE  EventInv'
BY DEF EventInv, wires, Converted, Fresh, Streaming, EventAt, Heard, EventsContiguous

\* The callers and the changes of the lists do not disturb the stream.
LEMMA CallersStream ==
  ASSUME EventInv, BaseInv', NEW c \in Caller, Plain(c) \/ ReadLength(c) \/ Strays(c)
  PROVE  EventInv'
<1>1. listener.pc = "off" /\ UNCHANGED <<stream, listener>>
  <2>1. call[c].pc \in {"idle", "done"} => listener.pc = "off"
    <3>1. CASE Plain(c)
      BY <3>1 DEF Plain, Call, Lock, Write, Read, Reader, Return, Drop
    <3>2. CASE ReadLength(c) \/ Strays(c)
      BY <3>2 DEF ReadLength, Strays, ReadLost, ReadFails, DropWriting, DropReading, Reader
    <3> QED BY <3>1, <3>2
  <2>2. UNCHANGED <<stream, listener>>
    <3>1. CASE Plain(c)
      BY <3>1 DEF Plain, Call, Lock, Write, Read, Return, Drop
    <3>2. CASE ReadLength(c) \/ Strays(c)
      BY <3>2 DEF ReadLength, Strays, ReadLost, ReadFails, DropWriting, DropReading, client
    <3> QED BY <3>1, <3>2
  <2> QED BY <2>1, <2>2 DEF EventInv, Converted
<1>2. /\ \A i \in DOMAIN outbox : outbox[i].kind # "event"
      /\ \A i \in DOMAIN inbox : inbox[i].kind # "subscribe"
  BY <1>1 DEF EventInv, Converted, Fresh
<1>3. inbox \in Seq(Request) /\ outbox \in Seq(Message) /\ call[c] \in CallType
  BY DEF EventInv, BaseInv, TypeOK
<1>4. \A i \in DOMAIN outbox' : outbox'[i].kind # "event"
  <2>1. CASE outbox' = outbox
    BY <1>2, <2>1
  <2>2. CASE outbox # <<>> /\ outbox' = Tail(outbox)
    <3>1. /\ DOMAIN outbox = 1..Len(outbox) /\ DOMAIN outbox' = 1..(Len(outbox) - 1)
          /\ Len(outbox) \in Nat
          /\ \A i \in 1..(Len(outbox) - 1) : outbox'[i] = outbox[i + 1]
      BY <1>3, <2>2, HeadTailProperties, LenProperties
    <3> QED BY <1>2, <3>1
  <2>3. CASE Plain(c)
    BY <2>1, <2>2, <2>3 DEF Plain, Call, Lock, Write, Read, Return, Drop, wires
  <2>4. CASE ReadLength(c) \/ Strays(c)
    BY <2>1, <2>2, <2>4 DEF ReadLength, Strays, ReadLost, ReadFails, DropWriting, DropReading
  <2> QED BY <2>3, <2>4
<1>5. \A i \in DOMAIN inbox' : inbox'[i].kind # "subscribe"
  <2>1. CASE inbox' = inbox
    BY <1>2, <2>1
  <2>2. ASSUME NEW r \in Request, r.kind # "subscribe", inbox' = Append(inbox, r)
        PROVE  \A i \in DOMAIN inbox' : inbox'[i].kind # "subscribe"
    <3>1. /\ DOMAIN inbox = 1..Len(inbox) /\ DOMAIN inbox' = 1..(Len(inbox) + 1)
          /\ Len(inbox) \in Nat /\ inbox'[Len(inbox) + 1] = r
          /\ \A i \in 1..Len(inbox) : inbox'[i] = inbox[i]
      BY <1>3, <2>2, AppendProperties, LenProperties
    <3> QED BY <1>2, <2>2, <3>1
  <2>3. CASE Write(c) /\ up
    <3>1. PICK r : r = RequestOf(c)
      OBVIOUS
    <3>2. r \in Request /\ r.kind # "subscribe"
      BY <1>3, <2>3, <3>1 DEF Write, RequestOf, CallType, Busy, Request, Fetched, Kinds
    <3>3. inbox' = Append(inbox, r)
      BY <2>3, <3>1 DEF Write, Sent
    <3> QED BY <2>2, <3>2, <3>3
  <2>4. CASE DropWriting(c)
    <3>1. PICK r : r = [RequestOf(c) EXCEPT !.kind = "cut"]
      OBVIOUS
    <3>2. r \in Request /\ r.kind # "subscribe"
      BY <1>3, <3>1 DEF RequestOf, CallType, Request
    <3>3. inbox' = Append(inbox, r)
      BY <2>4, <3>1 DEF DropWriting, Sent
    <3> QED BY <2>2, <3>2, <3>3
  <2>5. CASE Plain(c) /\ ~(Write(c) /\ up)
    BY <2>1, <2>5 DEF Plain, Call, Lock, Write, Sent, Read, Return, Drop, wires
  <2>6. CASE ReadLength(c) \/ (Strays(c) /\ ~DropWriting(c))
    BY <2>1, <2>6 DEF ReadLength, Strays, ReadLost, ReadFails, DropReading
  <2> QED BY <2>3, <2>4, <2>5, <2>6
<1> QED BY <1>1, <1>4, <1>5, CallerStreams

\* Taking the head of what is on its way to the client.
LEMMA TakesHead ==
  ASSUME TypeOK, outbox # <<>>, outbox' = Tail(outbox)
  PROVE  /\ Len(outbox) \in Nat \ {0} /\ DOMAIN outbox = 1..Len(outbox)
         /\ Head(outbox) = outbox[1]
         /\ Len(outbox') = Len(outbox) - 1 /\ DOMAIN outbox' = 1..(Len(outbox) - 1)
         /\ \A i \in 1..(Len(outbox) - 1) : outbox'[i] = outbox[i + 1]
BY HeadTailProperties, LenProperties, EmptySeq DEF TypeOK

\* The events that were sent keep their places when one more happens.
LEMMA AddKeeps ==
  ASSUME EventInv, BaseInv', AddBlock
  PROVE  EventInv'
<1>0. /\ events \in Seq(Tx) /\ Len(events) \in Nat /\ outbox \in Seq(Message) /\ Len(outbox) \in Nat
      /\ DOMAIN outbox = 1..Len(outbox) /\ listener.got \in Seq(Item) /\ Len(listener.got) \in Nat
      /\ stream.first \in Nat \ {0} /\ stream.next \in Nat \ {0}
  BY LenProperties DEF EventInv, BaseInv, TypeOK, StreamType, ListenerType
<1>1. UNCHANGED <<stream, listener, inbox, outbox, frame, call>>
  BY DEF AddBlock, client, wires
<1>2. PICK tx \in Tx : events' = Append(events, tx)
  <2>1. Len(chain) + 1 \in Nat /\ changes + 1 \in Nat
    BY LenProperties DEF EventInv, BaseInv, TypeOK
  <2> QED BY <2>1 DEF AddBlock, Tx
<1>3. /\ Len(events') = Len(events) + 1
      /\ \A i \in 1..Len(events) : events'[i] = events[i]
      /\ events' \in Seq(Tx)
  BY <1>0, <1>2, AppendProperties
<1>4. Converted'
  BY <1>1 DEF EventInv, Converted, Fresh
<1>5. Heard' = Heard /\ Heard \in Nat \ {0} /\ Heard <= stream.next /\ stream.next <= Len(events) + 1
  BY <1>0, <1>1 DEF EventInv, Streaming, Heard
<1>6. ASSUME NEW i \in DOMAIN outbox', outbox'[i].kind = "event"
      PROVE  EventAt(i)' >= Heard' /\ outbox'[i].items = <<events[EventAt(i)]>>'
  <2>1. i \in 1..Len(outbox) /\ EventAt(i)' = EventAt(i)
    BY <1>0, <1>1, <1>6 DEF EventAt
  <2>2. EventAt(i) >= Heard /\ outbox[i].items = <<events[EventAt(i)]>>
    BY <1>0, <1>1, <1>6, <2>1 DEF EventInv, Streaming
  <2>3. EventAt(i) \in 1..Len(events)
    <3>1. EventAt(i) = stream.next - 1 - (Len(outbox) - i)
      BY DEF EventAt
    <3>2. ASSUME NEW n \in Nat, NEW l \in Nat, NEW h \in Nat \ {0}, NEW m \in Nat,
                 i \in 1..l, n <= m + 1, n - 1 - (l - i) >= h
          PROVE  n - 1 - (l - i) \in 1..m
      BY <3>2
    <3> QED BY <1>0, <1>5, <2>1, <2>2, <3>1, <3>2
  <2>4. events'[EventAt(i)] = events[EventAt(i)]
    BY <1>3, <2>3
  <2> QED BY <1>1, <1>5, <2>1, <2>2, <2>4
<1>7. EventsContiguous'
  <2> DEFINE a == stream.first
             b == stream.first + Len(listener.got) - 1
  <2>1. a \in Int /\ b \in Int /\ a >= 1 /\ b <= Len(events)
    BY <1>0, <1>5 DEF Heard
  <2>2. \A i \in a..b : events[i] \in Tx /\ events'[i] = events[i]
    <3>1. \A i \in a..b : i \in 1..Len(events)
      BY <1>0, <2>1
    <3> HIDE DEF a, b
    <3> QED BY <1>0, <1>3, <3>1, ElementOfSeq
  <2> HIDE DEF a, b
  <2>3. \A i \in a..b : events'[i] \in Tx
    BY <2>2
  <2>4. /\ SubSeq(events, a, b) \in Seq(Tx)
        /\ Len(SubSeq(events, a, b)) = IF a <= b THEN b - a + 1 ELSE 0
        /\ \A i \in 1..(b - a + 1) : SubSeq(events, a, b)[i] = events[a + i - 1]
    BY <2>1, <2>2, SubSeqProperties
  <2>5. /\ SubSeq(events', a, b) \in Seq(Tx)
        /\ Len(SubSeq(events', a, b)) = IF a <= b THEN b - a + 1 ELSE 0
        /\ \A i \in 1..(b - a + 1) : SubSeq(events', a, b)[i] = events'[a + i - 1]
    BY <2>1, <2>3, SubSeqProperties
  <2>6. SubSeq(events', a, b) = SubSeq(events, a, b)
    <3>1. \A i \in 1..(b - a + 1) : a + i - 1 \in a..b
      BY <2>1
    <3>2. \A i \in 1..(b - a + 1) : SubSeq(events', a, b)[i] = SubSeq(events, a, b)[i]
      BY <2>2, <2>4, <2>5, <3>1
    <3>3. \A i \in 1..Len(SubSeq(events, a, b)) : i \in 1..(b - a + 1)
      BY <2>1, <2>4
    <3> QED BY <2>4, <2>5, <3>2, <3>3, SeqEqual
  <2> QED BY <1>1, <2>6 DEF EventInv, Streaming, EventsContiguous, a, b
<1> QED BY <1>0, <1>1, <1>3, <1>4, <1>5, <1>6, <1>7 DEF EventInv, Streaming

\* A subscription begins with the next event.
LEMMA SubscribeKeeps ==
  ASSUME EventInv, BaseInv', Subscribe
  PROVE  EventInv'
<1>0. /\ inbox \in Seq(Request) /\ inbox # <<>> /\ inbox' = Tail(inbox)
      /\ UNCHANGED <<listener, events, outbox, call>>
      /\ stream' = [on |-> TRUE, first |-> Len(events) + 1, next |-> Len(events) + 1, lagged |-> FALSE]
      /\ Len(events) \in Nat /\ Len(outbox) \in Nat
      /\ Head(inbox).kind = "subscribe"
  BY LenProperties DEF EventInv, BaseInv, TypeOK, Subscribe, Serving, Taken, client, node
<1>1. Fresh /\ listener.pc \notin {"off", "ask"} /\ inbox' = <<>>
  <2>1. Len(inbox) \in Nat \ {0} /\ inbox[1] = Head(inbox) /\ DOMAIN inbox = 1..Len(inbox)
    BY <1>0, LenProperties, EmptySeq
  <2>2. Len(inbox) = 1 /\ listener.pc \notin {"off", "ask"} /\ Fresh
    BY <1>0, <2>1 DEF EventInv, Converted
  <2>3. Len(Tail(inbox)) = 0
    BY <1>0, <2>2, HeadTailProperties
  <2> QED BY <1>0, <2>2, <2>3, HeadTailProperties, EmptySeq
<1>2. Converted'
  BY <1>0, <1>1 DEF EventInv, Converted
<1>3. Heard' = Len(events) + 1 /\ listener'.got = <<>>
  BY <1>0, <1>1 DEF Fresh, Heard
<1>4. EventsContiguous'
  <2>1. SubSeq(events, Len(events) + 1, Len(events)) = <<>>
    BY <1>0, SubSeqEmpty
  <2>2. Len(events) + 1 + 0 - 1 = Len(events) /\ Len(<<>>) = 0
    BY <1>0
  <2>3. stream'.first + Len(listener'.got) - 1 = Len(events) /\ stream'.first = Len(events) + 1
    BY <1>0, <1>3, <2>2
  <2> QED BY <1>0, <1>3, <2>1, <2>3 DEF EventsContiguous
<1> QED BY <1>0, <1>1, <1>2, <1>3, <1>4 DEF EventInv, Streaming, Fresh

\* The next event takes the last place.
LEMMA SendKeeps ==
  ASSUME EventInv, BaseInv', SendEvent
  PROVE  EventInv'
<1>0. /\ events \in Seq(Tx) /\ Len(events) \in Nat /\ outbox \in Seq(Message) /\ Len(outbox) \in Nat
      /\ DOMAIN outbox = 1..Len(outbox) /\ listener.got \in Seq(Item) /\ Len(listener.got) \in Nat
      /\ stream.first \in Nat \ {0} /\ stream.next \in Nat \ {0} /\ stream \in StreamType
  BY LenProperties DEF EventInv, BaseInv, TypeOK, StreamType, ListenerType
<1>1. /\ UNCHANGED <<listener, inbox, frame, events, call>> /\ stream.on /\ stream.next <= Len(events)
      /\ outbox' = Append(outbox, EventOf(events[stream.next]))
      /\ stream' = [stream EXCEPT !.next = stream.next + 1]
  BY DEF SendEvent, client, node
<1>2. PICK m : m = EventOf(events[stream.next])
  OBVIOUS
<1>3. m.kind = "event" /\ m.items = <<events[stream.next]>>
  BY <1>2 DEF EventOf
<1>4. /\ Len(outbox') = Len(outbox) + 1 /\ DOMAIN outbox' = 1..(Len(outbox) + 1)
      /\ \A i \in 1..Len(outbox) : outbox'[i] = outbox[i]
      /\ outbox'[Len(outbox) + 1] = m
  <2>1. outbox' \in Seq(Message)
    BY DEF BaseInv, TypeOK
  <2>2. m \in Message
    <3>1. events[stream.next] \in Item
      BY <1>0, <1>1, ElementOfSeq DEF Item
    <3> QED BY <1>2, <3>1 DEF EventOf, Message
  <2> QED BY <1>0, <1>1, <1>2, <2>1, <2>2, AppendProperties, LenProperties
<1>5. /\ stream'.next = stream.next + 1 /\ stream'.first = stream.first /\ stream'.on
  BY <1>0, <1>1 DEF StreamType
<1>6. ~Fresh
  BY <1>1 DEF Fresh
<1>7. listener.pc \notin {"off", "ask"} /\ inbox = <<>>
  BY <1>6 DEF EventInv, Converted
<1>8. Converted'
  BY <1>1, <1>7 DEF EventInv, Converted
<1>9. Heard' = Heard /\ Heard \in Nat \ {0} /\ Heard <= stream.next
  BY <1>0, <1>1, <1>5 DEF EventInv, Streaming, Heard
<1>10. ASSUME NEW i \in DOMAIN outbox', outbox'[i].kind = "event"
       PROVE  EventAt(i)' >= Heard' /\ outbox'[i].items = <<events[EventAt(i)]>>'
  <2>1. i \in 1..(Len(outbox) + 1)
    BY <1>4, <1>10
  <2>2. EventAt(i)' = stream.next - (Len(outbox) + 1 - i)
    BY <1>0, <1>4, <1>5, <2>1 DEF EventAt
  <2>3. CASE i = Len(outbox) + 1
    <3>1. EventAt(i)' = stream.next
      BY <1>0, <2>2, <2>3
    <3> QED BY <1>1, <1>3, <1>4, <1>9, <2>3, <3>1
  <2>4. CASE i \in 1..Len(outbox)
    <3>1. EventAt(i)' = EventAt(i)
      BY <1>0, <2>2, <2>4 DEF EventAt
    <3>2. EventAt(i) >= Heard /\ outbox[i].items = <<events[EventAt(i)]>>
      BY <1>0, <1>4, <1>10, <2>4 DEF EventInv, Streaming
    <3> QED BY <1>1, <1>4, <1>9, <2>4, <3>1, <3>2
  <2> QED BY <1>0, <2>1, <2>3, <2>4
<1>11. EventsContiguous'
  BY <1>1, <1>5 DEF EventInv, Streaming, EventsContiguous
<1>12. listener'.pc = "on" /\ frame' = "start" => Heard' >= stream'.next - Len(outbox')
  BY <1>0, <1>1, <1>4, <1>5, <1>9 DEF EventInv, Streaming
<1> QED BY <1>0, <1>1, <1>5, <1>8, <1>9, <1>10, <1>11, <1>12 DEF EventInv, Streaming

\* The listener takes the oldest event that it has not heard.
LEMMA ListenerKeeps ==
  ASSUME EventInv, BaseInv', ListenerRead, outbox # <<>>
  PROVE  EventInv'
<1>0. /\ events \in Seq(Tx) /\ Len(events) \in Nat /\ outbox \in Seq(Message) /\ Len(outbox) \in Nat
      /\ DOMAIN outbox = 1..Len(outbox) /\ listener.got \in Seq(Item) /\ Len(listener.got) \in Nat
      /\ stream.first \in Nat \ {0} /\ stream.next \in Nat \ {0} /\ listener \in ListenerType
  BY LenProperties DEF EventInv, BaseInv, TypeOK, StreamType, ListenerType
<1>1. /\ UNCHANGED <<stream, inbox, events, call, frame>> /\ frame = "start"
      /\ outbox' = Tail(outbox) /\ listener.pc = "on"
      /\ listener' = IF Head(outbox).kind = "event"
                     THEN [listener EXCEPT !.got = listener.got \o Head(outbox).items]
                     ELSE [listener EXCEPT !.pc = "err"]
  BY DEF ListenerRead, node
<1>2. /\ Len(outbox) \in Nat \ {0} /\ Head(outbox) = outbox[1]
      /\ Len(outbox') = Len(outbox) - 1 /\ DOMAIN outbox' = 1..(Len(outbox) - 1)
      /\ \A i \in 1..(Len(outbox) - 1) : outbox'[i] = outbox[i + 1]
  BY <1>1, TakesHead DEF EventInv, BaseInv
<1>3. \A i \in 1..(Len(outbox) - 1) : EventAt(i)' = EventAt(i + 1)
  BY <1>0, <1>1, <1>2 DEF EventAt
<1>4. \A i \in 1..(Len(outbox) - 1) : outbox'[i].kind = "event" =>
        EventAt(i)' >= Heard /\ outbox'[i].items = <<events[EventAt(i)']>>
  <2>1. \A i \in 1..(Len(outbox) - 1) : i + 1 \in 1..Len(outbox)
    BY <1>2
  <2> QED BY <1>0, <1>2, <1>3, <2>1 DEF EventInv, Streaming
<1>5. Heard \in Nat \ {0} /\ Heard <= stream.next /\ stream.next <= Len(events) + 1
      /\ Heard >= stream.next - Len(outbox)
  BY <1>0, <1>1 DEF EventInv, Streaming, Heard
<1>6. CASE Head(outbox).kind # "event"
  <2>1. listener'.pc = "err" /\ listener'.got = listener.got
    BY <1>0, <1>1, <1>6 DEF ListenerType
  <2>2. Converted'
    BY <1>1, <1>2, <2>1 DEF EventInv, Converted, Fresh
  <2>3. Heard' = Heard
    BY <1>1, <2>1 DEF Heard
  <2>4. EventsContiguous'
    BY <1>1, <2>1 DEF EventInv, Streaming, EventsContiguous
  <2> QED BY <1>1, <1>2, <1>4, <1>5, <2>1, <2>2, <2>3, <2>4 DEF EventInv, Streaming
<1>7. CASE Head(outbox).kind = "event"
  <2> DEFINE e == events[Heard]
  <2>1. EventAt(1) = stream.next - Len(outbox) /\ EventAt(1) >= Heard
      /\ outbox[1].items = <<events[EventAt(1)]>>
    <3>1. EventAt(1) = stream.next - 1 - (Len(outbox) - 1)
      BY DEF EventAt
    <3>2. EventAt(1) = stream.next - Len(outbox)
      BY <1>0, <3>1
    <3>3. 1 \in DOMAIN outbox /\ outbox[1].kind = "event"
      BY <1>0, <1>2, <1>7
    <3> QED BY <3>2, <3>3 DEF EventInv, Streaming
  <2>2. Heard = stream.next - Len(outbox) /\ Head(outbox).items = <<e>>
    <3>1. EventAt(1) = Heard
      BY <1>0, <1>2, <1>5, <2>1
    <3> QED BY <1>2, <2>1, <3>1
  <2>3. Heard \in 1..Len(events) /\ e \in Item /\ e \in Tx
    <3>1. Heard \in 1..Len(events)
      BY <1>0, <1>2, <1>5, <2>2
    <3> QED BY <1>0, <3>1, ElementOfSeq DEF Item
  <2>4. PICK g : g = Append(listener.got, e)
    OBVIOUS
  <2>5. listener'.pc = "on" /\ listener'.got = g
    <3>1. listener.got \o <<e>> = g
      BY <1>0, <2>3, <2>4, AppendIsConcat
    <3>2. listener' = [listener EXCEPT !.got = g]
      BY <1>1, <1>7, <2>2, <3>1
    <3> QED BY <1>0, <1>1, <3>2 DEF ListenerType
  <2>6. Len(g) = Len(listener.got) + 1
    BY <1>0, <2>3, <2>4, AppendProperties
  <2>7. Heard' = Heard + 1
    <3>1. Heard' = stream.first + Len(g)
      BY <1>1, <2>5 DEF Heard
    <3> QED BY <1>0, <2>6, <3>1 DEF Heard
  <2>8. ~Fresh
    BY <1>2, <1>7, <1>0 DEF Fresh
  <2>9. Converted'
    BY <1>1, <2>5, <2>8 DEF EventInv, Converted
  <2>10. \A i \in 1..(Len(outbox) - 1) : outbox'[i].kind = "event" => EventAt(i)' >= Heard'
    <3>1. \A i \in 1..(Len(outbox) - 1) : EventAt(i)' = stream.next - 1 - (Len(outbox) - 1 - i)
      BY <1>1, <1>2 DEF EventAt
    <3> QED BY <1>0, <1>2, <2>2, <2>7, <3>1
  <2>11. Heard' >= stream.next - Len(outbox') /\ Heard' <= stream.next
    BY <1>0, <1>2, <1>5, <2>2, <2>7
  <2>12. EventsContiguous'
    <3> DEFINE a == stream.first
               b == stream.first + Len(listener.got) - 1
    <3>1. listener.got = SubSeq(events, a, b)
      BY DEF EventInv, Streaming, EventsContiguous
    <3>2. b + 1 = Heard /\ a \in 1..(b + 1) /\ b + 1 \in 1..Len(events) /\ a \in Nat \ {0} /\ b \in Nat
      BY <1>0, <2>3 DEF Heard
    <3>3. stream'.first = a /\ stream'.first + Len(listener'.got) - 1 = b + 1
      <4>1. stream'.first = a /\ Len(listener'.got) = Len(g)
        BY <1>1, <2>5
      <4> QED BY <1>0, <2>6, <4>1
    <3> HIDE DEF a, b
    <3>4. a \in 1..Len(events) /\ b + 1 \in a..Len(events) /\ (b + 1) - 1 = b
      BY <1>0, <3>2
    <3>5. SubSeq(events, a, b + 1) = SubSeq(events, a, (b + 1) - 1) \o <<events[b + 1]>>
      BY <1>0, <3>4, SubSeqRecursiveSecond
    <3>6. listener.got \o <<e>> = g
      BY <1>0, <2>3, <2>4, AppendIsConcat
    <3> QED BY <1>1, <2>5, <3>1, <3>2, <3>3, <3>4, <3>5, <3>6 DEF EventsContiguous
  <2> QED BY <1>1, <1>2, <1>4, <1>5, <2>5, <2>9, <2>7, <2>10, <2>11, <2>12 DEF EventInv, Streaming
<1> QED BY <1>6, <1>7

\* A listener that is lost takes what comes, and hears nothing more.
LEMMA LosesKeep ==
  ASSUME EventInv, BaseInv', ListenerLost
  PROVE  EventInv'
<1>0. /\ events \in Seq(Tx) /\ outbox \in Seq(Message) /\ Len(outbox) \in Nat
      /\ DOMAIN outbox = 1..Len(outbox) /\ stream.next \in Nat \ {0}
  BY LenProperties DEF EventInv, BaseInv, TypeOK, StreamType
<1>1. /\ UNCHANGED <<stream, inbox, events, call, listener>> /\ outbox' = Tail(outbox)
      /\ outbox # <<>> /\ frame' = "lost" /\ listener.pc = "on"
  BY DEF ListenerLost, client, node
<1>2. /\ Len(outbox') = Len(outbox) - 1 /\ DOMAIN outbox' = 1..(Len(outbox) - 1)
      /\ \A i \in 1..(Len(outbox) - 1) : outbox'[i] = outbox[i + 1]
  BY <1>1, TakesHead DEF EventInv, BaseInv
<1>3. \A i \in 1..(Len(outbox) - 1) : i + 1 \in 1..Len(outbox) /\ EventAt(i)' = EventAt(i + 1)
  BY <1>0, <1>1, <1>2 DEF EventAt
<1>4. Heard' = Heard
  BY <1>1 DEF Heard
<1>5. \A i \in DOMAIN outbox' : outbox'[i].kind = "event" =>
        EventAt(i)' >= Heard' /\ outbox'[i].items = <<events[EventAt(i)]>>'
  BY <1>0, <1>1, <1>2, <1>3, <1>4 DEF EventInv, Streaming
<1>6. Streaming'
  BY <1>1, <1>4, <1>5 DEF EventInv, Streaming, EventsContiguous
<1>7. Fresh => Fresh'
  BY <1>0, <1>1, <1>2, <1>3 DEF Fresh
<1>8. Converted'
  BY <1>1, <1>7 DEF EventInv, Converted
<1> QED BY <1>6, <1>8 DEF EventInv

\* What follows the stream is kept by every step.
LEMMA EventKept == EventInv /\ [Next]_vars => EventInv'
<1> SUFFICES ASSUME EventInv, [Next]_vars  PROVE EventInv'
  OBVIOUS
<1>0. BaseInv'
  BY BaseKept DEF EventInv
<1>1. CASE AddBlock
  BY <1>0, <1>1, AddKeeps
<1>2. CASE PopBlock \/ PoolRemove
  <2>1. UNCHANGED <<stream, listener, events, wires, lock>> /\ \E kinds : call' = Removed(kinds)
    BY <1>2 DEF PopBlock, PoolRemove, wires
  <2>2. \A c \in Caller : call'[c].pc = call[c].pc
    <3>1. ASSUME NEW c \in Caller, NEW r, call'[c] = [call[c] EXCEPT !.removed = r]
          PROVE  call'[c].pc = call[c].pc
      BY <3>1 DEF EventInv, BaseInv, TypeOK, CallType
    <3> QED BY <2>1, <3>1, Marks DEF EventInv
  <2> QED BY <1>0, <2>1, <2>2, SameStream DEF EventInv, Converted
<1>3. CASE PoolAdd \/ UNCHANGED vars
  <2>1. UNCHANGED <<stream, listener, events, wires, call>>
    BY <1>3 DEF PoolAdd, vars, client, wires, node
  <2> QED BY <1>0, <2>1, SameStream DEF EventInv, Converted
<1>4. CASE Serve
  <2>1. /\ UNCHANGED <<stream, listener, events, call>> /\ inbox # <<>> /\ inbox' = Tail(inbox)
        /\ outbox' = Append(outbox, Answer(Head(inbox))) /\ Head(inbox).kind \notin {"subscribe", "cut"}
        /\ inbox \in Seq(Request) /\ outbox \in Seq(Message)
    BY <1>4 DEF Serve, Serving, Taken, client, node, EventInv, BaseInv, TypeOK
  <2>2. Head(inbox) \in Request
    BY <2>1, HeadTailProperties
  <2>3. Answer(Head(inbox)) \in Message /\ Answer(Head(inbox)).kind # "event"
    <3>1. Head(inbox).kind # "event"
      BY <2>2 DEF Request, Fetched, Kinds
    <3> QED BY <2>1, <2>2, <3>1, AnswerType DEF EventInv, BaseInv
  <2>4. Fresh
    BY <2>1 DEF EventInv, Converted
  <2>5. Fresh'
    <3>1. /\ DOMAIN outbox = 1..Len(outbox) /\ DOMAIN outbox' = 1..(Len(outbox) + 1)
          /\ Len(outbox) \in Nat /\ outbox'[Len(outbox) + 1] = Answer(Head(inbox))
          /\ \A i \in 1..Len(outbox) : outbox'[i] = outbox[i]
      BY <2>1, <2>3, AppendProperties, LenProperties
    <3>2. \A i \in DOMAIN outbox' : outbox'[i].kind # "event"
      BY <2>3, <2>4, <3>1 DEF Fresh
    <3> QED BY <2>1, <2>4, <3>2 DEF Fresh
  <2>6. Converted'
    <3>1. /\ DOMAIN inbox = 1..Len(inbox) /\ DOMAIN inbox' = 1..(Len(inbox) - 1)
          /\ Len(inbox) \in Nat /\ Len(inbox') = Len(inbox) - 1
          /\ \A i \in 1..(Len(inbox) - 1) : inbox'[i] = inbox[i + 1]
      BY <2>1, HeadTailProperties, LenProperties
    <3>2. \A i \in DOMAIN inbox' :
            inbox'[i].kind = "subscribe" => i = Len(inbox') /\ listener.pc \notin {"off", "ask"}
      <4>1. \A i \in 1..(Len(inbox) - 1) : i + 1 \in DOMAIN inbox
        BY <3>1
      <4> QED BY <3>1, <4>1 DEF EventInv, Converted
    <3> QED BY <2>1, <2>5, <3>2 DEF EventInv, Converted
  <2>7. (BaseInv /\ Fresh => Streaming)'
    BY FreshStreams, PTL
  <2> QED BY <1>0, <2>5, <2>6, <2>7 DEF EventInv
<1>5. CASE ServeFails
  <2>1. UNCHANGED <<stream, listener, events, outbox, frame, call>> /\ inbox' = <<>>
    BY <1>5 DEF ServeFails, client, node
  <2> QED BY <1>0, <2>1
          DEF EventInv, Converted, Fresh, Streaming, EventAt, Heard, EventsContiguous
<1>6. CASE Subscribe
  BY <1>0, <1>6, SubscribeKeeps
<1>7. CASE SendEvent
  BY <1>0, <1>7, SendKeeps
<1>8. CASE StreamLags
  <2>1. /\ UNCHANGED <<listener, events, inbox, outbox, frame, call>> /\ stream.on
        /\ stream' = [stream EXCEPT !.on = FALSE, !.lagged = TRUE]
    BY <1>8 DEF StreamLags, client, wires, node
  <2>2. stream'.first = stream.first /\ stream'.next = stream.next
    BY <2>1 DEF EventInv, BaseInv, TypeOK, StreamType
  <2>3. ~Fresh
    BY <2>1 DEF Fresh
  <2>4. Converted'
    BY <2>1, <2>3 DEF EventInv, Converted
  <2>5. Streaming'
    BY <2>1, <2>2 DEF EventInv, Streaming, EventAt, Heard, EventsContiguous
  <2> QED BY <1>0, <2>4, <2>5 DEF EventInv
<1>9. ASSUME NEW c \in Caller, Plain(c) \/ ReadLength(c) \/ Strays(c)
      PROVE  EventInv'
  BY <1>0, <1>9, CallersStream
<1>10. CASE ListenerAsk
  <2>1. /\ UNCHANGED <<stream, events, outbox, call>> /\ listener.pc = "ask"
        /\ listener' = [listener EXCEPT !.pc = "on"]
        /\ inbox \in Seq(Request) /\ listener \in ListenerType
    BY <1>10 DEF ListenerAsk, node, EventInv, BaseInv, TypeOK
  <2>2. Fresh
    BY <2>1 DEF EventInv, Converted
  <2>3. listener'.pc = "on" /\ listener'.got = listener.got
    BY <2>1 DEF ListenerType
  <2>4. Fresh'
    BY <2>1, <2>2, <2>3 DEF Fresh
  <2>5. \A i \in DOMAIN inbox' : inbox'[i].kind = "subscribe" => i = Len(inbox')
    <3>1. \A i \in DOMAIN inbox : inbox[i].kind # "subscribe"
      BY <2>1 DEF EventInv, Converted
    <3>2. CASE inbox' = inbox
      BY <3>1, <3>2
    <3>3. CASE inbox' = Append(inbox, [for |-> None, kind |-> "subscribe", page |-> 0])
      <4>1. [for |-> None, kind |-> "subscribe", page |-> 0] \in Request
        BY DEF Request, Item
      <4>2. /\ DOMAIN inbox = 1..Len(inbox) /\ DOMAIN inbox' = 1..(Len(inbox) + 1)
            /\ Len(inbox) \in Nat /\ Len(inbox') = Len(inbox) + 1
            /\ \A i \in 1..Len(inbox) : inbox'[i] = inbox[i]
        BY <2>1, <3>3, <4>1, AppendProperties, LenProperties
      <4> QED BY <3>1, <4>2
    <3> QED BY <1>10, <3>2, <3>3 DEF ListenerAsk, Sent
  <2>6. Converted'
    BY <2>1, <2>3, <2>4, <2>5 DEF EventInv, Converted
  <2>7. (BaseInv /\ Fresh => Streaming)'
    BY FreshStreams, PTL
  <2> QED BY <1>0, <2>4, <2>6, <2>7 DEF EventInv
<1>11. CASE ListenerRead
  <2>1. CASE outbox # <<>>
    BY <1>0, <1>11, <2>1, ListenerKeeps
  <2>2. CASE outbox = <<>>
    <3>1. /\ UNCHANGED <<stream, events, outbox, inbox, frame, call>> /\ listener.pc = "on"
          /\ listener' = [listener EXCEPT !.pc = "err"]
      BY <1>11, <2>2 DEF ListenerRead, node
    <3>2. listener'.pc = "err" /\ listener'.got = listener.got
      BY <3>1 DEF EventInv, BaseInv, TypeOK, ListenerType
    <3> QED BY <1>0, <3>1, <3>2
            DEF EventInv, Converted, Fresh, Streaming, EventAt, Heard, EventsContiguous
  <2> QED BY <2>1, <2>2
<1>12. CASE ListenerStop
  <2>1. /\ UNCHANGED <<stream, events, outbox, inbox, frame, call>> /\ listener.pc = "on"
        /\ listener' = [listener EXCEPT !.pc = "stopped"]
    BY <1>12 DEF ListenerStop, wires, node
  <2>2. listener'.pc = "stopped" /\ listener'.got = listener.got
    BY <2>1 DEF EventInv, BaseInv, TypeOK, ListenerType
  <2> QED BY <1>0, <2>1, <2>2
          DEF EventInv, Converted, Fresh, Streaming, EventAt, Heard, EventsContiguous
<1>13. CASE ServeCut
  <2>1. /\ UNCHANGED <<stream, listener, events, outbox, frame, call>> /\ Head(inbox).kind = "cut"
        /\ inbox' = <<Head(inbox)>> \/ inbox' = <<>>
    BY <1>13 DEF ServeCut, client, node
  <2>2. inbox # <<>>
    <3>1. Len(inbox) > 1
      BY <1>13 DEF ServeCut
    <3> QED BY <3>1
  <2>3. Fresh
    BY <2>2 DEF EventInv, Converted
  <2>4. Fresh'
    BY <2>1, <2>3 DEF Fresh
  <2>5. \A i \in DOMAIN inbox' : inbox'[i].kind # "subscribe"
    <3>1. CASE inbox' = <<Head(inbox)>>
      BY <2>1, <3>1
    <3>2. CASE inbox' = <<>>
      BY <3>2
    <3> QED BY <2>1, <3>1, <3>2
  <2>6. Converted'
    BY <2>1, <2>4, <2>5 DEF EventInv, Converted
  <2>7. (BaseInv /\ Fresh => Streaming)'
    BY FreshStreams, PTL
  <2> QED BY <1>0, <2>4, <2>6, <2>7 DEF EventInv
<1>14. CASE Listen
  <2>1. /\ UNCHANGED <<stream, events, wires, call>> /\ listener.pc = "off"
        /\ listener' = [listener EXCEPT !.pc = "ask"]
        /\ \A c \in Caller : call[c].pc \in {"idle", "done"}
    BY <1>14 DEF Listen, node
  <2>2. listener'.pc = "ask" /\ listener'.got = listener.got
    BY <2>1 DEF EventInv, BaseInv, TypeOK, ListenerType
  <2>3. Fresh
    BY <2>1 DEF EventInv, Converted
  <2>4. Fresh'
    BY <2>1, <2>2, <2>3 DEF Fresh, wires
  <2>5. Converted'
    BY <2>1, <2>2, <2>4 DEF EventInv, Converted, wires
  <2>6. (BaseInv /\ Fresh => Streaming)'
    BY FreshStreams, PTL
  <2> QED BY <1>0, <2>4, <2>5, <2>6 DEF EventInv
<1>15. CASE ListenerLost
  BY <1>0, <1>15, LosesKeep
<1>16. CASE ListenerFails
  <2>1. /\ UNCHANGED <<stream, events, outbox, inbox, frame, call>> /\ listener.pc = "on"
        /\ listener' = [listener EXCEPT !.pc = "err"]
    BY <1>16 DEF ListenerFails, wires, node
  <2>2. listener'.pc = "err" /\ listener'.got = listener.got
    BY <2>1 DEF EventInv, BaseInv, TypeOK, ListenerType
  <2> QED BY <1>0, <2>1, <2>2
          DEF EventInv, Converted, Fresh, Streaming, EventAt, Heard, EventsContiguous
<1> QED BY <1>1, <1>2, <1>3, <1>4, <1>5, <1>6, <1>7, <1>8, <1>9, <1>10, <1>11, <1>12, <1>13, <1>14,
           <1>15, <1>16
        DEF Next, ServerStep, CallStep, CallEnds, ListenerStep, Plain, Strays

-----------------------------------------------------------------------------
(* Calls get their own answers.                                            *)

\* Where the answers and the requests are.
LEMMA ForsMeans ==
  BaseInv => /\ Len(outbox) \in Nat /\ Len(inbox) \in Nat
             /\ DOMAIN Fors = 1..(Len(outbox) + Len(inbox))
             /\ \A k \in 1..Len(outbox) : Fors[k] = outbox[k].for
             /\ \A k \in 1..Len(inbox) : Fors[Len(outbox) + k] = inbox[k].for
<1> SUFFICES ASSUME BaseInv
             PROVE  /\ Len(outbox) \in Nat /\ Len(inbox) \in Nat
                    /\ DOMAIN Fors = 1..(Len(outbox) + Len(inbox))
                    /\ \A k \in 1..Len(outbox) : Fors[k] = outbox[k].for
                    /\ \A k \in 1..Len(inbox) : Fors[Len(outbox) + k] = inbox[k].for
  OBVIOUS
<1>1. Len(outbox) \in Nat /\ Len(inbox) \in Nat
  BY LenProperties DEF BaseInv, TypeOK
<1>2. DOMAIN Fors = 1..(Len(outbox) + Len(inbox))
  BY DEF Fors
<1>3. \A k \in 1..Len(outbox) : Fors[k] = outbox[k].for
  BY <1>1 DEF Fors
<1>4. ASSUME NEW k \in 1..Len(inbox)
      PROVE  Fors[Len(outbox) + k] = inbox[k].for
  <2>1. /\ Len(outbox) + k \in 1..(Len(outbox) + Len(inbox))
        /\ ~(Len(outbox) + k <= Len(outbox)) /\ (Len(outbox) + k) - Len(outbox) = k
    BY <1>1
  <2> QED BY <2>1 DEF Fors
<1> QED BY <1>1, <1>2, <1>3, <1>4

\* Nobody is before the one who holds the stream.
LEMMA HoldsFirst ==
  ASSUME BaseInv, NEW c \in Caller, Holds(c), NEW d
  PROVE  ~Before(d, c)
<1>1. lock \in Seq(Caller) /\ lock # <<>> /\ DOMAIN lock = 1..Len(lock) /\ Len(lock) \in Nat
  BY LenProperties DEF BaseInv, TypeOK, Holds
<1>2. 1 \in DOMAIN lock /\ lock[1] = c
  BY <1>1, EmptySeq DEF Holds
<1>3. ASSUME NEW i \in DOMAIN lock, NEW j \in DOMAIN lock, i < j, lock[j] = c
      PROVE  FALSE
  <2>1. j = 1
    BY <1>2, <1>3 DEF BaseInv, Locking
  <2> QED BY <1>1, <1>3, <2>1
<1> QED BY <1>3 DEF Before

\* The order in the queue stays when one leaves it.
LEMMA LeavesOrder ==
  ASSUME BaseInv, NEW c \in Caller, call[c].pc \in {"write", "read"}, Release(c),
         NEW d, NEW e, d # c, e # c, Before(d, e)
  PROVE  Before(d, e)'
<1>1. PICK p \in 1..Len(lock) :
        /\ lock[p] = c
        /\ lock' \in Seq(Caller) /\ Len(lock') = Len(lock) - 1
        /\ \A j \in 1..(Len(lock) - 1) : lock'[j] = IF j < p THEN lock[j] ELSE lock[j + 1]
  BY ReleaseProperties
<1>2. DOMAIN lock = 1..Len(lock) /\ DOMAIN lock' = 1..(Len(lock) - 1) /\ Len(lock) \in Nat
  BY <1>1, LenProperties DEF BaseInv, TypeOK
<1>3. PICK i \in 1..Len(lock), j \in 1..Len(lock) : i < j /\ lock[i] = d /\ lock[j] = e
  BY <1>2 DEF Before
<1>4. i # p /\ j # p
  BY <1>1, <1>3
<1> DEFINE a == IF i < p THEN i ELSE i - 1
           b == IF j < p THEN j ELSE j - 1
<1>5. a \in 1..(Len(lock) - 1) /\ b \in 1..(Len(lock) - 1) /\ a < b
  BY <1>2, <1>3, <1>4
<1>6. (IF a < p THEN a ELSE a + 1) = i /\ (IF b < p THEN b ELSE b + 1) = j
  BY <1>2, <1>3, <1>4
<1> HIDE DEF a, b
<1>7. lock'[a] = d /\ lock'[b] = e
  BY <1>1, <1>3, <1>5, <1>6
<1> QED BY <1>2, <1>5, <1>7 DEF Before

\* The order in the queue stays when one joins it, behind all others.
LEMMA JoinsOrder ==
  ASSUME BaseInv, NEW c \in Caller, Lock(c), NEW d \in Caller
  PROVE  /\ \A e : Before(d, e) => Before(d, e)'
         /\ call[d].pc \in {"write", "read"} => Before(d, c)'
<1>1. /\ lock' \in Seq(Caller) /\ Len(lock') = Len(lock) + 1 /\ lock'[Len(lock) + 1] = c
      /\ \A i \in 1..Len(lock) : lock'[i] = lock[i]
  BY Joins
<1>2. DOMAIN lock = 1..Len(lock) /\ DOMAIN lock' = 1..(Len(lock) + 1) /\ Len(lock) \in Nat
  BY <1>1, LenProperties DEF BaseInv, TypeOK
<1>3. ASSUME NEW e, Before(d, e)  PROVE Before(d, e)'
  <2>1. PICK i \in 1..Len(lock), j \in 1..Len(lock) : i < j /\ lock[i] = d /\ lock[j] = e
    BY <1>2, <1>3 DEF Before
  <2>2. i \in DOMAIN lock' /\ j \in DOMAIN lock' /\ lock'[i] = d /\ lock'[j] = e
    BY <1>1, <1>2, <2>1
  <2> QED BY <2>1, <2>2 DEF Before
<1>4. ASSUME call[d].pc \in {"write", "read"}  PROVE Before(d, c)'
  <2>1. PICK i \in 1..Len(lock) : lock[i] = d
    BY <1>2, <1>4 DEF BaseInv, Locking
  <2>2. i \in DOMAIN lock' /\ Len(lock) + 1 \in DOMAIN lock' /\ i < Len(lock) + 1 /\ lock'[i] = d
    BY <1>1, <1>2, <2>1
  <2> QED BY <1>1, <2>2 DEF Before
<1> QED BY <1>3, <1>4

\* A step after which the same calls wait for the same answers in the same order.
LEMMA TurnsKept ==
  ASSUME Turns, Fors' = Fors, up' => up,
         \A c \in Caller : (Awaiting(c)' <=> Awaiting(c)) /\ (Reading(c)' <=> Reading(c)),
         \A c, d \in Caller : Reading(c) /\ Reading(d) /\ Before(d, c) => Before(d, c)'
  PROVE  Turns'
<1>1. \A k \in DOMAIN Fors : Fors[k] \in Caller /\ Awaiting(Fors[k])
  BY DEF Turns
<1>2. ASSUME NEW k \in DOMAIN Fors  PROVE Fors[k] \in Caller /\ Awaiting(Fors[k])'
  <2>1. PICK f \in Caller : f = Fors[k] /\ Awaiting(f)
    BY <1>1
  <2>2. Awaiting(f)'
    BY <2>1
  <2>3. Fors'[k] = f
    BY <2>1
  <2> QED BY <2>1, <2>2, <2>3 DEF Awaiting
<1>3. ASSUME NEW c \in Caller, Reading(c)'  PROVE InTurn(c)'
  <2>1. Reading(c) /\ InTurn(c)
    BY <1>3 DEF Turns
  <2>2. ASSUME NEW k \in DOMAIN Fors'
        PROVE  (\E l \in 1..k : Fors'[l] = c) \/ (Reading(Fors[k])' /\ Before(Fors[k], c)')
    <3>1. CASE \E l \in 1..k : Fors[l] = c
      BY <3>1
    <3>2. CASE Reading(Fors[k]) /\ Before(Fors[k], c)
      <4>1. PICK f \in Caller : f = Fors[k]
        BY <1>1
      <4>2. Reading(f)' /\ Before(f, c)'
        BY <2>1, <3>2, <4>1
      <4>3. Fors'[k] = f
        BY <4>1
      <4> QED BY <4>2, <4>3 DEF Reading, Before
    <3> QED BY <2>1, <2>2, <3>1, <3>2 DEF InTurn
  <2> QED BY <2>2 DEF InTurn
<1>4. up' => \A c \in Caller : Awaiting(c)' => \E k \in DOMAIN Fors' : Fors'[k] = c
  BY DEF Turns
<1>5. \A k, l \in DOMAIN Fors' : Fors'[k] = Fors'[l] => k = l
  BY DEF Turns
<1> QED BY <1>2, <1>3, <1>4, <1>5 DEF Turns

\* A response takes the place of its request.
LEMMA ServeFors ==
  ASSUME BaseInv, BaseInv', Serve
  PROVE  Fors' = Fors
<1>1. /\ inbox \in Seq(Request) /\ inbox # <<>> /\ inbox' = Tail(inbox)
      /\ outbox \in Seq(Message) /\ outbox' = Append(outbox, Answer(Head(inbox)))
      /\ Head(inbox).kind \notin {"subscribe", "cut"}
  BY DEF Serve, Serving, Taken, BaseInv, TypeOK
<1>2. Head(inbox) \in Request /\ Head(inbox) = inbox[1]
  BY <1>1, HeadTailProperties
<1>3. PICK m \in Message : m = Answer(Head(inbox)) /\ m.for = inbox[1].for
  BY <1>1, <1>2, AnswerType DEF BaseInv
<1> DEFINE o == Len(outbox)
           n == Len(inbox)
<1>4. /\ o \in Nat /\ n \in Nat \ {0}
      /\ Len(outbox') = o + 1 /\ outbox'[o + 1] = m /\ \A i \in 1..o : outbox'[i] = outbox[i]
      /\ Len(inbox') = n - 1 /\ \A i \in 1..(n - 1) : inbox'[i] = inbox[i + 1]
  BY <1>1, <1>3, AppendProperties, HeadTailProperties, LenProperties, EmptySeq
<1>5. /\ DOMAIN Fors = 1..(o + n)
      /\ \A k \in 1..o : Fors[k] = outbox[k].for
      /\ \A k \in 1..n : Fors[o + k] = inbox[k].for
  BY ForsMeans
<1>6. /\ DOMAIN Fors' = 1..(Len(outbox') + Len(inbox'))
      /\ \A k \in 1..Len(outbox') : Fors'[k] = outbox'[k].for
      /\ \A k \in 1..Len(inbox') : Fors'[Len(outbox') + k] = inbox'[k].for
  <2>1. (BaseInv => /\ Len(outbox) \in Nat /\ Len(inbox) \in Nat
                    /\ DOMAIN Fors = 1..(Len(outbox) + Len(inbox))
                    /\ \A k \in 1..Len(outbox) : Fors[k] = outbox[k].for
                    /\ \A k \in 1..Len(inbox) : Fors[Len(outbox) + k] = inbox[k].for)'
    BY ForsMeans, PTL
  <2> QED BY <2>1
<1> HIDE DEF o, n
<1>7. DOMAIN Fors' = 1..(o + n)
  <2>1. (o + 1) + (n - 1) = o + n
    BY <1>4
  <2> QED BY <1>4, <1>6, <2>1
<1>8. ASSUME NEW k \in 1..(o + n)  PROVE Fors'[k] = Fors[k]
  <2>1. CASE k \in 1..o
    BY <1>4, <1>5, <1>6, <2>1
  <2>2. CASE k = o + 1
    <3>1. k \in 1..Len(outbox') /\ 1 \in 1..n
      BY <1>4, <2>2
    <3> QED BY <1>3, <1>4, <1>5, <1>6, <2>2, <3>1
  <2>3. CASE k > o + 1
    <3>1. k - (o + 1) \in 1..(n - 1) /\ k - o \in 1..n /\ (k - (o + 1)) + 1 = k - o
          /\ (o + 1) + (k - (o + 1)) = k /\ o + (k - o) = k
      BY <1>4, <2>3
    <3>2. Fors'[k] = inbox'[k - (o + 1)].for
      BY <1>4, <1>6, <3>1
    <3>3. Fors[k] = inbox[k - o].for
      BY <1>5, <3>1
    <3> QED BY <1>4, <3>1, <3>2, <3>3
  <2> QED BY <1>4, <2>1, <2>2, <2>3
<1>9. Fors = [k \in DOMAIN Fors |-> Fors[k]] /\ Fors' = [k \in DOMAIN Fors' |-> Fors'[k]]
  BY DEF Fors
<1> QED BY <1>5, <1>7, <1>8, <1>9

\* The end of the connection loses requests, and changes no turn.
LEMMA FailTurns ==
  ASSUME BaseInv, BaseInv', ServeFails, Turns
  PROVE  Turns'
<1>1. UNCHANGED <<lock, call, outbox>> /\ inbox' = <<>> /\ up' = FALSE
  BY DEF ServeFails, client
<1>2. /\ Len(outbox) \in Nat /\ Len(inbox) \in Nat /\ DOMAIN Fors = 1..(Len(outbox) + Len(inbox))
      /\ \A k \in 1..Len(outbox) : Fors[k] = outbox[k].for
  BY ForsMeans
<1>3. /\ DOMAIN Fors' = 1..Len(outbox)
      /\ \A k \in 1..Len(outbox) : Fors'[k] = outbox[k].for
  <2>1. (BaseInv => /\ Len(outbox) \in Nat /\ Len(inbox) \in Nat
                    /\ DOMAIN Fors = 1..(Len(outbox) + Len(inbox))
                    /\ \A k \in 1..Len(outbox) : Fors[k] = outbox[k].for
                    /\ \A k \in 1..Len(inbox) : Fors[Len(outbox) + k] = inbox[k].for)'
    BY ForsMeans, PTL
  <2>2. Len(inbox') = 0 /\ Len(outbox') = Len(outbox)
    BY <1>1
  <2> QED BY <1>1, <1>2, <2>1, <2>2
<1>4. \A k \in DOMAIN Fors' : k \in DOMAIN Fors /\ Fors'[k] = Fors[k]
  BY <1>2, <1>3
<1>5. ASSUME NEW c \in Caller, Reading(c)'  PROVE InTurn(c)'
  <2>1. Reading(c) /\ InTurn(c)
    BY <1>1, <1>5 DEF Turns, Reading
  <2>2. ASSUME NEW k \in DOMAIN Fors'
        PROVE  (\E l \in 1..k : Fors'[l] = c) \/ (Reading(Fors[k])' /\ Before(Fors[k], c)')
    <3>1. CASE \E l \in 1..k : Fors[l] = c
      <4>1. \A l \in 1..k : l \in DOMAIN Fors'
        BY <1>2, <1>3
      <4> QED BY <1>4, <3>1, <4>1
    <3>2. CASE Reading(Fors[k]) /\ Before(Fors[k], c)
      BY <1>1, <1>4, <3>2 DEF Reading, Before
    <3> QED BY <1>4, <2>1, <3>1, <3>2 DEF InTurn
  <2> QED BY <2>2 DEF InTurn
<1>6. \A k \in DOMAIN Fors' : Fors'[k] \in Caller /\ Awaiting(Fors[k])'
  <2>1. \A k \in DOMAIN Fors' : Fors[k] \in Caller /\ Awaiting(Fors[k])
    BY <1>4 DEF Turns
  <2> QED BY <1>1, <1>4, <2>1 DEF Awaiting
<1>7. \A k, l \in DOMAIN Fors' : Fors'[k] = Fors'[l] => k = l
  BY <1>4 DEF Turns
<1> QED BY <1>1, <1>5, <1>6, <1>7 DEF Turns

\* Who asks to read joins the queue behind all who read; nobody else is in between.
LEMMA LockTurns ==
  ASSUME BaseInv, NEW c \in Caller, Lock(c), Turns, ~overtaken'
  PROVE  Turns'
<1>1. /\ UNCHANGED <<inbox, outbox, up>> /\ call[c].pc \in {"lock", "gap"}
      /\ call \in [Caller -> CallType]
  BY DEF Lock, wires, BaseInv, TypeOK, server
<1>2. /\ \A d \in Caller \ {c} : call'[d] = call[d]
      /\ call'[c].pc = IF call[c].pc = "lock" THEN "write" ELSE "read"
  <2>1. /\ \A d \in Caller \ {c} : call'[d] = call[d]
        /\ call'[c] = [call[c] EXCEPT !.pc = IF call[c].pc = "lock" THEN "write" ELSE "read"]
    BY Joins
  <2> QED BY <1>1, <2>1 DEF CallType
<1>3. Fors' = Fors
  BY <1>1 DEF Fors
<1>4. \A d \in Caller : Awaiting(d)' <=> Awaiting(d)
  BY <1>1, <1>2 DEF Awaiting
<1>5. \A d \in Caller \ {c} : Reading(d)' <=> Reading(d)
  BY <1>2 DEF Reading
<1>6. ~Reading(c)
  BY <1>1 DEF Reading
<1>7. CASE call[c].pc = "lock"
  <2>1. ~Reading(c)'
    BY <1>2, <1>7 DEF Reading
  <2> QED BY <1>1, <1>3, <1>4, <1>5, <1>6, <2>1, JoinsOrder, TurnsKept
<1>8. CASE call[c].pc = "gap"
  <2>1. \A d \in Caller \ {c} : Awaiting(d) => Reading(d)
    BY <1>8 DEF Lock, Awaiting, Reading
  <2>2. Reading(c)'
    BY <1>2, <1>8 DEF Reading
  <2>3. \A k \in DOMAIN Fors : Fors[k] \in Caller /\ Awaiting(Fors[k])
    BY DEF Turns
  <2>4. ASSUME NEW k \in DOMAIN Fors'
        PROVE  Fors'[k] \in Caller /\ Awaiting(Fors[k])' /\ Reading(Fors[k])'
    <3>1. PICK f \in Caller : f = Fors[k] /\ Awaiting(f)
      BY <1>3, <2>3
    <3>2. Awaiting(f)' /\ Reading(f)'
      BY <1>4, <1>5, <2>1, <2>2, <3>1
    <3>3. Fors'[k] = f
      BY <1>3, <3>1
    <3> QED BY <3>2, <3>3 DEF Awaiting, Reading
  <2>5. ASSUME NEW d \in Caller, Reading(d)'  PROVE InTurn(d)'
    <3>1. ASSUME NEW k \in DOMAIN Fors'
          PROVE  (\E l \in 1..k : Fors'[l] = d) \/ (Reading(Fors[k])' /\ Before(Fors[k], d)')
      <4>1. PICK f \in Caller : f = Fors[k] /\ Awaiting(f)
        BY <1>3, <2>3, <3>1
      <4>2. CASE d = c
        <5>1. CASE f = c
          <6>1. k \in 1..k
            <7>1. k \in 1..(Len(outbox) + Len(inbox)) /\ Len(outbox) \in Nat /\ Len(inbox) \in Nat
              BY <1>3, ForsMeans
            <7> QED BY <7>1
          <6> QED BY <1>3, <4>1, <4>2, <5>1, <6>1
        <5>2. CASE f # c
          <6>1. call[f].pc \in {"write", "read"}
            BY <2>1, <4>1, <5>2 DEF Reading
          <6>2. Before(f, c)'
            BY <6>1, JoinsOrder
          <6>3. Fors'[k] = f
            BY <1>3, <4>1
          <6> QED BY <2>4, <4>2, <6>2, <6>3 DEF Before
        <5> QED BY <5>1, <5>2
      <4>3. CASE d # c
        <5>1. Reading(d) /\ InTurn(d)
          BY <1>5, <2>5, <4>3 DEF Turns
        <5>2. CASE \E l \in 1..k : Fors[l] = d
          BY <1>3, <5>2
        <5>3. CASE Reading(Fors[k]) /\ Before(Fors[k], d)
          <6>1. Before(f, d)'
            BY <4>1, <5>3, JoinsOrder
          <6>2. Fors'[k] = f
            BY <1>3, <4>1
          <6> QED BY <2>4, <6>1, <6>2 DEF Before
        <5> QED BY <1>3, <5>1, <5>2, <5>3 DEF InTurn
      <4> QED BY <4>2, <4>3
    <3> QED BY <3>1 DEF InTurn
  <2>6. up' => \A d \in Caller : Awaiting(d)' => \E k \in DOMAIN Fors' : Fors'[k] = d
    BY <1>1, <1>3, <1>4 DEF Turns
  <2>7. \A k, l \in DOMAIN Fors' : Fors'[k] = Fors'[l] => k = l
    BY <1>3 DEF Turns
  <2> QED BY <2>4, <2>5, <2>6, <2>7 DEF Turns
<1> QED BY <1>1, <1>7, <1>8

\* A request is sent after all that others wait for.
LEMMA WriteTurns ==
  ASSUME BaseInv, BaseInv', NEW c \in Caller, Write(c), Turns
  PROVE  Turns'
<1>1. /\ UNCHANGED <<outbox, up>> /\ call[c].pc = "write" /\ Holds(c) /\ Release(c)
      /\ inbox' = IF up THEN Append(inbox, [for |-> c, kind |-> call[c].kind, page |-> call[c].page])
                  ELSE inbox
      /\ inbox \in Seq(Request) /\ call \in [Caller -> CallType]
  BY DEF Write, Sent, RequestOf, BaseInv, TypeOK, server
<1>2. /\ \A d \in Caller \ {c} : call'[d] = call[d]
      /\ call'[c].pc = "gap"
  <2>1. (\A d \in Caller \ {c} : call'[d] = call[d]) /\ call'[c] = [call[c] EXCEPT !.pc = "gap"]
    BY CallPuts
  <2> QED BY <1>1, <2>1 DEF CallType
<1>3. \A d, e \in Caller : Reading(d) /\ Reading(e) /\ Before(d, e) => Before(d, e)'
  <2>1. ~Reading(c)
    BY <1>1 DEF Reading
  <2> QED BY <1>1, <2>1, LeavesOrder
<1>4. \A d \in Caller : Reading(d)' <=> Reading(d)
  BY <1>1, <1>2 DEF Reading
<1>5. \A d \in Caller : Awaiting(d)' <=> Awaiting(d) \/ d = c
  BY <1>1, <1>2 DEF Awaiting
<1>6. ~Awaiting(c)
  BY <1>1 DEF Awaiting
<1>7. /\ Len(outbox) \in Nat /\ Len(inbox) \in Nat
      /\ DOMAIN Fors = 1..(Len(outbox) + Len(inbox))
      /\ \A k \in 1..Len(outbox) : Fors[k] = outbox[k].for
      /\ \A k \in 1..Len(inbox) : Fors[Len(outbox) + k] = inbox[k].for
  BY ForsMeans
<1>8. /\ DOMAIN Fors' = 1..(Len(outbox') + Len(inbox'))
      /\ \A k \in 1..Len(outbox') : Fors'[k] = outbox'[k].for
      /\ \A k \in 1..Len(inbox') : Fors'[Len(outbox') + k] = inbox'[k].for
  <2>1. (BaseInv => /\ Len(outbox) \in Nat /\ Len(inbox) \in Nat
                    /\ DOMAIN Fors = 1..(Len(outbox) + Len(inbox))
                    /\ \A k \in 1..Len(outbox) : Fors[k] = outbox[k].for
                    /\ \A k \in 1..Len(inbox) : Fors[Len(outbox) + k] = inbox[k].for)'
    BY ForsMeans, PTL
  <2> QED BY <2>1
<1> DEFINE n == Len(outbox) + Len(inbox)
<1>9. \A k \in 1..n : k \in DOMAIN Fors' /\ Fors'[k] = Fors[k]
  <2>1. /\ Len(inbox') >= Len(inbox) /\ Len(inbox') \in Nat
        /\ \A k \in 1..Len(inbox) : inbox'[k] = inbox[k]
    <3>1. inbox' \in Seq(Request)
      BY DEF BaseInv, TypeOK
    <3>2. [for |-> c, kind |-> call[c].kind, page |-> call[c].page] \in Request
      BY <1>1 DEF CallType, Busy, Request
    <3> QED BY <1>1, <1>7, <3>1, <3>2, AppendProperties, LenProperties
  <2>2. ASSUME NEW k \in 1..n  PROVE k \in DOMAIN Fors' /\ Fors'[k] = Fors[k]
    <3>1. k \in 1..(Len(outbox') + Len(inbox'))
      BY <1>1, <1>7, <2>1
    <3>2. CASE k \in 1..Len(outbox)
      BY <1>1, <1>7, <1>8, <3>1, <3>2
    <3>3. CASE k \notin 1..Len(outbox)
      <4>1. k - Len(outbox) \in 1..Len(inbox) /\ Len(outbox) + (k - Len(outbox)) = k
            /\ k - Len(outbox) \in 1..Len(inbox')
        BY <1>7, <2>1, <3>3
      <4>2. Fors[k] = inbox[k - Len(outbox)].for
        BY <1>7, <4>1
      <4>3. Fors'[k] = inbox'[k - Len(outbox)].for
        BY <1>1, <1>8, <4>1
      <4> QED BY <1>8, <2>1, <3>1, <4>1, <4>2, <4>3
    <3> QED BY <3>2, <3>3
  <2> QED BY <2>2
<1>10. /\ up => DOMAIN Fors' = 1..(n + 1) /\ Fors'[n + 1] = c
       /\ ~up => DOMAIN Fors' = 1..n
  <2>1. CASE ~up
    BY <1>1, <1>8, <2>1
  <2>2. CASE up
    <3>1. [for |-> c, kind |-> call[c].kind, page |-> call[c].page] \in Request
      BY <1>1 DEF CallType, Busy, Request
    <3>2. Len(inbox') = Len(inbox) + 1 /\ inbox'[Len(inbox) + 1].for = c
      BY <1>1, <2>2, <3>1, AppendProperties
    <3>3. Len(outbox) + (Len(inbox) + 1) = n + 1
      BY <1>7
    <3>4. Len(inbox) + 1 \in 1..(Len(inbox) + 1)
      BY <1>7
    <3> QED BY <1>1, <1>8, <2>2, <3>2, <3>3, <3>4
  <2> QED BY <2>1, <2>2
<1>11. n \in Nat /\ DOMAIN Fors = 1..n /\ \A k \in 1..n : Fors[k] \in Caller /\ Awaiting(Fors[k])
  BY <1>7 DEF Turns
<1> HIDE DEF n
<1>12. \A k \in DOMAIN Fors' : k \in 1..n \/ (up /\ k = n + 1 /\ Fors'[k] = c)
  BY <1>10, <1>11
<1>13. \A k \in 1..n : Fors[k] # c
  BY <1>6, <1>11
<1>14. ASSUME NEW k \in DOMAIN Fors'
       PROVE  Fors'[k] \in Caller /\ Awaiting(Fors[k])'
  <2>1. CASE k \in 1..n
    <3>1. PICK f \in Caller : f = Fors[k] /\ Awaiting(f)
      BY <1>11, <2>1
    <3>2. Awaiting(f)' /\ Fors'[k] = f
      BY <1>5, <1>9, <2>1, <3>1
    <3> QED BY <3>2 DEF Awaiting
  <2>2. CASE Fors'[k] = c
    <3>1. Awaiting(c)'
      BY <1>5
    <3> QED BY <2>2, <3>1 DEF Awaiting
  <2> QED BY <1>12, <2>1, <2>2
<1>15. ASSUME NEW k \in DOMAIN Fors', NEW l \in DOMAIN Fors', Fors'[k] = Fors'[l]
       PROVE  k = l
  <2>1. \A i, j \in 1..n : Fors[i] = Fors[j] => i = j
    BY <1>11 DEF Turns
  <2> QED BY <1>9, <1>12, <1>13, <1>15, <2>1
<1>16. ASSUME up', NEW d \in Caller, Awaiting(d)'
       PROVE  \E k \in DOMAIN Fors' : Fors'[k] = d
  <2>1. CASE d = c
    <3>1. n + 1 \in DOMAIN Fors' /\ Fors'[n + 1] = c
      BY <1>1, <1>10, <1>11, <1>16
    <3> QED BY <2>1, <3>1
  <2>2. CASE d # c
    <3>1. \E k \in 1..n : Fors[k] = d
      BY <1>1, <1>5, <1>11, <1>16, <2>2 DEF Turns
    <3> QED BY <1>9, <3>1
  <2> QED BY <2>1, <2>2
<1>17. ASSUME NEW d \in Caller, Reading(d)'  PROVE InTurn(d)'
  <2>1. Reading(d) /\ InTurn(d)
    BY <1>4, <1>17 DEF Turns
  <2>2. ASSUME NEW k \in DOMAIN Fors'
        PROVE  (\E l \in 1..k : Fors'[l] = d) \/ (Reading(Fors[k])' /\ Before(Fors[k], d)')
    <3>1. CASE k \in 1..n
      <4>1. PICK f \in Caller : f = Fors[k]
        BY <1>11, <3>1
      <4>2. CASE \E l \in 1..k : Fors[l] = d
        <5>1. \A l \in 1..k : l \in 1..n
          BY <1>11, <3>1
        <5> QED BY <1>9, <4>2, <5>1
      <4>3. CASE Reading(f) /\ Before(f, d)
        <5>1. Reading(f)' /\ Before(f, d)' /\ Fors'[k] = f
          BY <1>3, <1>4, <1>9, <2>1, <3>1, <4>1, <4>3
        <5> QED BY <5>1 DEF Reading, Before
      <4> QED BY <1>11, <2>1, <3>1, <4>1, <4>2, <4>3 DEF InTurn
    <3>2. CASE up /\ k = n + 1
      <4>1. PICK l \in 1..n : Fors[l] = d
        <5>1. Awaiting(d)
          BY <2>1 DEF Reading, Awaiting
        <5> QED BY <1>11, <3>2, <5>1 DEF Turns
      <4>2. l \in 1..k
        BY <1>11, <3>2
      <4> QED BY <1>9, <4>1, <4>2
    <3> QED BY <1>12, <3>1, <3>2
  <2> QED BY <2>2 DEF InTurn
<1> QED BY <1>14, <1>15, <1>16, <1>17 DEF Turns

\* The reader at the head of the queue takes its own answer.
LEMMA ReadTurns ==
  ASSUME BaseInv, BaseInv', ~up => inbox = <<>>, NEW c \in Caller, Read(c), Turns
  PROVE  Turns' /\ (outbox # <<>> => Head(outbox).for = c)
<1>1. /\ UNCHANGED <<inbox, up>> /\ call[c].pc = "read" /\ Holds(c) /\ Release(c)
      /\ outbox \in Seq(Message)
  BY DEF Read, Reader, BaseInv, TypeOK, server
<1>2. /\ \A d \in Caller \ {c} : call'[d] = call[d]
      /\ call'[c].pc \in {"err", "lock", "ok"}
      /\ outbox # <<>> => outbox' = Tail(outbox)
      /\ outbox = <<>> => ~up /\ outbox' = outbox
  BY Reads
<1>3. \A d \in Caller : (Reading(d)' <=> Reading(d) /\ d # c) /\ (Awaiting(d)' <=> Awaiting(d) /\ d # c)
  BY <1>1, <1>2 DEF Reading, Awaiting
<1>4. \A d, e \in Caller : d # c /\ e # c /\ Before(d, e) => Before(d, e)'
  BY <1>1, LeavesOrder
<1>5. /\ Len(outbox) \in Nat /\ Len(inbox) \in Nat
      /\ DOMAIN Fors = 1..(Len(outbox) + Len(inbox))
      /\ \A k \in 1..Len(outbox) : Fors[k] = outbox[k].for
      /\ \A k \in 1..Len(inbox) : Fors[Len(outbox) + k] = inbox[k].for
  BY ForsMeans
<1>6. \A k \in DOMAIN Fors : Fors[k] \in Caller /\ Awaiting(Fors[k])
  BY DEF Turns
<1>7. InTurn(c)
  BY <1>1 DEF Turns, Reading
<1>8. CASE outbox = <<>>
  <2>1. DOMAIN Fors = {} /\ outbox' = <<>> /\ inbox' = <<>> /\ inbox = <<>>
    <3>1. inbox = <<>> /\ Len(outbox) = 0 /\ Len(inbox) = 0
      BY <1>2, <1>8
    <3>2. 1..(0 + 0) = {}
      OBVIOUS
    <3> QED BY <1>1, <1>2, <1>5, <1>8, <3>1, <3>2
  <2>2. Fors' = Fors
    BY <1>8, <2>1 DEF Fors
  <2>3. ~up'
    BY <1>1, <1>2, <1>8
  <2> QED BY <1>8, <2>1, <2>2, <2>3 DEF Turns, InTurn
<1>9. CASE outbox # <<>>
  <2> DEFINE n == Len(outbox) + Len(inbox)
  <2>1. /\ Len(outbox) \in Nat \ {0} /\ Head(outbox) = outbox[1]
        /\ Len(outbox') = Len(outbox) - 1
        /\ \A i \in 1..(Len(outbox) - 1) : outbox'[i] = outbox[i + 1]
    BY <1>2, <1>9, TakesHead DEF BaseInv
  <2>2. n \in Nat \ {0} /\ DOMAIN Fors = 1..n
    BY <1>5, <2>1
  <2>3. /\ DOMAIN Fors' = 1..(n - 1)
        /\ \A k \in 1..(n - 1) : Fors'[k] = Fors[k + 1]
    <3>1. /\ DOMAIN Fors' = 1..(Len(outbox') + Len(inbox'))
          /\ \A k \in 1..Len(outbox') : Fors'[k] = outbox'[k].for
          /\ \A k \in 1..Len(inbox') : Fors'[Len(outbox') + k] = inbox'[k].for
      <4>1. (BaseInv => /\ Len(outbox) \in Nat /\ Len(inbox) \in Nat
                        /\ DOMAIN Fors = 1..(Len(outbox) + Len(inbox))
                        /\ \A k \in 1..Len(outbox) : Fors[k] = outbox[k].for
                        /\ \A k \in 1..Len(inbox) : Fors[Len(outbox) + k] = inbox[k].for)'
        BY ForsMeans, PTL
      <4> QED BY <4>1
    <3>2. (Len(outbox) - 1) + Len(inbox) = n - 1
      BY <1>5, <2>1
    <3>3. ASSUME NEW k \in 1..(n - 1)  PROVE Fors'[k] = Fors[k + 1]
      <4>1. CASE k \in 1..(Len(outbox) - 1)
        <5>1. k + 1 \in 1..Len(outbox)
          BY <2>1, <4>1
        <5> QED BY <1>5, <2>1, <3>1, <4>1, <5>1
      <4>2. CASE k \notin 1..(Len(outbox) - 1)
        <5>1. /\ (k + 1) - Len(outbox) \in 1..Len(inbox)
              /\ Len(outbox) + ((k + 1) - Len(outbox)) = k + 1
              /\ (Len(outbox) - 1) + ((k + 1) - Len(outbox)) = k
          BY <1>5, <2>1, <4>2
        <5>2. Fors[k + 1] = inbox[(k + 1) - Len(outbox)].for
          BY <1>5, <5>1
        <5>3. Fors'[k] = inbox[(k + 1) - Len(outbox)].for
          BY <1>1, <2>1, <3>1, <5>1
        <5> QED BY <5>2, <5>3
      <4> QED BY <4>1, <4>2
    <3> QED BY <1>1, <2>1, <3>1, <3>2, <3>3
  <2> HIDE DEF n
  <2>4. Fors[1] = c
    <3>1. 1 \in DOMAIN Fors
      BY <2>2
    <3>2. ~Before(Fors[1], c)
      BY <1>1, HoldsFirst
    <3>3. \E l \in 1..1 : Fors[l] = c
      BY <1>7, <3>1, <3>2 DEF InTurn
    <3> QED BY <3>3
  <2>5. Head(outbox).for = c
    BY <1>5, <2>1, <2>4
  <2>6. \A k \in 1..(n - 1) : k + 1 \in 1..n /\ Fors[k + 1] # c
    <3>1. \A k \in 1..(n - 1) : k + 1 \in 1..n /\ 1 \in 1..n /\ k + 1 # 1
      BY <2>2
    <3> QED BY <2>2, <2>4, <3>1 DEF Turns
  <2>7. ASSUME NEW k \in DOMAIN Fors'
        PROVE  Fors'[k] \in Caller /\ Awaiting(Fors[k])'
    <3>1. PICK f \in Caller : f = Fors[k + 1] /\ Awaiting(f) /\ f # c
      BY <1>6, <2>2, <2>3, <2>6
    <3>2. Awaiting(f)' /\ Fors'[k] = f
      BY <1>3, <2>3, <3>1
    <3> QED BY <3>2 DEF Awaiting
  <2>8. ASSUME NEW k \in DOMAIN Fors', NEW l \in DOMAIN Fors', Fors'[k] = Fors'[l]
        PROVE  k = l
    <3>1. k + 1 \in DOMAIN Fors /\ l + 1 \in DOMAIN Fors /\ Fors[k + 1] = Fors[l + 1]
      BY <2>2, <2>3, <2>6, <2>8
    <3>2. k + 1 = l + 1
      BY <3>1 DEF Turns
    <3> QED BY <2>2, <2>3, <3>2
  <2>9. ASSUME up', NEW d \in Caller, Awaiting(d)'
        PROVE  \E k \in DOMAIN Fors' : Fors'[k] = d
    <3>1. PICK k \in 1..n : Fors[k] = d
      BY <1>1, <1>3, <2>2, <2>9 DEF Turns
    <3>2. k # 1
      BY <1>3, <2>4, <2>9, <3>1
    <3>3. k - 1 \in 1..(n - 1) /\ (k - 1) + 1 = k
      BY <2>2, <3>2
    <3> QED BY <2>3, <3>1, <3>3
  <2>10. ASSUME NEW d \in Caller, Reading(d)'  PROVE InTurn(d)'
    <3>1. Reading(d) /\ InTurn(d) /\ d # c
      BY <1>3, <2>10 DEF Turns
    <3>2. ASSUME NEW k \in DOMAIN Fors'
          PROVE  (\E l \in 1..k : Fors'[l] = d) \/ (Reading(Fors[k])' /\ Before(Fors[k], d)')
      <4>1. PICK f \in Caller : f = Fors[k + 1] /\ f # c
        BY <1>6, <2>2, <2>3, <2>6
      <4>2. k \in 1..(n - 1) /\ k + 1 \in DOMAIN Fors
        BY <2>2, <2>3, <2>6
      <4>3. CASE \E l \in 1..(k + 1) : Fors[l] = d
        <5>1. PICK l \in 1..(k + 1) : Fors[l] = d
          BY <4>3
        <5>2. l # 1
          BY <2>4, <3>1, <5>1
        <5>3. l - 1 \in 1..k /\ l - 1 \in 1..(n - 1) /\ (l - 1) + 1 = l
          BY <2>2, <4>2, <5>2
        <5> QED BY <2>3, <5>1, <5>3
      <4>4. CASE Reading(f) /\ Before(f, d)
        <5>1. Reading(f)' /\ Before(f, d)' /\ Fors'[k] = f
          BY <1>3, <1>4, <2>3, <3>1, <4>1, <4>2, <4>4
        <5> QED BY <5>1 DEF Reading, Before
      <4> QED BY <3>1, <4>1, <4>2, <4>3, <4>4 DEF InTurn
    <3> QED BY <3>2 DEF InTurn
  <2> QED BY <2>5, <2>7, <2>8, <2>9, <2>10 DEF Turns
<1> QED BY <1>8, <1>9

\* The flags of what disturbs the turns stay, and a listener stays one.
LEMMA StaysDisturbed ==
  ASSUME TypeOK, [Next]_vars
  PROVE  /\ Undisturbed' => Undisturbed
         /\ listener'.pc = "off" => listener.pc = "off"
         /\ (~up => inbox = <<>>) => (~up' => inbox' = <<>>)
<1>0. listener \in ListenerType
  BY DEF TypeOK
<1>1. CASE AddBlock \/ PopBlock \/ PoolAdd \/ PoolRemove \/ StreamLags \/ SendEvent
  BY <1>1 DEF AddBlock, PopBlock, PoolAdd, PoolRemove, StreamLags, SendEvent, client, wires, history,
              Undisturbed, server
<1>2. CASE Serve \/ ServeFails \/ Subscribe
  BY <1>2 DEF Serve, ServeFails, Subscribe, Serving, Taken, client, history, Undisturbed, server
<1>3. ASSUME NEW c \in Caller, Plain(c)
      PROVE  /\ Undisturbed' => Undisturbed
             /\ listener'.pc = "off" => listener.pc = "off"
             /\ (~up => inbox = <<>>) => (~up' => inbox' = <<>>)
  <2>1. listener' = listener
    BY <1>3 DEF Plain, Call, Lock, Write, Sent, RequestOf, Read, Reader, Return, Drop, Dropped
  <2>2. up' = up /\ (up \/ inbox' = inbox)
    BY <1>3
       DEF Plain, Call, Lock, Write, Sent, RequestOf, Read, Reader, Return, Drop, Dropped, wires, server
  <2>3. (overtaken => overtaken') /\ (stale => stale')
    <3>1. CASE Lock(c)
      BY <3>1 DEF Lock
    <3>2. CASE Drop(c)
      BY <3>2 DEF Drop, Dropped
    <3>3. CASE Call(c)
      BY <3>3 DEF Call, history
    <3>4. CASE Write(c)
      BY <3>4 DEF Write, Sent, RequestOf, history
    <3>5. CASE Read(c)
      BY <3>5 DEF Read, Reader, history
    <3>6. CASE Return(c)
      BY <3>6 DEF Return, history
    <3> QED BY <1>3, <3>1, <3>2, <3>3, <3>4, <3>5, <3>6 DEF Plain
  <2> QED BY <2>1, <2>2, <2>3 DEF Undisturbed
<1>4. CASE Listen \/ ListenerAsk
  <2>1. UNCHANGED <<overtaken, stale, up>> /\ listener.pc \in {"off", "ask"} /\ (up \/ inbox' = inbox)
        /\ \E p \in {"ask", "on"} : listener' = [listener EXCEPT !.pc = p]
    BY <1>4 DEF Listen, ListenerAsk, Sent, wires, history, server
  <2>2. listener'.pc # "off"
    BY <1>0, <2>1 DEF ListenerType
  <2> QED BY <2>1, <2>2 DEF Undisturbed
<1>5. CASE ListenerRead \/ ListenerStop \/ ListenerFails
  <2>1. UNCHANGED <<overtaken, stale, up, inbox>> /\ listener.pc = "on"
        /\ \/ \E g : listener' = [listener EXCEPT !.got = g]
           \/ \E p \in {"err", "stopped"} : listener' = [listener EXCEPT !.pc = p]
    BY <1>5 DEF ListenerRead, ListenerStop, ListenerFails, wires, history, server
  <2>2. listener'.pc # "off"
    BY <1>0, <2>1 DEF ListenerType
  <2> QED BY <2>1, <2>2 DEF Undisturbed
<1>6. CASE UNCHANGED vars
  BY <1>6 DEF vars, client, wires, history, Undisturbed, server
<1>7. CASE ServeCut
  <2>1. UNCHANGED <<listener, overtaken, stale>> /\ inbox # <<>>
        /\ (up' = FALSE => inbox' = <<>>) /\ (up' = up \/ up' = FALSE)
    <3>1. Len(inbox) > 1
      BY <1>7 DEF ServeCut
    <3>2. inbox # <<>>
      BY <3>1
    <3> QED BY <1>7, <3>2 DEF ServeCut, client, history
  <2> QED BY <2>1 DEF Undisturbed
<1>8. ASSUME NEW c \in Caller, ReadLength(c) \/ ReadLost(c) \/ ReadFails(c)
      PROVE  /\ Undisturbed' => Undisturbed
             /\ listener'.pc = "off" => listener.pc = "off"
             /\ (~up => inbox = <<>>) => (~up' => inbox' = <<>>)
  <2>1. UNCHANGED <<listener, overtaken, stale, up, inbox>>
    BY <1>8 DEF ReadLength, ReadLost, ReadFails, client, history, server
  <2> QED BY <2>1 DEF Undisturbed
<1>9. ASSUME NEW c \in Caller, DropWriting(c) \/ DropReading(c)
      PROVE  /\ Undisturbed' => Undisturbed
             /\ listener'.pc = "off" => listener.pc = "off"
             /\ (~up => inbox = <<>>) => (~up' => inbox' = <<>>)
  <2>1. UNCHANGED <<listener, overtaken, up>> /\ stale' = TRUE /\ (up \/ inbox' = inbox)
    BY <1>9 DEF DropWriting, DropReading, server
  <2> QED BY <2>1 DEF Undisturbed
<1>10. CASE ListenerLost
  <2>1. UNCHANGED <<listener, overtaken, stale, up, inbox>>
    BY <1>10 DEF ListenerLost, client, history, server
  <2> QED BY <2>1 DEF Undisturbed
<1> QED BY <1>1, <1>2, <1>3, <1>4, <1>5, <1>6, <1>7, <1>8, <1>9, <1>10
        DEF Next, ServerStep, CallStep, CallEnds, ListenerStep, Plain

\* Where a request was cut off a call was dropped.
LEMMA Disturbs ==
  ASSUME BaseInv, [Next]_vars, ServeCut \/ \E c \in Caller : Strays(c)
  PROVE  ~Undisturbed'
<1>1. CASE ServeCut
  <2>1. Head(inbox).kind = "cut" /\ Len(inbox) > 1 /\ inbox \in Seq(Request) /\ stale' = stale
    BY <1>1 DEF ServeCut, history, BaseInv, TypeOK
  <2>2. inbox # <<>>
    BY <2>1
  <2>3. 1 \in DOMAIN inbox /\ inbox[1].kind = "cut"
    BY <2>1, <2>2, LenProperties, EmptySeq, HeadTailProperties
  <2> QED BY <2>1, <2>3 DEF BaseInv, Framing, Undisturbed
<1>2. ASSUME NEW c \in Caller, Strays(c)
      PROVE  ~Undisturbed'
  <2>1. stale' = TRUE
    BY <1>2, StrayPuts
  <2> QED BY <2>1 DEF Undisturbed
<1> QED BY <1>1, <1>2

\* What only a connection of a listener does.
LEMMA Listens ==
  ASSUME EventInv, Subscribe \/ SendEvent \/ Listen \/ ListenerStep \/ ListenerFails
  PROVE  call' = call /\ listener'.pc # "off"
<1>1. TypeOK /\ inbox \in Seq(Request) /\ listener \in ListenerType
  BY DEF EventInv, BaseInv, TypeOK
<1>2. call' = call
  BY DEF Subscribe, SendEvent, Listen, ListenerStep, ListenerAsk, ListenerRead, ListenerLost,
         ListenerFails, client
<1>3. CASE Subscribe
  <2>1. inbox # <<>> /\ Head(inbox).kind = "subscribe" /\ listener' = listener
    BY <1>3 DEF Subscribe, Serving, Taken, client
  <2>2. 1 \in DOMAIN inbox /\ inbox[1].kind = "subscribe"
    BY <1>1, <2>1, LenProperties, EmptySeq
  <2> QED BY <1>2, <2>1, <2>2 DEF EventInv, Converted
<1>4. CASE SendEvent
  <2>1. stream.on /\ listener' = listener
    BY <1>4 DEF SendEvent, client
  <2> QED BY <1>2, <2>1 DEF EventInv, Converted, Fresh
<1>5. CASE Listen \/ ListenerAsk
  <2>1. listener'.pc # "off"
    BY <1>1, <1>5 DEF Listen, ListenerAsk, ListenerType
  <2> QED BY <1>2, <2>1
<1>6. CASE ListenerRead \/ ListenerFails
  <2>1. /\ listener.pc = "on"
        /\ \/ \E g : listener' = [listener EXCEPT !.got = g]
           \/ listener' = [listener EXCEPT !.pc = "err"]
    BY <1>6 DEF ListenerRead, ListenerFails
  <2>2. listener'.pc # "off"
    BY <1>1, <2>1 DEF ListenerType
  <2> QED BY <1>2, <2>2
<1>7. CASE ListenerLost
  <2>1. listener' = listener /\ listener.pc = "on"
    BY <1>7 DEF ListenerLost, client
  <2> QED BY <1>2, <2>1
<1> QED BY <1>3, <1>4, <1>5, <1>6, <1>7 DEF ListenerStep

\* Until something disturbs them, the turns are kept by every step, and who reads
\* takes the answer to its own request.
LEMMA TurnKept == TurnInv /\ [Next]_vars => TurnInv'
<1> SUFFICES ASSUME TurnInv, [Next]_vars  PROVE TurnInv'
  OBVIOUS
<1>1. EventInv' /\ BaseInv /\ BaseInv' /\ call \in [Caller -> CallType]
  BY EventKept DEF TurnInv, EventInv, BaseInv, TypeOK
<1>2. /\ Undisturbed' => Undisturbed
      /\ listener'.pc = "off" => listener.pc = "off"
      /\ ~up' => inbox' = <<>>
  BY <1>1, StaysDisturbed DEF TurnInv, BaseInv
<1>3. SUFFICES ASSUME Undisturbed'
               PROVE  /\ listener'.pc = "off" => Turns'
                      /\ \A c \in Caller : call'[c].own
  BY <1>1, <1>2 DEF TurnInv, OwnAnswer
<1>4. Undisturbed /\ (listener.pc = "off" => Turns) /\ \A c \in Caller : call[c].own
  BY <1>2, <1>3 DEF TurnInv, OwnAnswer
<1>5. CASE UNCHANGED <<call, lock, inbox, outbox, up>>
  <2>1. Fors' = Fors
    BY <1>5 DEF Fors
  <2>2. listener.pc = "off" => Turns'
    BY <1>4, <1>5, <2>1, TurnsKept DEF Awaiting, Reading, Before
  <2> QED BY <1>2, <1>4, <1>5, <2>2
<1>6. CASE PopBlock \/ PoolRemove
  <2>1. UNCHANGED <<lock, inbox, outbox, up>> /\ \E kinds : call' = Removed(kinds)
    BY <1>6 DEF PopBlock, PoolRemove, wires, server
  <2>2. \A c \in Caller : call'[c].pc = call[c].pc /\ call'[c].own = call[c].own
    <3>1. ASSUME NEW c \in Caller, NEW r, call'[c] = [call[c] EXCEPT !.removed = r]
          PROVE  call'[c].pc = call[c].pc /\ call'[c].own = call[c].own
      BY <1>1, <3>1 DEF CallType
    <3> QED BY <1>1, <2>1, <3>1, Marks
  <2>3. Fors' = Fors
    BY <2>1 DEF Fors
  <2>4. \A c \in Caller : (Awaiting(c)' <=> Awaiting(c)) /\ (Reading(c)' <=> Reading(c))
    BY <2>2 DEF Awaiting, Reading
  <2>5. \A c, d \in Caller : Before(d, c) => Before(d, c)'
    BY <2>1 DEF Before
  <2>6. listener.pc = "off" => Turns'
    BY <1>4, <2>1, <2>3, <2>4, <2>5, TurnsKept
  <2> QED BY <1>2, <1>4, <2>2, <2>6
<1>7. CASE Serve
  <2>1. UNCHANGED <<call, lock, up>>
    BY <1>7 DEF Serve, client, server
  <2>2. Fors' = Fors
    BY <1>1, <1>7, ServeFors
  <2>3. listener.pc = "off" => Turns'
    BY <1>4, <2>1, <2>2, TurnsKept DEF Awaiting, Reading, Before
  <2> QED BY <1>2, <1>4, <2>1, <2>3
<1>8. CASE ServeFails
  <2>1. call' = call
    BY <1>8 DEF ServeFails, client
  <2> QED BY <1>1, <1>2, <1>4, <1>8, <2>1, FailTurns
<1>9. CASE Subscribe \/ SendEvent \/ Listen \/ ListenerStep \/ ListenerFails
  <2>1. call' = call /\ listener'.pc # "off"
    BY <1>9, Listens DEF TurnInv
  <2> QED BY <1>4, <2>1
<1>10. ASSUME NEW c \in Caller, Call(c) \/ Write(c) \/ Return(c) \/ Drop(c)
       PROVE  (listener'.pc = "off" => Turns') /\ \A d \in Caller : call'[d].own
  <2>1. \A d \in Caller \ {c} : call'[d] = call[d]
    BY <1>1, <1>10, CallPuts
  <2>2. call'[c].own
    <3>1. CASE Call(c)
      BY <1>1, <3>1, CallPuts
    <3>2. CASE Write(c)
      <4>1. call'[c] = [call[c] EXCEPT !.pc = "gap"]
        BY <1>1, <3>2, CallPuts
      <4> QED BY <1>1, <1>4, <4>1 DEF CallType
    <3>3. CASE Return(c) \/ Drop(c)
      <4>1. call'[c] = [NoCall EXCEPT !.pc = "done"]
        BY <1>1, <3>3, CallPuts
      <4> QED BY <4>1 DEF NoCall
    <3> QED BY <1>10, <3>1, <3>2, <3>3
  <2>3. CASE Write(c)
    <3>1. listener' = listener
      BY <2>3 DEF Write, Sent, RequestOf
    <3> QED BY <1>1, <1>4, <2>1, <2>2, <2>3, <3>1, WriteTurns
  <2>4. CASE Call(c) \/ Return(c) \/ Drop(c)
    <3>1. /\ UNCHANGED <<inbox, outbox, up>>
          /\ call[c].pc \in {"idle", "ok", "err", "write"} /\ call'[c].pc \in {"lock", "done"}
          /\ lock' = lock \/ (Release(c) /\ call[c].pc = "write")
      <4>1. call'[c].pc \in {"lock", "done"}
        <5>1. CASE Call(c)
          BY <1>1, <5>1, CallPuts
        <5>2. CASE Return(c) \/ Drop(c)
          <6>1. call'[c] = [NoCall EXCEPT !.pc = "done"]
            BY <1>1, <5>2, CallPuts
          <6> QED BY <6>1 DEF NoCall
        <5> QED BY <2>4, <5>1, <5>2
      <4>2. Drop(c) => call[c].pc = "write"
        BY <1>3, <1>4 DEF Drop, Dropped, Undisturbed
      <4> QED BY <2>4, <4>1, <4>2 DEF Call, Return, Drop, Dropped, wires, server
    <3>2. Fors' = Fors
      BY <3>1 DEF Fors
    <3>3. \A d \in Caller : (Awaiting(d)' <=> Awaiting(d)) /\ (Reading(d)' <=> Reading(d))
      BY <2>1, <3>1 DEF Awaiting, Reading
    <3>4. \A d, e \in Caller : Reading(d) /\ Reading(e) /\ Before(e, d) => Before(e, d)'
      <4>1. ~Reading(c)
        BY <3>1 DEF Reading
      <4>2. CASE lock' = lock
        BY <4>2 DEF Before
      <4>3. CASE Release(c) /\ call[c].pc = "write"
        BY <1>1, <4>1, <4>3, LeavesOrder
      <4> QED BY <3>1, <4>2, <4>3
    <3>5. listener.pc = "off" => Turns'
      BY <1>4, <3>1, <3>2, <3>3, <3>4, TurnsKept
    <3> QED BY <1>2, <2>1, <2>2, <1>4, <3>5
  <2> QED BY <1>10, <2>3, <2>4
<1>11. ASSUME NEW c \in Caller, Lock(c)
       PROVE  (listener'.pc = "off" => Turns') /\ \A d \in Caller : call'[d].own
  <2>1. ~overtaken' /\ listener' = listener
    BY <1>3, <1>11 DEF Lock, Undisturbed
  <2>2. /\ \A d \in Caller \ {c} : call'[d] = call[d]
        /\ call'[c].own = call[c].own
    <3>1. /\ \A d \in Caller \ {c} : call'[d] = call[d]
          /\ \E p : call'[c] = [call[c] EXCEPT !.pc = p]
      BY <1>1, <1>11, Joins
    <3> QED BY <1>1, <3>1 DEF CallType
  <2> QED BY <1>1, <1>4, <1>11, <2>1, <2>2, LockTurns
<1>12. ASSUME NEW c \in Caller, Read(c)
       PROVE  (listener'.pc = "off" => Turns') /\ \A d \in Caller : call'[d].own
  <2>1. listener.pc = "off" /\ listener' = listener
    <3>1. call[c].pc = "read" /\ listener' = listener
      BY <1>12 DEF Read, Reader
    <3> QED BY <3>1 DEF TurnInv, EventInv, Converted
  <2>2. Turns' /\ (outbox # <<>> => Head(outbox).for = c)
    <3>1. ~up => inbox = <<>>
      BY DEF TurnInv
    <3> QED BY <1>1, <1>4, <1>12, <2>1, <3>1, ReadTurns
  <2>3. \A d \in Caller \ {c} : call'[d] = call[d]
    BY <1>1, <1>12, Reads
  <2>4. call'[c].own
    <3>1. CASE outbox # <<>>
      <4>1. PICK k \in CallType : call'[c] = [k EXCEPT !.own = call[c].own /\ Head(outbox).for = c]
        BY <1>1, <1>12, <3>1, Reads
      <4>2. call'[c].own = (call[c].own /\ Head(outbox).for = c)
        BY <4>1 DEF CallType
      <4> QED BY <1>4, <2>2, <3>1, <4>2
    <3>2. CASE outbox = <<>>
      <4>1. call'[c] = [call[c] EXCEPT !.pc = "err"]
        BY <1>1, <1>12, <3>2, Reads
      <4> QED BY <1>1, <1>4, <4>1 DEF CallType
    <3> QED BY <3>1, <3>2
  <2> QED BY <1>4, <2>2, <2>3, <2>4
<1>13. CASE AddBlock \/ PoolAdd \/ StreamLags \/ ListenerStop \/ UNCHANGED vars
  <2>1. UNCHANGED <<call, lock, inbox, outbox, up>>
    BY <1>13 DEF AddBlock, PoolAdd, StreamLags, ListenerStop, vars, client, wires, server
  <2> QED BY <1>5, <2>1
<1>14. ASSUME NEW c \in Caller, ReadLength(c)
       PROVE  (listener'.pc = "off" => Turns') /\ \A d \in Caller : call'[d].own
  <2>1. UNCHANGED <<call, lock, inbox, outbox, up>>
    BY <1>14 DEF ReadLength, client, server
  <2> QED BY <1>5, <2>1
<1>15. ~ServeCut /\ \A c \in Caller : ~Strays(c)
  BY <1>1, <1>3, Disturbs
<1> QED BY <1>6, <1>7, <1>8, <1>9, <1>10, <1>11, <1>12, <1>13, <1>14, <1>15
        DEF Next, ServerStep, CallStep, CallEnds, Strays

-----------------------------------------------------------------------------
(* The pages.                                                              *)

\* An entry that is added anywhere moves no other one towards the first page, whichever
\* end of the list that is.
LEMMA InsertBeyond ==
  ASSUME NEW S, NEW s \in Seq(S), NEW i \in 1..(Len(s) + 1), NEW e \in S
  PROVE  /\ \A x : \A n \in Nat : Beyond(x, s, n) => Beyond(x, InsertAt(s, i, e), n)
         /\ \A x : \A n \in Nat : Beyond(x, Reverse(s), n) => Beyond(x, Reverse(InsertAt(s, i, e)), n)
         /\ Range(s) \subseteq Range(InsertAt(s, i, e)) /\ InsertAt(s, i, e) # <<>>
<1>0. /\ InsertAt(s, i, e) \in Seq(S) /\ Len(InsertAt(s, i, e)) = Len(s) + 1
      /\ \A j \in 1..Len(s) : j < i => InsertAt(s, i, e)[j] = s[j]
      /\ \A j \in 1..Len(s) : j >= i => InsertAt(s, i, e)[j + 1] = s[j]
  <2>1. InsertAt(s, i, e) \in Seq(S) /\ Len(InsertAt(s, i, e)) = Len(s) + 1
    BY InsertProperties
  <2>2. \A j \in 1..Len(s) : j < i => InsertAt(s, i, e)[j] = s[j]
    BY InsertProperties
  <2>3. \A j \in 1..Len(s) : j >= i => InsertAt(s, i, e)[j + 1] = s[j]
    BY InsertProperties
  <2> QED BY <2>1, <2>2, <2>3
<1>1. Len(s) \in Nat /\ DOMAIN s = 1..Len(s)
  BY LenProperties
<1>t. PICK t : t = InsertAt(s, i, e)
  OBVIOUS
<1>2. /\ t \in Seq(S) /\ Len(t) = Len(s) + 1 /\ DOMAIN t = 1..(Len(s) + 1)
      /\ \A j \in 1..Len(s) : j < i => t[j] = s[j]
      /\ \A j \in 1..Len(s) : j >= i => t[j + 1] = s[j]
  BY <1>0, <1>t, LenProperties
<1>3. \A j \in 1..Len(s) :
        /\ (IF j < i THEN j ELSE j + 1) \in 1..(Len(s) + 1)
        /\ t[IF j < i THEN j ELSE j + 1] = s[j]
  BY <1>1, <1>2
<1>4. ASSUME NEW x, NEW n \in Nat, Beyond(x, s, n)  PROVE Beyond(x, t, n)
  <2>1. PICK j \in 1..Len(s) : s[j] = x /\ j > n
    BY <1>1, <1>4 DEF Beyond
  <2>2. PICK k \in 1..(Len(s) + 1) : t[k] = x /\ k >= j
    <3>1. (IF j < i THEN j ELSE j + 1) >= j
      OBVIOUS
    <3> QED BY <1>3, <2>1, <3>1
  <2> QED BY <1>2, <2>1, <2>2 DEF Beyond
<1>5. /\ DOMAIN Reverse(s) = 1..Len(s)
      /\ \A j \in 1..Len(s) : Reverse(s)[j] = s[(Len(s) - j) + 1]
  BY ReverseProperties, LenProperties
<1>6. /\ DOMAIN Reverse(t) = 1..(Len(s) + 1)
      /\ \A j \in 1..(Len(s) + 1) : Reverse(t)[j] = t[((Len(s) + 1) - j) + 1]
  <2>1. Reverse(t) \in Seq(S) /\ Len(Reverse(t)) = Len(t)
        /\ \A j \in 1..Len(t) : Reverse(t)[j] = t[(Len(t) - j) + 1]
    BY <1>2, ReverseProperties
  <2> QED BY <1>2, <2>1, LenProperties
<1>7. ASSUME NEW x, NEW n \in Nat, Beyond(x, Reverse(s), n)  PROVE Beyond(x, Reverse(t), n)
  <2>1. PICK j \in 1..Len(s) : Reverse(s)[j] = x /\ j > n
    BY <1>5, <1>7 DEF Beyond
  <2>2. PICK l \in 1..Len(s) : l = (Len(s) - j) + 1 /\ s[l] = x
    BY <1>1, <1>5, <2>1
  <2>3. PICK k \in 1..(Len(s) + 1) : t[k] = x /\ k <= l + 1
    <3>1. (IF l < i THEN l ELSE l + 1) <= l + 1
      OBVIOUS
    <3> QED BY <1>3, <2>2, <3>1
  <2>4. PICK p \in 1..(Len(s) + 1) : p = ((Len(s) + 1) - k) + 1
    <3>1. ((Len(s) + 1) - k) + 1 \in 1..(Len(s) + 1)
      BY <1>1
    <3> QED BY <3>1
  <2>5. ((Len(s) + 1) - p) + 1 = k /\ p > n
    BY <1>1, <2>1, <2>2, <2>3, <2>4
  <2>6. Reverse(t)[p] = x
    BY <1>6, <2>3, <2>5
  <2> QED BY <1>6, <2>5, <2>6 DEF Beyond
<1>8. Range(s) \subseteq Range(t)
  BY <1>1, <1>2, <1>3 DEF Range
<1>9. t # <<>>
  BY <1>1, <1>2
<1> QED BY <1>t, <1>4, <1>7, <1>8, <1>9

\* The lists that a call of this kind is about have lost nothing and moved nothing forward.
Keeps(kind, ch, po, ch2, po2) ==
  /\ kind \in {"list", "pool"} => \A x : \A n \in Nat :
       Beyond(x, Listing(kind, ch, po), n) => Beyond(x, Listing(kind, ch2, po2), n)
  /\ kind \in {"hash", "block"} => Range(ch) \subseteq Range(ch2) /\ (ch # <<>> => ch2 # <<>>)

\* Such a change takes nothing from a call or from the response to it.
LEMMA KeepsOn ==
  ASSUME NEW k \in CallType, k.pc \in Busy, NEW ch, NEW po, NEW ch2, NEW po2,
         Keeps(k.kind, ch, po, ch2, po2)
  PROVE  /\ Ahead(k, ch, po) => Ahead(k, ch2, po2)
         /\ \A m \in Message : Carries(k, m, ch, po) => Carries(k, m, ch2, po2)
<1>1. k.kind \in {"list", "pool"} => k.page * PAGE_SIZE \in Nat
  BY ApiAssumption DEF CallType
<1>2. ASSUME NEW m \in Message  PROVE m.next # None => m.next * PAGE_SIZE \in Nat
  BY ApiAssumption DEF Message
<1>3. ASSUME Ahead(k, ch, po)  PROVE Ahead(k, ch2, po2)
  BY <1>1, <1>3 DEF Ahead, Keeps
<1>4. ASSUME NEW m \in Message, Carries(k, m, ch, po)  PROVE Carries(k, m, ch2, po2)
  BY <1>2, <1>4 DEF Carries, Keeps
<1> QED BY <1>3, <1>4

\* What is added to the chain or the pool keeps every call going.
LEMMA AddsKeep ==
  ASSUME TypeOK, AddBlock \/ PoolAdd, NEW kind
  PROVE  Keeps(kind, chain, pool, chain', pool')
<1>1. chain \in Seq(Tx) /\ pool \in Seq(Nat) /\ changes \in Nat
  BY DEF TypeOK
<1>2. CASE AddBlock
  <2>1. PICK i \in 1..(Len(chain) + 1) : chain' = InsertAt(chain, i, <<Len(chain) + 1, changes + 1>>)
    BY <1>2 DEF AddBlock
  <2>2. <<Len(chain) + 1, changes + 1>> \in Tx /\ pool' = pool
    BY <1>1, <1>2, LenProperties DEF AddBlock, Tx
  <2>3. /\ \A x : \A n \in Nat : Beyond(x, Reverse(chain), n) => Beyond(x, Reverse(chain'), n)
        /\ Range(chain) \subseteq Range(chain') /\ chain' # <<>>
    BY <1>1, <2>1, <2>2, InsertBeyond
  <2> QED BY <2>2, <2>3 DEF Keeps, Listing
<1>3. CASE PoolAdd
  <2>1. PICK i \in 1..(Len(pool) + 1) : pool' = InsertAt(pool, i, Len(pool) + changes + 1)
    BY <1>3 DEF PoolAdd
  <2>2. Len(pool) + changes + 1 \in Nat /\ chain' = chain
    BY <1>1, <1>3, ApiAssumption DEF PoolAdd
  <2>3. \A x : \A n \in Nat : Beyond(x, pool, n) => Beyond(x, pool', n)
    BY <1>1, <2>1, <2>2, InsertBeyond
  <2> QED BY <2>2, <2>3 DEF Keeps, Listing
<1> QED BY <1>2, <1>3

\* A call that appends what it read has got what it had and what it read.
LEMMA GotBoth ==
  ASSUME NEW S, NEW s \in Seq(S), NEW t \in Seq(S), NEW u, u = s \o t
  PROVE  Range(u) = Range(s) \cup Range(t) /\ (t # <<>> => u # <<>>)
<1>1. /\ DOMAIN s = 1..Len(s) /\ Len(s) \in Nat /\ DOMAIN t = 1..Len(t) /\ Len(t) \in Nat
      /\ t # <<>> => Len(t) # 0
  BY LenProperties, EmptySeq
<1>2. /\ u \in Seq(S) /\ Len(u) = Len(s) + Len(t)
      /\ \A i \in 1..(Len(s) + Len(t)) : u[i] = IF i <= Len(s) THEN s[i] ELSE t[i - Len(s)]
  BY ConcatProperties
<1>3. DOMAIN u = 1..(Len(s) + Len(t))
  BY <1>2, LenProperties
<1>4. ASSUME NEW i \in 1..(Len(s) + Len(t))  PROVE u[i] \in Range(s) \cup Range(t)
  <2>1. CASE i <= Len(s)
    BY <1>1, <1>2, <2>1 DEF Range
  <2>2. CASE ~(i <= Len(s))
    <3>1. i - Len(s) \in 1..Len(t)
      BY <1>1, <2>2
    <3> QED BY <1>1, <1>2, <2>2, <3>1 DEF Range
  <2> QED BY <2>1, <2>2
<1>5. ASSUME NEW i \in 1..Len(s)  PROVE s[i] \in Range(u)
  <2>1. i \in 1..(Len(s) + Len(t)) /\ u[i] = s[i]
    BY <1>1, <1>2
  <2> QED BY <1>3, <2>1 DEF Range
<1>6. ASSUME NEW i \in 1..Len(t)  PROVE t[i] \in Range(u)
  <2>1. Len(s) + i \in 1..(Len(s) + Len(t)) /\ ~(Len(s) + i <= Len(s)) /\ (Len(s) + i) - Len(s) = i
    BY <1>1
  <2>2. u[Len(s) + i] = t[i]
    BY <1>2, <2>1
  <2> QED BY <1>3, <2>1, <2>2 DEF Range
<1>7. t # <<>> => u # <<>>
  BY <1>1, <1>2
<1>8. Range(u) \subseteq Range(s) \cup Range(t)
  <2>1. ASSUME NEW x \in Range(u)  PROVE x \in Range(s) \cup Range(t)
    <3>1. PICK i \in DOMAIN u : u[i] = x
      BY DEF Range
    <3> QED BY <1>3, <1>4, <3>1
  <2> QED BY <2>1
<1>9. Range(s) \cup Range(t) \subseteq Range(u)
  <2>1. ASSUME NEW x \in Range(s)  PROVE x \in Range(u)
    <3>1. PICK i \in DOMAIN s : s[i] = x
      BY DEF Range
    <3> QED BY <1>1, <1>5, <3>1
  <2>2. ASSUME NEW x \in Range(t)  PROVE x \in Range(u)
    <3>1. PICK i \in DOMAIN t : t[i] = x
      BY DEF Range
    <3> QED BY <1>1, <1>6, <3>1
  <2> QED BY <2>1, <2>2
<1> QED BY <1>7, <1>8, <1>9

\* What comes after the pages before this one is on it or comes after it; then it is full.
LEMMA PageCovers ==
  ASSUME NEW S, NEW s \in Seq(S), NEW p \in Nat
  PROVE  /\ (p + 1) * PAGE_SIZE < Len(s) => Len(Page(s, p)) = PAGE_SIZE
         /\ \A x : Beyond(x, s, p * PAGE_SIZE) =>
              \/ x \in Range(Page(s, p))
              \/ (p + 1) * PAGE_SIZE < Len(s) /\ Beyond(x, s, (p + 1) * PAGE_SIZE)
<1>1. PICK n : n = p * PAGE_SIZE
  OBVIOUS
<1>2. PICK e, g : e = (p + 1) * PAGE_SIZE /\ g = Page(s, p)
  OBVIOUS
<1>3. PICK z \in Nat \ {0} : z = PAGE_SIZE
  BY ApiAssumption
<1>4. /\ n \in Nat /\ e = n + z /\ g \in Seq(S)
      /\ Len(g) = IF n >= Len(s) THEN 0 ELSE IF n + z < Len(s) THEN z ELSE Len(s) - n
      /\ \A j \in 1..Len(g) : g[j] = s[n + j]
  <2>1. n \in Nat /\ (p + 1) * PAGE_SIZE = n + PAGE_SIZE /\ Page(s, p) \in Seq(S)
    BY <1>1, <1>3, PageProperties
  <2>2. Len(Page(s, p)) = IF n >= Len(s) THEN 0
                          ELSE IF n + PAGE_SIZE < Len(s) THEN PAGE_SIZE ELSE Len(s) - n
    BY <1>1, <1>3, PageProperties
  <2>3. \A j \in 1..Len(Page(s, p)) : Page(s, p)[j] = s[n + j]
    BY <1>1, <1>3, PageProperties
  <2> QED BY <1>2, <1>3, <2>1, <2>2, <2>3
<1>5. Len(s) \in Nat /\ DOMAIN s = 1..Len(s) /\ DOMAIN g = 1..Len(g) /\ Len(g) \in Nat
  BY <1>4, LenProperties
<1>6. e < Len(s) => Len(g) = z
  BY <1>4, <1>5
<1>7. ASSUME NEW x, NEW i \in 1..Len(s), s[i] = x, i > n
      PROVE  x \in Range(g) \/ (e < Len(s) /\ i > e)
  <2>1. PICK l \in Nat, h \in Nat : l = Len(s) /\ h = Len(g)
    BY <1>5
  <2>2. n \in Nat /\ e = n + z /\ i \in 1..l /\ h = IF n >= l THEN 0 ELSE IF n + z < l THEN z ELSE l - n
    BY <1>4, <2>1
  <2>3. i - n \in 1..h \/ (e < l /\ i > e)
    BY <1>7, <2>2
  <2>4. CASE i - n \in 1..h
    <3>1. n + (i - n) = i
      BY <2>2
    <3>2. g[i - n] = s[n + (i - n)]
      BY <1>4, <2>1, <2>4
    <3>3. g[i - n] = x
      BY <1>7, <3>1, <3>2
    <3> QED BY <1>5, <2>1, <2>4, <3>3 DEF Range
  <2> QED BY <2>1, <2>3, <2>4
<1>8. ASSUME NEW x, Beyond(x, s, n)
      PROVE  x \in Range(g) \/ (e < Len(s) /\ Beyond(x, s, e))
  <2>1. PICK i \in 1..Len(s) : s[i] = x /\ i > n
    BY <1>5, <1>8 DEF Beyond
  <2>2. x \in Range(g) \/ (e < Len(s) /\ i > e)
    BY <1>7, <2>1
  <2> QED BY <1>5, <2>1, <2>2 DEF Beyond
<1> QED BY <1>1, <1>2, <1>3, <1>6, <1>8

\* The server answers from the page that the call stands at, and says when there is more.
LEMMA ServesOn ==
  ASSUME TypeOK, NEW k \in CallType, k.pc \in Busy, NEW r \in Request,
         r.kind \notin {"subscribe", "cut"}, r.kind = k.kind, r.page = k.page, Ahead(k, chain, pool)
  PROVE  Carries(k, Answer(r), chain, pool)
<1>1. /\ r.kind \in Fetched /\ chain \in Seq(Tx) /\ pool \in Seq(Nat) /\ PAGE_SIZE \in Nat \ {0}
      /\ (r.kind # "block" => r.page \in Nat)
  BY ApiAssumption DEF TypeOK, Request
<1>2. Answer(r).items = Response(r).items /\ Answer(r).next = Response(r).next
  BY DEF Answer
<1> DEFINE l == Listing(k.kind, chain, pool)
<1>3. CASE r.kind \in {"list", "pool"}
  <2>1. PICK S : l \in Seq(S)
    <3>1. Reverse(chain) \in Seq(Tx)
      BY <1>1, ReverseProperties
    <3> QED BY <1>1, <3>1 DEF Listing
  <2>2. r.page \in Nat /\ r.page + 1 \in Nat
    BY <1>1, <1>3
  <2>3. Answer(r).items = Page(l, r.page)
    BY <1>2, <1>3 DEF Response, ListPage, PoolPage, l, Listing
  <2> HIDE DEF l
  <2>4. (r.page + 1) * PAGE_SIZE < Len(l) => Answer(r).next = r.page + 1
    <3>1. CASE r.kind = "list"
      <4>1. Len(l) = Len(chain) /\ Len(chain) \in Nat
        BY <1>1, <3>1, ReverseProperties, LenProperties DEF l, Listing
      <4>2. Response(r) = ListPage(r.page)
        BY <3>1 DEF Response
      <4>3. PICK e \in Nat : e = (r.page + 1) * PAGE_SIZE
        BY <1>1, <2>2
      <4>4. e < Len(chain) => MoreOnFullNode(e) /\ MoreOnLightNode(e)
        BY <4>1 DEF MoreOnFullNode, MoreOnLightNode
      <4> QED BY <1>2, <4>1, <4>2, <4>3, <4>4 DEF ListPage
    <3>2. CASE r.kind = "pool"
      <4>1. Response(r) = PoolPage(r.page) /\ l = pool
        BY <3>2 DEF Response, l, Listing
      <4>2. (r.page + 1) * PAGE_SIZE < Len(l) => Len(Page(pool, r.page)) = PAGE_SIZE
        BY <2>1, <2>2, <4>1, PageCovers
      <4> QED BY <1>2, <4>1, <4>2 DEF PoolPage
    <3> QED BY <1>3, <3>1, <3>2
  <2>5. ASSUME NEW x \in Range(k.there), x \notin Range(k.got)
        PROVE  \/ x \in Range(Page(l, r.page))
               \/ Answer(r).next # None /\ Beyond(x, l, Answer(r).next * PAGE_SIZE)
    <3>1. Beyond(x, l, r.page * PAGE_SIZE)
      BY <1>3, <2>5 DEF Ahead, l
    <3>2. \/ x \in Range(Page(l, r.page))
          \/ (r.page + 1) * PAGE_SIZE < Len(l) /\ Beyond(x, l, (r.page + 1) * PAGE_SIZE)
      BY <2>1, <2>2, <3>1, PageCovers
    <3>3. r.page + 1 # None
      BY <2>2, ApiAssumption
    <3> QED BY <2>4, <3>2, <3>3
  <2> QED BY <1>3, <2>3, <2>5 DEF Carries, l
<1>4. CASE r.kind = "hash"
  <2>1. k.page = 0 /\ (k.there # <<>> => chain # <<>>) /\ Response(r) = BlockHash(0)
    BY <1>4 DEF Ahead, Response
  <2>2. Len(chain) \in Nat /\ (chain # <<>> => 0 < Len(chain)) /\ DOMAIN chain = 1..Len(chain)
    BY <1>1, LenProperties, EmptySeq
  <2>3. CASE 0 < Len(chain)
    <3>1. Response(r).items = <<chain[1]>> /\ chain[1] \in Range(chain)
      BY <2>1, <2>2, <2>3 DEF BlockHash, Range
    <3> QED BY <1>2, <1>4, <3>1 DEF Carries
  <2>4. CASE ~(0 < Len(chain))
    BY <1>2, <1>4, <2>1, <2>2, <2>4 DEF Carries, BlockHash
  <2> QED BY <2>3, <2>4
<1>5. CASE r.kind = "block"
  <2>1. Response(r).items = <<k.page>>
    BY <1>5 DEF Ahead, Response, Block
  <2> QED BY <1>2, <1>5, <2>1 DEF Carries
<1>6. CASE r.kind = "single"
  BY <1>6 DEF Carries
<1> QED BY <1>1, <1>3, <1>4, <1>5, <1>6 DEF Fetched, Kinds

\* A response that carries a call on leaves it with the next page before it, or complete.
LEMMA ReadsOn ==
  ASSUME NEW k \in CallType, k.pc = "read", NEW m \in Message, m.kind = k.kind,
         NEW ch, NEW po, Carries(k, m, ch, po), NEW a, a = After(k, m)
  PROVE  IF a.pc = "ok" THEN Complete(a) ELSE Ahead(a, ch, po)
<1>1. /\ k.kind \in Fetched /\ k.got \in Seq(Item) /\ m.items \in Seq(Item)
      /\ m.next \in Nat \cup {None}
  BY DEF CallType, Message, Busy
<1>2. /\ a.max = k.max /\ a.there = k.there
      /\ FindsHash(k, m) => a.pc = "lock" /\ a.kind = "block" /\ a.page = m.items[1]
      /\ ~FindsHash(k, m) =>
           /\ a.kind = k.kind /\ a.got = k.got \o m.items
           /\ IF HasNextPage(k, m) THEN a.pc = "lock" /\ a.page = m.next ELSE a.pc = "ok"
  BY AfterType
<1>3. CASE FindsHash(k, m)
  <2>1. k.kind = "hash" /\ m.items # <<>>
    BY <1>3 DEF FindsHash
  <2>2. m.items[1] \in Range(ch)
    BY <2>1 DEF Carries
  <2> QED BY <1>2, <1>3, <2>2 DEF Ahead
<1>4. CASE ~FindsHash(k, m)
  <2>1. Range(a.got) = Range(k.got) \cup Range(m.items) /\ (m.items # <<>> => a.got # <<>>)
    <3>1. PICK s \in Seq(Item), t \in Seq(Item) : s = k.got /\ t = m.items
      BY <1>1
    <3>2. Range(s \o t) = Range(s) \cup Range(t) /\ (t # <<>> => s \o t # <<>>)
      BY GotBoth
    <3> QED BY <1>2, <1>4, <3>1, <3>2
  <2>2. CASE k.kind \in {"list", "pool"}
    <3>1. HasNextPage(k, m) <=> m.next # None /\ (k.max = None \/ m.next < k.max)
      BY <2>2 DEF HasNextPage
    <3>2. CASE HasNextPage(k, m)
      BY <1>2, <1>4, <2>1, <2>2, <3>2 DEF Carries, Ahead
    <3>3. CASE ~HasNextPage(k, m)
      BY <1>2, <1>4, <2>1, <2>2, <3>1, <3>3 DEF Carries, Complete
    <3> QED BY <3>2, <3>3
  <2>3. CASE k.kind \in {"hash", "block", "single"}
    <3>1. a.pc = "ok" /\ a.kind = k.kind
      BY <1>2, <1>4, <2>3 DEF HasNextPage
    <3>2. k.kind = "hash" => m.items = <<>>
      BY <1>4 DEF FindsHash
    <3> QED BY <1>2, <2>1, <2>3, <3>1, <3>2 DEF Carries, Complete
  <2> QED BY <1>1, <2>2, <2>3 DEF Fetched, Kinds
<1> QED BY <1>3, <1>4

\* While the turns are kept, every message belongs to a call that waits for it.
LEMMA MessagesFor ==
  BaseInv /\ Turns =>
    /\ \A i \in DOMAIN inbox : inbox[i].for \in Caller /\ Awaiting(inbox[i].for)
    /\ \A i \in DOMAIN outbox : outbox[i].for \in Caller /\ Awaiting(outbox[i].for)
<1> SUFFICES ASSUME BaseInv, Turns
             PROVE  /\ \A i \in DOMAIN inbox : inbox[i].for \in Caller /\ Awaiting(inbox[i].for)
                    /\ \A i \in DOMAIN outbox : outbox[i].for \in Caller /\ Awaiting(outbox[i].for)
  OBVIOUS
<1>1. /\ Len(outbox) \in Nat /\ Len(inbox) \in Nat
      /\ DOMAIN Fors = 1..(Len(outbox) + Len(inbox))
      /\ \A k \in 1..Len(outbox) : Fors[k] = outbox[k].for
      /\ \A k \in 1..Len(inbox) : Fors[Len(outbox) + k] = inbox[k].for
  BY ForsMeans
<1>2. DOMAIN inbox = 1..Len(inbox) /\ DOMAIN outbox = 1..Len(outbox)
  BY LenProperties DEF BaseInv, TypeOK
<1>3. \A k \in DOMAIN Fors : Fors[k] \in Caller /\ Awaiting(Fors[k])
  BY DEF Turns
<1>4. ASSUME NEW i \in 1..Len(inbox)  PROVE inbox[i].for \in Caller /\ Awaiting(inbox[i].for)
  <2>1. Len(outbox) + i \in DOMAIN Fors
    BY <1>1
  <2> QED BY <1>1, <1>3, <2>1
<1>5. ASSUME NEW i \in 1..Len(outbox)  PROVE outbox[i].for \in Caller /\ Awaiting(outbox[i].for)
  <2>1. i \in DOMAIN Fors
    BY <1>1
  <2> QED BY <1>1, <1>3, <2>1
<1> QED BY <1>2, <1>4, <1>5

\* A step that moves no call and no message, and after which the lists of the calls that
\* nothing is missing from are still all there.
LEMMA PagingMoves ==
  ASSUME BaseInv, Turns, Paging, UNCHANGED wires,
         \A c \in Caller :
           /\ call'[c] = [call[c] EXCEPT !.removed = call'[c].removed]
           /\ call[c].removed => call'[c].removed
           /\ call[c].pc \in Busy /\ ~call'[c].removed =>
                Keeps(call[c].kind, chain, pool, chain', pool')
  PROVE  Paging'
<1>1. /\ call \in [Caller -> CallType] /\ inbox' = inbox /\ outbox' = outbox
      /\ outbox \in Seq(Message)
  BY DEF BaseInv, TypeOK, wires
<1>2. ASSUME NEW c \in Caller
      PROVE  /\ call'[c].pc = call[c].pc /\ call'[c].kind = call[c].kind
             /\ call'[c].page = call[c].page /\ call'[c].got = call[c].got
             /\ call'[c].there = call[c].there
             /\ call[c] \in CallType
  <2>1. PICK r : call'[c] = [call[c] EXCEPT !.removed = r]
    OBVIOUS
  <2> QED BY <1>1, <2>1 DEF CallType
<1>3. /\ \A i \in DOMAIN inbox : inbox[i].for \in Caller
      /\ \A i \in DOMAIN outbox :
           outbox[i].for \in Caller /\ call[outbox[i].for].pc \in Busy /\ outbox[i] \in Message
  <2>1. /\ \A i \in DOMAIN inbox : inbox[i].for \in Caller
        /\ \A i \in DOMAIN outbox : outbox[i].for \in Caller /\ Awaiting(outbox[i].for)
    BY MessagesFor
  <2>2. \A i \in DOMAIN outbox : outbox[i] \in Message
    BY <1>1, ElementOfSeq, LenProperties
  <2> QED BY <2>1, <2>2 DEF Awaiting, Busy
<1>4. ASSUME NEW c \in Caller, call'[c].pc \in Busy, ~call'[c].removed
      PROVE  Ahead(call'[c], chain', pool')
  <2>1. Ahead(call[c], chain, pool) /\ Keeps(call[c].kind, chain, pool, chain', pool')
    BY <1>2, <1>4 DEF Paging
  <2>2. Ahead(call[c], chain', pool')
    BY <1>2, <1>4, <2>1, KeepsOn
  <2> QED BY <1>2, <2>2 DEF Ahead
<1>5. ASSUME NEW i \in DOMAIN inbox
      PROVE  inbox[i].kind = call'[inbox[i].for].kind /\ inbox[i].page = call'[inbox[i].for].page
  BY <1>2, <1>3 DEF Paging
<1>6. ASSUME NEW i \in DOMAIN outbox
      PROVE  /\ outbox[i].kind = call'[outbox[i].for].kind
             /\ ~call'[outbox[i].for].removed =>
                  Carries(call'[outbox[i].for], outbox[i], chain', pool')
  <2>1. PICK c \in Caller : c = outbox[i].for
    BY <1>3
  <2>2. /\ outbox[i].kind = call[c].kind
        /\ ~call[c].removed => Carries(call[c], outbox[i], chain, pool)
    BY <2>1 DEF Paging
  <2>3. ASSUME ~call'[c].removed
        PROVE  Carries(call'[c], outbox[i], chain', pool')
    <3>1. Carries(call[c], outbox[i], chain, pool) /\ Keeps(call[c].kind, chain, pool, chain', pool')
      BY <1>3, <2>1, <2>2, <2>3
    <3>2. Carries(call[c], outbox[i], chain', pool')
      BY <1>2, <1>3, <2>1, <3>1, KeepsOn
    <3> QED BY <1>2, <3>2 DEF Carries
  <2> QED BY <1>2, <2>1, <2>2, <2>3
<1> QED BY <1>1, <1>4, <1>5, <1>6 DEF Paging

\* A step of c.  What is on its way was there before, for another call, or is about the page
\* that c stands at.
LEMMA PagingPuts ==
  ASSUME Paging, NEW c \in Caller, UNCHANGED <<chain, pool>>,
         \A d \in Caller \ {c} : call'[d] = call[d],
         call'[c].pc \in Busy /\ ~call'[c].removed => Ahead(call'[c], chain, pool),
         \A j \in DOMAIN inbox' :
           \/ inbox'[j].for \in Caller \ {c} /\ \E i \in DOMAIN inbox : inbox'[j] = inbox[i]
           \/ /\ inbox'[j].for = c
              /\ inbox'[j].kind = call'[c].kind /\ inbox'[j].page = call'[c].page,
         \A j \in DOMAIN outbox' :
           \/ outbox'[j].for \in Caller \ {c} /\ \E i \in DOMAIN outbox : outbox'[j] = outbox[i]
           \/ /\ outbox'[j].for = c /\ outbox'[j].kind = call'[c].kind
              /\ ~call'[c].removed => Carries(call'[c], outbox'[j], chain, pool)
  PROVE  Paging'
<1>1. \A d \in Caller :
        call'[d].pc \in Busy /\ ~call'[d].removed => Ahead(call'[d], chain', pool')
  BY DEF Paging
<1>2. ASSUME NEW j \in DOMAIN inbox'
      PROVE  /\ inbox'[j].kind = call'[inbox'[j].for].kind
             /\ inbox'[j].page = call'[inbox'[j].for].page
  <2>1. CASE inbox'[j].for = c
    BY <2>1
  <2>2. CASE inbox'[j].for # c
    <3>1. PICK i \in DOMAIN inbox, d \in Caller \ {c} : inbox'[j] = inbox[i] /\ d = inbox[i].for
      BY <2>2
    <3>2. inbox[i].kind = call[d].kind /\ inbox[i].page = call[d].page
      BY <3>1 DEF Paging
    <3> QED BY <3>1, <3>2
  <2> QED BY <2>1, <2>2
<1>3. ASSUME NEW j \in DOMAIN outbox'
      PROVE  /\ outbox'[j].kind = call'[outbox'[j].for].kind
             /\ ~call'[outbox'[j].for].removed =>
                  Carries(call'[outbox'[j].for], outbox'[j], chain', pool')
  <2>1. CASE outbox'[j].for = c
    BY <2>1
  <2>2. CASE outbox'[j].for # c
    <3>1. PICK i \in DOMAIN outbox, d \in Caller \ {c} : outbox'[j] = outbox[i] /\ d = outbox[i].for
      BY <2>2
    <3>2. /\ outbox[i].kind = call[d].kind
          /\ ~call[d].removed => Carries(call[d], outbox[i], chain, pool)
      BY <3>1 DEF Paging
    <3> QED BY <3>1, <3>2
  <2> QED BY <2>1, <2>2
<1> QED BY <1>1, <1>2, <1>3 DEF Paging

\* The response of the server is about the page that its call stands at.
LEMMA ServePaging ==
  ASSUME BaseInv, Turns, Paging, Serve
  PROVE  Paging'
<1>1. /\ inbox \in Seq(Request) /\ inbox # <<>> /\ inbox' = Tail(inbox)
      /\ outbox \in Seq(Message) /\ outbox' = Append(outbox, Answer(Head(inbox)))
      /\ Head(inbox).kind \notin {"subscribe", "cut"} /\ TypeOK /\ call \in [Caller -> CallType]
      /\ UNCHANGED <<call, chain, pool>>
  BY DEF Serve, Serving, Taken, BaseInv, TypeOK, client, node
<1>2. PICK r \in Request : r = Head(inbox) /\ r = inbox[1] /\ 1 \in DOMAIN inbox
  BY <1>1, HeadTailProperties, EmptySeq, LenProperties
<1>3. PICK m \in Message : m = Answer(r) /\ m.for = r.for /\ m.kind = r.kind
  BY <1>1, <1>2, AnswerType
<1>4. PICK c \in Caller : c = r.for /\ call[c].pc \in Busy /\ call[c] \in CallType
  <2>1. r.for \in Caller /\ Awaiting(r.for)
    BY <1>2, MessagesFor
  <2> QED BY <1>1, <2>1 DEF Awaiting, Busy
<1>5. r.kind = call[c].kind /\ r.page = call[c].page
  BY <1>2, <1>4 DEF Paging
<1>6. ~call[c].removed => Carries(call[c], m, chain, pool)
  <2>1. ~call[c].removed => Ahead(call[c], chain, pool)
    BY <1>4 DEF Paging
  <2> QED BY <1>1, <1>2, <1>3, <1>4, <1>5, <2>1, ServesOn
<1>7. /\ Len(outbox) \in Nat /\ DOMAIN outbox = 1..Len(outbox)
      /\ DOMAIN outbox' = 1..(Len(outbox) + 1)
      /\ outbox'[Len(outbox) + 1] = m /\ \A i \in 1..Len(outbox) : outbox'[i] = outbox[i]
  <2>1. outbox' = Append(outbox, m)
    BY <1>1, <1>2, <1>3
  <2> QED BY <1>1, <2>1, AppendProperties, LenProperties
<1>8. /\ Len(inbox) \in Nat /\ DOMAIN inbox = 1..Len(inbox)
      /\ DOMAIN inbox' = 1..(Len(inbox) - 1)
      /\ \A i \in 1..(Len(inbox) - 1) : inbox'[i] = inbox[i + 1]
  BY <1>1, HeadTailProperties, LenProperties, EmptySeq
<1>9. ASSUME NEW j \in DOMAIN inbox'
      PROVE  LET k == call[inbox'[j].for] IN inbox'[j].kind = k.kind /\ inbox'[j].page = k.page
  <2>1. j + 1 \in DOMAIN inbox /\ inbox'[j] = inbox[j + 1]
    BY <1>8
  <2> QED BY <2>1 DEF Paging
<1>10. ASSUME NEW j \in DOMAIN outbox'
       PROVE  LET k == call[outbox'[j].for] IN
              outbox'[j].kind = k.kind /\ (~k.removed => Carries(k, outbox'[j], chain, pool))
  <2>1. CASE j = Len(outbox) + 1
    BY <1>3, <1>4, <1>5, <1>6, <1>7, <2>1
  <2>2. CASE j \in DOMAIN outbox
    BY <1>7, <2>2 DEF Paging
  <2> QED BY <1>7, <2>1, <2>2
<1>11. \A d \in Caller : call[d].pc \in Busy /\ ~call[d].removed => Ahead(call[d], chain, pool)
  BY DEF Paging
<1> QED BY <1>1, <1>9, <1>10, <1>11 DEF Paging

\* What is appended is the only thing that is new.
LEMMA Added ==
  ASSUME TypeOK, NEW r, inbox' = inbox \/ inbox' = Append(inbox, r), NEW j \in DOMAIN inbox'
  PROVE  (j \in DOMAIN inbox /\ inbox'[j] = inbox[j]) \/ inbox'[j] = r
<1>1. inbox \in Seq(Request) /\ Len(inbox) \in Nat /\ DOMAIN inbox = 1..Len(inbox)
  BY LenProperties DEF TypeOK
<1>2. CASE inbox' = Append(inbox, r)
  <2>1. /\ DOMAIN inbox' = 1..(Len(inbox) + 1) /\ inbox'[Len(inbox) + 1] = r
        /\ \A i \in 1..Len(inbox) : inbox'[i] = inbox[i]
    BY <1>1, <1>2
  <2> QED BY <1>1, <2>1
<1> QED BY <1>2

\* A call begins with the first page, and everything is on it or after it.
LEMMA BeginsWhole ==
  ASSUME TypeOK, NEW k, k.kind \in Kinds, k.page = 0,
         k.kind \in {"pool", "list", "hash"} => k.there = IF k.kind = "pool" THEN pool ELSE chain
  PROVE  Ahead(k, chain, pool)
<1>1. /\ chain \in Seq(Tx) /\ Len(chain) \in Nat /\ DOMAIN chain = 1..Len(chain)
      /\ pool \in Seq(Nat) /\ Len(pool) \in Nat /\ DOMAIN pool = 1..Len(pool)
  BY LenProperties DEF TypeOK
<1>2. k.page * PAGE_SIZE = 0
  BY ApiAssumption
<1>3. CASE k.kind = "list"
  <2>1. /\ DOMAIN Reverse(chain) = 1..Len(chain)
        /\ \A j \in 1..Len(chain) : Reverse(chain)[j] = chain[(Len(chain) - j) + 1]
    BY <1>1, ReverseProperties, LenProperties
  <2>2. ASSUME NEW x \in Range(chain)  PROVE Beyond(x, Reverse(chain), 0)
    <3>1. PICK i \in 1..Len(chain) : chain[i] = x
      BY <1>1 DEF Range
    <3>2. PICK j \in 1..Len(chain) : (Len(chain) - j) + 1 = i
      <4>1. (Len(chain) - i) + 1 \in 1..Len(chain) /\ (Len(chain) - ((Len(chain) - i) + 1)) + 1 = i
        BY <1>1
      <4> QED BY <4>1
    <3>3. Reverse(chain)[j] = x /\ j > 0
      BY <2>1, <3>1, <3>2
    <3> QED BY <2>1, <3>3 DEF Beyond
  <2> QED BY <1>2, <1>3, <2>2 DEF Ahead, Listing
<1>4. CASE k.kind = "pool"
  <2>1. ASSUME NEW x \in Range(pool)  PROVE Beyond(x, pool, 0)
    <3>1. PICK i \in DOMAIN pool : pool[i] = x
      BY DEF Range
    <3> QED BY <1>1, <3>1 DEF Beyond
  <2> QED BY <1>2, <1>4, <2>1 DEF Ahead, Listing
<1>5. CASE k.kind \in {"hash", "single"}
  BY <1>5 DEF Ahead
<1> QED BY <1>3, <1>4, <1>5 DEF Kinds

\* While a call reads and asks on, its pages miss nothing; it is complete when it is over.
LEMMA PageKept == PageInv /\ [Next]_vars => PageInv'
<1> SUFFICES ASSUME PageInv, [Next]_vars  PROVE PageInv'
  OBVIOUS
<1>1. /\ TurnInv /\ TurnInv' /\ EventInv /\ BaseInv /\ BaseInv' /\ TypeOK
      /\ call \in [Caller -> CallType]
  BY TurnKept DEF PageInv, TurnInv, EventInv, BaseInv, TypeOK
<1>2. /\ Undisturbed' => Undisturbed
      /\ listener'.pc = "off" => listener.pc = "off"
  BY <1>1, StaysDisturbed
<1>3. SUFFICES ASSUME Undisturbed'
               PROVE  /\ listener'.pc = "off" => Paging'
                      /\ \A c \in Caller :
                           call'[c].pc = "ok" /\ ~call'[c].removed => Complete(call'[c])
  BY <1>1 DEF PageInv, NothingLeftOut, Complete
<1>4. /\ Undisturbed /\ (listener.pc = "off" => Turns /\ Paging) /\ (listener'.pc = "off" => Turns')
      /\ \A c \in Caller : call[c].pc = "ok" /\ ~call[c].removed => Complete(call[c])
  BY <1>1, <1>2, <1>3 DEF PageInv, TurnInv, NothingLeftOut, Complete
<1>5. CASE AddBlock \/ PoolAdd \/ StreamLags \/ ListenerStop \/ UNCHANGED vars
  <2>1. UNCHANGED <<call, wires>>
    BY <1>5 DEF AddBlock, PoolAdd, StreamLags, ListenerStop, vars, client
  <2>2. \A kind : Keeps(kind, chain, pool, chain', pool')
    <3>1. CASE AddBlock \/ PoolAdd
      BY <1>1, <3>1, AddsKeep
    <3>2. CASE StreamLags \/ ListenerStop \/ UNCHANGED vars
      BY <3>2 DEF StreamLags, ListenerStop, vars, node, Keeps
    <3> QED BY <1>5, <3>1, <3>2
  <2>3. \A c \in Caller : call[c] = [call[c] EXCEPT !.removed = call[c].removed]
    BY <1>1 DEF CallType
  <2> QED BY <1>1, <1>2, <1>4, <2>1, <2>2, <2>3, PagingMoves
<1>6. CASE PopBlock \/ PoolRemove
  <2>1. PICK kinds :
          /\ UNCHANGED <<lock, wires>> /\ call' = Removed(kinds)
          /\ \/ kinds = {"list", "hash", "block"} /\ pool' = pool
             \/ kinds = {"pool"} /\ chain' = chain
    BY <1>6 DEF PopBlock, PoolRemove
  <2>2. \A c \in Caller :
          /\ call'[c] = [call[c] EXCEPT !.removed = call'[c].removed]
          /\ call'[c].removed <=> call[c].removed \/ (Ongoing(c) /\ call[c].kind \in kinds)
    BY <1>1, <2>1, Marks
  <2>3. ASSUME NEW c \in Caller, call[c].pc \in Busy, ~call'[c].removed
        PROVE  Keeps(call[c].kind, chain, pool, chain', pool')
    <3>1. call[c].kind \notin kinds
      BY <2>2, <2>3 DEF Ongoing, Busy
    <3>2. CASE kinds = {"list", "hash", "block"} /\ pool' = pool
      BY <3>1, <3>2 DEF Keeps, Listing
    <3>3. CASE kinds = {"pool"} /\ chain' = chain
      BY <3>1, <3>3 DEF Keeps, Listing
    <3> QED BY <2>1, <3>2, <3>3
  <2>4. listener'.pc = "off" => Paging'
    BY <1>1, <1>2, <1>4, <2>1, <2>2, <2>3, PagingMoves
  <2>5. ASSUME NEW c \in Caller, call'[c].pc = "ok", ~call'[c].removed
        PROVE  Complete(call'[c])
    <3>1. PICK r : call'[c] = [call[c] EXCEPT !.removed = r]
      BY <2>2
    <3>2. /\ call'[c].pc = call[c].pc /\ call'[c].kind = call[c].kind /\ call'[c].max = call[c].max
          /\ call'[c].got = call[c].got /\ call'[c].there = call[c].there
      BY <1>1, <3>1 DEF CallType
    <3>3. Complete(call[c])
      BY <1>4, <2>2, <2>5, <3>2
    <3> QED BY <3>2, <3>3 DEF Complete
  <2> QED BY <2>4, <2>5
<1>7. CASE Serve
  <2>1. call' = call
    BY <1>7 DEF Serve, client
  <2> QED BY <1>1, <1>2, <1>4, <1>7, <2>1, ServePaging
<1>8. CASE ServeFails
  <2>1. inbox' = <<>> /\ UNCHANGED <<call, outbox, chain, pool>>
    BY <1>8 DEF ServeFails, client, node
  <2>2. listener'.pc = "off" => Paging'
    BY <1>2, <1>4, <2>1 DEF Paging
  <2> QED BY <1>4, <2>1, <2>2
<1>9. CASE Subscribe \/ SendEvent \/ Listen \/ ListenerStep \/ ListenerFails
  <2>1. call' = call /\ listener'.pc # "off"
    BY <1>1, <1>9, Listens
  <2> QED BY <1>4, <2>1
<1>10. ASSUME NEW c \in Caller, Plain(c)
       PROVE  /\ listener'.pc = "off" => Paging'
              /\ \A d \in Caller : call'[d].pc = "ok" /\ ~call'[d].removed => Complete(call'[d])
  <2>1. UNCHANGED <<chain, pool, listener>> /\ (outbox' = outbox \/ Read(c)) /\ (inbox' = inbox \/ Write(c))
    BY <1>10 DEF Plain, Call, Lock, Write, Sent, RequestOf, Read, Reader, Return, Drop, Dropped, node, wires
  <2>2. ASSUME listener'.pc = "off"
        PROVE  /\ Turns /\ Turns' /\ Paging
               /\ \A j \in DOMAIN inbox' : inbox'[j].for \in Caller /\ call'[inbox'[j].for].pc \in {"gap", "read"}
               /\ \A j \in DOMAIN outbox' : outbox'[j].for \in Caller /\ call'[outbox'[j].for].pc \in {"gap", "read"}
    <3>1. Turns /\ Turns' /\ Paging
      BY <1>2, <1>4, <2>2
    <3>2. (BaseInv /\ Turns =>
             /\ \A i \in DOMAIN inbox : inbox[i].for \in Caller /\ Awaiting(inbox[i].for)
             /\ \A i \in DOMAIN outbox : outbox[i].for \in Caller /\ Awaiting(outbox[i].for))'
      BY MessagesFor, PTL
    <3> QED BY <1>1, <3>1, <3>2 DEF Awaiting
  <2>3. CASE Call(c) \/ Return(c) \/ Drop(c)
    <3>1. \A d \in Caller \ {c} : call'[d] = call[d]
      BY <1>1, <2>3, CallPuts
    <3>2. IF call'[c].pc = "lock" THEN Ahead(call'[c], chain, pool) ELSE call'[c].pc = "done"
      <4>1. CASE Call(c)
        BY <1>1, <4>1, CallPuts, BeginsWhole
      <4>2. CASE Return(c) \/ Drop(c)
        <5>1. call'[c] = [NoCall EXCEPT !.pc = "done"]
          BY <1>1, <4>2, CallPuts
        <5> QED BY <5>1 DEF NoCall
      <4> QED BY <2>3, <4>1, <4>2
    <3>3. inbox' = inbox /\ outbox' = outbox
      BY <2>3 DEF Call, Return, Drop, Dropped, wires
    <3>4. ASSUME listener'.pc = "off"  PROVE Paging'
      <4>1. \A j \in DOMAIN inbox' : inbox'[j].for \in Caller \ {c}
        BY <2>2, <3>2, <3>4
      <4>2. \A j \in DOMAIN outbox' : outbox'[j].for \in Caller \ {c}
        BY <2>2, <3>2, <3>4
      <4>3. Paging /\ UNCHANGED <<chain, pool>>
           /\ (call'[c].pc \in Busy /\ ~call'[c].removed => Ahead(call'[c], chain, pool))
        BY <2>1, <2>2, <3>2, <3>4 DEF Busy
      <4> QED BY <3>1, <3>3, <4>1, <4>2, <4>3, PagingPuts
    <3> QED BY <1>4, <3>1, <3>2, <3>4
  <2>4. CASE Lock(c) \/ Write(c)
    <3>1. /\ \A d \in Caller \ {c} : call'[d] = call[d]
          /\ call[c].pc \in Busy /\ \E p \in Busy : call'[c] = [call[c] EXCEPT !.pc = p]
      <4>1. CASE Lock(c)
        BY <1>1, <4>1, Joins DEF Lock, Busy
      <4>2. CASE Write(c)
        BY <1>1, <4>2, CallPuts DEF Busy
      <4> QED BY <2>4, <4>1, <4>2
    <3>2. /\ call'[c].pc \in Busy
          /\ call'[c].kind = call[c].kind /\ call'[c].page = call[c].page
          /\ call'[c].got = call[c].got /\ call'[c].there = call[c].there
          /\ call'[c].removed = call[c].removed
      BY <1>1, <3>1 DEF CallType
    <3>3. /\ outbox' = outbox
          /\ \/ inbox' = inbox
             \/ inbox' = Append(inbox, [for |-> c, kind |-> call[c].kind, page |-> call[c].page])
      BY <2>4 DEF Lock, Write, Sent, RequestOf, wires
    <3>4. ASSUME listener'.pc = "off"  PROVE Paging'
      <4>1. Paging /\ UNCHANGED <<chain, pool>>
        BY <2>1, <2>2, <3>4
      <4>2. call'[c].pc \in Busy /\ ~call'[c].removed => Ahead(call'[c], chain, pool)
        <5>1. ~call[c].removed => Ahead(call[c], chain, pool)
          BY <3>1, <4>1 DEF Paging
        <5> QED BY <3>2, <5>1 DEF Ahead
      <4>3. ASSUME NEW j \in DOMAIN inbox'
            PROVE  \/ inbox'[j].for \in Caller \ {c} /\ \E i \in DOMAIN inbox : inbox'[j] = inbox[i]
                   \/ /\ inbox'[j].for = c
                      /\ inbox'[j].kind = call'[c].kind /\ inbox'[j].page = call'[c].page
        <5>1. inbox'[j].for \in Caller
          BY <2>2, <3>4
        <5>2. CASE j \in DOMAIN inbox /\ inbox'[j] = inbox[j]
          <6>1. LET k == call[inbox[j].for] IN inbox[j].kind = k.kind /\ inbox[j].page = k.page
            BY <4>1, <5>2 DEF Paging
          <6> QED BY <3>2, <5>1, <5>2, <6>1
        <5>3. CASE inbox'[j] = [for |-> c, kind |-> call[c].kind, page |-> call[c].page]
          BY <3>2, <5>3
        <5>4. \/ j \in DOMAIN inbox /\ inbox'[j] = inbox[j]
              \/ inbox'[j] = [for |-> c, kind |-> call[c].kind, page |-> call[c].page]
          BY <1>1, <3>3, Added
        <5> QED BY <5>2, <5>3, <5>4
      <4>4. ASSUME NEW j \in DOMAIN outbox'
            PROVE  \/ outbox'[j].for \in Caller \ {c} /\ \E i \in DOMAIN outbox : outbox'[j] = outbox[i]
                   \/ /\ outbox'[j].for = c /\ outbox'[j].kind = call'[c].kind
                      /\ ~call'[c].removed => Carries(call'[c], outbox'[j], chain, pool)
        <5>1. outbox'[j].for \in Caller /\ j \in DOMAIN outbox /\ outbox'[j] = outbox[j]
          BY <2>2, <3>3, <3>4
        <5>2. CASE outbox[j].for = c
          <6>1. outbox[j].kind = call[c].kind /\ (~call[c].removed => Carries(call[c], outbox[j], chain, pool))
            BY <4>1, <5>1, <5>2 DEF Paging
          <6> QED BY <3>2, <5>1, <5>2, <6>1 DEF Carries
        <5> QED BY <5>1, <5>2
      <4> QED BY <3>1, <4>1, <4>2, <4>3, <4>4, PagingPuts
    <3> QED BY <1>4, <3>1, <3>2, <3>4 DEF Busy
  <2>5. CASE Read(c)
    <3>1. /\ call[c] \in CallType /\ call[c].pc = "read" /\ listener' = listener
          /\ call'[c].pc \in {"err", "lock", "ok"}
          /\ \A d \in Caller \ {c} : call'[d] = call[d]
          /\ outbox = <<>> => call'[c] = [call[c] EXCEPT !.pc = "err"] /\ outbox' = outbox
          /\ inbox' = inbox
      BY <1>1, <2>5, Reads DEF Read, Reader
    <3>2. listener.pc = "off" /\ listener'.pc = "off"
      BY <1>1, <3>1 DEF EventInv, Converted
    <3>3. ASSUME outbox # <<>>, ~call'[c].removed, call'[c].pc # "err"
          PROVE  IF call'[c].pc = "ok" THEN Complete(call'[c]) ELSE Ahead(call'[c], chain, pool)
      <4>1. PICK m \in Message : m = Head(outbox) /\ m = outbox[1] /\ 1 \in DOMAIN outbox
        <5>1. outbox \in Seq(Message)
          BY <1>1 DEF TypeOK
        <5> QED BY <3>3, <5>1, HeadTailProperties, EmptySeq, LenProperties
      <4>2. m.for = c
        <5>1. ~up => inbox = <<>>
          BY <1>1 DEF TurnInv
        <5> QED BY <1>1, <1>4, <2>5, <3>2, <3>3, <4>1, <5>1, ReadTurns
      <4>3. m.kind = call[c].kind /\ (~call[c].removed => Carries(call[c], m, chain, pool))
        BY <1>4, <3>2, <4>1, <4>2 DEF Paging
      <4>4. PICK k \in CallType :
              k = After(call[c], m) /\ \E o : call'[c] = [k EXCEPT !.own = o]
        <5>1. PICK k \in CallType :
                /\ k = After(call[c], Head(outbox))
                /\ call'[c] = [k EXCEPT !.own = call[c].own /\ Head(outbox).for = c]
          BY <1>1, <2>5, <3>3, Reads
        <5>2. PICK o : o = (call[c].own /\ Head(outbox).for = c)
          OBVIOUS
        <5>3. call'[c] = [k EXCEPT !.own = o]
          BY <5>1, <5>2
        <5> QED BY <4>1, <5>1, <5>3
      <4>5. /\ call'[c].pc = k.pc /\ call'[c].kind = k.kind /\ call'[c].page = k.page
            /\ call'[c].max = k.max /\ call'[c].got = k.got /\ call'[c].there = k.there
            /\ call'[c].removed = k.removed
        BY <4>4 DEF CallType
      <4>6. k.removed = call[c].removed
        <5>1. PICK q \in CallType : q = call[c] /\ q.pc = "read"
          BY <3>1
        <5>2. q.pc = "read"
          BY <5>1
        <5>3. \A a : a = After(q, m) => a.removed = q.removed
          BY <5>2, AfterType
        <5> QED BY <4>4, <5>1, <5>3
      <4>7. IF k.pc = "ok" THEN Complete(k) ELSE Ahead(k, chain, pool)
        BY <3>1, <3>3, <4>3, <4>4, <4>5, <4>6, ReadsOn
      <4> QED BY <4>5, <4>7 DEF Complete, Ahead
    <3>4. outbox = <<>> => call'[c].pc = "err"
      BY <3>1 DEF CallType
    <3>5. Paging'
      <4>1. Paging /\ UNCHANGED <<chain, pool>>
        BY <2>1, <2>2, <3>2
      <4>2. call'[c].pc \in Busy /\ ~call'[c].removed => Ahead(call'[c], chain, pool)
        BY <3>1, <3>3, <3>4 DEF Busy
      <4>3. \A j \in DOMAIN inbox' :
              inbox'[j].for \in Caller \ {c} /\ \E i \in DOMAIN inbox : inbox'[j] = inbox[i]
        BY <2>2, <3>1, <3>2
      <4>4. ASSUME NEW j \in DOMAIN outbox'
            PROVE  outbox'[j].for \in Caller \ {c} /\ \E i \in DOMAIN outbox : outbox'[j] = outbox[i]
        <5>1. outbox'[j].for \in Caller \ {c}
          BY <2>2, <3>1, <3>2
        <5>2. CASE outbox = <<>>
          BY <3>1, <5>1, <5>2
        <5>3. CASE outbox # <<>>
          <6>1. outbox' = Tail(outbox)
            BY <1>1, <2>5, <5>3, Reads
          <6>2. j + 1 \in DOMAIN outbox /\ outbox'[j] = outbox[j + 1]
            BY <1>1, <5>3, <6>1, TakesHead
          <6> QED BY <5>1, <6>2
        <5> QED BY <5>2, <5>3
      <4> QED BY <3>1, <4>1, <4>2, <4>3, <4>4, PagingPuts
    <3>6. ASSUME NEW d \in Caller, call'[d].pc = "ok", ~call'[d].removed  PROVE Complete(call'[d])
      BY <1>4, <3>1, <3>3, <3>4, <3>6
    <3> QED BY <3>5, <3>6
  <2> QED BY <1>10, <2>3, <2>4, <2>5 DEF Plain
<1>11. ASSUME NEW c \in Caller, ReadLength(c)
       PROVE  /\ listener'.pc = "off" => Paging'
              /\ \A d \in Caller : call'[d].pc = "ok" /\ ~call'[d].removed => Complete(call'[d])
  <2>1. UNCHANGED <<call, inbox, outbox, chain, pool>>
    BY <1>11 DEF ReadLength, client, node
  <2> QED BY <1>2, <1>4, <2>1 DEF Paging
<1>12. ~ServeCut /\ \A c \in Caller : ~Strays(c)
  BY <1>1, <1>3, Disturbs
<1> QED BY <1>5, <1>6, <1>7, <1>8, <1>9, <1>10, <1>11, <1>12
        DEF Next, ServerStep, CallStep, CallEnds, Plain, Strays

-----------------------------------------------------------------------------
(* The theorems.                                                           *)

\* At first there is a list, and nothing else has happened.
LEMMA BaseFirst == Init => BaseInv
<1> SUFFICES ASSUME Init  PROVE BaseInv
  OBVIOUS
<1>1. <<>> \in Seq(Item) /\ <<>> \in Seq(Caller) /\ <<>> \in Seq(Request) /\ <<>> \in Seq(Message)
      /\ <<>> \in Seq(Tx) /\ <<>> \in Seq(Nat)
  BY EmptySeq
<1>2. NoCall \in CallType
  BY <1>1 DEF NoCall, CallType, Busy, Item
<1>3. chain \in Seq(Tx) /\ pool \in Seq(Nat)
  <2>1. PICK n \in Sizes :
          \/ chain = [i \in 1..n |-> <<i, 0>>] /\ pool = <<>>
          \/ chain = <<>> /\ pool = [i \in 1..n |-> i]
    BY DEF Init
  <2>2. n \in Nat
    BY ApiAssumption
  <2>3. [i \in 1..n |-> <<i, 0>>] \in Seq(Tx) /\ [i \in 1..n |-> i] \in Seq(Nat)
    BY <2>2 DEF Tx
  <2> QED BY <1>1, <2>1, <2>3
<1>4. call = [c \in Caller |-> NoCall] /\ lock = <<>>
  BY DEF Init
<1>5. TypeOK
  <2>1. stream \in StreamType /\ listener \in ListenerType
    BY <1>1 DEF Init, StreamType, ListenerType
  <2>2. call \in [Caller -> CallType]
    BY <1>2, <1>4
  <2>3. /\ light \in BOOLEAN /\ up \in BOOLEAN /\ lock \in Seq(Caller)
        /\ inbox \in Seq(Request) /\ outbox \in Seq(Message) /\ events \in Seq(Tx)
        /\ changes \in Nat /\ overtaken \in BOOLEAN /\ stale \in BOOLEAN
    BY <1>1 DEF Init
  <2> QED BY <1>3, <2>1, <2>2, <2>3 DEF TypeOK
<1>6. \A c \in Caller : call[c].pc = "idle"
  BY <1>4 DEF NoCall
<1>7. DOMAIN lock = {}
  BY <1>4
<1>8. Framing
  <2>1. inbox = <<>> /\ frame = "start"
    BY DEF Init
  <2> QED BY <2>1 DEF Framing
<1> QED BY <1>5, <1>6, <1>7, <1>8 DEF BaseInv, Locking

\* At first no message is on its way and no event was sent.
LEMMA EventFirst == Init => EventInv
<1> SUFFICES ASSUME Init  PROVE EventInv
  OBVIOUS
<1>1. BaseInv
  BY BaseFirst
<1>2. /\ stream = [on |-> FALSE, first |-> 1, next |-> 1, lagged |-> FALSE]
      /\ listener = [pc |-> "off", got |-> <<>>] /\ inbox = <<>> /\ outbox = <<>>
  BY DEF Init
<1>3. Fresh /\ DOMAIN inbox = {}
  BY <1>2 DEF Fresh
<1>4. listener.pc = "off"
  BY <1>2
<1>5. Converted
  BY <1>3, <1>4 DEF Converted
<1> QED BY <1>1, <1>3, <1>5, FreshStreams DEF EventInv

\* At first nobody waits for an answer.
LEMMA TurnFirst == Init => TurnInv
<1> SUFFICES ASSUME Init  PROVE TurnInv
  OBVIOUS
<1>1. EventInv
  BY EventFirst
<1>2. up /\ inbox = <<>> /\ outbox = <<>> /\ \A c \in Caller : call[c].pc = "idle" /\ call[c].own
  BY DEF Init, NoCall
<1>3. DOMAIN Fors = {}
  <2>1. 1..(0 + 0) = {}
    OBVIOUS
  <2> QED BY <1>2, <2>1 DEF Fors
<1>4. Turns
  BY <1>2, <1>3 DEF Turns, Awaiting, Reading
<1> QED BY <1>1, <1>2, <1>4 DEF TurnInv, OwnAnswer

\* At first no call has begun.
LEMMA PageFirst == Init => PageInv
<1> SUFFICES ASSUME Init  PROVE PageInv
  OBVIOUS
<1>1. TurnInv
  BY TurnFirst
<1>2. inbox = <<>> /\ outbox = <<>> /\ \A c \in Caller : call[c].pc = "idle"
  BY DEF Init, NoCall
<1> QED BY <1>1, <1>2 DEF PageInv, Paging, NothingLeftOut, Busy

\* Everything that is needed of the state of a node and its clients holds throughout: the
\* queue for the stream, the order of answers in it, the events on their way and the pages
\* that calls stand at (fetch and the listings of client.rs, the servers' loops).
THEOREM ApiInductive == Spec => []PageInv
BY PageFirst, PageKept, PTL DEF Spec

\* A listener gets the events of the node in their order and without a gap, whatever
\* requests were answered on its connection before it subscribed (convert_to_event_listener
\* of client.rs, the stream of Request::SubscribeToChainEvents).
THEOREM EventsFollow == Spec => []EventsContiguous
<1>1. PageInv => EventsContiguous
  BY DEF PageInv, TurnInv, EventInv, Streaming
<1> QED BY <1>1, ApiInductive, PTL

\* A call reads the answers to its own requests, though they carry no id, as long as no
\* caller lost its place between writing and reading and none was dropped (Client::fetch).
THEOREM AnswersAreOwn == Spec => []OwnAnswer
<1>1. PageInv => OwnAnswer
  BY DEF PageInv, TurnInv
<1> QED BY <1>1, ApiInductive, PTL

\* A listing that has returned holds everything that was there when it began and was not
\* removed meanwhile, whatever was added while its pages were read one after the other
\* (get_mempool, get_transactions_of_address and the like; slice_vec of api_server.rs).
THEOREM PagesAreWhole == Spec => []NothingLeftOut
<1>1. PageInv => NothingLeftOut
  BY DEF PageInv
<1> QED BY <1>1, ApiInductive, PTL
=============================================================================
