-------------------------------- MODULE Api ---------------------------------
(***************************************************************************)
(* The API of a node: a Client that several tasks share, or that was       *)
(* turned into an event listener (client.rs), the messages (requests.rs),  *)
(* and the connection task of the server on a full node or a light node    *)
(* (full_node/api_server.rs, light_node/api_server.rs).                    *)
(*                                                                         *)
(* Requests carry no id: the answer of a call is the next message that it  *)
(* reads.  A message is a length and a payload; a call that is dropped in  *)
(* the middle of one leaves the other end, or the next call, with bytes    *)
(* that it takes for a length.  The chain is the sequence of the           *)
(* transactions of one address, one per block, which a light node keeps in *)
(* the order of their ids; the pool stands for each list that is served in *)
(* slices, the mempool and the available outputs, in the order of a hash   *)
(* map.                                                                    *)
(***************************************************************************)
EXTENDS Naturals, Sequences, FiniteSets, SequencesExt

CONSTANTS
  Callers,       \* how many tasks share the client
  PAGE_SIZE,
  MaxPages,      \* values of max_pages, a Nat or None
  EventCap,      \* capacity of the broadcast channel of chain events
  WireCaps,      \* how many messages the connection may hold each way before
                 \* write_all waits until the other end reads
  Sizes,         \* bound: lengths of the chain and of the pool at first
  MaxChanges,    \* bound: changes of the chain and the pool during calls
  MaxEvents,     \* bound: events
  None

ASSUME ApiAssumption ==
  /\ Callers \in Nat
  /\ PAGE_SIZE \in Nat \ {0} /\ EventCap \in Nat \ {0} /\ WireCaps \subseteq Nat
  /\ MaxPages \subseteq Nat \cup {None} /\ None \notin Nat
  /\ Sizes \subseteq Nat /\ MaxChanges \in Nat /\ MaxEvents \in Nat

VARIABLES
  light,      \* the server is that of a light node
  room,       \* messages that fit into the connection each way
  up,         \* the connection task of the server runs
  lock,       \* the mutex of the stream: its holder, then those who wait
  call,       \* [Caller -> its call]
  inbox,      \* requests on the way to the server
  outbox,     \* responses on the way to the client
  frame,      \* where the client is in the responses: at the "start" of one,
              \* "inside" the first, behind a "cut" one that a dropped call has
              \* begun to read, or "lost", reading up to a length that is none
  chain, pool,
  events,     \* history: the transactions of all events sent
  stream,     \* the server's side of a subscription
  listener,   \* the client as an event listener
  changes,    \* how often the chain and the pool have changed
  overtaken,  \* history: a call lost its place between writing and reading
  stale,      \* history: a call was dropped when the node had something of its
              \* request
  broken      \* history: a call was dropped in the middle of a message

\* Tasks are numbered in the order in which they call.
Caller == 1..Callers

client == <<lock, call, listener>>
wires == <<inbox, outbox, frame>>
node == <<chain, pool, events, changes>>
history == <<overtaken, stale, broken>>
server == <<light, room, up>>
vars == <<server, client, wires, node, stream, history>>

NoCall == [pc |-> "idle", kind |-> None, page |-> 0, max |-> None, got |-> <<>>, own |-> TRUE,
           there |-> <<>>, removed |-> FALSE]

Init ==
  /\ light \in BOOLEAN /\ room \in WireCaps
  /\ up = TRUE
  /\ lock = <<>> /\ inbox = <<>> /\ outbox = <<>> /\ frame = "start"
  /\ call = [c \in Caller |-> NoCall]
  /\ \E n \in Sizes :
       \/ chain = [i \in 1..n |-> <<i, 0>>] /\ pool = <<>>
       \/ chain = <<>> /\ pool = [i \in 1..n |-> i]
  /\ events = <<>>
  /\ stream = [on |-> FALSE, first |-> 1, next |-> 1, lagged |-> FALSE]
  /\ listener = [pc |-> "off", got |-> <<>>]
  /\ changes = 0
  /\ overtaken = FALSE /\ stale = FALSE /\ broken = FALSE

-----------------------------------------------------------------------------
(* The node.  Other tasks change the chain and the pool; changes that      *)
(* nobody is there to see are left out.                                    *)

Ongoing(c) == call[c].pc \in {"lock", "write", "gap", "read"}
Asking(kinds) == \E c \in Caller : Ongoing(c) /\ call[c].kind \in kinds
Removed(kinds) ==
  [c \in Caller |-> [call[c] EXCEPT
     !.removed = call[c].removed \/ (Ongoing(c) /\ call[c].kind \in kinds)]]

\* accept_block: a block is added, and announced.  On a light node the place of
\* its transaction depends on the id.
AddBlock ==
  /\ \/ Asking({"list", "hash", "block"}) /\ changes < MaxChanges
     \/ ~light /\ listener.pc = "on" /\ Len(events) < MaxEvents
  /\ LET tx == <<Len(chain) + 1, changes + 1>>
     IN /\ \E i \in 1..(Len(chain) + 1) :
             (light \/ i = Len(chain) + 1) /\ chain' = InsertAt(chain, i, tx)
        /\ events' = Append(events, tx)
  /\ changes' = changes + 1
  /\ UNCHANGED <<server, client, wires, pool, stream, history>>

\* pop_block of a synchronisation, which announces nothing.
PopBlock ==
  /\ changes < MaxChanges /\ chain # <<>> /\ Asking({"list", "hash", "block"})
  /\ \E i \in DOMAIN chain : (light \/ i = Len(chain)) /\ chain' = RemoveAt(chain, i)
  /\ call' = Removed({"list", "hash", "block"})
  /\ changes' = changes + 1
  /\ UNCHANGED <<server, lock, listener, wires, pool, events, stream, history>>

\* An entry comes to any place of a hash map.
PoolAdd ==
  /\ changes < MaxChanges /\ Asking({"pool"})
  /\ \E i \in 1..(Len(pool) + 1) : pool' = InsertAt(pool, i, Len(pool) + changes + 1)
  /\ changes' = changes + 1
  /\ UNCHANGED <<server, client, wires, chain, events, stream, history>>

PoolRemove ==
  /\ changes < MaxChanges /\ Asking({"pool"})
  /\ \E i \in DOMAIN pool : pool' = RemoveAt(pool, i)
  /\ call' = Removed({"pool"})
  /\ changes' = changes + 1
  /\ UNCHANGED <<server, lock, listener, wires, chain, events, stream, history>>

-----------------------------------------------------------------------------
(* The server: one request after the other, each answered before the next. *)

slice_vec(s, start, end) ==
  IF start >= Len(s) THEN <<>>
  ELSE SubSeq(s, start + 1, IF end < Len(s) THEN end ELSE Len(s))

Page(s, page) == slice_vec(s, page * PAGE_SIZE, (page + 1) * PAGE_SIZE)

\* Request::AvailableUTXOs, Request::Mempool
PoolPage(page) ==
  LET items == Page(pool, page)
  IN [kind |-> "pool", items |-> items,
      next |-> IF Len(items) # PAGE_SIZE THEN None ELSE page + 1]

\* A list of the full node has more when a page's worth was seen, one of the light
\* node when there is more.
MoreOnFullNode(end) == end <= Len(chain)
MoreOnLightNode(end) == end < Len(chain)

\* Mutant: a last page with one entry is not announced.
ListPageShort(page) ==
  LET end == (page + 1) * PAGE_SIZE
  IN [kind |-> "list", items |-> Page(Reverse(chain), page),
      next |-> IF end + 1 < Len(chain) THEN page + 1 ELSE None]

\* Request::TransactionsOfAddress, from the end of the list.
ListPage(page) ==
  LET end == (page + 1) * PAGE_SIZE
      more == IF light THEN MoreOnLightNode(end) ELSE MoreOnFullNode(end)
  IN [kind |-> "list", items |-> Page(Reverse(chain), page),
      next |-> IF more THEN page + 1 ELSE None]

BlockHash(height) ==
  [kind |-> "hash", items |-> IF height < Len(chain) THEN <<chain[height + 1]>> ELSE <<>>, next |-> None]

Block(hash) ==
  [kind |-> "block", items |-> IF hash \in Range(chain) THEN <<hash>> ELSE <<>>, next |-> None]

\* Requests that read or change one thing: height, balance, reward, peers, ...
Single == [kind |-> "single", items |-> <<>>, next |-> None]

Unsupported(r) == light /\ r.kind \in {"hash", "block", "subscribe"}

Response(r) ==
  CASE r.kind = "pool" -> PoolPage(r.page)
    [] r.kind = "list" -> ListPage(r.page)
    [] r.kind = "hash" -> BlockHash(r.page)
    [] r.kind = "block" -> Block(r.page)
    [] r.kind = "single" -> Single

Answer(r) ==
  LET a == Response(r) IN [kind |-> a.kind, items |-> a.items, next |-> a.next, for |-> r.for]

\* The server has read a request, and is to answer it before it reads on.
Taken == inbox # <<>> /\ Head(inbox).kind # "cut"
Serving == up /\ ~stream.on /\ Taken

\* write_all ends: the message fits, or the client reads it at the same time.
Listening == listener.pc = "on" \/ (lock # <<>> /\ call[Head(lock)].pc = "read")
CanAnswer == Len(outbox) < room \/ (outbox = <<>> /\ Listening)

Serve ==
  /\ Serving /\ Head(inbox).kind # "subscribe" /\ ~Unsupported(Head(inbox))
  /\ CanAnswer
  /\ outbox' = Append(outbox, Answer(Head(inbox)))
  /\ inbox' = Tail(inbox)
  /\ UNCHANGED <<server, frame, client, node, stream, history>>

\* The connection is closed without an answer: the request is not supported, or a
\* block that a listing was about to read has been popped.
ServeFails ==
  /\ Serving
  /\ \/ Unsupported(Head(inbox))
     \/ /\ Head(inbox).kind = "list" /\ ~light
        /\ \E c \in Caller : call[c].kind = "list" /\ call[c].removed
  /\ up' = FALSE
  /\ inbox' = <<>>
  /\ UNCHANGED <<light, room, outbox, frame, client, node, stream, history>>

\* The rest of a request never comes, and the server takes what follows for it: it
\* waits for more, or has enough and closes, as it cannot be decoded.
ServeCut ==
  /\ up /\ ~stream.on /\ Len(inbox) > 1 /\ Head(inbox).kind = "cut"
  /\ \/ inbox' = <<Head(inbox)>> /\ UNCHANGED up
     \/ inbox' = <<>> /\ up' = FALSE
  /\ UNCHANGED <<light, room, outbox, frame, client, node, stream, history>>

Subscribe ==
  /\ Serving /\ Head(inbox).kind = "subscribe" /\ ~light
  /\ inbox' = Tail(inbox)
  /\ stream' = [on |-> TRUE, first |-> Len(events) + 1, next |-> Len(events) + 1, lagged |-> FALSE]
  /\ UNCHANGED <<server, outbox, frame, client, node, history>>

EventOf(tx) == [kind |-> "event", items |-> <<tx>>, next |-> None, for |-> None]
Lagged == Len(events) - stream.next >= EventCap

\* Mutant: the event is the response to the request, and the next request is read.
SendEventOnce ==
  /\ stream.on /\ stream.next <= Len(events) /\ ~Lagged
  /\ CanAnswer
  /\ outbox' = Append(outbox, EventOf(events[stream.next]))
  /\ stream' = [stream EXCEPT !.next = @ + 1, !.on = FALSE]
  /\ UNCHANGED <<server, inbox, frame, client, node, history>>

SendEvent ==
  /\ stream.on /\ stream.next <= Len(events) /\ ~Lagged
  /\ CanAnswer
  /\ outbox' = Append(outbox, EventOf(events[stream.next]))
  /\ stream' = [stream EXCEPT !.next = @ + 1]
  /\ UNCHANGED <<server, inbox, frame, client, node, history>>

\* Mutant: events that were missed are skipped.
StreamLagsOn ==
  /\ stream.on /\ Lagged
  /\ stream' = [stream EXCEPT !.next = Len(events) - EventCap + 1]
  /\ UNCHANGED <<server, wires, client, node, history>>

\* recv() fails when events were missed: the stream ends, the connection does not.
StreamLags ==
  /\ stream.on /\ Lagged
  /\ stream' = [stream EXCEPT !.on = FALSE, !.lagged = TRUE]
  /\ UNCHANGED <<server, wires, client, node, history>>

-----------------------------------------------------------------------------
(* The client: every call is a sequence of fetches.                        *)

Kinds == {"pool", "list", "hash", "single"}

Call(c) ==
  /\ call[c].pc = "idle" /\ listener.pc = "off"
  /\ \A d \in 1..(c - 1) : call[d].pc # "idle"
  /\ \E k \in Kinds, m \in MaxPages :
       /\ k # "list" => m = None
       /\ call' = [call EXCEPT ![c] = [NoCall EXCEPT !.pc = "lock", !.kind = k, !.max = m,
                          !.there = CASE k = "pool" -> pool [] k = "single" -> <<>>
                                      [] OTHER -> chain]]
  /\ UNCHANGED <<server, lock, listener, wires, node, stream, history>>

\* c gives the stream back, or waits for it no longer.
Release(c) == lock' = RemoveAt(lock, CHOOSE i \in DOMAIN lock : lock[i] = c)

\* Mutant: a task that waits for the stream may take it out of turn.
HoldsAny(c) == c \in Range(lock)

\* The mutex is given to those who wait in the order in which they came (tokio).
Holds(c) == lock # <<>> /\ Head(lock) = c

\* fetch asks for the stream to write, and again to read.
Lock(c) ==
  /\ call[c].pc \in {"lock", "gap"}
  /\ lock' = Append(lock, c)
  /\ call' = [call EXCEPT ![c].pc = IF call[c].pc = "lock" THEN "write" ELSE "read"]
  /\ overtaken' = (overtaken \/ (call[c].pc = "gap" /\ \E d \in Caller \ {c} : call[d].pc = "gap"))
  /\ UNCHANGED <<server, listener, wires, node, stream, stale, broken>>

\* write_all ends: the request fits, or the server reads it at the same time; an end
\* that was closed takes everything.
CanAsk == ~up \/ Len(inbox) < room \/ (~stream.on /\ ~Taken)

Sent(r) == inbox' = IF up THEN Append(inbox, r) ELSE inbox
RequestOf(c) == [for |-> c, kind |-> call[c].kind, page |-> call[c].page]

\* The request is written and the stream released.
Write(c) ==
  /\ call[c].pc = "write" /\ Holds(c) /\ CanAsk
  /\ Sent(RequestOf(c))
  /\ Release(c)
  /\ call' = [call EXCEPT ![c].pc = "gap"]
  /\ UNCHANGED <<server, listener, outbox, frame, node, stream, history>>

\* A listing asks for the next page, up to max_pages.
HasNextPage(k, r) ==
  r.kind \in {"pool", "list"} /\ r.next # None /\ (k.max = None \/ r.next < k.max)

\* get_block_by_height asks for the block of the hash it got.
FindsHash(k, r) == r.kind = "hash" /\ r.items # <<>>

\* What call k does with the response r to its last fetch: another kind of response
\* is an error.
After(k, r) ==
  LET got == [k EXCEPT !.got = k.got \o r.items]
  IN CASE r.kind # k.kind -> [k EXCEPT !.pc = "err"]
       [] r.kind = k.kind /\ FindsHash(k, r) ->
            [k EXCEPT !.pc = "lock", !.kind = "block", !.page = r.items[1]]
       [] r.kind = k.kind /\ HasNextPage(k, r) ->
            [got EXCEPT !.pc = "lock", !.page = r.next]
       [] OTHER -> [got EXCEPT !.pc = "ok"]

\* Whether the response that c reads is its own.
Judged(c, k) == [k EXCEPT !.own = call[c].own /\ Head(outbox).for = c]

\* c has the stream to read.
Reader(c) == call[c].pc = "read" /\ Holds(c)

\* The length is read: behind a cut response it is what comes next instead.
ReadLength(c) ==
  /\ Reader(c) /\ outbox # <<>>
  /\ \/ frame = "start" /\ frame' = "inside"
     \/ frame = "cut" /\ frame' = "lost"
  /\ UNCHANGED <<server, client, inbox, outbox, node, stream, history>>

\* Mutant: the end of the stream goes unnoticed.
ReadOn(c) ==
  /\ Reader(c) /\ outbox # <<>> /\ frame = "inside"
  /\ outbox' = Tail(outbox)
  /\ call' = [call EXCEPT ![c] = Judged(c, After(call[c], Head(outbox)))]
  /\ frame' = "start"
  /\ Release(c)
  /\ UNCHANGED <<server, listener, inbox, node, stream, history>>

\* The payload is read and the stream released; the end of the stream is an error.
Read(c) ==
  /\ Reader(c)
  /\ \/ /\ outbox # <<>> /\ frame = "inside"
        /\ outbox' = Tail(outbox)
        /\ call' = [call EXCEPT ![c] = Judged(c, After(call[c], Head(outbox)))]
     \/ /\ outbox = <<>> /\ ~up
        /\ call' = [call EXCEPT ![c].pc = "err"]
        /\ UNCHANGED outbox
  /\ frame' = "start"
  /\ Release(c)
  /\ UNCHANGED <<server, listener, inbox, node, stream, history>>

\* One that is lost takes whatever comes.
ReadLost(c) ==
  /\ Reader(c) /\ outbox # <<>> /\ frame = "lost"
  /\ outbox' = Tail(outbox)
  /\ UNCHANGED <<server, client, inbox, frame, node, stream, history>>

\* Bytes that do not begin where a response does were read up to some place: to the
\* end of a response or into the next.
Astray == frame' = "start" \/ (outbox # <<>> /\ frame' = "cut")

\* It may have taken as much as it takes for the length: that cannot be decoded.
ReadFails(c) ==
  /\ Reader(c) /\ frame = "lost"
  /\ Astray
  /\ call' = [call EXCEPT ![c].pc = "err"]
  /\ Release(c)
  /\ UNCHANGED <<server, listener, inbox, outbox, node, stream, history>>

\* The caller has its result.
Return(c) ==
  /\ call[c].pc \in {"ok", "err"}
  /\ call' = [call EXCEPT ![c] = [NoCall EXCEPT !.pc = "done"]]
  /\ UNCHANGED <<server, lock, listener, wires, node, stream, history>>

\* The future of a call is dropped while it waits, by a timeout for instance.
Dropped(c) == call' = [call EXCEPT ![c] = [NoCall EXCEPT !.pc = "done"]] /\ Release(c)

\* It waits for the stream, or has it but is not in the middle of a message.
Drop(c) ==
  /\ call[c].pc \in {"write", "read"}
  /\ Holds(c) => frame \in {"start", "cut"}
  /\ Dropped(c)
  /\ stale' = (stale \/ call[c].pc = "read")
  /\ UNCHANGED <<server, listener, wires, node, stream, overtaken, broken>>

\* It has written a part of its request.
DropWriting(c) ==
  /\ call[c].pc = "write" /\ Holds(c) /\ up
  /\ Sent([RequestOf(c) EXCEPT !.kind = "cut"])
  /\ Dropped(c)
  /\ stale' = TRUE /\ broken' = TRUE
  /\ UNCHANGED <<server, listener, outbox, frame, node, stream, overtaken>>

\* It has read a part of its response, or of what it took for one.
DropReading(c) ==
  /\ Reader(c)
  /\ \/ frame = "inside" /\ frame' = "cut"
     \/ frame = "lost" /\ Astray
  /\ Dropped(c)
  /\ stale' = TRUE /\ broken' = TRUE
  /\ UNCHANGED <<server, listener, inbox, outbox, node, stream, overtaken>>

-----------------------------------------------------------------------------
(* The listener keeps the stream.  Its reads are dropped only with itself.  *)

\* convert_to_event_listener takes the client: no call is under way.
Listen ==
  /\ listener.pc = "off" /\ \A c \in Caller : call[c].pc \in {"idle", "done"}
  /\ listener' = [listener EXCEPT !.pc = "ask"]
  /\ UNCHANGED <<server, lock, call, wires, node, stream, history>>

ListenerAsk ==
  /\ listener.pc = "ask" /\ CanAsk
  /\ Sent([for |-> None, kind |-> "subscribe", page |-> 0])
  /\ listener' = [listener EXCEPT !.pc = "on"]
  /\ UNCHANGED <<server, lock, call, outbox, frame, node, stream, history>>

ListenerRead ==
  /\ listener.pc = "on"
  /\ \/ /\ outbox # <<>> /\ frame = "start"
        /\ outbox' = Tail(outbox)
        /\ listener' = IF Head(outbox).kind = "event"
                       THEN [listener EXCEPT !.got = @ \o Head(outbox).items]
                       ELSE [listener EXCEPT !.pc = "err"]
        /\ UNCHANGED frame
     \/ /\ outbox = <<>> /\ ~up
        /\ listener' = [listener EXCEPT !.pc = "err"]
        /\ UNCHANGED <<outbox, frame>>
  /\ UNCHANGED <<server, lock, call, inbox, node, stream, history>>

\* Behind a cut response.
ListenerLost ==
  /\ listener.pc = "on" /\ outbox # <<>> /\ frame \in {"cut", "lost"}
  /\ outbox' = Tail(outbox)
  /\ frame' = "lost"
  /\ UNCHANGED <<server, client, inbox, node, stream, history>>

ListenerFails ==
  /\ listener.pc = "on" /\ frame = "lost"
  /\ listener' = [listener EXCEPT !.pc = "err"]
  /\ UNCHANGED <<server, lock, call, wires, node, stream, history>>

\* The shutdown signal.
ListenerStop ==
  /\ listener.pc = "on"
  /\ listener' = [listener EXCEPT !.pc = "stopped"]
  /\ UNCHANGED <<server, lock, call, wires, node, stream, history>>

-----------------------------------------------------------------------------
ServerStep == Serve \/ ServeFails \/ ServeCut \/ Subscribe \/ SendEvent \/ StreamLags
CallStep(c) ==
  Lock(c) \/ Write(c) \/ ReadLength(c) \/ Read(c) \/ ReadLost(c) \/ Return(c)
CallEnds(c) == ReadFails(c) \/ Drop(c) \/ DropWriting(c) \/ DropReading(c)
ListenerStep == ListenerAsk \/ ListenerRead \/ ListenerLost

Next ==
  \/ ServerStep \/ AddBlock \/ PopBlock \/ PoolAdd \/ PoolRemove
  \/ \E c \in Caller : Call(c) \/ CallStep(c) \/ CallEnds(c)
  \/ Listen \/ ListenerStep \/ ListenerFails \/ ListenerStop

\* Tasks that can move are polled; nobody has to call, to drop or to stop, and what
\* was taken for a length may be more than ever comes.
Fairness ==
  /\ WF_vars(ServerStep)
  /\ \A c \in Caller : WF_vars(CallStep(c))
  /\ WF_vars(ListenerStep)

Spec == Init /\ [][Next]_vars
FairSpec == Spec /\ Fairness

-----------------------------------------------------------------------------
Undisturbed == ~overtaken /\ ~stale

\* Requests carry no id and fetch lets go of the stream between writing and
\* reading: a call still gets the answers to its own requests, unless another call
\* wrote and asked for the stream again first, or a call was dropped.
OwnAnswer == Undisturbed => \A c \in Caller : call[c].own

\* A call sees at least what was there when it began, unless something of it was
\* removed meanwhile: when entries are added the pages of a list shift, so that an
\* entry may come twice, but none is left out.
NothingLeftOut ==
  \A c \in Caller :
    LET k == call[c] IN
    (k.pc = "ok" /\ ~k.removed /\ Undisturbed) =>
      /\ (k.kind \in {"list", "pool"} /\ k.max = None) => Range(k.there) \subseteq Range(k.got)
      /\ k.kind = "hash" => k.there = <<>>
      /\ k.kind = "block" => k.got # <<>>

\* A listener gets the events in their order and without a gap, however slow it is.
EventsContiguous ==
  listener.got = SubSeq(events, stream.first, stream.first + Len(listener.got) - 1)

\* The server waits to write an answer that nobody reads, while the one who has the
\* stream waits to write a request that nobody reads.
Writing == listener.pc = "ask" \/ \E c \in Caller : call[c].pc = "write" /\ Holds(c)
BothWrite == Serving /\ Writing /\ ~CanAsk /\ ~CanAnswer

\* A listener that has not stopped and gets no error gets every event, unless it was
\* too slow once: then it waits for ever and is not told.  It also waits for ever,
\* on a connection that stays open, if a call was dropped in the middle of a message
\* before, or if answers nobody read are in its way while it asks.
EventsArrive ==
  <>[](listener.pc \in {"ask", "on"} =>
         \/ listener.pc = "on" /\ stream.lagged
         \/ listener.pc = "on" /\ stream.first + Len(listener.got) = Len(events) + 1
         \/ up /\ (broken \/ BothWrite))

\* Every call returns, unless a call was dropped in the middle of a message or both
\* ends write and neither reads; when the connection is closed, all return.
CallsReturn ==
  <>[](\/ \A c \in Caller : call[c].pc \in {"idle", "done"}
       \/ up /\ (broken \/ BothWrite))
=============================================================================
