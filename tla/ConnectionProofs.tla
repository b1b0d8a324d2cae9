-------------------------- MODULE ConnectionProofs --------------------------
(***************************************************************************)
(* Proofs about PeerConn and Peers.  One connection, for every number of   *)
(* tasks, every capacity of the queues and every mix of releases at the    *)
(* two ends: where the messages of a call can be, and that a connection    *)
(* implements Calls.  All connections, for every set of them, of addresses *)
(* and of referrals and every target: the table of peers and the           *)
(* connections agree, and there are at most twice as many outgoing peers   *)
(* as aimed at.                                                            *)
(***************************************************************************)
EXTENDS PeerConn, Peers, SequenceTheorems, FiniteSetTheorems, TLAPS

Callers(e) == {c \in Caller : c[1] = e}
Resp(c) == MakeResponse(RequestOf(c))

\* Messages that an end puts into its queue.
OutMsg(e) == {Acknowledge} \cup {RequestOf(c) : c \in Callers(e)}
               \cup {Resp(c) : c \in Callers(Other(e))}
Message == {Connect} \cup (UNION {OutMsg(e) : e \in End})

TypeOK ==
  /\ phase \in [End -> {"new", "ack", "open", "closed"}]
  /\ sendq \in [End -> Seq(Message)]
  /\ wire \in [End -> Message \cup {NoMsg}]
  /\ pending \in [End -> SUBSET Caller]
  /\ reading \in [End -> Message \cup {NoMsg}]
  /\ result \in [Caller -> {"none", "answered", "failed"}]
  /\ handled \in [Caller -> {0, 1}]
  /\ \A e \in End :
       /\ sendq[e] \in Seq(OutMsg(e))
       /\ wire[e] \in OutMsg(e) \cup {Connect, NoMsg}
       /\ pending[e] \subseteq Callers(e)
       /\ reading[e] \in {RequestOf(c) : c \in Callers(Other(e))} \cup {Connect, NoMsg}

\* The messages of a queue, none of them twice.
Queued(e) == {sendq[e][i] : i \in DOMAIN sendq[e]}
Distinct(q) == \A i, j \in DOMAIN q : q[i] = q[j] => i = j

\* An end keeps nothing of a connection that is not open.
EndKeeps(e) ==
  /\ Distinct(sendq[e])
  /\ phase[e] # "open" => sendq[e] = <<>> /\ pending[e] = {} /\ reading[e] = NoMsg

\* The Connect of an end and the Acknowledge for it are one message at a time, and
\* the end waits for it or is gone.
Greeting(e) ==
  LET o == Other(e) IN
  /\ \/ wire[e] = Connect \/ reading[o] = Connect
     \/ Acknowledge \in Queued(o) \/ wire[o] = Acknowledge
     => phase[e] \in {"ack", "closed"}
  /\ wire[e] = Connect =>
       reading[o] # Connect /\ Acknowledge \notin Queued(o) /\ wire[o] # Acknowledge
  /\ reading[o] = Connect => Acknowledge \notin Queued(o) /\ wire[o] # Acknowledge
  /\ Acknowledge \in Queued(o) => wire[o] # Acknowledge

\* The request of a call and its response are one message at a time: queued, on the
\* wire or being handled, and somebody waits for it or the end is gone.
Track(c) ==
  LET e  == c[1]
      o  == Other(c[1])
      rq == RequestOf(c)
      rs == Resp(c)
  IN
  /\ rq \in Queued(e) =>
       /\ result[c] = "none" /\ c \notin pending[e] /\ handled[c] = 0
       /\ wire[e] # rq /\ reading[o] # rq /\ rs \notin Queued(o) /\ wire[o] # rs
  /\ wire[e] = rq \/ reading[o] = rq =>
       /\ handled[c] = 0 /\ rs \notin Queued(o) /\ wire[o] # rs
       /\ c \in pending[e] \/ result[c] = "failed"
  /\ wire[e] = rq => reading[o] # rq
  /\ rs \in Queued(o) \/ wire[o] = rs =>
       handled[c] = 1 /\ (c \in pending[e] \/ result[c] = "failed")
  /\ rs \in Queued(o) => wire[o] # rs
  /\ c \in pending[e] => result[c] = "none"
  /\ result[c] = "none" /\ c \notin pending[e] => handled[c] = 0
  /\ result[c] = "answered" => handled[c] = 1
  /\ result[c] = "failed" => phase[e] = "closed"

IInv ==
  /\ TypeOK
  /\ \A e \in End : EndKeeps(e) /\ Greeting(e)
  /\ \A c \in Caller : Track(c)

-----------------------------------------------------------------------------
(* Ends, callers and messages.                                             *)

\* There are two ends.
LEMMA Ends ==
  ASSUME NEW e \in End
  PROVE  /\ Other(e) \in End /\ Other(e) # e /\ Other(Other(e)) = e
         /\ \A f \in End : f = e \/ f = Other(e)
<1>1. PICK x \in End, y \in End : x # y /\ End = {x, y}
  BY PeerConnAssumption
<1>2. \A f \in End : \E g \in End : g # f
  BY <1>1
<1>3. \A f \in End : Other(f) \in End /\ Other(f) # f
  BY <1>2 DEF Other
<1> QED BY <1>1, <1>3

\* A caller belongs to an end.
LEMMA CallerEnd ==
  ASSUME NEW c \in Caller
  PROVE  c[1] \in End /\ c \in Callers(c[1])
BY DEF Caller, Callers

\* What distinguishes messages.
LEMMA Messages ==
  /\ \A c \in Caller :
       /\ RequestOf(c).kind = "request" /\ RequestOf(c).call = c /\ RequestOf(c).id = c
       /\ Resp(c).kind = "response" /\ Resp(c).call = c /\ Resp(c).id = c
       /\ RequestOf(c) \notin {Connect, Acknowledge, NoMsg}
       /\ Resp(c) \notin {Connect, Acknowledge, NoMsg}
  /\ \A c, d \in Caller :
       /\ RequestOf(c) = RequestOf(d) => c = d
       /\ Resp(c) = Resp(d) => c = d
       /\ RequestOf(c) # Resp(d)
  /\ Connect.kind = "connect" /\ Acknowledge.kind = "ack" /\ Connect # Acknowledge
  /\ NoMsg \notin {Connect, Acknowledge}
<1>1. \A c \in Caller :
       /\ RequestOf(c).kind = "request" /\ RequestOf(c).call = c /\ RequestOf(c).id = c
       /\ Resp(c).kind = "response" /\ Resp(c).call = c /\ Resp(c).id = c
  BY DEF RequestOf, Resp, MakeResponse, Id
<1>2. Connect.kind = "connect" /\ Acknowledge.kind = "ack"
  BY DEF Connect, Acknowledge
<1>3. \A c \in Caller : NoMsg \notin {RequestOf(c), Resp(c)}
  BY NoMsgAssumption DEF Resp
<1> QED BY <1>1, <1>2, <1>3, NoMsgAssumption

-----------------------------------------------------------------------------
(* Queues.                                                                 *)

\* A message that is put at the end of a queue.
LEMMA QueueAppend ==
  ASSUME NEW S, NEW q \in Seq(S), NEW m \in S, Distinct(q),
         \A i \in DOMAIN q : q[i] # m
  PROVE  /\ Append(q, m) \in Seq(S) /\ Distinct(Append(q, m))
         /\ {Append(q, m)[i] : i \in DOMAIN Append(q, m)} = {q[i] : i \in DOMAIN q} \cup {m}
<1> DEFINE r == Append(q, m)
<1>1. r \in Seq(S) /\ Len(r) = Len(q) + 1 /\ Len(q) \in Nat
      /\ DOMAIN r = 1..(Len(q) + 1) /\ DOMAIN q = 1..Len(q)
      /\ r[Len(q) + 1] = m
      /\ \A i \in 1..Len(q) : r[i] = q[i]
  BY AppendProperties, LenProperties
<1> HIDE DEF r
<1>2. Distinct(r)
  BY <1>1 DEF Distinct
<1>3. {r[i] : i \in DOMAIN r} = {q[i] : i \in DOMAIN q} \cup {m}
  <2>1. ASSUME NEW i \in DOMAIN r
        PROVE  r[i] \in {q[j] : j \in DOMAIN q} \cup {m}
    <3>1. CASE i = Len(q) + 1
      BY <1>1, <3>1
    <3>2. CASE i \in 1..Len(q)
      BY <1>1, <3>2
    <3> QED BY <1>1, <2>1, <3>1, <3>2
  <2>2. m \in {r[i] : i \in DOMAIN r}
    <3>1. Len(q) + 1 \in DOMAIN r
      BY <1>1
    <3> QED BY <1>1, <3>1
  <2>3. ASSUME NEW j \in DOMAIN q
        PROVE  q[j] \in {r[i] : i \in DOMAIN r}
    <3>1. j \in DOMAIN r /\ r[j] = q[j]
      BY <1>1
    <3> QED BY <3>1
  <2> QED BY <2>1, <2>2, <2>3
<1> QED BY <1>1, <1>2, <1>3 DEF r

\* A message that is taken from the front of a queue.
LEMMA QueueTail ==
  ASSUME NEW S, NEW q \in Seq(S), q # <<>>, Distinct(q)
  PROVE  /\ Head(q) \in S /\ Tail(q) \in Seq(S) /\ Distinct(Tail(q))
         /\ Head(q) \in {q[i] : i \in DOMAIN q}
         /\ {Tail(q)[i] : i \in DOMAIN Tail(q)} = {q[i] : i \in DOMAIN q} \ {Head(q)}
<1> DEFINE r == Tail(q)
<1>1. /\ Len(q) \in Nat \ {0} /\ DOMAIN q = 1..Len(q)
      /\ r \in Seq(S) /\ Len(r) = Len(q) - 1 /\ DOMAIN r = 1..(Len(q) - 1)
      /\ Head(q) = q[1]
      /\ \A i \in 1..(Len(q) - 1) : r[i] = q[i + 1]
  BY HeadTailProperties, LenProperties, EmptySeq
<1> HIDE DEF r
<1>2. 1 \in DOMAIN q
  BY <1>1
<1>3. Distinct(r)
  <2>1. ASSUME NEW i \in DOMAIN r, NEW j \in DOMAIN r, r[i] = r[j]
        PROVE  i = j
    <3>1. i + 1 \in DOMAIN q /\ j + 1 \in DOMAIN q /\ q[i + 1] = q[j + 1]
      BY <1>1, <2>1
    <3>2. i + 1 = j + 1
      BY <3>1 DEF Distinct
    <3> QED BY <1>1, <3>2
  <2> QED BY <2>1 DEF Distinct
<1>4. {r[i] : i \in DOMAIN r} = {q[i] : i \in DOMAIN q} \ {Head(q)}
  <2>1. ASSUME NEW i \in DOMAIN r
        PROVE  r[i] \in {q[j] : j \in DOMAIN q} \ {Head(q)}
    <3>1. i + 1 \in DOMAIN q /\ i + 1 # 1 /\ r[i] = q[i + 1]
      BY <1>1
    <3> QED BY <1>1, <1>2, <3>1 DEF Distinct
  <2>2. ASSUME NEW j \in DOMAIN q, q[j] # Head(q)
        PROVE  q[j] \in {r[i] : i \in DOMAIN r}
    <3>1. j - 1 \in DOMAIN r /\ r[j - 1] = q[j]
      BY <1>1, <2>2
    <3> QED BY <3>1
  <2> QED BY <2>1, <2>2
<1>5. Head(q) \in S
  BY <1>1, <1>2, ElementOfSeq
<1> QED BY <1>1, <1>2, <1>3, <1>4, <1>5 DEF r

\* Who is in the queue, as the model looks for it.
LEMMA InQueueMeans ==
  ASSUME TypeOK, NEW c \in Caller
  PROVE  InQueue(c) <=> RequestOf(c) \in Queued(c[1])
<1> DEFINE e == c[1]
<1>1. e \in End
  BY CallerEnd
<1>2. \A i \in DOMAIN sendq[e] : sendq[e][i] \in OutMsg(e)
  BY <1>1, ElementOfSeq DEF TypeOK
<1>3. ASSUME NEW i \in DOMAIN sendq[e], sendq[e][i].kind = "request",
             sendq[e][i].call = c
      PROVE  sendq[e][i] = RequestOf(c)
  BY <1>2, <1>3, Messages, Ends, CallerEnd DEF OutMsg, Callers
<1> QED BY <1>3, Messages DEF InQueue, Queued

-----------------------------------------------------------------------------
(* The queues, step by step.                                               *)

\* A message joins the queue of an end.
LEMMA Enqueue ==
  ASSUME TypeOK, NEW e \in End, Distinct(sendq[e]),
         NEW m \in OutMsg(e), m \notin Queued(e),
         sendq' = [sendq EXCEPT ![e] = Append(@, m)]
  PROVE  /\ sendq' \in [End -> Seq(Message)] /\ sendq'[e] \in Seq(OutMsg(e))
         /\ Distinct(sendq'[e])
         /\ Queued(e)' = Queued(e) \cup {m}
         /\ \A f \in End \ {e} : sendq'[f] = sendq[f] /\ Queued(f)' = Queued(f)
<1>1. m \in Message /\ sendq[e] \in Seq(Message) /\ sendq[e] \in Seq(OutMsg(e))
  BY DEF TypeOK, Message
<1>2. \A i \in DOMAIN sendq[e] : sendq[e][i] # m
  BY DEF Queued
<1>3. sendq'[e] = Append(sendq[e], m)
  BY DEF TypeOK
<1>4. /\ Append(sendq[e], m) \in Seq(Message) /\ Append(sendq[e], m) \in Seq(OutMsg(e))
      /\ Distinct(Append(sendq[e], m))
  BY <1>1, <1>2, QueueAppend
<1>5. Queued(e)' = Queued(e) \cup {m}
  BY <1>1, <1>2, <1>3, QueueAppend DEF Queued
<1>6. \A f \in End \ {e} : sendq'[f] = sendq[f] /\ Queued(f)' = Queued(f)
  BY DEF TypeOK, Queued
<1> QED BY <1>3, <1>4, <1>5, <1>6 DEF TypeOK

\* The first message leaves the queue of an end.
LEMMA Dequeue ==
  ASSUME TypeOK, NEW e \in End, Distinct(sendq[e]), sendq[e] # <<>>,
         sendq' = [sendq EXCEPT ![e] = Tail(@)]
  PROVE  /\ Head(sendq[e]) \in OutMsg(e) /\ Head(sendq[e]) \in Queued(e)
         /\ sendq' \in [End -> Seq(Message)] /\ sendq'[e] \in Seq(OutMsg(e))
         /\ Distinct(sendq'[e])
         /\ Queued(e)' = Queued(e) \ {Head(sendq[e])}
         /\ \A f \in End \ {e} : sendq'[f] = sendq[f] /\ Queued(f)' = Queued(f)
<1>1. sendq[e] \in Seq(Message) /\ sendq[e] \in Seq(OutMsg(e))
  BY DEF TypeOK
<1>2. sendq'[e] = Tail(sendq[e])
  BY DEF TypeOK
<1>3. Tail(sendq[e]) \in Seq(Message)
  BY <1>1, QueueTail
<1>4. /\ Head(sendq[e]) \in OutMsg(e) /\ Tail(sendq[e]) \in Seq(OutMsg(e))
      /\ Distinct(Tail(sendq[e])) /\ Head(sendq[e]) \in Queued(e)
  BY <1>1, QueueTail DEF Queued
<1>5. Queued(e)' = Queued(e) \ {Head(sendq[e])}
  <2>1. {Tail(sendq[e])[i] : i \in DOMAIN Tail(sendq[e])}
          = {sendq[e][i] : i \in DOMAIN sendq[e]} \ {Head(sendq[e])}
    BY <1>1, QueueTail
  <2> QED BY <1>2, <2>1 DEF Queued
<1>6. \A f \in End \ {e} : sendq'[f] = sendq[f] /\ Queued(f)' = Queued(f)
  BY DEF TypeOK, Queued
<1> QED BY <1>2, <1>3, <1>4, <1>5, <1>6 DEF TypeOK

\* What is in the queue of an end, and what is not.
LEMMA QueuedType ==
  ASSUME TypeOK, NEW e \in End
  PROVE  /\ Queued(e) \subseteq OutMsg(e)
         /\ sendq[e] = <<>> => Queued(e) = {}
BY ElementOfSeq DEF TypeOK, Queued

\* The end of a connection empties what the end holds, and its calls fail.
LEMMA CloseType ==
  ASSUME TypeOK, NEW e \in End, Close(e)
  PROVE  /\ phase' = [phase EXCEPT ![e] = "closed"]
         /\ sendq' \in [End -> Seq(Message)] /\ sendq'[e] = <<>>
         /\ sendq'[e] \in Seq(OutMsg(e)) /\ Distinct(sendq'[e])
         /\ Queued(e)' = {} /\ pending'[e] = {} /\ reading'[e] = NoMsg
         /\ pending' \in [End -> SUBSET Caller]
         /\ reading' \in [End -> Message \cup {NoMsg}]
         /\ \A f \in End \ {e} :
              /\ sendq'[f] = sendq[f] /\ Queued(f)' = Queued(f)
              /\ pending'[f] = pending[f] /\ reading'[f] = reading[f]
         /\ result' \in [Caller -> {"none", "answered", "failed"}]
         /\ \A c \in Caller :
              /\ c[1] = e /\ Waiting(c) => result'[c] = "failed"
              /\ c[1] # e \/ ~Waiting(c) => result'[c] = result[c]
<1>1. /\ <<>> \in Seq(Message) /\ <<>> \in Seq(OutMsg(e)) /\ Distinct(<<>>)
  BY DEF Distinct
<1>2. Queued(e)' = {}
  BY DEF Close, TypeOK, Queued
<1> QED BY <1>1, <1>2 DEF Close, TypeOK, Queued

-----------------------------------------------------------------------------
(* Every step keeps the invariant.                                         *)

\* A handshake begins.
LEMMA GreetStep ==
  ASSUME IInv, NEW e \in End, Greet(e)
  PROVE  IInv'
<1>1. /\ phase[e] = "new" /\ phase' = [phase EXCEPT ![e] = "ack"]
      /\ wire' = [wire EXCEPT ![e] = Connect]
      /\ UNCHANGED <<sendq, pending, reading, result, handled>>
      /\ \A f \in End : Queued(f)' = Queued(f)
  BY DEF Greet, Queued
<1>2. TypeOK'
  <2>1. Connect \in Message
    BY DEF Message
  <2> QED BY <1>1, <2>1 DEF IInv, TypeOK
<1>3. \A f \in End : EndKeeps(f)' /\ Greeting(f)'
  <2>1. \A f \in End : EndKeeps(f)'
    BY <1>1 DEF IInv, TypeOK, EndKeeps
  <2>2. \A f \in End : Greeting(f)'
    BY <1>1, Messages, Ends DEF IInv, TypeOK, Greeting
  <2> QED BY <2>1, <2>2
<1>4. ASSUME NEW c \in Caller
      PROVE  Track(c)'
  BY <1>1, Messages, Ends, CallerEnd DEF IInv, TypeOK, Track
<1> QED BY <1>2, <1>3, <1>4 DEF IInv

\* The answer to a greeting is read.
LEMMA ReadAcknowledgeStep ==
  ASSUME IInv, NEW e \in End, ReadAcknowledge(e)
  PROVE  IInv'
<1> DEFINE o == Other(e)
<1>1. /\ phase[e] = "ack" /\ wire[o] # NoMsg
      /\ phase' = [phase EXCEPT ![e] = IF wire[o].kind = "ack" THEN "open" ELSE "closed"]
      /\ wire' = [wire EXCEPT ![o] = NoMsg]
      /\ UNCHANGED <<sendq, pending, reading, result, handled>>
      /\ \A f \in End : Queued(f)' = Queued(f)
  BY DEF ReadAcknowledge, Queued
<1>2. o \in End /\ o # e /\ \A f \in End : f = e \/ f = o
  BY Ends
<1>3. TypeOK'
  BY <1>1, <1>2 DEF IInv, TypeOK, Message
<1>4. \A f \in End : EndKeeps(f)'
  BY <1>1 DEF IInv, TypeOK, EndKeeps
<1>5. phase'[e] = "open" => wire[o] = Acknowledge
  <2>1. wire[o] \in OutMsg(o) \cup {Connect, NoMsg} /\ wire[o] # NoMsg
    BY <1>1, <1>2 DEF IInv, TypeOK
  <2>2. wire[o].kind = "ack" => wire[o] = Acknowledge
    BY <2>1, Messages DEF OutMsg, Callers
  <2> QED BY <1>1, <2>2 DEF IInv, TypeOK
<1>6. \A f \in End : Greeting(f)'
  BY <1>1, <1>2, <1>5, Messages, Ends DEF IInv, TypeOK, Greeting
<1>7. ASSUME NEW c \in Caller
      PROVE  Track(c)'
  BY <1>1, <1>2, Messages, Ends, CallerEnd DEF IInv, TypeOK, Track
<1> QED BY <1>3, <1>4, <1>6, <1>7 DEF IInv

\* A call puts its request into the queue.
LEMMA RequestStep ==
  ASSUME IInv, NEW c \in Caller, Request(c)
  PROVE  IInv'
<1> DEFINE e == c[1]
           o == Other(c[1])
           m == RequestOf(c)
<1>1. /\ phase[e] = "open" /\ result[c] = "none"
      /\ ~InQueue(c) /\ c \notin pending[e]
      /\ sendq' = [sendq EXCEPT ![e] = Append(@, m)]
      /\ UNCHANGED <<phase, wire, pending, reading, result, handled>>
  BY DEF Request, Open, Called, Waiting
<1>2. e \in End /\ o \in End /\ o # e /\ \A f \in End : f = e \/ f = o
  BY Ends, CallerEnd
<1>3. m \in OutMsg(e) /\ m \notin Queued(e) /\ Distinct(sendq[e])
  BY <1>1, <1>2, InQueueMeans, CallerEnd DEF OutMsg, IInv, EndKeeps
<1>4. /\ sendq' \in [End -> Seq(Message)] /\ sendq'[e] \in Seq(OutMsg(e))
      /\ Distinct(sendq'[e])
      /\ Queued(e)' = Queued(e) \cup {m}
      /\ sendq'[o] = sendq[o] /\ Queued(o)' = Queued(o)
  <2> HIDE DEF m, e, o
  <2> QED BY <1>1, <1>2, <1>3, Enqueue DEF IInv
<1>5. TypeOK'
  BY <1>1, <1>2, <1>4 DEF IInv, TypeOK
<1>6. \A f \in End : EndKeeps(f)'
  BY <1>1, <1>2, <1>4 DEF IInv, TypeOK, EndKeeps
<1>7. \A f \in End : Greeting(f)'
  BY <1>1, <1>2, <1>4, Messages, Ends DEF IInv, TypeOK, Greeting
<1>8. ASSUME NEW d \in Caller
      PROVE  Track(d)'
  <2>1. Track(c) /\ Track(d)
    BY DEF IInv
  <2>2. CASE d = c
    BY <1>1, <1>2, <1>3, <1>4, <2>1, <2>2, Messages, Ends DEF Track
  <2>3. CASE d # c
    BY <1>1, <1>2, <1>4, <2>1, <2>3, Messages, Ends, CallerEnd DEF Track
  <2> QED BY <2>2, <2>3
<1> QED BY <1>5, <1>6, <1>7, <1>8 DEF IInv

\* The ping was answered, and the pinger calls again.
LEMMA PingAgainStep ==
  ASSUME IInv, NEW c \in Caller, PingAgain(c)
  PROVE  IInv'
<1>1. /\ result[c] = "answered" /\ result' = [result EXCEPT ![c] = "none"]
      /\ handled' = [handled EXCEPT ![c] = 0]
      /\ UNCHANGED <<phase, sendq, wire, pending, reading>>
      /\ \A f \in End : Queued(f)' = Queued(f)
  BY DEF PingAgain, Queued
<1>2. TypeOK'
  BY <1>1 DEF IInv, TypeOK
<1>3. \A f \in End : EndKeeps(f)' /\ Greeting(f)'
  <2>1. \A f \in End : EndKeeps(f)'
    BY <1>1 DEF IInv, EndKeeps
  <2>2. \A f \in End : Greeting(f)'
    BY <1>1, Ends DEF IInv, Greeting
  <2> QED BY <2>1, <2>2
<1>4. ASSUME NEW d \in Caller
      PROVE  Track(d)'
  BY <1>1, Messages, Ends, CallerEnd DEF IInv, TypeOK, Track
<1> QED BY <1>2, <1>3, <1>4 DEF IInv

\* An end closes: what it held is gone, its calls have failed.
LEMMA CloseStep ==
  ASSUME IInv, NEW e \in End, phase[e] \in {"ack", "open"}, Close(e),
         UNCHANGED <<wire, handled>>
  PROVE  IInv'
<1> DEFINE o == Other(e)
<1>1. o \in End /\ o # e /\ \A f \in End : f = e \/ f = o
  BY Ends
<1>2. /\ phase' = [phase EXCEPT ![e] = "closed"]
      /\ sendq' \in [End -> Seq(Message)] /\ sendq'[e] = <<>>
      /\ sendq'[e] \in Seq(OutMsg(e)) /\ Distinct(sendq'[e])
      /\ Queued(e)' = {} /\ pending'[e] = {} /\ reading'[e] = NoMsg
      /\ pending' \in [End -> SUBSET Caller]
      /\ reading' \in [End -> Message \cup {NoMsg}]
      /\ sendq'[o] = sendq[o] /\ Queued(o)' = Queued(o)
      /\ pending'[o] = pending[o] /\ reading'[o] = reading[o]
      /\ result' \in [Caller -> {"none", "answered", "failed"}]
      /\ \A c \in Caller :
           /\ c[1] = e /\ Waiting(c) => result'[c] = "failed"
           /\ c[1] # e \/ ~Waiting(c) => result'[c] = result[c]
  BY <1>1, CloseType DEF IInv
<1>3. \A f \in End : wire'[f] = wire[f]
  OBVIOUS
<1>4. TypeOK'
  BY <1>1, <1>2 DEF IInv, TypeOK
<1>5. \A f \in End : EndKeeps(f)'
  BY <1>1, <1>2 DEF IInv, TypeOK, EndKeeps
<1>6. \A f \in End : Greeting(f)'
  BY <1>1, <1>2, <1>3, Messages, Ends DEF IInv, TypeOK, Greeting
<1>7. ASSUME NEW c \in Caller
      PROVE  Track(c)'
  <2>1. Track(c)
    BY DEF IInv
  <2>2. Waiting(c) <=> RequestOf(c) \in Queued(c[1]) \/ c \in pending[c[1]]
    BY InQueueMeans DEF IInv, Waiting
  <2>3. phase'[c[1]] = IF c[1] = e THEN "closed" ELSE phase[c[1]]
    BY <1>2, CallerEnd DEF IInv, TypeOK
  <2>4. CASE c[1] = e
    BY <1>1, <1>2, <1>3, <2>1, <2>2, <2>3, <2>4, Messages, Ends DEF Track
  <2>5. CASE c[1] = o
    BY <1>1, <1>2, <1>3, <2>1, <2>2, <2>3, <2>5, Messages, Ends DEF Track
  <2> QED BY <1>1, <2>4, <2>5, CallerEnd
<1> QED BY <1>4, <1>5, <1>6, <1>7 DEF IInv

\* The writer sends the first message of the queue.
LEMMA WriterSendStep ==
  ASSUME IInv, NEW e \in End, WriterSend(e)
  PROVE  IInv'
<1> DEFINE o == Other(e)
           m == Head(sendq[e])
<1>1. /\ phase[e] = "open" /\ sendq[e] # <<>> /\ wire[e] = NoMsg
      /\ sendq' = [sendq EXCEPT ![e] = Tail(@)]
      /\ pending' = [pending EXCEPT ![e] =
                       IF m.kind = "request" THEN @ \cup {m.call} ELSE @]
      /\ wire' = [wire EXCEPT ![e] = m]
      /\ UNCHANGED <<phase, reading, result, handled>>
  BY DEF WriterSend, Open
<1>2. o \in End /\ o # e /\ (\A f \in End : f = e \/ f = o) /\ Other(o) = e
  BY Ends
<1>3. /\ m \in OutMsg(e) /\ m \in Queued(e)
      /\ sendq' \in [End -> Seq(Message)] /\ sendq'[e] \in Seq(OutMsg(e))
      /\ Distinct(sendq'[e])
      /\ Queued(e)' = Queued(e) \ {m}
      /\ sendq'[o] = sendq[o] /\ Queued(o)' = Queued(o)
  BY <1>1, <1>2, Dequeue DEF IInv, EndKeeps
<1> HIDE DEF m
<1>4. \/ m = Acknowledge
      \/ \E c \in Callers(e) : m = RequestOf(c)
      \/ \E c \in Callers(o) : m = Resp(c)
  BY <1>3 DEF OutMsg
<1>5. /\ \A c \in Callers(e) : m = RequestOf(c) => pending'[e] = pending[e] \cup {c}
      /\ (\A c \in Callers(e) : m # RequestOf(c)) => pending'[e] = pending[e]
      /\ pending'[o] = pending[o]
      /\ pending' \in [End -> SUBSET Caller] /\ pending'[e] \subseteq Callers(e)
  <2>1. m.kind = "request" <=> \E c \in Callers(e) : m = RequestOf(c)
    BY <1>4, Messages DEF Callers
  <2>2. \A c \in Callers(e) : m = RequestOf(c) => m.call = c
    BY Messages DEF Callers
  <2> QED BY <1>1, <1>2, <2>1, <2>2 DEF IInv, TypeOK, Callers
<1>6. TypeOK'
  <2>1. wire' \in [End -> Message \cup {NoMsg}]
    BY <1>1, <1>3 DEF IInv, TypeOK, Message
  <2> QED BY <1>1, <1>2, <1>3, <1>5, <2>1 DEF IInv, TypeOK
<1>7. \A f \in End : EndKeeps(f)'
  BY <1>1, <1>2, <1>3, <1>5 DEF IInv, TypeOK, EndKeeps
<1>8. \A f \in End : Greeting(f)'
  <2>1. Greeting(e) /\ Greeting(o) /\ wire'[e] = m /\ wire'[o] = wire[o]
    BY <1>1, <1>2 DEF IInv, TypeOK
  <2>2. m # Connect /\ wire[e] # Acknowledge /\ wire[e] # Connect
    BY <1>1, <1>4, Messages DEF Callers
  <2> QED BY <1>1, <1>2, <1>3, <2>1, <2>2 DEF Greeting
<1>9. ASSUME NEW c \in Caller
      PROVE  Track(c)'
  <2>1. Track(c) /\ wire'[e] = m /\ wire'[o] = wire[o]
    BY <1>1, <1>2 DEF IInv, TypeOK
  <2>2. wire[e] # RequestOf(c) /\ wire[e] # Resp(c)
    BY <1>1, Messages
  <2>3. CASE c[1] = e
    <3>1. c \in Callers(e)
      BY <2>3 DEF Callers
    <3>2. \A d \in Callers(e) : m = RequestOf(d) => c \in pending'[e] <=> c \in pending[e] \/ c = d
      BY <1>5
    <3>3. c \in pending'[e] <=> c \in pending[e] \/ m = RequestOf(c)
      BY <1>5, <3>1, Messages DEF Callers
    <3> QED BY <1>1, <1>2, <1>3, <2>1, <2>2, <2>3, <3>3, Messages DEF Track
  <2>4. CASE c[1] = o
    BY <1>1, <1>2, <1>3, <1>5, <2>1, <2>2, <2>4, Messages DEF Track
  <2> QED BY <1>2, <2>3, <2>4, CallerEnd
<1> QED BY <1>6, <1>7, <1>8, <1>9 DEF IInv

\* What an open end finds on the wire, and whom it finds waiting for it.
LEMMA Arrives ==
  ASSUME IInv, NEW e \in End, phase[e] = "open", wire[Other(e)] # NoMsg
  PROVE  LET m == wire[Other(e)] IN
         \/ /\ m = Connect \/ \E c \in Callers(Other(e)) : m = RequestOf(c)
            /\ Requesters(e, m) = {}
         \/ \E c \in Callers(e) : /\ m = Resp(c) /\ c \in pending[e]
                                  /\ Requesters(e, m) = {c}
<1> DEFINE o == Other(e)
           m == wire[Other(e)]
<1>1. o \in End /\ o # e /\ Other(o) = e
  BY Ends
<1>2. m \in OutMsg(o) \cup {Connect}
  BY <1>1 DEF IInv, TypeOK
<1>3. m # Acknowledge
  BY <1>1 DEF IInv, Greeting
<1>4. pending[e] \subseteq Callers(e)
  BY DEF IInv, TypeOK
<1>5. CASE m = Connect
  <2>1. Requesters(e, m) = {}
    BY <1>5, Messages DEF Requesters
  <2> QED BY <1>5, <2>1
<1>6. ASSUME NEW c \in Callers(o), m = RequestOf(c)
      PROVE  Requesters(e, m) = {}
  BY <1>1, <1>4, <1>6, Messages DEF Requesters, Callers, Id
<1>7. ASSUME NEW c \in Callers(e), m = Resp(c)
      PROVE  c \in pending[e] /\ Requesters(e, m) = {c}
  <2>1. c \in Caller /\ c[1] = e /\ Track(c)
    BY DEF Callers, IInv
  <2>2. c \in pending[e]
    BY <1>1, <1>7, <2>1 DEF Track
  <2> QED BY <1>4, <1>7, <2>1, <2>2, Messages DEF Requesters, Callers, Id
<1> QED BY <1>1, <1>2, <1>3, <1>5, <1>6, <1>7 DEF OutMsg

\* The reader takes a message from the wire.
LEMMA ReaderReadStep ==
  ASSUME IInv, NEW e \in End, ReaderRead(e)
  PROVE  IInv'
<1> DEFINE o == Other(e)
           m == wire[Other(e)]
<1>1. /\ phase[e] = "open" /\ reading[e] = NoMsg /\ m # NoMsg
      /\ wire' = [wire EXCEPT ![o] = NoMsg]
      /\ UNCHANGED <<phase, sendq, handled>>
      /\ \A f \in End : Queued(f)' = Queued(f)
  BY DEF ReaderRead, ReaderReady, Open, Queued
<1>2. o \in End /\ o # e /\ (\A f \in End : f = e \/ f = o) /\ Other(o) = e
  BY Ends
<1>3. /\ wire' \in [End -> Message \cup {NoMsg}]
      /\ wire'[o] = NoMsg /\ wire'[e] = wire[e]
      /\ Greeting(e) /\ Greeting(o)
  BY <1>1, <1>2 DEF IInv, TypeOK
<1>4. CASE /\ m = Connect \/ \E c \in Callers(o) : m = RequestOf(c)
           /\ Requesters(e, m) = {}
  <2>1. /\ reading' = [reading EXCEPT ![e] = m]
        /\ UNCHANGED <<pending, result>>
    BY <1>4 DEF ReaderRead
  <2>2. /\ m \in Message
        /\ reading'[e] = m /\ reading'[o] = reading[o]
        /\ reading' \in [End -> Message \cup {NoMsg}]
    BY <1>1, <1>2, <2>1 DEF IInv, TypeOK
  <2>3. TypeOK'
    BY <1>1, <1>2, <1>3, <1>4, <2>1, <2>2 DEF IInv, TypeOK
  <2>4. \A f \in End : EndKeeps(f)'
    BY <1>1, <1>2, <2>1, <2>2 DEF IInv, EndKeeps
  <2>5. \A f \in End : Greeting(f)'
    BY <1>1, <1>2, <1>3, <2>1, <2>2, Messages DEF Greeting
  <2>6. ASSUME NEW c \in Caller
        PROVE  Track(c)'
    <3>1. Track(c)
      BY DEF IInv
    <3>2. CASE c[1] = e
      BY <1>1, <1>2, <1>3, <1>4, <2>1, <2>2, <3>1, <3>2, Messages
      DEF Track, Callers
    <3>3. CASE c[1] = o
      BY <1>1, <1>2, <1>3, <1>4, <2>1, <2>2, <3>1, <3>3, Messages DEF Track
    <3> QED BY <1>2, <3>2, <3>3, CallerEnd
  <2> QED BY <2>3, <2>4, <2>5, <2>6 DEF IInv
<1>5. ASSUME NEW c \in Callers(e), m = Resp(c), c \in pending[e],
             Requesters(e, m) = {c}
      PROVE  IInv'
  <2>1. /\ pending' = [pending EXCEPT ![e] = @ \ {c}]
        /\ result' = [result EXCEPT ![c] = "answered"]
        /\ UNCHANGED reading
    BY <1>5 DEF ReaderRead
  <2>2. c \in Caller /\ c[1] = e
    BY DEF Callers
  <2>3. /\ pending' \in [End -> SUBSET Caller]
        /\ pending'[e] = pending[e] \ {c} /\ pending'[o] = pending[o]
        /\ result' \in [Caller -> {"none", "answered", "failed"}]
        /\ result'[c] = "answered"
        /\ \A d \in Caller \ {c} : result'[d] = result[d]
    BY <1>2, <2>1, <2>2 DEF IInv, TypeOK
  <2>4. TypeOK'
    BY <1>1, <1>2, <1>3, <2>1, <2>3 DEF IInv, TypeOK
  <2>5. \A f \in End : EndKeeps(f)'
    BY <1>1, <1>2, <2>1, <2>3 DEF IInv, EndKeeps
  <2>6. \A f \in End : Greeting(f)'
    BY <1>1, <1>2, <1>3, <1>5, <2>1, <2>2, Messages DEF Greeting
  <2>7. ASSUME NEW d \in Caller
        PROVE  Track(d)'
    <3>1. Track(d) /\ Track(c)
      BY <2>2 DEF IInv
    <3>2. CASE d = c
      BY <1>1, <1>2, <1>3, <1>5, <2>1, <2>2, <2>3, <3>1, <3>2, Messages DEF Track
    <3>3. CASE d # c /\ d[1] = e
      BY <1>1, <1>2, <1>3, <1>5, <2>1, <2>2, <2>3, <3>1, <3>3, Messages DEF Track
    <3>4. CASE d[1] = o
      BY <1>1, <1>2, <1>3, <1>5, <2>1, <2>2, <2>3, <3>1, <3>4, Messages DEF Track
    <3> QED BY <1>2, <3>2, <3>3, <3>4, CallerEnd
  <2> QED BY <2>4, <2>5, <2>6, <2>7 DEF IInv
<1> QED BY <1>1, <1>4, <1>5, Arrives

\* on_message answers what was read.
LEMMA OnMessageStep ==
  ASSUME IInv, NEW e \in End, OnMessage(e)
  PROVE  IInv'
<1> DEFINE o == Other(e)
<1>1. o \in End /\ o # e /\ (\A f \in End : f = e \/ f = o) /\ Other(o) = e
  BY Ends
<1>2. reading[e] # NoMsg /\ wire' = wire /\ phase[e] = "open"
      /\ reading[e] \in {RequestOf(c) : c \in Callers(o)} \cup {Connect}
  BY DEF OnMessage, IInv, EndKeeps, TypeOK
<1>3. Greeting(e) /\ Greeting(o) /\ Distinct(sendq[e]) /\ TypeOK
  BY <1>1 DEF IInv, EndKeeps
<1>4. CASE reading[e] = Connect
  <2>1. /\ sendq' = [sendq EXCEPT ![e] = Append(@, Acknowledge)]
        /\ reading' = [reading EXCEPT ![e] = NoMsg]
        /\ UNCHANGED <<phase, pending, result, handled>>
    BY <1>4, Messages DEF OnMessage
  <2>2. Acknowledge \in OutMsg(e) /\ Acknowledge \notin Queued(e)
    BY <1>1, <1>3, <1>4 DEF OutMsg, Greeting
  <2>3. /\ sendq' \in [End -> Seq(Message)] /\ sendq'[e] \in Seq(OutMsg(e))
        /\ Distinct(sendq'[e])
        /\ Queued(e)' = Queued(e) \cup {Acknowledge}
        /\ sendq'[o] = sendq[o] /\ Queued(o)' = Queued(o)
    BY <1>1, <1>3, <2>1, <2>2, Enqueue
  <2>4. /\ reading'[e] = NoMsg /\ reading'[o] = reading[o]
        /\ reading' \in [End -> Message \cup {NoMsg}]
    BY <1>1, <1>3, <2>1 DEF TypeOK
  <2>5. TypeOK'
    BY <1>1, <1>2, <1>3, <2>1, <2>3, <2>4 DEF TypeOK
  <2>6. \A f \in End : EndKeeps(f)'
    BY <1>1, <1>2, <2>1, <2>3, <2>4 DEF IInv, EndKeeps
  <2>7. \A f \in End : Greeting(f)'
    BY <1>1, <1>2, <1>3, <1>4, <2>1, <2>3, <2>4, Messages DEF Greeting
  <2>8. ASSUME NEW c \in Caller
        PROVE  Track(c)'
    <3>1. Track(c)
      BY DEF IInv
    <3>2. CASE c[1] = e
      BY <1>1, <1>2, <1>4, <2>1, <2>3, <2>4, <3>1, <3>2, Messages DEF Track
    <3>3. CASE c[1] = o
      BY <1>1, <1>2, <1>4, <2>1, <2>3, <2>4, <3>1, <3>3, Messages DEF Track
    <3> QED BY <1>1, <3>2, <3>3, CallerEnd
  <2> QED BY <2>5, <2>6, <2>7, <2>8 DEF IInv
<1>5. ASSUME NEW c \in Callers(o), reading[e] = RequestOf(c)
      PROVE  IInv'
  <2>1. c \in Caller /\ c[1] = o /\ Track(c)
    BY DEF Callers, IInv
  <2>2. /\ sendq' = [sendq EXCEPT ![e] = Append(@, Resp(c))]
        /\ reading' = [reading EXCEPT ![e] = NoMsg]
        /\ handled' = [handled EXCEPT ![c] = @ + 1]
        /\ UNCHANGED <<phase, pending, result>>
    <3>1. reading[e].kind = "request" /\ reading[e].call = c
          /\ MakeResponse(reading[e]) = Resp(c)
      BY <1>5, <2>1, Messages DEF Resp
    <3> QED BY <3>1 DEF OnMessage
  <2>3. /\ Resp(c) \in OutMsg(e) /\ Resp(c) \notin Queued(e)
        /\ handled[c] = 0 /\ wire[e] # Resp(c) /\ wire[o] # RequestOf(c)
        /\ c \in pending[o] \/ result[c] = "failed"
        /\ RequestOf(c) \notin Queued(o)
    BY <1>1, <1>5, <2>1 DEF OutMsg, Track
  <2>4. /\ sendq' \in [End -> Seq(Message)] /\ sendq'[e] \in Seq(OutMsg(e))
        /\ Distinct(sendq'[e])
        /\ Queued(e)' = Queued(e) \cup {Resp(c)}
        /\ sendq'[o] = sendq[o] /\ Queued(o)' = Queued(o)
    BY <1>1, <1>3, <2>2, <2>3, Enqueue
  <2>5. /\ reading'[e] = NoMsg /\ reading'[o] = reading[o]
        /\ reading' \in [End -> Message \cup {NoMsg}]
        /\ handled' \in [Caller -> {0, 1}]
        /\ handled'[c] = 1 /\ \A d \in Caller \ {c} : handled'[d] = handled[d]
    BY <1>1, <1>3, <2>1, <2>2, <2>3 DEF TypeOK
  <2>6. TypeOK'
    BY <1>1, <1>2, <1>3, <2>2, <2>4, <2>5 DEF TypeOK
  <2>7. \A f \in End : EndKeeps(f)'
    BY <1>1, <1>2, <2>2, <2>4, <2>5 DEF IInv, EndKeeps
  <2>8. \A f \in End : Greeting(f)'
    BY <1>1, <1>2, <1>3, <1>5, <2>1, <2>2, <2>4, <2>5, Messages DEF Greeting
  <2>9. ASSUME NEW d \in Caller
        PROVE  Track(d)'
    <3>1. Track(d)
      BY DEF IInv
    <3>2. CASE d = c
      BY <1>1, <1>2, <1>5, <2>1, <2>2, <2>3, <2>4, <2>5, <3>2, Messages DEF Track
    <3>3. CASE d # c /\ d[1] = e
      BY <1>1, <1>2, <1>5, <2>1, <2>2, <2>4, <2>5, <3>1, <3>3, Messages DEF Track
    <3>4. CASE d # c /\ d[1] = o
      BY <1>1, <1>2, <1>5, <2>1, <2>2, <2>4, <2>5, <3>1, <3>4, Messages DEF Track
    <3> QED BY <1>1, <3>2, <3>3, <3>4, CallerEnd
  <2> QED BY <2>6, <2>7, <2>8, <2>9 DEF IInv
<1> QED BY <1>2, <1>4, <1>5

\* The invariant is inductive.
LEMMA NextIInv == IInv /\ [Next]_vars => IInv'
<1> SUFFICES ASSUME IInv, [Next]_vars
             PROVE  IInv'
  OBVIOUS
<1>1. ASSUME NEW e \in End, ReaderStep(e)
      PROVE  IInv'
  <2>1. CASE ReaderEof(e)
    BY <2>1, CloseStep DEF ReaderEof, ReaderReady, Open
  <2> QED BY <1>1, <2>1, GreetStep, ReadAcknowledgeStep, ReaderReadStep,
             OnMessageStep DEF ReaderStep
<1>2. ASSUME NEW e \in End, WriterStep(e)
      PROVE  IInv'
  BY <1>2, WriterSendStep, CloseStep DEF WriterStep, WriterFails, Open
<1>3. ASSUME NEW e \in End, NEW t \in Task \cup {pinger},
             \/ Request(<<e, t>>) \/ PingAgain(<<e, t>>) \/ RequestTimeout(<<e, t>>)
      PROVE  IInv'
  <2>1. <<e, t>> \in Caller /\ <<e, t>>[1] = e
    BY DEF Caller
  <2>2. CASE RequestTimeout(<<e, t>>)
    BY <2>1, <2>2, CloseStep DEF RequestTimeout, Open
  <2> QED BY <1>3, <2>1, <2>2, RequestStep, PingAgainStep
<1>4. ASSUME NEW e \in End, Kill(e)
      PROVE  IInv'
  BY <1>4, CloseStep DEF Kill, Open
<1>5. CASE UNCHANGED vars
  <2>1. \A e \in End : Queued(e)' = Queued(e)
    BY <1>5 DEF vars, Queued
  <2>2. TypeOK'
    BY <1>5 DEF vars, IInv, TypeOK
  <2>3. \A e \in End : EndKeeps(e)'
    BY <1>5 DEF vars, IInv, EndKeeps
  <2>4. \A e \in End : Greeting(e)'
    BY <1>5, <2>1, Ends DEF vars, IInv, Greeting
  <2>5. \A c \in Caller : Track(c)'
    BY <1>5, <2>1, Ends, CallerEnd DEF vars, IInv, Track
  <2> QED BY <2>2, <2>3, <2>4, <2>5 DEF IInv
<1> QED
  BY <1>1, <1>2, <1>3, <1>4, <1>5 DEF Next, PingerStep, TimerStep, TaskStep

\* A connection starts in a state that satisfies the invariant.
LEMMA InitIInv == Init => IInv
<1> SUFFICES ASSUME Init
             PROVE  IInv
  OBVIOUS
<1>1. <<>> \in Seq(Message) /\ Distinct(<<>>)
      /\ \A e \in End : <<>> \in Seq(OutMsg(e))
  BY DEF Distinct
<1>2. TypeOK
  BY <1>1 DEF Init, TypeOK
<1>3. \A e \in End : Queued(e) = {}
  BY <1>2, QueuedType DEF Init
<1>4. \A e \in End : EndKeeps(e)
  BY <1>1 DEF Init, EndKeeps
<1>5. \A e \in End : Greeting(e)
  BY <1>3, Ends, Messages DEF Init, Greeting
<1>6. ASSUME NEW c \in Caller
      PROVE  Track(c)
  BY <1>3, Ends, CallerEnd, Messages DEF Init, Track
<1> QED BY <1>2, <1>4, <1>5, <1>6 DEF IInv

\* The invariant holds in every reachable state.
LEMMA Invariance == Spec => []IInv
BY InitIInv, NextIInv, PTL DEF Spec

-----------------------------------------------------------------------------
(* The theorems.                                                           *)

\* on_message is never given a response: an honest peer is never disconnected for
\* an "unhandled" one, whatever was queued, sent and dropped before.
THEOREM NoUnexpectedResponse == Spec => []ResponsesExpected
<1>1. IInv => ResponsesExpected
  <2> SUFFICES ASSUME IInv, NEW e \in End, reading[e] # NoMsg
               PROVE  reading[e].kind \in {"connect", "request"}
    BY DEF ResponsesExpected
  <2>1. reading[e] \in {RequestOf(c) : c \in Callers(Other(e))} \cup {Connect}
    BY DEF IInv, TypeOK
  <2> QED BY <2>1, Messages DEF Callers
<1> QED BY <1>1, Invariance, PTL

\* A connection starts as Calls does.
LEMMA PromiseInit == Init => Promise!Init
<1> SUFFICES ASSUME Init
             PROVE  Promise!Init
  OBVIOUS
<1>1. ASSUME NEW c \in Caller
      PROVE  ~Waiting(c) /\ result[c] = "none"
  BY <1>1, CallerEnd DEF Init, Waiting, InQueue
<1> QED BY <1>1 DEF Init, Promise!Init

\* How far a call has come, as its caller sees it.
View(c) == IF result[c] # "none" THEN result[c]
           ELSE IF Waiting(c) THEN "waiting" ELSE "idle"
Views == [c \in Caller |-> View(c)]

\* A call waits while its request is queued or pending.
LEMMA WaitingMeans ==
  IInv => \A c \in Caller :
            Waiting(c) <=> RequestOf(c) \in Queued(c[1]) \/ c \in pending[c[1]]
BY InQueueMeans DEF IInv, Waiting

\* The same after a step.
LEMMA WaitingMeansNext ==
  ASSUME IInv, [Next]_vars
  PROVE  \A c \in Caller :
           Waiting(c)' <=> RequestOf(c) \in Queued(c[1])' \/ c \in pending'[c[1]]
<1>1. (\A c \in Caller :
         Waiting(c) <=> RequestOf(c) \in Queued(c[1]) \/ c \in pending[c[1]])'
  BY NextIInv, WaitingMeans, PTL
<1> QED BY <1>1

\* A step that changes neither what callers see nor what was handled.
LEMMA Stutters ==
  ASSUME \A c \in Caller : View(c)' = View(c), handled' = handled
  PROVE  UNCHANGED Promise!vars
BY DEF Promise!vars, View

\* A step that changes what one caller sees.
LEMMA ViewChanges ==
  ASSUME NEW c \in Caller, \A d \in Caller \ {c} : View(d)' = View(d)
  PROVE  Views' = [Views EXCEPT ![c] = View(c)']
BY DEF Views

\* A connection that closes fails all the calls of its end that wait.
LEMMA CloseFails ==
  ASSUME IInv, NEW e \in End, Close(e), handled' = handled, [Next]_vars
  PROVE  [Promise!Next]_(Promise!vars)
<1> DEFINE S == {c \in Caller : c[1] = e /\ Waiting(c)}
<1>1. \A c \in Caller : result'[c] = IF c \in S THEN "failed" ELSE result[c]
  BY DEF Close
<1>2. \A c \in S : result[c] = "none" /\ View(c) = "waiting" /\ View(c)' = "failed"
  <2>1. ASSUME NEW c \in S
        PROVE  result[c] = "none"
    BY WaitingMeans DEF IInv, Track
  <2> QED BY <1>1, <2>1 DEF View
<1>3. \A c \in Caller \ S : View(c)' = View(c)
  <2>1. ASSUME NEW c \in Caller \ S
        PROVE  Waiting(c)' <=> Waiting(c)
    <3>1. Waiting(c) <=> RequestOf(c) \in Queued(c[1]) \/ c \in pending[c[1]]
      BY WaitingMeans
    <3>2. Waiting(c)' <=> RequestOf(c) \in Queued(c[1])' \/ c \in pending'[c[1]]
      BY WaitingMeansNext
    <3>3. Queued(e)' = {} /\ pending'[e] = {}
          /\ \A f \in End \ {e} : Queued(f)' = Queued(f) /\ pending'[f] = pending[f]
      BY CloseType DEF IInv
    <3> QED BY <3>1, <3>2, <3>3, CallerEnd
  <2> QED BY <1>1, <2>1 DEF View
<1>4. CASE S = {}
  BY <1>3, <1>4, Stutters
<1>5. CASE S # {}
  <2>1. S \in SUBSET {c \in Caller : View(c) = "waiting"}
    BY <1>2
  <2>2. Views' = [c \in Caller |-> IF c \in S THEN "failed" ELSE View(c)]
    BY <1>2, <1>3 DEF Views
  <2>3. Promise!Fail
    BY <1>5, <2>1, <2>2 DEF Promise!Fail, Views, View
  <2> QED BY <2>3 DEF Promise!Next
<1> QED BY <1>4, <1>5

\* A step that moves one call, or none, on its way through queues and wires
\* leaves the others waiting as they were.
LEMMA KeepsWaiting ==
  ASSUME IInv, [Next]_vars, NEW c \in Caller,
         RequestOf(c) \in Queued(c[1])' \/ c \in pending'[c[1]]
           <=> RequestOf(c) \in Queued(c[1]) \/ c \in pending[c[1]],
         result'[c] = result[c]
  PROVE  View(c)' = View(c)
<1>1. Waiting(c)' <=> Waiting(c)
  BY WaitingMeans, WaitingMeansNext
<1> QED BY <1>1 DEF View

\* What reader_task and on_message do is a step of Calls.
LEMMA ReaderImplements ==
  ASSUME IInv, [Next]_vars, NEW e \in End, ReaderStep(e)
  PROVE  [Promise!Next]_(Promise!vars)
<1> DEFINE o == Other(e)
<1>0. o \in End /\ o # e /\ (\A f \in End : f = e \/ f = o) /\ Other(o) = e
  BY Ends
<1>1. CASE Greet(e) \/ ReadAcknowledge(e)
  <2>1. UNCHANGED <<sendq, pending, result, handled>>
        /\ \A f \in End : Queued(f)' = Queued(f)
    BY <1>1 DEF Greet, ReadAcknowledge, Queued
  <2>2. \A c \in Caller : View(c)' = View(c)
    BY <2>1, KeepsWaiting, CallerEnd
  <2> QED BY <2>1, <2>2, Stutters
<1>2. CASE ReaderRead(e)
  <2> DEFINE m == wire[Other(e)]
  <2>1. /\ phase[e] = "open" /\ m # NoMsg /\ UNCHANGED <<sendq, handled>>
        /\ \A f \in End : Queued(f)' = Queued(f)
    BY <1>2 DEF ReaderRead, ReaderReady, Open, Queued
  <2>2. CASE Requesters(e, m) = {}
    <3>1. UNCHANGED <<pending, result>>
      BY <1>2, <2>2 DEF ReaderRead
    <3>2. \A c \in Caller : View(c)' = View(c)
      BY <2>1, <3>1, KeepsWaiting, CallerEnd
    <3> QED BY <2>1, <3>2, Stutters
  <2>3. ASSUME NEW c \in Callers(e), m = Resp(c), c \in pending[e],
               Requesters(e, m) = {c}
        PROVE  [Promise!Next]_(Promise!vars)
    <3>1. pending' = [pending EXCEPT ![e] = @ \ {c}]
          /\ result' = [result EXCEPT ![c] = "answered"]
      BY <1>2, <2>3 DEF ReaderRead
    <3>2. c \in Caller /\ c[1] = e /\ Track(c)
      BY DEF Callers, IInv
    <3>3. View(c) = "waiting" /\ handled[c] = 1 /\ View(c)' = "answered"
      <4>1. result[c] = "none" /\ Waiting(c) /\ handled[c] = 1
        BY <1>0, <2>3, <3>2, WaitingMeans DEF Track
      <4>2. result'[c] = "answered"
        BY <3>1, <3>2 DEF IInv, TypeOK
      <4> QED BY <4>1, <4>2 DEF View
    <3>4. ASSUME NEW d \in Caller \ {c}
          PROVE  View(d)' = View(d)
      <4>1. result'[d] = result[d]
        BY <3>1 DEF IInv, TypeOK
      <4>2. d \in pending'[d[1]] <=> d \in pending[d[1]]
        BY <1>0, <3>1, CallerEnd DEF IInv, TypeOK
      <4> QED BY <2>1, <4>1, <4>2, KeepsWaiting, CallerEnd
    <3>5. Views' = [Views EXCEPT ![c] = "answered"]
      BY <3>2, <3>3, <3>4, ViewChanges
    <3>6. Promise!Answer(c)
      BY <2>1, <3>2, <3>3, <3>5 DEF Promise!Answer, Views, View
    <3> QED BY <3>2, <3>6 DEF Promise!Next
  <2> QED BY <2>1, <2>2, <2>3, Arrives
<1>3. CASE OnMessage(e)
  <2>1. reading[e] # NoMsg
        /\ reading[e] \in {RequestOf(c) : c \in Callers(o)} \cup {Connect}
        /\ Distinct(sendq[e]) /\ TypeOK
    BY <1>3 DEF OnMessage, IInv, EndKeeps, TypeOK
  <2>2. CASE reading[e] = Connect
    <3>1. /\ sendq' = [sendq EXCEPT ![e] = Append(@, Acknowledge)]
          /\ UNCHANGED <<pending, result, handled>>
      BY <1>3, <2>2, Messages DEF OnMessage
    <3>2. Acknowledge \in OutMsg(e) /\ Acknowledge \notin Queued(e)
      BY <1>0, <2>2 DEF OutMsg, IInv, Greeting
    <3>3. /\ Queued(e)' = Queued(e) \cup {Acknowledge}
          /\ \A f \in End \ {e} : Queued(f)' = Queued(f)
      BY <2>1, <3>1, <3>2, Enqueue
    <3>4. \A c \in Caller : RequestOf(c) \in Queued(c[1])' <=> RequestOf(c) \in Queued(c[1])
      BY <3>3, Messages, CallerEnd
    <3>5. \A c \in Caller : View(c)' = View(c)
      BY <3>1, <3>4, KeepsWaiting
    <3> QED BY <3>1, <3>5, Stutters
  <2>3. ASSUME NEW c \in Callers(o), reading[e] = RequestOf(c)
        PROVE  [Promise!Next]_(Promise!vars)
    <3>1. c \in Caller /\ c[1] = o /\ Track(c)
      BY DEF Callers, IInv
    <3>2. /\ sendq' = [sendq EXCEPT ![e] = Append(@, Resp(c))]
          /\ handled' = [handled EXCEPT ![c] = @ + 1]
          /\ UNCHANGED <<pending, result>>
      <4>1. reading[e].kind = "request" /\ reading[e].call = c
            /\ MakeResponse(reading[e]) = Resp(c)
        BY <2>3, <3>1, Messages DEF Resp
      <4> QED BY <1>3, <4>1 DEF OnMessage
    <3>3. /\ Resp(c) \in OutMsg(e) /\ Resp(c) \notin Queued(e)
          /\ c \in pending[o] \/ result[c] = "failed"
      BY <1>0, <2>3, <3>1 DEF OutMsg, Track
    <3>4. /\ Queued(e)' = Queued(e) \cup {Resp(c)}
          /\ \A f \in End \ {e} : Queued(f)' = Queued(f)
      BY <2>1, <3>2, <3>3, Enqueue
    <3>5. \A d \in Caller : RequestOf(d) \in Queued(d[1])' <=> RequestOf(d) \in Queued(d[1])
      BY <3>1, <3>4, Messages, CallerEnd
    <3>6. \A d \in Caller : View(d)' = View(d)
      BY <3>2, <3>5, KeepsWaiting
    <3>7. View(c) \in {"waiting", "failed"} /\ handled[c] = 0
      <4>1. handled[c] = 0
        BY <1>0, <2>3, <3>1 DEF Track
      <4>2. CASE c \in pending[o]
        <5>1. result[c] = "none" /\ Waiting(c)
          BY <3>1, <4>2, WaitingMeans DEF Track
        <5> QED BY <4>1, <5>1 DEF View
      <4>3. CASE result[c] = "failed"
        BY <4>1, <4>3 DEF View
      <4> QED BY <3>3, <4>2, <4>3
    <3>8. Views' = Views /\ handled' = [handled EXCEPT ![c] = 1]
      BY <3>2, <3>6, <3>7 DEF Views
    <3>9. Promise!Handle(c)
      BY <3>1, <3>7, <3>8 DEF Promise!Handle, Views, View
    <3> QED BY <3>1, <3>9 DEF Promise!Next
  <2> QED BY <2>1, <2>2, <2>3
<1>4. CASE ReaderEof(e)
  BY <1>4, CloseFails DEF ReaderEof
<1> QED BY <1>1, <1>2, <1>3, <1>4 DEF ReaderStep

\* What writer_task does is a step of Calls.
LEMMA WriterImplements ==
  ASSUME IInv, [Next]_vars, NEW e \in End, WriterStep(e)
  PROVE  [Promise!Next]_(Promise!vars)
<1> DEFINE m == Head(sendq[e])
<1>1. CASE WriterSend(e)
  <2>1. /\ sendq[e] # <<>> /\ sendq' = [sendq EXCEPT ![e] = Tail(@)]
        /\ pending' = [pending EXCEPT ![e] =
                         IF m.kind = "request" THEN @ \cup {m.call} ELSE @]
        /\ UNCHANGED <<result, handled>>
    BY <1>1 DEF WriterSend
  <2>2. /\ m \in OutMsg(e) /\ Queued(e)' = Queued(e) \ {m} /\ m \in Queued(e)
        /\ \A f \in End \ {e} : Queued(f)' = Queued(f)
    BY <2>1, Dequeue DEF IInv, EndKeeps
  <2> HIDE DEF m
  <2>3. ASSUME NEW c \in Caller
        PROVE  RequestOf(c) \in Queued(c[1])' \/ c \in pending'[c[1]]
                 <=> RequestOf(c) \in Queued(c[1]) \/ c \in pending[c[1]]
    <3>1. CASE c[1] # e
      BY <2>1, <2>2, <3>1, CallerEnd DEF IInv, TypeOK
    <3>2. CASE c[1] = e /\ m = RequestOf(c)
      <4>1. m.kind = "request" /\ m.call = c
        BY <3>2, Messages
      <4>2. c \in pending'[e]
        BY <2>1, <4>1 DEF IInv, TypeOK
      <4> QED BY <2>2, <3>2, <4>2
    <3>3. CASE c[1] = e /\ m # RequestOf(c)
      <4>1. ~(m.kind = "request" /\ m.call = c)
        BY <2>2, <3>3, Messages, Ends DEF OutMsg, Callers
      <4>2. c \in pending'[e] <=> c \in pending[e]
        BY <2>1, <4>1 DEF IInv, TypeOK
      <4> QED BY <2>2, <3>3, <4>2
    <3> QED BY <3>1, <3>2, <3>3
  <2>4. \A c \in Caller : View(c)' = View(c)
    BY <2>1, <2>3, KeepsWaiting
  <2> QED BY <2>1, <2>4, Stutters
<1>2. CASE WriterFails(e)
  BY <1>2, CloseFails DEF WriterFails
<1> QED BY <1>1, <1>2 DEF WriterStep

\* What a caller does is a step of Calls.
LEMMA CallerImplements ==
  ASSUME IInv, [Next]_vars, NEW c \in Caller,
         Request(c) \/ PingAgain(c) \/ RequestTimeout(c)
  PROVE  [Promise!Next]_(Promise!vars)
<1> DEFINE e == c[1]
<1>0. e \in End
  BY CallerEnd
<1>1. CASE Request(c)
  <2>1. /\ result[c] = "none" /\ ~Waiting(c)
        /\ sendq' = [sendq EXCEPT ![e] = Append(@, RequestOf(c))]
        /\ UNCHANGED <<pending, result, handled>>
    BY <1>1 DEF Request, Called
  <2>2. /\ RequestOf(c) \in OutMsg(e) /\ RequestOf(c) \notin Queued(e)
        /\ Distinct(sendq[e])
    BY <1>0, <2>1, WaitingMeans, CallerEnd DEF OutMsg, IInv, EndKeeps
  <2>3. /\ Queued(e)' = Queued(e) \cup {RequestOf(c)}
        /\ \A f \in End \ {e} : Queued(f)' = Queued(f)
    <3> HIDE DEF e
    <3> QED BY <1>0, <2>1, <2>2, Enqueue DEF IInv
  <2>4. View(c) = "idle" /\ View(c)' = "waiting"
    BY <2>1, <2>3, WaitingMeansNext DEF View
  <2>5. ASSUME NEW d \in Caller \ {c}
        PROVE  View(d)' = View(d)
    <3>1. RequestOf(d) \in Queued(d[1])' <=> RequestOf(d) \in Queued(d[1])
      BY <2>3, Messages, CallerEnd
    <3> QED BY <2>1, <3>1, KeepsWaiting
  <2>6. Views' = [Views EXCEPT ![c] = "waiting"]
    BY <2>4, <2>5, ViewChanges
  <2>7. Promise!Start(c)
    BY <2>1, <2>4, <2>6 DEF Promise!Start, Views, View
  <2> QED BY <2>7 DEF Promise!Next
<1>2. CASE PingAgain(c)
  <2>1. /\ result[c] = "answered" /\ result' = [result EXCEPT ![c] = "none"]
        /\ handled' = [handled EXCEPT ![c] = 0]
        /\ UNCHANGED <<sendq, pending>>
        /\ \A f \in End : Queued(f)' = Queued(f)
    BY <1>2 DEF PingAgain, Queued
  <2>2. Track(c) /\ result'[c] = "none"
    BY <2>1 DEF IInv, TypeOK
  <2>3. ~Waiting(c)'
    BY <1>0, <2>1, <2>2, WaitingMeansNext DEF Track
  <2>4. View(c) = "answered" /\ View(c)' = "idle"
    BY <2>1, <2>2, <2>3 DEF View
  <2>5. ASSUME NEW d \in Caller \ {c}
        PROVE  View(d)' = View(d)
    <3>1. result'[d] = result[d]
      BY <2>1 DEF IInv, TypeOK
    <3> QED BY <2>1, <3>1, KeepsWaiting, CallerEnd
  <2>6. Views' = [Views EXCEPT ![c] = "idle"]
    BY <2>4, <2>5, ViewChanges
  <2>7. Promise!Again(c)
    BY <2>1, <2>4, <2>6 DEF Promise!Again, Views, View
  <2> QED BY <2>7 DEF Promise!Next
<1>3. CASE RequestTimeout(c)
  BY <1>0, <1>3, CloseFails DEF RequestTimeout
<1> QED BY <1>1, <1>2, <1>3

\* A connection implements Calls, with the calls read off its queues, pending
\* requests and results: no call is lost, handled twice or answered unhandled, and
\* all calls of an end that closes fail.
THEOREM ConnectionImplementsCalls == Spec => PromiseKept
<1>1. IInv /\ [Next]_vars => [Promise!Next]_(Promise!vars)
  <2> SUFFICES ASSUME IInv, [Next]_vars
               PROVE  [Promise!Next]_(Promise!vars)
    OBVIOUS
  <2>1. ASSUME NEW e \in End, NEW t \in Task \cup {pinger},
               \/ Request(<<e, t>>) \/ PingAgain(<<e, t>>)
               \/ RequestTimeout(<<e, t>>)
        PROVE  [Promise!Next]_(Promise!vars)
    BY <2>1, CallerImplements DEF Caller
  <2>2. ASSUME NEW e \in End, Kill(e)
        PROVE  [Promise!Next]_(Promise!vars)
    BY <2>2, CloseFails DEF Kill
  <2>3. CASE UNCHANGED vars
    <3>1. \A e \in End : Queued(e)' = Queued(e)
      BY <2>3 DEF vars, Queued
    <3>2. \A c \in Caller : View(c)' = View(c)
      BY <2>3, <3>1, KeepsWaiting, CallerEnd DEF vars
    <3> QED BY <2>3, <3>2, Stutters DEF vars
  <2> QED BY <2>1, <2>2, <2>3, ReaderImplements, WriterImplements
          DEF Next, PingerStep, TimerStep, TaskStep
<1> QED BY <1>1, PromiseInit, Invariance, PTL
        DEF Spec, PromiseKept, Promise!Spec

-----------------------------------------------------------------------------
(* All connections: Peers.                                                  *)

ConnType ==
  [pc : {"closed", "open", "dying"}, addr : Addr \cup {NoAddr}, client : BOOLEAN,
   inserted : BOOLEAN, late : BOOLEAN, shared : BOOLEAN]
OpenerType ==
  [pc : {"idle", "connect", "insert", "ask", "try"}, addr : Addr \cup {NoAddr},
   conn : Conn \cup {NoConn}, list : Seq(NodeAddr)]

TableTypeOK ==
  /\ conn \in [Conn -> ConnType]
  /\ opener \in [Opener -> OpenerType]
  /\ IsFiniteSet(DOMAIN table)

\* What is listed is listed under its address, and lives or came too late.
Entries ==
  \A a \in DOMAIN table :
    /\ table[a] \in Conn /\ conn[table[a]].addr = a
    /\ conn[table[a]].pc \in {"open", "dying"} \/ conn[table[a]].late

\* A handle that is still to be inserted is that of the connection that was opened.
Handles ==
  \A t \in Opener : At(t, "insert") =>
    /\ opener[t].conn \in Conn /\ conn[opener[t].conn].addr = opener[t].addr
    /\ t = "server" => conn[opener[t].conn].client

\* A connection that is not shared is the only one to its address, and no handle of
\* another is still to be inserted there.
Alone ==
  \A c, d \in Conn :
    c # d /\ conn[c].pc # "closed" /\ ~conn[c].shared /\ conn[d].addr = conn[c].addr
      => conn[d].pc = "closed" /\ ~Pending(d)

InTable ==
  \A c \in Conn : conn[c].pc = "open" /\ conn[c].inserted /\ ~conn[c].shared
    => conn[c].addr \in DOMAIN table /\ table[conn[c].addr] = c

TableInv == TableTypeOK /\ Entries /\ Handles /\ Alone /\ InTable

-----------------------------------------------------------------------------
(* The table.                                                              *)

\* A step of a task that opens no connection and inserts none.
LEMMA OpenerKeeps ==
  ASSUME TableInv, NEW t \in Opener, NEW o \in OpenerType, o.pc # "insert",
         Become(t, o), UNCHANGED <<conn, table>>
  PROVE  TableInv'
<1>1. opener' = [opener EXCEPT ![t] = o]
  BY DEF Become
<1>2. opener' \in [Opener -> OpenerType] /\ opener'[t] = o
      /\ \A u \in Opener : u # t => opener'[u] = opener[u]
  BY <1>1 DEF TableInv, TableTypeOK
<1>3. \A u \in Opener : opener'[u].pc = "insert" => opener'[u] = opener[u]
  BY <1>2
<1>4. TableTypeOK' /\ Entries' /\ InTable'
  BY <1>2 DEF TableInv, TableTypeOK, Entries, InTable
<1>5. Handles'
  BY <1>3 DEF TableInv, Handles, At
<1>6. Alone'
  BY <1>3 DEF TableInv, Alone, Pending, At
<1> QED BY <1>4, <1>5, <1>6 DEF TableInv

\* What a task goes on with.
LEMMA ContinueType ==
  ASSUME TableTypeOK, NEW t \in Opener
  PROVE  /\ Continue(t) \in OpenerType /\ Resting \in OpenerType
         /\ Continue(t).pc # "insert" /\ Resting.pc # "insert"
<1>1. opener[t] \in OpenerType
  BY DEF TableTypeOK
<1>2. Resting \in OpenerType /\ Resting.pc = "idle"
  BY EmptySeq DEF Resting, OpenerType
<1>3. ASSUME NEW o, o = [opener[t] EXCEPT !.pc = "try", !.addr = NoAddr, !.conn = NoConn]
      PROVE  o \in OpenerType /\ o.pc = "try"
  BY <1>1, <1>3 DEF OpenerType
<1> QED BY <1>2, <1>3 DEF Continue

\* A task that does not get its connection, or does not wait for it.
LEMMA FailKeeps ==
  ASSUME TableInv, NEW t \in Opener, ConnectFails(t) \/ (t = "auto" /\ ConnectTimeout)
  PROVE  TableInv'
BY ContinueType, OpenerKeeps DEF TableInv, ConnectFails, ConnectTimeout

\* The server lets a client in.
LEMMA AcceptKeeps ==
  ASSUME TableInv, NEW a \in ClientAddr, AcceptIncoming(a) \/ ShutdownFails(a)
  PROVE  TableInv'
<1> DEFINE o == [Resting EXCEPT !.pc = "connect", !.addr = a]
<1>1. o \in OpenerType /\ o.pc = "connect"
  BY EmptySeq DEF OpenerType, Resting, Addr
<1>2. Become("server", o) /\ UNCHANGED <<conn, table>>
  BY DEF AcceptIncoming, ShutdownFails
<1> HIDE DEF o
<1> QED BY <1>1, <1>2, OpenerKeeps DEF Opener

\* The reconnecting task goes back to the seed.
LEMMA CheckKeeps ==
  ASSUME TableInv, CheckPeers
  PROVE  TableInv'
<1> DEFINE o == [Resting EXCEPT !.pc = "connect", !.addr = Seed]
<1>1. o \in OpenerType /\ o.pc = "connect"
  BY EmptySeq, PeersAssumption DEF OpenerType, Resting, Addr
<1>2. Become("reconnect", o) /\ UNCHANGED <<conn, table>>
  BY DEF CheckPeers
<1> HIDE DEF o
<1> QED BY <1>1, <1>2, OpenerKeeps DEF Opener

\* What auto_peer becomes when it asks a peer, gets its list and tries an address.
Asks(c) == [Resting EXCEPT !.pc = "ask", !.conn = c]
Short(l) == SubSeq(l, 1, IF Len(l) < Target THEN Len(l) ELSE Target)
Gets(l) == [Resting EXCEPT !.pc = "try", !.list = Short(l)]
Skips == [opener["auto"] EXCEPT !.list = Tail(opener["auto"].list)]
Tries == [Resting EXCEPT !.pc = "connect", !.addr = Head(opener["auto"].list),
                         !.list = Tail(opener["auto"].list)]

\* Their types; the list gets shorter with every address and is never longer than Target.
LEMMA AutoTypes ==
  ASSUME TableTypeOK
  PROVE  /\ \A c \in Conn : Asks(c) \in OpenerType /\ Asks(c).pc = "ask"
         /\ \A l \in Referrals :
              /\ Gets(l) \in OpenerType /\ Gets(l).pc = "try"
              /\ Len(Gets(l).list) <= Target
         /\ opener["auto"].list # <<>> =>
              /\ Skips \in OpenerType /\ Skips.pc = opener["auto"].pc
              /\ Len(Skips.list) = Len(opener["auto"].list) - 1
              /\ Tries \in OpenerType /\ Tries.pc = "connect"
              /\ Len(Tries.list) = Len(opener["auto"].list) - 1
<1>1. opener["auto"] \in OpenerType
  BY DEF TableTypeOK, Opener
<1>2. ASSUME NEW c \in Conn PROVE Asks(c) \in OpenerType /\ Asks(c).pc = "ask"
  BY EmptySeq DEF Asks, Resting, OpenerType
<1>3. ASSUME NEW l \in Referrals
      PROVE  Gets(l) \in OpenerType /\ Gets(l).pc = "try" /\ Len(Gets(l).list) <= Target
  <2> DEFINE n == IF Len(l) < Target THEN Len(l) ELSE Target
  <2>2. l \in Seq(NodeAddr) /\ Len(l) \in Nat /\ Target \in Nat
    BY PeersAssumption, LenProperties
  <2>3. n \in Nat /\ n <= Len(l) /\ n <= Target
    BY <2>2
  <2>4. \A i \in 1..n : l[i] \in NodeAddr
    BY <2>2, <2>3, ElementOfSeq
  <2> HIDE DEF n
  <2>5. SubSeq(l, 1, n) \in Seq(NodeAddr) /\ Len(SubSeq(l, 1, n)) = IF 1 <= n THEN n - 1 + 1 ELSE 0
    BY <2>3, <2>4, SubSeqProperties
  <2>6. Short(l) \in Seq(NodeAddr) /\ Len(Short(l)) <= Target
    BY <2>2, <2>3, <2>5 DEF Short, n
  <2> QED BY <2>6 DEF Gets, Resting, OpenerType
<1>4. ASSUME opener["auto"].list # <<>>
      PROVE  /\ Skips \in OpenerType /\ Skips.pc = opener["auto"].pc
             /\ Len(Skips.list) = Len(opener["auto"].list) - 1
             /\ Tries \in OpenerType /\ Tries.pc = "connect"
             /\ Len(Tries.list) = Len(opener["auto"].list) - 1
  <2> DEFINE list == opener["auto"].list
  <2>1. list \in Seq(NodeAddr) /\ list # <<>>
    BY <1>1, <1>4 DEF OpenerType
  <2>2. Head(list) \in NodeAddr /\ Tail(list) \in Seq(NodeAddr) /\ Len(Tail(list)) = Len(list) - 1
    BY <2>1, HeadTailProperties
  <2>3. ASSUME NEW r, r = Skips
        PROVE  r \in OpenerType /\ r.pc = opener["auto"].pc /\ r.list = Tail(list)
    BY <1>1, <2>2, <2>3 DEF Skips, OpenerType
  <2>4. ASSUME NEW r, r = Tries
        PROVE  r \in OpenerType /\ r.pc = "connect" /\ r.list = Tail(list)
    BY <2>2, <2>4 DEF Tries, Resting, OpenerType, Addr
  <2> QED BY <2>2, <2>3, <2>4
<1> QED BY <1>2, <1>3, <1>4

\* The steps of auto_peer before it connects.
LEMMA AutoKeeps ==
  ASSUME TableInv, (\E c \in Conn : ChoosePeer(c)) \/ GetReferrals \/ TryConnect
  PROVE  TableInv'
<1>1. /\ UNCHANGED <<conn, table>>
      /\ \/ \E c \in Conn : Become("auto", Asks(c))
         \/ \E l \in Referrals : Become("auto", Gets(l))
         \/ Become("auto", Resting)
         \/ At("auto", "try") /\ opener["auto"].list # <<>> /\ Become("auto", Skips)
         \/ opener["auto"].list # <<>> /\ Become("auto", Tries)
  BY DEF ChoosePeer, GetReferrals, TryConnect, Asks, Gets, Short, Skips, Tries, Become
<1>2. "auto" \in Opener
  BY DEF Opener
<1> QED BY <1>1, <1>2, AutoTypes, ContinueType, OpenerKeeps DEF TableInv, At

\* A connection is opened: others to its address are shared from now on.
LEMMA CreateKeeps ==
  ASSUME TableInv, NEW t \in Opener, NEW c \in Conn, CreatePeer(t, c)
  PROVE  TableInv'
<1> DEFINE a == opener[t].addr
           same == {d \in Conn : conn[d].addr = a /\ (conn[d].pc # "closed" \/ Pending(d))}
           opened == [Closed EXCEPT !.pc = "open", !.addr = a, !.client = (t = "server"),
                                    !.shared = (same # {})]
           o == [opener[t] EXCEPT !.pc = "insert", !.conn = c]
<1>1. /\ conn' = [d \in Conn |-> IF d = c THEN opened
                                 ELSE IF d \in same THEN [conn[d] EXCEPT !.shared = TRUE]
                                 ELSE conn[d]]
      /\ opener' = [opener EXCEPT ![t] = o] /\ UNCHANGED table
      /\ conn[c].pc = "closed" /\ ~Listed(c) /\ ~Held(c)
  BY DEF CreatePeer, Become
<1>2. opener[t] \in OpenerType /\ a \in Addr \cup {NoAddr}
  BY DEF TableInv, TableTypeOK, OpenerType
<1>3. /\ opened \in ConnType /\ opened.pc = "open" /\ opened.addr = a
      /\ (t = "server" => opened.client) /\ (~opened.shared => same = {})
      /\ ~opened.inserted
  BY <1>2 DEF Closed, ConnType
<1>4. o \in OpenerType /\ o.pc = "insert" /\ o.conn = c /\ o.addr = a
  BY <1>2 DEF OpenerType
<1>5. ASSUME NEW d \in Conn
      PROVE  /\ d \in same <=> conn[d].addr = a /\ (conn[d].pc # "closed" \/ Pending(d))
  OBVIOUS
<1>6. ASSUME NEW d \in Conn, d # c
      PROVE  /\ conn'[d] \in ConnType
             /\ conn'[d].pc = conn[d].pc /\ conn'[d].addr = conn[d].addr
             /\ conn'[d].client = conn[d].client /\ conn'[d].inserted = conn[d].inserted
             /\ conn'[d].late = conn[d].late
             /\ ~conn'[d].shared => ~conn[d].shared /\ d \notin same
  <2>1. conn[d] \in ConnType
    BY DEF TableInv, TableTypeOK
  <2>2. ASSUME NEW r, r = [conn[d] EXCEPT !.shared = TRUE]
        PROVE  /\ r \in ConnType /\ r.pc = conn[d].pc /\ r.addr = conn[d].addr
               /\ r.client = conn[d].client /\ r.inserted = conn[d].inserted
               /\ r.late = conn[d].late /\ r.shared
    BY <2>1, <2>2 DEF ConnType
  <2>3. CASE d \in same
    <3>1. conn'[d] = [conn[d] EXCEPT !.shared = TRUE]
      BY <1>1, <1>6, <2>3
    <3> HIDE DEF same
    <3> QED BY <2>2, <3>1
  <2>4. CASE d \notin same
    <3>1. conn'[d] = conn[d]
      BY <1>1, <1>6, <2>4
    <3> HIDE DEF same
    <3> QED BY <2>1, <2>4, <3>1
  <2> QED BY <2>3, <2>4
<1>7. conn'[c] = opened /\ opener'[t] = o /\ \A u \in Opener : u # t => opener'[u] = opener[u]
  BY <1>1 DEF TableInv, TableTypeOK
<1>8. conn' \in [Conn -> ConnType] /\ opener' \in [Opener -> OpenerType]
  <2>1. \A d \in Conn : conn'[d] \in ConnType
    BY <1>3, <1>6, <1>7
  <2>2. conn' = [d \in Conn |-> conn'[d]]
    BY <1>1
  <2> QED BY <1>1, <1>4, <2>1, <2>2 DEF TableInv, TableTypeOK
<1> HIDE DEF same, opened, o
<1>9. TableTypeOK'
  BY <1>1, <1>8 DEF TableInv, TableTypeOK
<1>10. Entries'
  BY <1>1, <1>6 DEF TableInv, Entries, Listed
<1>11. InTable'
  <2>1. ~conn'[c].inserted
    BY <1>3, <1>7
  <2> QED BY <1>1, <1>6, <2>1 DEF TableInv, InTable
<1>12. \A u \in Opener : u # t => opener[u].conn # c
  BY <1>1 DEF Held
<1>13. Handles'
  <2>1. ASSUME NEW u \in Opener, At(u, "insert")'
        PROVE  /\ opener'[u].conn \in Conn /\ conn'[opener'[u].conn].addr = opener'[u].addr
               /\ u = "server" => conn'[opener'[u].conn].client
    <3>1. CASE u = t
      BY <1>3, <1>4, <1>7, <3>1
    <3>2. CASE u # t
      <4>1. At(u, "insert") /\ opener'[u] = opener[u] /\ opener[u].conn # c
        BY <1>7, <1>12, <2>1, <3>2 DEF At
      <4> QED BY <1>6, <4>1 DEF TableInv, Handles
    <3> QED BY <3>1, <3>2
  <2> QED BY <2>1 DEF Handles
<1>14. \A d \in Conn : d # c /\ ~Pending(d) => ~Pending(d)'
  BY <1>4, <1>7 DEF Pending, At
<1>15. Alone'
  <2>1. ASSUME NEW e \in Conn, NEW d \in Conn, e # d, conn'[e].pc # "closed", ~conn'[e].shared,
               conn'[d].addr = conn'[e].addr
        PROVE  conn'[d].pc = "closed" /\ ~Pending(d)'
    <3>1. CASE e = c
      <4>1. conn[d].addr = a /\ d \notin same /\ d # c
        BY <1>3, <1>6, <1>7, <2>1, <3>1
      <4> QED BY <1>5, <1>6, <1>14, <4>1
    <3>2. CASE e # c /\ d = c
      <4>1. conn[e].addr = a /\ conn[e].pc # "closed" /\ e \notin same
        BY <1>3, <1>6, <1>7, <2>1, <3>2
      <4> QED BY <1>5, <4>1
    <3>3. CASE e # c /\ d # c
      <4>1. conn[d].pc = "closed" /\ ~Pending(d)
        BY <1>6, <2>1, <3>3 DEF TableInv, Alone
      <4> QED BY <1>6, <1>14, <3>3, <4>1
    <3> QED BY <3>1, <3>2, <3>3
  <2> QED BY <2>1 DEF Alone
<1> QED BY <1>9, <1>10, <1>11, <1>13, <1>15 DEF TableInv

\* A handle is put into the table.
LEMMA InsertKeeps ==
  ASSUME TableInv, NEW t \in Opener, InsertPeer(t)
  PROVE  TableInv'
<1> DEFINE c == opener[t].conn
           a == opener[t].addr
           r == [conn[c] EXCEPT !.inserted = TRUE, !.late = conn[c].pc \notin {"open", "dying"}]
<1>1. /\ At(t, "insert")
      /\ table' = [b \in DOMAIN table \cup {a} |-> IF b = a THEN c ELSE table[b]]
      /\ opener' = [opener EXCEPT ![t] = Continue(t)]
  BY DEF InsertPeer, Become
<1>2. c \in Conn /\ conn[c].addr = a
  BY <1>1 DEF TableInv, Handles
<1>3. conn' = [conn EXCEPT ![c] = r]
  <2>1. conn' = [conn EXCEPT ![c].inserted = TRUE, ![c].late = conn[c].pc \notin {"open", "dying"}]
    BY DEF InsertPeer
  <2> QED BY <1>2, <2>1 DEF TableInv, TableTypeOK
<1>4. /\ r \in ConnType /\ r.pc = conn[c].pc /\ r.addr = conn[c].addr
      /\ r.client = conn[c].client /\ r.shared = conn[c].shared /\ r.inserted
      /\ r.pc \in {"open", "dying"} \/ r.late
  <2>1. conn[c] \in ConnType
    BY <1>2 DEF TableInv, TableTypeOK
  <2> QED BY <2>1 DEF ConnType
<1> HIDE DEF r
<1>5. /\ conn' \in [Conn -> ConnType] /\ conn'[c] = r
      /\ \A d \in Conn : d # c => conn'[d] = conn[d]
      /\ \A d \in Conn : /\ conn'[d].pc = conn[d].pc /\ conn'[d].addr = conn[d].addr
                         /\ conn'[d].client = conn[d].client /\ conn'[d].shared = conn[d].shared
  BY <1>2, <1>3, <1>4 DEF TableInv, TableTypeOK
<1>6. /\ opener' \in [Opener -> OpenerType] /\ opener'[t] = Continue(t)
      /\ \A u \in Opener : u # t => opener'[u] = opener[u]
      /\ \A u \in Opener : opener'[u].pc = "insert" => opener'[u] = opener[u]
  BY <1>1, ContinueType DEF TableInv, TableTypeOK
<1> HIDE DEF c, a
<1>7. DOMAIN table' = DOMAIN table \cup {a} /\ table'[a] = c
      /\ \A b \in DOMAIN table : b # a => table'[b] = table[b]
  BY <1>1
<1>8. TableTypeOK'
  <2>1. IsFiniteSet(DOMAIN table')
    BY <1>7, FS_AddElement DEF TableInv, TableTypeOK
  <2> QED BY <1>5, <1>6, <2>1 DEF TableTypeOK
<1>9. Entries'
  <2>1. ASSUME NEW b \in DOMAIN table'
        PROVE  /\ table'[b] \in Conn /\ conn'[table'[b]].addr = b
               /\ conn'[table'[b]].pc \in {"open", "dying"} \/ conn'[table'[b]].late
    <3>1. CASE b = a
      BY <1>2, <1>4, <1>5, <1>7, <3>1
    <3>2. CASE b # a
      <4>1. table[b] \in Conn /\ conn[table[b]].addr = b /\ table'[b] = table[b]
            /\ (conn[table[b]].pc \in {"open", "dying"} \/ conn[table[b]].late)
        BY <1>7, <2>1, <3>2 DEF TableInv, Entries
      <4>2. table[b] # c
        BY <1>2, <3>2, <4>1
      <4> QED BY <1>5, <4>1, <4>2
    <3> QED BY <3>1, <3>2
  <2> QED BY <2>1 DEF Entries
<1>10. Handles'
  BY <1>5, <1>6 DEF TableInv, Handles, At
<1>11. \A d \in Conn : Pending(d)' => Pending(d)
  BY <1>6 DEF Pending, At
<1>12. Alone'
  BY <1>5, <1>11 DEF TableInv, Alone
<1>13. InTable'
  <2>1. ASSUME NEW d \in Conn, conn'[d].pc = "open", conn'[d].inserted, ~conn'[d].shared
        PROVE  conn'[d].addr \in DOMAIN table' /\ table'[conn'[d].addr] = d
    <3>1. CASE d = c
      BY <1>2, <1>5, <1>7, <3>1
    <3>2. CASE d # c
      <4>1. Pending(c)
        BY <1>1 DEF Pending, c
      <4>2. conn[d].addr # a
        BY <1>2, <1>5, <2>1, <3>2, <4>1 DEF TableInv, Alone
      <4>3. conn[d].addr \in DOMAIN table /\ table[conn[d].addr] = d
        BY <1>5, <2>1, <3>2 DEF TableInv, InTable
      <4> QED BY <1>5, <1>7, <3>2, <4>2, <4>3
    <3> QED BY <3>1, <3>2
  <2> QED BY <2>1 DEF InTable
<1> QED BY <1>8, <1>9, <1>10, <1>12, <1>13 DEF TableInv

\* A connection ends.
LEMMA DieKeeps ==
  ASSUME TableInv, NEW c \in Conn, Die(c)
  PROVE  TableInv'
<1>1. /\ conn[c].pc = "open" /\ UNCHANGED <<table, opener>>
      /\ conn' = [conn EXCEPT ![c] = [conn[c] EXCEPT !.pc = "dying"]]
  BY DEF Die
<1>2. /\ conn' \in [Conn -> ConnType] /\ conn'[c].pc = "dying"
      /\ \A d \in Conn : d # c => conn'[d] = conn[d]
      /\ \A d \in Conn : /\ conn'[d].addr = conn[d].addr /\ conn'[d].client = conn[d].client
                         /\ conn'[d].shared = conn[d].shared /\ conn'[d].late = conn[d].late
                         /\ conn'[d].inserted = conn[d].inserted
                         /\ (conn'[d].pc = "closed" <=> conn[d].pc = "closed")
  <2>1. conn[c] \in ConnType
    BY DEF TableInv, TableTypeOK
  <2>2. ASSUME NEW r, r = [conn[c] EXCEPT !.pc = "dying"]
        PROVE  /\ r \in ConnType /\ r.pc = "dying" /\ r.addr = conn[c].addr
               /\ r.client = conn[c].client /\ r.shared = conn[c].shared /\ r.late = conn[c].late
               /\ r.inserted = conn[c].inserted
    BY <2>1, <2>2 DEF ConnType
  <2>3. conn'[c] = [conn[c] EXCEPT !.pc = "dying"] /\ \A d \in Conn : d # c => conn'[d] = conn[d]
    BY <1>1 DEF TableInv, TableTypeOK
  <2>4. conn'[c] \in ConnType /\ conn'[c].pc = "dying"
    BY <2>2, <2>3
  <2>5. conn' \in [Conn -> ConnType]
    BY <1>1, <2>2 DEF TableInv, TableTypeOK
  <2> QED BY <1>1, <2>2, <2>3, <2>4, <2>5
<1>3. TableTypeOK' /\ Entries' /\ InTable'
  BY <1>1, <1>2 DEF TableInv, TableTypeOK, Entries, InTable
<1>4. Handles'
  BY <1>1, <1>2 DEF TableInv, Handles, At
<1>5. Alone'
  BY <1>1, <1>2 DEF TableInv, Alone, Pending, At
<1> QED BY <1>3, <1>4, <1>5 DEF TableInv

\* on_kill: what is listed under the address goes, which is the connection itself
\* unless it is shared.
LEMMA OnKillKeeps ==
  ASSUME TableInv, NEW c \in Conn, OnKill(c)
  PROVE  TableInv'
<1> DEFINE r == IF Held(c) THEN [conn[c] EXCEPT !.pc = "closed"] ELSE Closed
<1>1. /\ conn[c].pc = "dying" /\ UNCHANGED opener
      /\ table' = [a \in DOMAIN table \ {conn[c].addr} |-> table[a]]
      /\ conn' = [conn EXCEPT ![c] = r]
  BY DEF OnKill
<1>2. /\ r \in ConnType /\ r.pc = "closed"
      /\ Held(c) => r.addr = conn[c].addr /\ r.client = conn[c].client
  <2>1. conn[c] \in ConnType
    BY DEF TableInv, TableTypeOK
  <2>2. Closed \in ConnType /\ Closed.pc = "closed"
    BY DEF Closed, ConnType
  <2>3. ASSUME NEW x, x = [conn[c] EXCEPT !.pc = "closed"]
        PROVE  /\ x \in ConnType /\ x.pc = "closed" /\ x.addr = conn[c].addr
               /\ x.client = conn[c].client
    BY <2>1, <2>3 DEF ConnType
  <2> QED BY <2>2, <2>3
<1> HIDE DEF r
<1>3. /\ conn' \in [Conn -> ConnType] /\ conn'[c] = r
      /\ \A d \in Conn : d # c => conn'[d] = conn[d]
  BY <1>1, <1>2 DEF TableInv, TableTypeOK
<1>4. /\ DOMAIN table' = DOMAIN table \ {conn[c].addr}
      /\ \A a \in DOMAIN table' : table'[a] = table[a] /\ table[a] # c
  BY <1>1 DEF TableInv, Entries
<1>5. TableTypeOK'
  <2>1. IsFiniteSet(DOMAIN table')
    BY <1>4, FS_RemoveElement DEF TableInv, TableTypeOK
  <2> QED BY <1>1, <1>3, <2>1 DEF TableInv, TableTypeOK
<1>6. Entries'
  BY <1>3, <1>4 DEF TableInv, Entries
<1>7. Handles'
  <2>1. ASSUME NEW t \in Opener, At(t, "insert")
        PROVE  /\ opener[t].conn \in Conn /\ conn'[opener[t].conn].addr = opener[t].addr
               /\ t = "server" => conn'[opener[t].conn].client
    <3>1. CASE opener[t].conn = c
      <4>1. Held(c)
        BY <3>1 DEF Held
      <4> QED BY <1>2, <1>3, <2>1, <3>1, <4>1 DEF TableInv, Handles
    <3>2. CASE opener[t].conn # c
      BY <1>3, <2>1, <3>2 DEF TableInv, Handles
    <3> QED BY <3>1, <3>2
  <2> QED BY <1>1, <2>1 DEF Handles, At
<1>8. Alone'
  <2>1. ASSUME NEW e \in Conn, NEW d \in Conn, e # d, conn'[e].pc # "closed", ~conn'[e].shared,
               conn'[d].addr = conn'[e].addr
        PROVE  conn'[d].pc = "closed" /\ ~Pending(d)
    <3>1. e # c /\ conn'[e] = conn[e]
      BY <1>2, <1>3, <2>1
    <3>2. CASE d = c
      <4>1. ~Held(c)
        BY <1>1, <1>2, <1>3, <2>1, <3>1, <3>2 DEF TableInv, Alone
      <4> QED BY <1>2, <1>3, <3>2, <4>1 DEF Held, Pending
    <3>3. CASE d # c
      BY <1>3, <2>1, <3>1, <3>3 DEF TableInv, Alone
    <3> QED BY <3>2, <3>3
  <2> QED BY <1>1, <2>1 DEF Alone, Pending, At
<1>9. InTable'
  <2>1. ASSUME NEW d \in Conn, conn'[d].pc = "open", conn'[d].inserted, ~conn'[d].shared
        PROVE  conn'[d].addr \in DOMAIN table' /\ table'[conn'[d].addr] = d
    <3>1. d # c /\ conn'[d] = conn[d]
      BY <1>2, <1>3, <2>1
    <3>2. conn[d].addr # conn[c].addr
      BY <1>1, <2>1, <3>1 DEF TableInv, Alone
    <3>3. conn[d].addr \in DOMAIN table /\ table[conn[d].addr] = d
      BY <2>1, <3>1 DEF TableInv, InTable
    <3> QED BY <1>4, <3>1, <3>2, <3>3
  <2> QED BY <2>1 DEF InTable
<1> QED BY <1>5, <1>6, <1>7, <1>8, <1>9 DEF TableInv

-----------------------------------------------------------------------------
\* At first the table is empty and no connection is open.
LEMMA InitTableInv == TableInit => TableInv
<1> SUFFICES ASSUME TableInit PROVE TableInv
  OBVIOUS
<1>1. Closed \in ConnType /\ Resting \in OpenerType
  BY EmptySeq DEF Closed, ConnType, Resting, OpenerType
<1>2. DOMAIN table = {}
  BY DEF TableInit
<1>3. TableTypeOK
  BY <1>1, <1>2, FS_EmptySet DEF TableInit, TableTypeOK
<1>4. \A c \in Conn : conn[c].pc = "closed"
  BY DEF TableInit, Closed
<1>5. \A t \in Opener : opener[t].pc = "idle"
  BY DEF TableInit, Resting
<1> QED BY <1>2, <1>3, <1>4, <1>5 DEF TableInv, Entries, Handles, Alone, InTable, At

\* Every step keeps the invariant.
LEMMA NextTableInv == TableInv /\ [TableNext]_tableVars => TableInv'
<1> SUFFICES ASSUME TableInv, [TableNext]_tableVars PROVE TableInv'
  OBVIOUS
<1>1. CASE \E t \in Opener : (\E c \in Conn : CreatePeer(t, c)) \/ ConnectFails(t) \/ InsertPeer(t)
  BY <1>1, CreateKeeps, FailKeeps, InsertKeeps
<1>2. CASE \E a \in ClientAddr : AcceptIncoming(a) \/ ShutdownFails(a)
  BY <1>2, AcceptKeeps
<1>3. CASE \E c \in Conn : ChoosePeer(c) \/ Die(c) \/ OnKill(c)
  BY <1>3, AutoKeeps, DieKeeps, OnKillKeeps
<1>4. CASE GetReferrals \/ TryConnect
  BY <1>4, AutoKeeps
<1>5. CASE ConnectTimeout
  BY <1>5, FailKeeps DEF Opener
<1>6. CASE CheckPeers
  BY <1>6, CheckKeeps
<1>7. CASE UNCHANGED <<conn, table, opener>>
  <2>1. TableTypeOK' /\ Entries' /\ InTable'
    BY <1>7 DEF TableInv, TableTypeOK, Entries, InTable
  <2>2. Handles' /\ Alone'
    BY <1>7 DEF TableInv, Handles, Alone, Pending, At
  <2> QED BY <2>1, <2>2 DEF TableInv
<1> QED BY <1>1, <1>2, <1>3, <1>4, <1>5, <1>6, <1>7 DEF TableNext, tableVars, Forgive

\* The invariant of the table: who is listed, who is about to be, and who shares an address.
THEOREM TableInductive == TableSpec => []TableInv
BY InitTableInv, NextTableInv, PTL DEF TableSpec

\* connected_peers lists every live connection that has its address for itself, and
\* nothing that has ended and been removed.
THEOREM TableIsExact == TableSpec => []TableExact
<1>1. TableInv => TableExact
  BY DEF TableInv, TableExact, Entries, InTable
<1> QED BY <1>1, TableInductive, PTL

-----------------------------------------------------------------------------
(* The number of outgoing peers.                                           *)

\* How many connections auto_peer may still insert before it counts again, and
\* auto_reconnect before it looks at the table again.
Attempts ==
  LET o == opener["auto"] IN
  IF o.pc = "idle" THEN 0
  ELSE IF o.pc = "ask" THEN Target
  ELSE IF o.pc = "try" THEN Len(o.list)
  ELSE Len(o.list) + 1
Seeking == IF opener["reconnect"].pc \in {"connect", "insert"} THEN 1 ELSE 0

Budget ==
  /\ Attempts <= Target
  /\ Cardinality(OutgoingPeers) + Attempts + Seeking <= 2 * Target

\* The numbers are natural numbers.
LEMMA BudgetTypes ==
  TableInv => /\ IsFiniteSet(OutgoingPeers) /\ Cardinality(OutgoingPeers) \in Nat
          /\ Attempts \in Nat /\ Seeking \in {0, 1}
          /\ Len(opener["auto"].list) \in Nat /\ Target \in Nat \ {0}
<1> SUFFICES ASSUME TableInv
             PROVE  /\ IsFiniteSet(OutgoingPeers) /\ Cardinality(OutgoingPeers) \in Nat
                    /\ Attempts \in Nat /\ Seeking \in {0, 1}
                    /\ Len(opener["auto"].list) \in Nat /\ Target \in Nat \ {0}
  OBVIOUS
<1>1. IsFiniteSet(OutgoingPeers) /\ Cardinality(OutgoingPeers) \in Nat
  <2>1. IsFiniteSet(DOMAIN table) /\ OutgoingPeers \subseteq DOMAIN table
    BY DEF TableInv, TableTypeOK, OutgoingPeers
  <2> QED BY <2>1, FS_Subset, FS_CardinalityType
<1>2. opener["auto"].list \in Seq(NodeAddr)
  BY DEF TableInv, TableTypeOK, Opener, OpenerType
<1>3. Len(opener["auto"].list) \in Nat
  BY <1>2, LenProperties
<1>4. Target \in Nat \ {0}
  BY PeersAssumption
<1> QED BY <1>1, <1>3, <1>4 DEF Attempts, Seeking

\* A step that adds n outgoing peers and uses up n attempts.
LEMMA Spends ==
  ASSUME TableInv, TableInv', Budget, NEW n \in Nat,
         Cardinality(OutgoingPeers') <= Cardinality(OutgoingPeers) + n,
         Attempts' + Seeking' + n <= Attempts + Seeking, Attempts' <= Attempts
  PROVE  Budget'
<1>1. /\ Cardinality(OutgoingPeers) \in Nat /\ Attempts \in Nat /\ Seeking \in Nat
      /\ Target \in Nat
  BY BudgetTypes
<1>2. Cardinality(OutgoingPeers') \in Nat /\ Attempts' \in Nat /\ Seeking' \in Nat
  <2>1. (TableInv => /\ IsFiniteSet(OutgoingPeers) /\ Cardinality(OutgoingPeers) \in Nat
                 /\ Attempts \in Nat /\ Seeking \in {0, 1}
                 /\ Len(opener["auto"].list) \in Nat /\ Target \in Nat \ {0})'
    BY BudgetTypes, PTL
  <2> QED BY <2>1
<1>3. /\ Attempts <= Target
      /\ Cardinality(OutgoingPeers) + Attempts + Seeking <= 2 * Target
  BY DEF Budget
<1>4. /\ Attempts' <= Target
      /\ Cardinality(OutgoingPeers') + Attempts' + Seeking' <= 2 * Target
  <2>1. ASSUME NEW o \in Nat, NEW x \in Nat, NEW s \in Nat, NEW o1 \in Nat, NEW x1 \in Nat,
               NEW s1 \in Nat, NEW T \in Nat, o1 <= o + n, x1 + s1 + n <= x + s, x1 <= x,
               x <= T, o + x + s <= 2 * T
        PROVE  x1 <= T /\ o1 + x1 + s1 <= 2 * T
    BY <2>1
  <2> QED BY <1>1, <1>2, <1>3, <2>1
<1>5. (Cardinality(OutgoingPeers))' = Cardinality(OutgoingPeers')
  OBVIOUS
<1> QED BY <1>4, <1>5 DEF Budget

\* Fewer outgoing peers, or at most one more.
LEMMA OutgoingCount ==
  ASSUME TableInv, NEW S
  PROVE  /\ S \subseteq OutgoingPeers => Cardinality(S) <= Cardinality(OutgoingPeers) + 0
         /\ \A a : S \subseteq OutgoingPeers \cup {a}
                     => Cardinality(S) <= Cardinality(OutgoingPeers) + 1
<1>1. IsFiniteSet(OutgoingPeers) /\ Cardinality(OutgoingPeers) \in Nat
  BY BudgetTypes
<1>2. ASSUME S \subseteq OutgoingPeers
      PROVE  Cardinality(S) <= Cardinality(OutgoingPeers) + 0
  <2>1. IsFiniteSet(S) /\ Cardinality(S) <= Cardinality(OutgoingPeers)
    BY <1>1, <1>2, FS_Subset
  <2> QED BY <1>1, <2>1, FS_CardinalityType
<1>3. ASSUME NEW a, S \subseteq OutgoingPeers \cup {a}
      PROVE  Cardinality(S) <= Cardinality(OutgoingPeers) + 1
  <2>1. IsFiniteSet(OutgoingPeers \cup {a})
        /\ Cardinality(OutgoingPeers \cup {a}) \in Nat
        /\ Cardinality(OutgoingPeers \cup {a}) <= Cardinality(OutgoingPeers) + 1
    <3>1. /\ IsFiniteSet(OutgoingPeers \cup {a})
          /\ Cardinality(OutgoingPeers \cup {a}) =
               IF a \in OutgoingPeers THEN Cardinality(OutgoingPeers)
               ELSE Cardinality(OutgoingPeers) + 1
      BY <1>1, FS_AddElement
    <3> QED BY <1>1, <3>1
  <2>2. IsFiniteSet(S) /\ Cardinality(S) <= Cardinality(OutgoingPeers \cup {a})
    BY <1>3, <2>1, FS_Subset
  <2> QED BY <1>1, <2>1, <2>2, FS_CardinalityType
<1> QED BY <1>2, <1>3

\* A task goes on as o, or stays: what is left of its attempts.
LEMMA AttemptsOf ==
  ASSUME TableInv, NEW t \in Opener, NEW o \in OpenerType, Become(t, o)
  PROVE  /\ t = "auto" =>
              /\ Seeking' = Seeking
              /\ Attempts' = IF o.pc = "idle" THEN 0 ELSE IF o.pc = "ask" THEN Target
                             ELSE IF o.pc = "try" THEN Len(o.list) ELSE Len(o.list) + 1
         /\ t = "reconnect" =>
              /\ Attempts' = Attempts
              /\ Seeking' = IF o.pc \in {"connect", "insert"} THEN 1 ELSE 0
         /\ t = "server" => Attempts' = Attempts /\ Seeking' = Seeking
<1>1. opener'[t] = o /\ \A u \in Opener : u # t => opener'[u] = opener[u]
  BY DEF Become, TableInv, TableTypeOK
<1>2. "auto" \in Opener /\ "reconnect" \in Opener
  BY DEF Opener
<1>3. CASE t = "auto"
  <2>1. opener'["auto"] = o /\ opener'["reconnect"] = opener["reconnect"]
    BY <1>1, <1>2, <1>3
  <2> QED BY <1>3, <2>1 DEF Attempts, Seeking
<1>4. CASE t = "reconnect"
  <2>1. opener'["reconnect"] = o /\ opener'["auto"] = opener["auto"]
    BY <1>1, <1>2, <1>4
  <2> QED BY <1>4, <2>1 DEF Attempts, Seeking
<1>5. CASE t = "server"
  <2>1. opener'["reconnect"] = opener["reconnect"] /\ opener'["auto"] = opener["auto"]
    BY <1>1, <1>2, <1>5
  <2> QED BY <1>5, <2>1 DEF Attempts, Seeking
<1> QED BY <1>3, <1>4, <1>5 DEF Opener

\* auto_peer counts, gets its list and goes through it.
LEMMA AutoSpends ==
  ASSUME TableInv, TableInv', Budget,
         (\E c \in Conn : ChoosePeer(c)) \/ GetReferrals \/ TryConnect
  PROVE  Budget'
<1>1. /\ UNCHANGED <<conn, table>>
      /\ \/ /\ At("auto", "idle") /\ Cardinality(OutgoingPeers) < Target
            /\ \E c \in Conn : Become("auto", Asks(c))
         \/ At("auto", "ask") /\ \E l \in Referrals : Become("auto", Gets(l))
         \/ Become("auto", Resting)
         \/ At("auto", "try") /\ opener["auto"].list # <<>> /\ Become("auto", Skips)
         \/ At("auto", "try") /\ opener["auto"].list # <<>> /\ Become("auto", Tries)
  BY DEF ChoosePeer, GetReferrals, TryConnect, Asks, Gets, Short, Skips, Tries, Become
<1>2. OutgoingPeers' = OutgoingPeers
  BY <1>1 DEF OutgoingPeers
<1>3. "auto" \in Opener /\ opener["auto"] \in OpenerType
  BY DEF Opener, TableInv, TableTypeOK
<1>4. /\ Cardinality(OutgoingPeers) \in Nat /\ Attempts \in Nat /\ Seeking \in {0, 1}
      /\ Len(opener["auto"].list) \in Nat /\ Target \in Nat \ {0}
  BY BudgetTypes
<1>5. Cardinality(OutgoingPeers') <= Cardinality(OutgoingPeers) + 0
  BY <1>2, <1>4
<1>6. CASE /\ At("auto", "idle") /\ Cardinality(OutgoingPeers) < Target
           /\ \E c \in Conn : Become("auto", Asks(c))
  <2>1. Attempts' = Target /\ Seeking' = Seeking
    BY <1>3, <1>6, AutoTypes, AttemptsOf DEF TableInv
  <2>2. /\ Attempts' <= Target
        /\ Cardinality(OutgoingPeers) + Attempts' + Seeking' <= 2 * Target
    BY <1>4, <1>6, <2>1
  <2> QED BY <1>2, <2>2 DEF Budget
<1>7. CASE At("auto", "ask") /\ \E l \in Referrals : Become("auto", Gets(l))
  <2>1. PICK l \in Referrals : Become("auto", Gets(l))
    BY <1>7
  <2>2. Gets(l) \in OpenerType /\ Gets(l).pc = "try" /\ Len(Gets(l).list) <= Target
    BY AutoTypes DEF TableInv
  <2>3. Attempts' = Len(Gets(l).list) /\ Seeking' = Seeking
    BY <1>3, <2>1, <2>2, AttemptsOf
  <2>4. Attempts = Target
    BY <1>7 DEF At, Attempts
  <2>5. Len(Gets(l).list) \in Nat
    BY <2>2, LenProperties DEF OpenerType
  <2>6. Attempts' + Seeking' + 0 <= Attempts + Seeking /\ Attempts' <= Attempts
    BY <1>4, <2>2, <2>3, <2>4, <2>5
  <2> QED BY <1>5, <2>6, Spends
<1>8. CASE Become("auto", Resting)
  <2>1. Attempts' = 0 /\ Seeking' = Seeking
    BY <1>3, <1>8, ContinueType, AttemptsOf DEF TableInv, Resting
  <2>2. Attempts' + Seeking' + 0 <= Attempts + Seeking /\ Attempts' <= Attempts
    BY <1>4, <2>1
  <2> QED BY <1>5, <2>2, Spends
<1>9. CASE /\ At("auto", "try") /\ opener["auto"].list # <<>>
           /\ Become("auto", Skips) \/ Become("auto", Tries)
  <2>1. Attempts = Len(opener["auto"].list)
    BY <1>9 DEF At, Attempts
  <2>2. Seeking' = Seeking /\ Attempts' <= Len(opener["auto"].list) /\ Attempts' \in Nat
    <3>1. /\ Skips \in OpenerType /\ Skips.pc = "try"
          /\ Len(Skips.list) = Len(opener["auto"].list) - 1 /\ Len(Skips.list) \in Nat
          /\ Tries \in OpenerType /\ Tries.pc = "connect"
          /\ Len(Tries.list) = Len(opener["auto"].list) - 1 /\ Len(Tries.list) \in Nat
      BY <1>9, AutoTypes, LenProperties DEF TableInv, At, OpenerType
    <3>2. CASE Become("auto", Skips)
      <4>1. Attempts' = Len(Skips.list) /\ Seeking' = Seeking
        BY <1>3, <3>1, <3>2, AttemptsOf
      <4> QED BY <1>4, <3>1, <4>1
    <3>3. CASE Become("auto", Tries)
      <4>1. Attempts' = Len(Tries.list) + 1 /\ Seeking' = Seeking
        BY <1>3, <3>1, <3>3, AttemptsOf
      <4> QED BY <1>4, <3>1, <4>1
    <3> QED BY <1>9, <3>2, <3>3
  <2>3. Attempts' + Seeking' + 0 <= Attempts + Seeking /\ Attempts' <= Attempts
    BY <1>4, <2>1, <2>2
  <2> QED BY <1>5, <2>3, Spends
<1> QED BY <1>1, <1>6, <1>7, <1>8, <1>9

\* auto_reconnect starts only when the table is empty.
LEMMA CheckSpends ==
  ASSUME TableInv, TableInv', Budget, CheckPeers
  PROVE  Budget'
<1> DEFINE o == [Resting EXCEPT !.pc = "connect", !.addr = Seed]
<1>1. o \in OpenerType /\ o.pc = "connect"
  BY EmptySeq, PeersAssumption DEF OpenerType, Resting, Addr
<1>2. Become("reconnect", o) /\ UNCHANGED <<conn, table>> /\ DOMAIN table = {}
  BY DEF CheckPeers
<1> HIDE DEF o
<1>3. Attempts' = Attempts /\ Seeking' = 1
  BY <1>1, <1>2, AttemptsOf DEF Opener
<1>4. OutgoingPeers' = {}
  BY <1>2 DEF OutgoingPeers
<1>5. Cardinality(OutgoingPeers') = 0 /\ Target \in Nat \ {0} /\ Attempts \in Nat
  BY <1>4, FS_EmptySet, BudgetTypes
<1>6. Attempts' <= Target /\ Cardinality(OutgoingPeers') + Attempts' + Seeking' <= 2 * Target
  BY <1>3, <1>5 DEF Budget
<1> QED BY <1>6 DEF Budget

\* A connection attempt ends, with or without a peer for the table.
LEMMA ConnectSpends ==
  ASSUME TableInv, TableInv', Budget, NEW t \in Opener,
         ConnectFails(t) \/ InsertPeer(t) \/ (t = "auto" /\ ConnectTimeout)
  PROVE  Budget'
<1>1. At(t, "connect") \/ At(t, "insert")
  BY DEF ConnectFails, InsertPeer, ConnectTimeout
<1>2. Become(t, Continue(t)) /\ Continue(t) \in OpenerType
  BY ContinueType DEF ConnectFails, InsertPeer, ConnectTimeout, TableInv
<1>3. /\ Cardinality(OutgoingPeers) \in Nat /\ Attempts \in Nat /\ Seeking \in {0, 1}
      /\ Len(opener["auto"].list) \in Nat
  BY BudgetTypes
<1> DEFINE n == IF t = "server" THEN 0 ELSE 1
<1>4. Attempts' + Seeking' + n <= Attempts + Seeking /\ Attempts' <= Attempts
  <2>1. CASE t = "auto"
    <3>1. Continue(t).pc = "try" /\ Continue(t).list = opener["auto"].list
      <4>1. opener["auto"] \in OpenerType
        BY DEF TableInv, TableTypeOK, Opener
      <4> QED BY <2>1, <4>1 DEF Continue, OpenerType
    <3>2. Attempts = Len(opener["auto"].list) + 1
      BY <1>1, <2>1 DEF At, Attempts
    <3>3. Attempts' = Len(opener["auto"].list) /\ Seeking' = Seeking
      BY <1>2, <2>1, <3>1, AttemptsOf
    <3> QED BY <1>3, <2>1, <3>2, <3>3
  <2>2. CASE t = "reconnect"
    <3>1. Continue(t).pc = "idle"
      BY <2>2 DEF Continue, Resting
    <3>2. Seeking = 1
      BY <1>1, <2>2 DEF At, Seeking
    <3>3. Attempts' = Attempts /\ Seeking' = 0
      BY <1>2, <2>2, <3>1, AttemptsOf
    <3> QED BY <1>3, <2>2, <3>2, <3>3
  <2>3. CASE t = "server"
    <3>1. Attempts' = Attempts /\ Seeking' = Seeking
      BY <1>2, <2>3, AttemptsOf
    <3> QED BY <1>3, <2>3, <3>1
  <2> QED BY <2>1, <2>2, <2>3 DEF Opener
<1>5. Cardinality(OutgoingPeers') <= Cardinality(OutgoingPeers) + n
  <2>1. CASE UNCHANGED <<conn, table>>
    <3>1. OutgoingPeers' = OutgoingPeers
      BY <2>1 DEF OutgoingPeers
    <3> QED BY <1>3, <3>1
  <2>2. CASE InsertPeer(t)
    <3> DEFINE c == opener[t].conn
               a == opener[t].addr
               r == [conn[c] EXCEPT !.inserted = TRUE,
                                    !.late = conn[c].pc \notin {"open", "dying"}]
    <3>1. /\ c \in Conn /\ (t = "server" => conn[c].client)
          /\ table' = [b \in DOMAIN table \cup {a} |-> IF b = a THEN c ELSE table[b]]
      BY <2>2 DEF InsertPeer, TableInv, Handles
    <3>2. conn' = [conn EXCEPT ![c] = r]
      <4>1. conn' = [conn EXCEPT ![c].inserted = TRUE,
                                 ![c].late = conn[c].pc \notin {"open", "dying"}]
        BY <2>2 DEF InsertPeer
      <4> QED BY <3>1, <4>1 DEF TableInv, TableTypeOK
    <3>3. conn[c] \in ConnType
      BY <3>1 DEF TableInv, TableTypeOK
    <3>4. r.client = conn[c].client
      BY <3>3 DEF ConnType
    <3> HIDE DEF r
    <3>5. \A d \in Conn : conn'[d].client = conn[d].client
      BY <3>1, <3>2, <3>4 DEF TableInv, TableTypeOK
    <3> HIDE DEF c, a
    <3>6. ASSUME NEW b \in OutgoingPeers', b # a PROVE b \in OutgoingPeers
      <4>1. b \in DOMAIN table /\ table'[b] = table[b] /\ ~conn'[table'[b]].client
        BY <3>1, <3>6 DEF OutgoingPeers
      <4>2. table[b] \in Conn
        BY <4>1 DEF TableInv, Entries
      <4> QED BY <3>5, <4>1, <4>2 DEF OutgoingPeers
    <3>7. CASE t = "server"
      <4>1. a \notin OutgoingPeers'
        BY <3>1, <3>5, <3>7 DEF OutgoingPeers
      <4>2. OutgoingPeers' \subseteq OutgoingPeers
        BY <3>6, <4>1
      <4> QED BY <3>7, <4>2, OutgoingCount
    <3>8. CASE t # "server"
      <4>1. OutgoingPeers' \subseteq OutgoingPeers \cup {a}
        BY <3>6
      <4> QED BY <3>8, <4>1, OutgoingCount
    <3> QED BY <3>7, <3>8
  <2> QED BY <1>3, <2>1, <2>2 DEF ConnectFails, ConnectTimeout
<1>6. n \in Nat
  OBVIOUS
<1> HIDE DEF n
<1> QED BY <1>4, <1>5, <1>6, Spends

\* Steps of connections: none adds an outgoing peer.
LEMMA ConnSpends ==
  ASSUME TableInv, TableInv', Budget,
         (\E t \in Opener, c \in Conn : CreatePeer(t, c)) \/ (\E c \in Conn : Die(c) \/ OnKill(c))
  PROVE  Budget'
<1>1. Attempts \in Nat /\ Seeking \in {0, 1} /\ Len(opener["auto"].list) \in Nat
  BY BudgetTypes
<1>2. CASE \E t \in Opener, c \in Conn : CreatePeer(t, c)
  <2>1. PICK t \in Opener, c \in Conn : CreatePeer(t, c)
    BY <1>2
  <2> DEFINE o == [opener[t] EXCEPT !.pc = "insert", !.conn = c]
  <2>2. Become(t, o) /\ At(t, "connect") /\ ~Listed(c) /\ UNCHANGED table
    BY <2>1 DEF CreatePeer
  <2>3. o \in OpenerType /\ o.pc = "insert" /\ o.list = opener[t].list
    <3>1. opener[t] \in OpenerType
      BY DEF TableInv, TableTypeOK
    <3> QED BY <3>1 DEF OpenerType
  <2> HIDE DEF o
  <2>4. Attempts' = Attempts /\ Seeking' = Seeking
    BY <2>2, <2>3, AttemptsOf DEF At, Attempts, Seeking, Opener
  <2>5. ASSUME NEW d \in Conn, d # c PROVE conn'[d].client = conn[d].client
    <3>1. conn'[d] = conn[d] \/ conn'[d] = [conn[d] EXCEPT !.shared = TRUE]
      BY <2>1, <2>5 DEF CreatePeer
    <3>2. conn[d] \in ConnType
      BY DEF TableInv, TableTypeOK
    <3> QED BY <3>1, <3>2 DEF ConnType
  <2>6. OutgoingPeers' \subseteq OutgoingPeers
    <3>1. ASSUME NEW a \in OutgoingPeers' PROVE a \in OutgoingPeers
      <4>1. a \in DOMAIN table /\ ~conn'[table[a]].client
        BY <2>2, <3>1 DEF OutgoingPeers
      <4>2. table[a] \in Conn /\ table[a] # c
        BY <2>2, <4>1 DEF TableInv, Entries, Listed
      <4> QED BY <2>5, <4>1, <4>2 DEF OutgoingPeers
    <3> QED BY <3>1
  <2>7. Attempts' + Seeking' + 0 <= Attempts + Seeking /\ Attempts' <= Attempts
    BY <1>1, <2>4
  <2> QED BY <2>6, <2>7, OutgoingCount, Spends
<1>3. CASE \E c \in Conn : Die(c) \/ OnKill(c)
  <2>1. PICK c \in Conn : Die(c) \/ OnKill(c)
    BY <1>3
  <2>2. UNCHANGED opener
    BY <2>1 DEF Die, OnKill
  <2>3. OutgoingPeers' \subseteq OutgoingPeers
    <3>1. ASSUME NEW a \in OutgoingPeers' PROVE a \in OutgoingPeers
      <4>1. a \in DOMAIN table /\ table'[a] = table[a] /\ ~conn'[table[a]].client
            /\ (OnKill(c) => a # conn[c].addr)
        BY <2>1, <3>1 DEF OutgoingPeers, Die, OnKill
      <4>2. table[a] \in Conn /\ conn[table[a]].addr = a
        BY <4>1 DEF TableInv, Entries
      <4>3. CASE table[a] = c
        <5>1. Die(c)
          BY <2>1, <4>1, <4>2, <4>3
        <5>2. conn'[c] = [conn[c] EXCEPT !.pc = "dying"] /\ conn[c] \in ConnType
          BY <5>1 DEF Die, TableInv, TableTypeOK
        <5>3. conn'[c].client = conn[c].client
          BY <5>2 DEF ConnType
        <5> QED BY <4>1, <4>3, <5>3 DEF OutgoingPeers
      <4>4. CASE table[a] # c
        <5>1. conn'[table[a]] = conn[table[a]]
          BY <2>1, <4>2, <4>4 DEF Die, OnKill, TableInv, TableTypeOK
        <5> QED BY <4>1, <5>1 DEF OutgoingPeers
      <4> QED BY <4>3, <4>4
    <3> QED BY <3>1
  <2>4. Attempts' = Attempts /\ Seeking' = Seeking
    BY <2>2 DEF Attempts, Seeking
  <2>5. Attempts' + Seeking' + 0 <= Attempts + Seeking /\ Attempts' <= Attempts
    BY <1>1, <2>4
  <2> QED BY <2>3, <2>5, OutgoingCount, Spends
<1> QED BY <1>2, <1>3

\* The server lets a client in, scores are forgiven, or nothing happens.
LEMMA OtherSpends ==
  ASSUME TableInv, TableInv', Budget,
         (\E a \in ClientAddr : AcceptIncoming(a) \/ ShutdownFails(a)) \/ Forgive \/ UNCHANGED tableVars
  PROVE  Budget'
<1>1. UNCHANGED <<conn, table>>
  BY DEF AcceptIncoming, ShutdownFails, Forgive, tableVars
<1>2. opener'["auto"] = opener["auto"] /\ opener'["reconnect"] = opener["reconnect"]
  BY DEF AcceptIncoming, ShutdownFails, Forgive, tableVars, Become, TableInv, TableTypeOK, Opener
<1>3. OutgoingPeers' = OutgoingPeers /\ Attempts' = Attempts /\ Seeking' = Seeking
  BY <1>1, <1>2 DEF OutgoingPeers, Attempts, Seeking
<1> QED BY <1>3 DEF Budget

\* No connection at first, and no task has begun.
LEMMA InitBudget == TableInit => Budget
<1> SUFFICES ASSUME TableInit PROVE Budget
  OBVIOUS
<1>1. OutgoingPeers = {} /\ opener["auto"].pc = "idle" /\ opener["reconnect"].pc = "idle"
  BY DEF TableInit, OutgoingPeers, Opener, Resting
<1>2. Attempts = 0 /\ Seeking = 0 /\ Cardinality(OutgoingPeers) = 0
  BY <1>1, FS_EmptySet DEF Attempts, Seeking
<1> QED BY <1>2, PeersAssumption DEF Budget

\* auto_peer counts the outgoing peers once, then tries up to TARGET_PEERS addresses,
\* while auto_reconnect may be about to insert the seed.
THEOREM OutgoingIsBounded == TableSpec => []OutgoingBounded
<1>1. TableInv /\ TableInv' /\ Budget /\ [TableNext]_tableVars => Budget'
  <2> SUFFICES ASSUME TableInv, TableInv', Budget, [TableNext]_tableVars PROVE Budget'
    OBVIOUS
  <2>1. CASE \E t \in Opener : \E c \in Conn : CreatePeer(t, c)
    BY <2>1, ConnSpends
  <2>2. CASE \E t \in Opener : ConnectFails(t) \/ InsertPeer(t)
    BY <2>2, ConnectSpends
  <2>3. CASE (\E c \in Conn : ChoosePeer(c)) \/ GetReferrals \/ TryConnect
    BY <2>3, AutoSpends
  <2>4. CASE \E c \in Conn : Die(c) \/ OnKill(c)
    BY <2>4, ConnSpends
  <2>5. CASE ConnectTimeout
    BY <2>5, ConnectSpends DEF Opener
  <2>6. CASE CheckPeers
    BY <2>6, CheckSpends
  <2>7. CASE (\E a \in ClientAddr : AcceptIncoming(a) \/ ShutdownFails(a)) \/ Forgive \/ UNCHANGED tableVars
    BY <2>7, OtherSpends
  <2> QED BY <2>1, <2>2, <2>3, <2>4, <2>5, <2>6, <2>7 DEF TableNext
<1>2. TableInv /\ Budget => OutgoingBounded
  <2> SUFFICES ASSUME TableInv, Budget PROVE Cardinality(OutgoingPeers) <= 2 * Target
    BY DEF OutgoingBounded
  <2>1. /\ Cardinality(OutgoingPeers) \in Nat /\ Attempts \in Nat /\ Seeking \in {0, 1}
        /\ Target \in Nat \ {0}
    BY BudgetTypes
  <2> QED BY <2>1 DEF Budget
<1> QED BY <1>1, <1>2, InitBudget, TableInductive, PTL DEF TableSpec
=============================================================================
