------------------------------ MODULE PeerConn ------------------------------
(***************************************************************************)
(* One connection between two nodes (node/peer.rs, node/message.rs): the   *)
(* handshake of create_peer, the bounded queue of outgoing messages, the   *)
(* reader, writer and pinger task of each end, requests that wait for the  *)
(* response with their id, and the end of the connection.                  *)
(*                                                                         *)
(* A message is taken to be on the wire until the other end has read all   *)
(* of it, so a writer has one message under way.  The queue of a tokio     *)
(* channel with its waiting senders is one sequence: those beyond QueueCap *)
(* wait for a place, first come first served.                              *)
(***************************************************************************)
EXTENDS Naturals, Sequences

CONSTANTS
  End,              \* the two ends
  Tasks,            \* how many other tasks of an end call request()
  pinger,           \* pinger_task
  QueueCap,         \* capacity of the channel of outgoing messages
  PreviousRelease,  \* ends that answer Connect and send none (external)
  NoMsg

ASSUME PeerConnAssumption ==
  /\ \E e, f \in End : e # f /\ End = {e, f}
  /\ Tasks \in Nat /\ pinger \notin Nat
  /\ QueueCap \in Nat \ {0}
  /\ PreviousRelease \subseteq End

VARIABLES
  phase,     \* [End -> "new", "ack", "open" or "closed"]
  sendq,     \* [End -> outgoing messages, and senders waiting for a place]
  wire,      \* [End -> the message it is sending]
  pending,   \* [End -> callers whose request was sent]
  reading,   \* [End -> the message that on_message is handling]
  result,    \* [Caller -> outcome of its call]
  handled    \* history: [Caller -> how often its request was handled]

vars == <<phase, sendq, wire, pending, reading, result, handled>>

\* Tasks are numbered in the order in which they call.
Task == 1..Tasks
Caller == End \X (Task \cup {pinger})
Pinger == End \X {pinger}
Other(e) == CHOOSE x \in End : x # e
Open(e) == phase[e] = "open"

\* Mutant: both ends number their messages in the same way.
IdPerEnd(c) == c[2]

\* Message::new draws a random 32 bit id: ids of calls are taken to differ.
Id(c) == c

Connect == [kind |-> "connect"]
Acknowledge == [kind |-> "ack"]
RequestOf(c) == [kind |-> "request", id |-> Id(c), call |-> c]

\* Mutant: a response gets an id of its own.
MakeResponseNewId(m) == [kind |-> "response", id |-> NoMsg, call |-> m.call]

\* Message::make_response keeps the id.
MakeResponse(m) == [kind |-> "response", id |-> m.id, call |-> m.call]

ASSUME NoMsgAssumption ==
  /\ NoMsg \notin {Connect, Acknowledge}
  /\ \A c \in Caller : NoMsg \notin {RequestOf(c), MakeResponse(RequestOf(c))}

Init ==
  /\ phase = [e \in End |-> IF e \in PreviousRelease THEN "open" ELSE "new"]
  /\ sendq = [e \in End |-> <<>>]
  /\ wire = [e \in End |-> NoMsg]
  /\ pending = [e \in End |-> {}]
  /\ reading = [e \in End |-> NoMsg]
  /\ result = [c \in Caller |-> "none"]
  /\ handled = [c \in Caller |-> 0]

-----------------------------------------------------------------------------
InQueue(c) == \E i \in DOMAIN sendq[c[1]] :
                LET m == sendq[c[1]][i] IN m.kind = "request" /\ m.call = c
Waiting(c) == InQueue(c) \/ c \in pending[c[1]]
Called(c) == result[c] # "none" \/ Waiting(c)

\* Senders that wait for a place in the queue, and messages they hold.
Outside(e) == {sendq[e][i] : i \in (QueueCap + 1)..Len(sendq[e])}
ReaderBlocked(e) == \E m \in Outside(e) : m.kind # "request"

\* Mutant: the pending requests outlive the tasks of the connection.
CloseKeepsPending(e) ==
  /\ phase' = [phase EXCEPT ![e] = "closed"]
  /\ sendq' = [sendq EXCEPT ![e] = <<>>]
  /\ reading' = [reading EXCEPT ![e] = NoMsg]
  /\ result' = [c \in Caller |-> IF c[1] = e /\ InQueue(c) THEN "failed" ELSE result[c]]
  /\ UNCHANGED pending

\* The select! of the connection ends: its tasks, queue and pending requests are
\* dropped, and every caller that waits gets an error.  What is on the wire may
\* still arrive.
Close(e) ==
  /\ phase' = [phase EXCEPT ![e] = "closed"]
  /\ sendq' = [sendq EXCEPT ![e] = <<>>]
  /\ pending' = [pending EXCEPT ![e] = {}]
  /\ reading' = [reading EXCEPT ![e] = NoMsg]
  /\ result' = [c \in Caller |-> IF c[1] = e /\ Waiting(c) THEN "failed" ELSE result[c]]

-----------------------------------------------------------------------------
(* create_peer: send Connect, then the first message decides.              *)

Greet(e) ==
  /\ phase[e] = "new"
  /\ phase' = [phase EXCEPT ![e] = "ack"]
  /\ wire' = [wire EXCEPT ![e] = Connect]
  /\ UNCHANGED <<sendq, pending, reading, result, handled>>

ReadAcknowledge(e) ==
  /\ phase[e] = "ack" /\ wire[Other(e)] # NoMsg
  /\ wire' = [wire EXCEPT ![Other(e)] = NoMsg]
  /\ phase' = [phase EXCEPT ![e] =
                 IF wire[Other(e)].kind = "ack" THEN "open" ELSE "closed"]
  /\ UNCHANGED <<sendq, pending, reading, result, handled>>

-----------------------------------------------------------------------------
(* PeerHandle::request.  A task calls it once, the pinger again and again. *)

Request(c) ==
  LET e == c[1] IN
  /\ Open(e) /\ ~Called(c)
  /\ sendq' = [sendq EXCEPT ![e] = Append(@, RequestOf(c))]
  /\ UNCHANGED <<phase, wire, pending, reading, result, handled>>

\* PEER_TIMEOUT passes before the request has a place in the queue: the peer is
\* killed.  The wait for the response has no limit.
RequestTimeout(c) ==
  /\ Open(c[1]) /\ RequestOf(c) \in Outside(c[1])
  /\ Close(c[1])
  /\ UNCHANGED <<wire, handled>>

\* The ping was answered, and PEER_PING_INTERVAL has passed.
PingAgain(c) ==
  /\ Open(c[1]) /\ result[c] = "answered"
  /\ result' = [result EXCEPT ![c] = "none"]
  /\ handled' = [handled EXCEPT ![c] = 0]
  /\ UNCHANGED <<phase, sendq, wire, pending, reading>>

-----------------------------------------------------------------------------
\* writer_task: a request is pending before it is sent.
WriterSend(e) ==
  LET m == Head(sendq[e]) IN
  /\ Open(e) /\ sendq[e] # <<>> /\ wire[e] = NoMsg
  /\ sendq' = [sendq EXCEPT ![e] = Tail(@)]
  /\ pending' = [pending EXCEPT ![e] =
                   IF m.kind = "request" THEN @ \cup {m.call} ELSE @]
  /\ wire' = [wire EXCEPT ![e] = m]
  /\ UNCHANGED <<phase, reading, result, handled>>

\* Writing to a connection that the other end has closed fails.
WriterFails(e) ==
  /\ Open(e) /\ wire[e] # NoMsg /\ phase[Other(e)] = "closed"
  /\ Close(e)
  /\ UNCHANGED <<wire, handled>>

\* The callers at e that a message with this id answers.
Requesters(e, m) == {c \in pending[e] : m.kind \in {"request", "response"} /\ Id(c) = m.id}

\* The reader takes the next message when the last response has its place.
ReaderReady(e) == Open(e) /\ reading[e] = NoMsg /\ ~ReaderBlocked(e)

\* reader_task: a message with a pending id is a response, any other one is given
\* to on_message.
ReaderRead(e) ==
  LET m == wire[Other(e)] IN
  /\ ReaderReady(e) /\ m # NoMsg
  /\ wire' = [wire EXCEPT ![Other(e)] = NoMsg]
  /\ \/ /\ Requesters(e, m) = {}
        /\ reading' = [reading EXCEPT ![e] = m]
        /\ UNCHANGED <<pending, result>>
     \/ \E c \in Requesters(e, m) :
          /\ pending' = [pending EXCEPT ![e] = @ \ {c}]
          /\ result' = [result EXCEPT ![c] = "answered"]
          /\ UNCHANGED reading
  /\ UNCHANGED <<phase, sendq, handled>>

\* on_message answers; a response that nobody waits for is an error.
OnMessage(e) ==
  LET m == reading[e] IN
  /\ m # NoMsg
  /\ \/ /\ m.kind = "connect"
        /\ sendq' = [sendq EXCEPT ![e] = Append(@, Acknowledge)]
        /\ reading' = [reading EXCEPT ![e] = NoMsg]
        /\ UNCHANGED <<phase, pending, result, handled>>
     \/ /\ m.kind = "request"
        /\ sendq' = [sendq EXCEPT ![e] = Append(@, MakeResponse(m))]
        /\ reading' = [reading EXCEPT ![e] = NoMsg]
        /\ handled' = [handled EXCEPT ![m.call] = @ + 1]
        /\ UNCHANGED <<phase, pending, result>>
     \/ m.kind \notin {"connect", "request"} /\ Close(e) /\ UNCHANGED handled
  /\ UNCHANGED wire

\* Mutant: the end of the stream is not noticed between two messages.
ReaderEofIgnored(e) ==
  /\ phase[e] = "ack" /\ phase[Other(e)] = "closed" /\ wire[Other(e)] = NoMsg
  /\ Close(e)
  /\ UNCHANGED <<wire, handled>>

\* The other end has closed, and all that it sent was read.
ReaderEof(e) ==
  /\ phase[e] = "ack" \/ ReaderReady(e)
  /\ phase[Other(e)] = "closed" /\ wire[Other(e)] = NoMsg
  /\ Close(e)
  /\ UNCHANGED <<wire, handled>>

\* PeerHandle::kill, by a synchronisation that failed for instance.
Kill(e) == Open(e) /\ Close(e) /\ UNCHANGED <<wire, handled>>

-----------------------------------------------------------------------------
ReaderStep(e) ==
  Greet(e) \/ ReadAcknowledge(e) \/ ReaderRead(e) \/ OnMessage(e) \/ ReaderEof(e)
WriterStep(e) == WriterSend(e) \/ WriterFails(e)
PingerStep(e) == Request(<<e, pinger>>) \/ PingAgain(<<e, pinger>>)
TimerStep(e) == \E t \in Task \cup {pinger} : RequestTimeout(<<e, t>>)
TaskStep(e) == \E t \in Task : /\ \A u \in 1..(t - 1) : Called(<<e, u>>)
                             /\ Request(<<e, t>>)

Next == \E e \in End :
  ReaderStep(e) \/ WriterStep(e) \/ PingerStep(e) \/ TimerStep(e) \/ TaskStep(e) \/ Kill(e)

\* A task that can move is polled, timers fire, handlers return.  Tasks other than
\* the pinger need not call, and nobody has to kill.
Fairness ==
  \A e \in End : /\ WF_vars(ReaderStep(e)) /\ WF_vars(WriterStep(e))
                 /\ WF_vars(PingerStep(e)) /\ WF_vars(TimerStep(e))

Spec == Init /\ [][Next]_vars
FairSpec == Spec /\ Fairness

-----------------------------------------------------------------------------
\* "Send a request message, and expect a response message from this peer": with the
\* calls read off the queue, the pending requests and the results, a connection
\* implements Calls: no call is lost, handled twice or answered unhandled.
Promise == INSTANCE Calls WITH
  call <- [c \in Caller |-> IF result[c] # "none" THEN result[c]
                            ELSE IF Waiting(c) THEN "waiting" ELSE "idle"]
PromiseKept == Promise!Spec

\* No response is ever taken for a request: its id is pending when it arrives,
\* so an honest peer is not disconnected for an "unhandled" response.
ResponsesExpected ==
  \A e \in End : reading[e] = NoMsg \/ reading[e].kind \in {"connect", "request"}

\* Both readers wait for a place in a full queue, both writers for the other
\* reader, no caller waits for a place who could give up, and both pings are under
\* way, so that no later ping can time out either.
Gridlock ==
  /\ \A c \in Pinger : Waiting(c)
  /\ \A e \in End : /\ ReaderBlocked(e) /\ wire[e] # NoMsg
                    /\ \A m \in Outside(e) : m.kind # "request"

\* Every call ends, answered or failed, unless both ends are stuck on each other.
CallsEnd ==
  /\ \A c \in Pinger : []<>(~Waiting(c) \/ Gridlock)
  /\ <>[]((\A c \in Caller \ Pinger : ~Waiting(c)) \/ Gridlock)

\* When one end of the connection is gone the other one ends as well.
BothEnd == <>[](\A e, f \in End : phase[e] = "closed" => phase[f] = "closed")

\* "To connect to other peers look into connect_peer(), to allow other peers to
\* connect to your node look into start_p2p_server()": a handshake in which nobody
\* is killed and no call interferes does not fail.
HandshakeSucceeds ==
  (\A c \in Caller : ~Called(c)) =>
    \A e \in End : phase[e] # "closed"
=============================================================================
