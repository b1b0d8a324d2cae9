-------------------------------- MODULE Peers --------------------------------
(***************************************************************************)
(* The peers of a full node: the table connected_peers and the health      *)
(* scores (full_node/node_state.rs), the three tasks that open connections *)
(* (p2p_server.rs, auto_peer.rs and auto_reconnect.rs, all through         *)
(* create_peer of node/peer.rs), and on_kill (full_node/behavior.rs),      *)
(* which runs when a connection ends.                                      *)
(*                                                                         *)
(* A connection lives in a task of its own from the moment create_peer     *)
(* returns; the handle is put into the table later, by the task that       *)
(* opened it.  What is sent over a connection is left out.                 *)
(***************************************************************************)
EXTENDS Naturals, Sequences, FiniteSets

CONSTANTS
  Conn,           \* connections that exist at the same time: a bound
  NoConn,
  NodeAddr,       \* addresses of nodes, which connections are opened to
  ClientAddr,     \* addresses that incoming connections come from
  NoAddr,
  Seed,           \* resolved_peers[0]
  Own,            \* addresses that are this node's
  Ip,
  IpOf,           \* [NodeAddr \cup ClientAddr -> Ip]
  Target,         \* TARGET_PEERS
  Referrals,      \* lists of addresses that peers send
  Punishment,     \* PUNISHMENT
  Threshold,      \* BAN_SCORE_THRESHOLD
  Extra,          \* number of extra punishments
  U8              \* scores are numbers below this

Addr == NodeAddr \cup ClientAddr

ASSUME PeersAssumption ==
  /\ Seed \in NodeAddr /\ Own \subseteq NodeAddr
  /\ IpOf \in [Addr -> Ip]
  /\ {Target, Punishment, Threshold, Extra, U8} \subseteq Nat \ {0}
  /\ Referrals \subseteq Seq(NodeAddr)

Opener == {"server", "auto", "reconnect"}

VARIABLES
  conn,      \* [Conn -> the connection in this slot]
  table,     \* connected_peers: address -> connection
  scores,    \* client_health_scores: [Ip -> score], 0 where there is none
  opener     \* [Opener -> what the task is doing]

tableVars == <<conn, table, scores, opener>>

(* late: it was put into the table after on_kill looked for it there;       *)
(* shared: there was another connection to this address at the time, or a   *)
(* handle of one that was still to be put into the table.                   *)
Closed == [pc |-> "closed", addr |-> NoAddr, client |-> FALSE, inserted |-> FALSE,
           late |-> FALSE, shared |-> FALSE]
Resting == [pc |-> "idle", addr |-> NoAddr, conn |-> NoConn, list |-> <<>>]

TableInit ==
  /\ conn = [c \in Conn |-> Closed]
  /\ table = <<>>
  /\ scores = [i \in Ip |-> 0]
  /\ opener = [t \in Opener |-> Resting]

At(t, pc) == opener[t].pc = pc
Become(t, o) == opener' = [opener EXCEPT ![t] = o]

Listed(c) == \E a \in DOMAIN table : table[a] = c
Held(c) == \E t \in Opener : opener[t].conn = c
Pending(c) == \E t \in Opener : At(t, "insert") /\ opener[t].conn = c
Banned(i) == scores[i] > Threshold
OutgoingPeers == {a \in DOMAIN table : ~ conn[table[a]].client}

-----------------------------------------------------------------------------
(* Opening a connection: connect and shake hands, then insert the handle.   *)

(* What the task goes on with, whether it got the connection or not.       *)
Continue(t) == IF t = "auto" THEN [opener[t] EXCEPT !.pc = "try", !.addr = NoAddr, !.conn = NoConn]
               ELSE Resting

(* create_peer *)
CreatePeer(t, c) ==
  LET a == opener[t].addr
      same == {d \in Conn : conn[d].addr = a /\ (conn[d].pc # "closed" \/ Pending(d))}
      opened == [Closed EXCEPT !.pc = "open", !.addr = a, !.client = (t = "server"),
                               !.shared = (same # {})]
  IN
  /\ At(t, "connect")
  /\ conn[c].pc = "closed" /\ ~ Listed(c) /\ ~ Held(c)
  /\ conn' = [d \in Conn |-> IF d = c THEN opened
                             ELSE IF d \in same THEN [conn[d] EXCEPT !.shared = TRUE]
                             ELSE conn[d]]
  /\ Become(t, [opener[t] EXCEPT !.pc = "insert", !.conn = c])
  /\ UNCHANGED <<table, scores>>

ConnectFails(t) ==
  /\ At(t, "connect")
  /\ Become(t, Continue(t))
  /\ UNCHANGED <<conn, table, scores>>

InsertPeer(t) ==
  LET c == opener[t].conn
      a == opener[t].addr
  IN
  /\ At(t, "insert")
  /\ table' = [b \in DOMAIN table \cup {a} |-> IF b = a THEN c ELSE table[b]]
  /\ conn' = [conn EXCEPT ![c].inserted = TRUE,
                          ![c].late = conn[c].pc \notin {"open", "dying"}]
  /\ Become(t, Continue(t))
  /\ UNCHANGED scores

-----------------------------------------------------------------------------
(* p2p_server: an address is only let in when it is not banned, or when the *)
(* connection could not be shut down.  Ports of clients are not reused while *)
(* a connection has them.                                                   *)

FreshPort(a) ==
  /\ a \notin DOMAIN table
  /\ \A c \in Conn : conn[c].addr = a => conn[c].pc = "closed"
  /\ \A t \in Opener : opener[t].addr # a

AcceptIncoming(a) ==
  /\ At("server", "idle")
  /\ FreshPort(a)
  /\ ~ Banned(IpOf[a])
  /\ Become("server", [Resting EXCEPT !.pc = "connect", !.addr = a])
  /\ UNCHANGED <<conn, table, scores>>

ShutdownFails(a) ==
  /\ At("server", "idle")
  /\ FreshPort(a)
  /\ Banned(IpOf[a])
  /\ Become("server", [Resting EXCEPT !.pc = "connect", !.addr = a])
  /\ UNCHANGED <<conn, table, scores>>

-----------------------------------------------------------------------------
(* auto_peer: ask a peer for addresses, and try them one after the other,  *)
(* each for a limited time.                                                *)

ChoosePeer(c) ==
  /\ At("auto", "idle")
  /\ Cardinality(OutgoingPeers) < Target
  /\ Listed(c)
  /\ Become("auto", [Resting EXCEPT !.pc = "ask", !.conn = c])
  /\ UNCHANGED <<conn, table, scores>>

\* Mutant: every referral is tried.
GetReferralsAll ==
  /\ At("auto", "ask")
  /\ \/ /\ conn[opener["auto"].conn].pc = "open"
        /\ \E l \in Referrals : Become("auto", [Resting EXCEPT !.pc = "try", !.list = l])
     \/ Become("auto", Resting)
  /\ UNCHANGED <<conn, table, scores>>

GetReferrals ==
  LET c == opener["auto"].conn IN
  /\ At("auto", "ask")
  /\ \/ /\ conn[c].pc = "open"
        /\ \E l \in Referrals : Become("auto", [Resting EXCEPT !.pc = "try",
             !.list = SubSeq(l, 1, IF Len(l) < Target THEN Len(l) ELSE Target)])
     \/ Become("auto", Resting)
  /\ UNCHANGED <<conn, table, scores>>

TryConnect ==
  LET list == opener["auto"].list IN
  /\ At("auto", "try")
  /\ \/ /\ list = <<>>
        /\ Become("auto", Resting)
     \/ /\ list # <<>>
        /\ Head(list) \in Own \cup DOMAIN table
        /\ Become("auto", [opener["auto"] EXCEPT !.list = Tail(@)])
     \/ /\ list # <<>>
        /\ Head(list) \notin Own \cup DOMAIN table
        /\ Become("auto", [Resting EXCEPT !.pc = "connect", !.addr = Head(list),
                                          !.list = Tail(list)])
  /\ UNCHANGED <<conn, table, scores>>

(* The time is over after the connection was made: nobody inserts it.      *)
ConnectTimeout ==
  /\ At("auto", "insert")
  /\ Become("auto", Continue("auto"))
  /\ UNCHANGED <<conn, table, scores>>

-----------------------------------------------------------------------------
(* auto_reconnect: back to the seed when the table is empty.               *)

CheckPeers ==
  /\ At("reconnect", "idle")
  /\ DOMAIN table = {}
  /\ Become("reconnect", [Resting EXCEPT !.pc = "connect", !.addr = Seed])
  /\ UNCHANGED <<conn, table, scores>>

-----------------------------------------------------------------------------
(* The end of a connection, and on_kill.                                   *)

Die(c) ==
  /\ conn[c].pc = "open"
  /\ conn' = [conn EXCEPT ![c].pc = "dying"]
  /\ UNCHANGED <<table, scores, opener>>

(* The score of an address after n more punishments: a u8.                 *)
PunishIp(score, n) == (score + n * Punishment) % U8

\* Mutant: everything listed under the IP is removed.
OnKillByIp(c) ==
  LET i == IpOf[conn[c].addr] IN
  /\ conn[c].pc = "dying"
  /\ table' = [a \in {b \in DOMAIN table : IpOf[b] # i} |-> table[a]]
  /\ scores' = [scores EXCEPT ![i] = PunishIp(@, 1)]
  /\ conn' = [conn EXCEPT ![c] = IF Held(c) THEN [@ EXCEPT !.pc = "closed"] ELSE Closed]
  /\ UNCHANGED opener

(* Remove what is listed under the address, punish its IP, and punish it    *)
(* again when that got it banned.  One step: the table and the scores have  *)
(* locks of their own, and nothing reads both.                              *)
OnKill(c) ==
  LET i == IpOf[conn[c].addr]
      once == PunishIp(scores[i], 1)
  IN
  /\ conn[c].pc = "dying"
  /\ table' = [a \in DOMAIN table \ {conn[c].addr} |-> table[a]]
  /\ scores' = [scores EXCEPT ![i] = IF once > Threshold THEN PunishIp(once, Extra) ELSE once]
  /\ conn' = [conn EXCEPT ![c] = IF Held(c) THEN [@ EXCEPT !.pc = "closed"] ELSE Closed]
  /\ UNCHANGED opener

(* decrement_punishments, every minute *)
Forgive ==
  /\ \E i \in Ip : scores[i] > 0
  /\ scores' = [i \in Ip |-> IF scores[i] < Punishment THEN 0 ELSE scores[i] - Punishment]
  /\ UNCHANGED <<conn, table, opener>>

-----------------------------------------------------------------------------
TableNext ==
  \/ \E t \in Opener : (\E c \in Conn : CreatePeer(t, c)) \/ ConnectFails(t) \/ InsertPeer(t)
  \/ \E a \in ClientAddr : AcceptIncoming(a) \/ ShutdownFails(a)
  \/ \E c \in Conn : ChoosePeer(c) \/ Die(c) \/ OnKill(c)
  \/ GetReferrals \/ TryConnect \/ ConnectTimeout
  \/ CheckPeers \/ Forgive

TableSpec == TableInit /\ [][TableNext]_tableVars

-----------------------------------------------------------------------------
(* Properties                                                              *)

(* connected_peers is the table of the connections: one that was inserted is *)
(* listed under its address while it lives, unless there was another one     *)
(* to this address; one that is listed lives, or its on_kill will remove   *)
(* it, unless it ended before connect_peer came to insert it.               *)
TableExact ==
  /\ \A c \in Conn : conn[c].pc = "open" /\ conn[c].inserted /\ ~ conn[c].shared
       => conn[c].addr \in DOMAIN table /\ table[conn[c].addr] = c
  /\ \A a \in DOMAIN table : conn[table[a]].pc \in {"open", "dying"} \/ conn[table[a]].late

(* auto_peer counts once and then tries as many addresses as it aims at,     *)
(* while auto_reconnect may be about to insert the seed: there are never     *)
(* more outgoing peers than twice TARGET_PEERS.                             *)
OutgoingBounded == Cardinality(OutgoingPeers) <= 2 * Target
=============================================================================
