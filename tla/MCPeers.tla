------------------------------ MODULE MCPeers ------------------------------
(* Four nodes, one of them this one, and a client behind the same IP: a      *)
(* second kill bans it, a third wraps the score.                            *)
EXTENDS Peers, TLC

CONSTANTS seed, n1, n2, own, client, i1, c1, c2, c3

MCIpOf == seed :> i1 @@ n1 :> i1 @@ n2 :> i1 @@ own :> i1 @@ client :> i1
MCReferrals == {<<n1, n2>>, <<n2, n1>>, <<seed>>, <<own>>}
AnyConn == Permutations(Conn)
=============================================================================
