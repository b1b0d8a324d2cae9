---------------------------- MODULE MCLightNode ----------------------------
(* g is followed by b1, which pays alice twice.  b2 spends one of these coins *)
(* and pays bob.  No two transactions of a block concern one address.         *)
EXTENDS LightNode, TLC

CONSTANTS g, b1, b2, alice, bob, other, r1, r2, s1

Pay(id, ins, outs) == [id |-> id, ins |-> ins, outs |-> outs]
Coin(a, t, i) == [owner |-> a, coin |-> <<t, i>>]

MCBlocks == {g, b1, b2}
MCPrevious == g :> ZeroHash @@ b1 :> g @@ b2 :> b1
MCTxsOf ==
  g :> <<Pay("t0", <<>>, <<other>>)>>
  @@ b1 :> <<Pay("t1", <<>>, <<alice, alice>>)>>
  @@ b2 :> <<Pay("r2", <<>>, <<other>>), Pay("t2", <<Coin(alice, "t1", 1)>>, <<bob>>)>>
MCChains == {<<g, b1>>, <<g, b1, b2>>}

ASSUME MCSimpleBlocks == SimpleBlocks
=============================================================================
