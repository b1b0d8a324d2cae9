---------------------------- MODULE MCBlockchain ----------------------------
(***************************************************************************)
(* Instances of Blockchain.  The first two blocks mint 100 coins, the next *)
(* two 50.  t1 and t2 spend the same output; t3 spends both outputs of t1, *)
(* of two owners.  The others break one rule each.                         *)
(***************************************************************************)
EXTENDS Blockchain

Pay(amount, receiver) == [amount |-> amount, receiver |-> receiver]
By(t, i, key) == [out |-> <<t, i>>, owner |-> key, signature |-> key]
Reward(dev, rest, ts) ==
  [ins |-> <<>>, outs |-> <<Pay(rest, "A"), Pay(dev, "D")>>, ts |-> ts, pow |-> 0]
Transfer(ins, outs, ts, pow) ==
  [ins |-> ins, outs |-> outs, ts |-> ts, pow |-> pow]

MCTxData ==
  [r0 |-> Reward(2, 98, 100), r1 |-> Reward(2, 98, 150), r2 |-> Reward(1, 49, 150),
   greedy |-> Reward(3, 99, 150), nofee |-> Reward(3, 97, 150),
   t1 |-> Transfer(<<By("r0", 1, "A")>>, <<Pay(60, "B"), Pay(38, "A")>>, 100, 10),
   t2 |-> Transfer(<<By("r0", 1, "A")>>, <<Pay(98, "B")>>, 150, 230),
   t3 |-> Transfer(<<By("t1", 1, "B"), By("t1", 2, "A")>>, <<Pay(98, "A")>>, 150, 10),
   stolen |-> Transfer(<<[By("r0", 1, "A") EXCEPT !.signature = "B"]>>,
                       <<Pay(98, "B")>>, 100, 10),
   twice |-> Transfer(<<By("r0", 1, "A"), By("r0", 1, "A")>>,
                      <<Pay(196, "B")>>, 100, 10),
   minted |-> Transfer(<<By("r0", 1, "A")>>, <<Pay(99, "B")>>, 100, 10)]

MCTx == DOMAIN MCTxData

MCTxLists ==
  {<<>>, <<"r0">>, <<"r1">>, <<"r2">>, <<"r0", "r1">>, <<"greedy">>, <<"nofee">>,
   <<"t1">>, <<"t2">>, <<"t3">>, <<"t1", "t2">>, <<"t1", "t3">>, <<"t1", "r1">>,
   <<"r1", "t2">>, <<"t3", "r2">>, <<"r1", "t1", "t3">>,
   <<"stolen">>, <<"twice">>, <<"minted">>}

\* Lists with which two blocks can hold the same reward transaction.
RepeatLists ==
  {<<"r0">>, <<"r1">>, <<"r2">>, <<"r2", "t1">>, <<"t2", "r0">>, <<"t3">>}
=============================================================================
