------------------------------- MODULE MCIbd --------------------------------
(* An instance of Ibd: three blocks to download, one with a wrong hash.    *)
EXTENDS Ibd

MCStartChain == <<"g">>
\* The first peer: its chain, the same one block shorter, rolled back, forked.
MCRemoteChains == {<<"g", "a", "b", "c">>, <<"g", "a", "b">>, <<"g">>, <<"g", "a", "b", "c", "d">>,
                   <<"x", "y", "z", "w">>}
MCBadBlocks == {<<"g", "a", "b">>}
MCAcceptedBlocks == {<<"g", "a">>, <<"g", "k">>}
=============================================================================
