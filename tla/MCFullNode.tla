----------------------------- MODULE MCFullNode -----------------------------
(* Small instances of FullNode.  Letters stand for blocks; a chain is the   *)
(* sequence of its blocks.                                                  *)
EXTENDS FullNode, TLC

CONSTANTS p1, p2, api, s1, s2

\* Peers have the same chains to choose from, and synchronisations are alike.
Symmetry == Permutations({p1, p2}) \cup Permutations({s1, s2})

MCStart == <<"a", "b", "c", "d">>

\* One block ahead, and a fork within reach of the search.
Ahead == <<"a", "b", "c", "d", "e">>
Fork == <<"a", "b", "c", "g", "h", "i">>
ShortFork == <<"a", "b", "c", "g", "h">>

MCChains == {Ahead, Fork, ShortFork}
MCForkOnly == {Fork}

\* A peer may change to the longer branch, and lose a block.
MCMoves == {<<Ahead, Fork>>, <<Fork, ShortFork>>}
MCNone == {}
MCOneBlock == {Ahead}
=============================================================================
