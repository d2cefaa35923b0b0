-------------------------- MODULE MCMerkleDistributor --------------------------
(***************************************************************************)
(* The instance of MerkleDistributor that TLC checks: lists of one to six  *)
(* addresses, in any order of their hashes, some of them spelling the same *)
(* account, and lists that are refused.                                    *)
(***************************************************************************)
EXTENDS MerkleDistributor, TLC

CONSTANTS x, y, z, w

MCAccounts == {x, y, z, w}
MCAccountOf == 1 :> x @@ 2 :> y @@ 3 :> z @@ 4 :> x @@ 5 :> w @@ 6 :> z

MCEntry(a, n) == [address |-> a, earnings |-> n]

MCLists ==
  {<<>>,
   <<MCEntry(1, 2)>>,
   <<MCEntry(2, 1), MCEntry(1, 2), MCEntry(2, 2)>>,
   <<MCEntry(1, 1), MCEntry(2, 0)>>,
   <<MCEntry(3, 1), MCEntry(1, 2), MCEntry(2, 1)>>,
   <<MCEntry(4, 1), MCEntry(2, 2), MCEntry(1, 1), MCEntry(3, 2)>>,
   <<MCEntry(5, 2), MCEntry(1, 1), MCEntry(2, 1), MCEntry(3, 2), MCEntry(4, 1)>>,
   <<MCEntry(6, 1), MCEntry(5, 2), MCEntry(1, 1), MCEntry(2, 2), MCEntry(3, 2), MCEntry(4, 1)>>}
===============================================================================
