--------------------- MODULE MCOptimisticAuctionRebalance ---------------------
(***************************************************************************)
(* The instance of OptimisticAuctionRebalance that TLC checks: terms h1    *)
(* add an asset to the first arrangement of components, h2 only reweighs   *)
(* the second.                                                             *)
(***************************************************************************)
EXTENDS OptimisticAuctionRebalance, TLC

CONSTANTS h1, h2, c1

MCHashes == {h1, h2}
MCOld == h1 :> "before" @@ h2 :> "after"
MCNew == h1 :> {c1} @@ h2 :> {}
MCSymmetry == Permutations(Assertions) \union Permutations(Oracles)
=============================================================================
