--------------------------- MODULE MCStakingRewards ---------------------------
(***************************************************************************)
(* The instance of StakingRewards that TLC checks.                         *)
(***************************************************************************)
EXTENDS StakingRewards, TLC

MCSymmetry == Permutations(Stakers)
=============================================================================
