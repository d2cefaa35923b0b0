-------------------------- MODULE MCFeeSplitExtension --------------------------
(***************************************************************************)
(* The instance of FeeSplitExtension that TLC checks.                      *)
(***************************************************************************)
EXTENDS FeeSplitExtension, TLC

MCSymmetry == Permutations(Parties)
MCLockedCalls == FeeKinds \X Fees
=============================================================================
