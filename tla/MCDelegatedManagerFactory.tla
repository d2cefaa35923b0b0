---------------------- MODULE MCDelegatedManagerFactory ----------------------
(***************************************************************************)
(* The instances of DelegatedManagerFactory that TLC checks.               *)
(***************************************************************************)
EXTENDS DelegatedManagerFactory, TLC

(* Nothing distinguishes one manager's address, or one account, from another. *)
MCSymmetry == Permutations(Managers) \union Permutations(Parties)
=============================================================================
