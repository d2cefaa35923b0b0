--------------------------- MODULE MCBaseManagerV2 ---------------------------
(***************************************************************************)
(* The instance of BaseManagerV2 that TLC checks: two modules, an          *)
(* extension of this manager and one of another manager, two parties.      *)
(***************************************************************************)
EXTENDS BaseManagerV2, TLC

CONSTANTS e1, e2

(* _extensions: none but the own extension, the same one twice, the other. *)
MCTwoLists == {OneExtension(e2), [e \in Extensions |-> IF e = e1 THEN 2 ELSE 0]}

MCLists == {OneExtension(e1), OneExtension(e2),
            [e \in Extensions |-> IF e = e1 THEN 2 ELSE 0]}

(* Modules, like parties, are interchangeable in both instances.           *)
MCSymmetry == Permutations(Modules) \union Permutations(Parties)
=============================================================================
