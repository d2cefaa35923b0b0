---------------------------- MODULE MutualUpgrade ----------------------------
(***************************************************************************)
(* The modifier mutualUpgrade(signerOne, signerTwo) of                     *)
(* src/contracts/lib/MutualUpgrade.sol.  The hash of call data and sender  *)
(* is the pair <<call, sender>>; hashes do not collide.                    *)
(***************************************************************************)
EXTENDS Naturals, FiniteSets

CONSTANTS
  Parties,             \* addresses that can be a signer
  MaxPendingUpgrades   \* bound: approvals registered and not consumed

ASSUME MaxPendingAssumption == MaxPendingUpgrades \in Nat

VARIABLE mutualUpgrades    \* the registered approvals

nonCaller(sender, one, two) == IF sender = one THEN two ELSE one

(* The other signer has not approved this call: the approval of the sender *)
(* is registered and the body of the function does not run.                *)
registersUpgrade(sender, one, two, call) ==
  /\ sender \in {one, two}
  /\ <<call, nonCaller(sender, one, two)>> \notin mutualUpgrades
  /\ mutualUpgrades' = mutualUpgrades \union {<<call, sender>>}
  /\ Cardinality(mutualUpgrades') <= MaxPendingUpgrades

(* The other signer has: its approval is deleted and the body runs.  When  *)
(* the body reverts, so does the deletion, and there is no step.           *)
executesUpgrade(sender, one, two, call) ==
  /\ sender \in {one, two}
  /\ <<call, nonCaller(sender, one, two)>> \in mutualUpgrades
  /\ mutualUpgrades' = mutualUpgrades \ {<<call, nonCaller(sender, one, two)>>}
=============================================================================
