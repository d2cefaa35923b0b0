--------------------------- MODULE MutualUpgradeV2 ---------------------------
(***************************************************************************)
(* The modifier mutualUpgrade(signerOne, signerTwo) of                     *)
(* src/contracts/lib/MutualUpgradeV2.sol, on the approvals of one          *)
(* contract: the hash of call data and sender is the pair <<call, sender>>.*)
(*                                                                         *)
(* When the signers are the same address, the body runs at once; but the   *)
(* modifier then goes on, and registers the caller's approval as well, or  *)
(* deletes it and runs the body again, if an earlier call left it behind.  *)
(***************************************************************************)

nonCaller(sender, one, two) == IF sender = one THEN two ELSE one

isSigner(sender, one, two) == sender \in {one, two}

runsBody(approvals, sender, one, two, call) ==
  one = two \/ <<call, nonCaller(sender, one, two)>> \in approvals

(* Mutant: call and sender the wrong way round.                            *)
approvalsAfterSwapped(approvals, sender, one, two, call) ==
  LET expected == <<call, nonCaller(sender, one, two)>>
  IN  IF expected \in approvals THEN approvals \ {expected}
                                ELSE approvals \union {<<sender, call>>}
approvalsAfter(approvals, sender, one, two, call) ==
  LET expected == <<call, nonCaller(sender, one, two)>>
  IN  IF expected \in approvals THEN approvals \ {expected}
                                ELSE approvals \union {<<call, sender>>}
=============================================================================
