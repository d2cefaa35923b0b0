---------------------------- MODULE ChallengePeriod ----------------------------
(***************************************************************************)
(* What OptimisticAuctionRebalanceExtensionV1 promises to the holders of a *)
(* SetToken: anyone may propose a rebalance while proposals are taken, a   *)
(* rebalance that starts stood unchallenged for a whole challenge period,  *)
(* and each opening by the operator lets one rebalance through.            *)
(***************************************************************************)
CONSTANT Assertions        \* one per proposal made

VARIABLES stage, open

Stages == {"unused", "pending", "approved", "rejected", "withdrawn", "executed"}

moves(a, from, to) == /\ stage[a] \in from
                      /\ stage' = [stage EXCEPT ![a] = to]

Propose(a) == open /\ moves(a, {"unused"}, "pending") /\ UNCHANGED open
Stand(a) == moves(a, {"pending"}, "approved") /\ UNCHANGED open
Challenge(a) == moves(a, {"pending", "withdrawn"}, "rejected") /\ UNCHANGED open
Withdraw(a) == moves(a, {"pending", "approved"}, "withdrawn") /\ UNCHANGED open
Execute(a) == open /\ moves(a, {"approved"}, "executed") /\ open' = FALSE
SetOpen == open' \in BOOLEAN /\ UNCHANGED stage

Init == stage = [a \in Assertions |-> "unused"] /\ open = FALSE
Next == \/ SetOpen
        \/ \E a \in Assertions :
             Propose(a) \/ Stand(a) \/ Challenge(a) \/ Withdraw(a) \/ Execute(a)
Spec == Init /\ [][Next]_<<stage, open>>
=============================================================================
