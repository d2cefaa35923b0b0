------------------- MODULE OptimisticAuctionRebalance_proofs -------------------
(***************************************************************************)
(* Theorems about OptimisticAuctionRebalance, for every set of terms,      *)
(* assertions, oracles, assets and arrangements of components.             *)
(***************************************************************************)
EXTENDS OptimisticAuctionRebalance, TLAPS

-----------------------------------------------------------------------------
(* The inductive invariant                                                 *)

(* Only what was asserted and not disputed is pending, and only until it   *)
(* is executed.                                                            *)
PendingAreUndisputed ==
  \A a \in Assertions : isPending(a) =>
    /\ assertions[a].stage # "none" /\ ~ assertions[a].disputed
    /\ a \notin executed

(* What the oracles guarantee: an assertion has an oracle once it is made, *)
(* does not expire disputed, and settles as true unless it was disputed.   *)
OraclesAreSound ==
  \A a \in Assertions :
    /\ assertions[a].stage # "none" => assertions[a].oracle \in Oracles
    /\ assertions[a].stage \in {"none", "expired"} => ~ assertions[a].disputed
    /\ assertions[a].stage = "settled" /\ ~ assertions[a].disputed
         => assertions[a].settlementResolution

IInv == /\ TypeOK
        /\ MappingsAgree
        /\ PendingAreUndisputed
        /\ OraclesAreSound
        /\ ExecutedAreTrue

(* deleteProposal keeps the mappings inverse, ends a's proposal and leaves *)
(* the others.                                                             *)
LEMMA DeleteProposal ==
  ASSUME TypeOK, MappingsAgree, NEW a \in Assertions, deleteProposal(a)
  PROVE  /\ assertionIds' \in [ProposalHashes -> Assertions \union {NoAssertion}]
         /\ assertionIdToProposalHash' \in [Assertions -> ProposalHashes \union {NoProposal}]
         /\ MappingsAgree'
         /\ assertionIdToProposalHash'[a] = NoProposal
         /\ \A b \in Assertions \ {a} :
              assertionIdToProposalHash'[b] = assertionIdToProposalHash[b]
<1>. USE NobodyAssumption DEF TypeOK, deleteProposal
<1>1. /\ assertionIds' \in [ProposalHashes -> Assertions \union {NoAssertion}]
      /\ assertionIdToProposalHash' \in [Assertions -> ProposalHashes \union {NoProposal}]
  OBVIOUS
<1>2. /\ assertionIdToProposalHash'[a] = NoProposal
      /\ \A b \in Assertions \ {a} :
           assertionIdToProposalHash'[b] = assertionIdToProposalHash[b]
  OBVIOUS
<1>3. ASSUME NEW h \in ProposalHashes, NEW b \in Assertions
      PROVE  assertionIds'[h] = b <=> assertionIdToProposalHash'[b] = h
  <2>1. assertionIds[h] = b <=> assertionIdToProposalHash[b] = h
    BY DEF MappingsAgree
  <2>2. assertionIds[h] = a <=> assertionIdToProposalHash[a] = h
    BY DEF MappingsAgree
  <2>3. CASE h = assertionIdToProposalHash[a]
    BY <1>2, <2>1, <2>2, <2>3
  <2>4. CASE h # assertionIdToProposalHash[a]
    <3>1. assertionIds'[h] = assertionIds[h] /\ assertionIds[h] # a
      BY <2>2, <2>4
    <3>. QED
      BY <3>1, <2>1, <1>2, <2>4
  <2>. QED
    BY <2>3, <2>4
<1>. QED
  BY <1>1, <1>2, <1>3 DEF MappingsAgree

(* Settling makes a sound assertion of an undisputed one.                  *)
LEMMA Settle ==
  ASSUME TypeOK, OraclesAreSound, NEW a \in Assertions,
         settle(a) \/ (assertions[a].stage = "settled" /\ UNCHANGED assertions)
  PROVE  /\ assertions' \in [Assertions -> AssertionState]
         /\ OraclesAreSound'
         /\ assertions'[a].stage = "settled"
         /\ \A b \in Assertions : /\ assertions'[b].disputed = assertions[b].disputed
                                  /\ assertions[b].stage # "none"
                                       => assertions'[b].stage # "none"
         /\ \A b \in Assertions : assertions[b].stage = "settled"
                                       => assertions'[b] = assertions[b]
<1>. USE DEF TypeOK
<1>1. CASE assertions[a].stage = "settled" /\ UNCHANGED assertions
  BY <1>1 DEF OraclesAreSound
<1>2. CASE settle(a)
  <2>1. PICK r \in BOOLEAN :
          /\ assertions' = [assertions EXCEPT ![a].stage = "settled",
                                              ![a].settlementResolution = r]
          /\ assertions[a].stage # "none" /\ assertions[a].stage # "settled"
          /\ ~ assertions[a].disputed => r = TRUE
    BY <1>2 DEF settle, OraclesAreSound
  <2>2. assertions[a] \in AssertionState
    OBVIOUS
  <2>3. assertions'[a] = [assertions[a] EXCEPT !.stage = "settled",
                                               !.settlementResolution = r]
    BY <2>1
  <2>4. \A b \in Assertions \ {a} : assertions'[b] = assertions[b]
    BY <2>1
  <2>5. assertions'[a] \in AssertionState /\ assertions'[a].oracle = assertions[a].oracle
        /\ assertions'[a].stage = "settled" /\ assertions'[a].settlementResolution = r
        /\ assertions'[a].disputed = assertions[a].disputed
    BY <2>2, <2>3 DEF AssertionState
  <2>6. assertions' \in [Assertions -> AssertionState]
    BY <2>1, <2>4, <2>5
  <2>7. OraclesAreSound'
    BY <2>1, <2>4, <2>5 DEF OraclesAreSound
  <2>. QED
    BY <2>1, <2>4, <2>5, <2>6, <2>7
<1>. QED
  BY <1>1, <1>2

-----------------------------------------------------------------------------
(* Invariance                                                              *)

LEMMA InitIInv == Init => IInv
<1>. SUFFICES ASSUME Init PROVE IInv
  OBVIOUS
<1>1. NotAsserted \in AssertionState
  BY DEF NotAsserted, AssertionState
<1>2. TypeOK
  BY <1>1 DEF Init, TypeOK
<1>3. MappingsAgree
  BY NobodyAssumption DEF Init, MappingsAgree
<1>4. PendingAreUndisputed /\ ExecutedAreTrue
  BY DEF Init, PendingAreUndisputed, ExecutedAreTrue, isPending
<1>5. OraclesAreSound
  BY DEF Init, OraclesAreSound, NotAsserted
<1>. QED
  BY <1>2, <1>3, <1>4, <1>5 DEF IInv

LEMMA ProposeIInv ==
  ASSUME IInv, NEW h \in ProposalHashes, NEW a \in Assertions, proposeRebalance(h, a)
  PROVE  IInv'
<1>. USE DEF IInv, TypeOK
<1>1. /\ assertionIds[h] = NoAssertion /\ optimisticOracleV3 \in Oracles
      /\ assertions[a] = NotAsserted
      /\ assertions' = [assertions EXCEPT ![a] =
           [NotAsserted EXCEPT !.oracle = optimisticOracleV3, !.stage = "asserted"]]
      /\ assertionIds' = [assertionIds EXCEPT ![h] = a]
      /\ assertionIdToProposalHash' = [assertionIdToProposalHash EXCEPT ![a] = h]
      /\ UNCHANGED <<settingVars, isOpen, allowVars, components, executed>>
  BY DEF proposeRebalance
<1>2. assertionIdToProposalHash[a] = NoProposal
  BY <1>1 DEF PendingAreUndisputed, isPending, NotAsserted
<1>3. a \notin executed
  BY <1>1 DEF ExecutedAreTrue, NotAsserted
<1>4. /\ assertions'[a].oracle \in Oracles /\ assertions'[a].stage = "asserted"
      /\ assertions'[a].disputed = FALSE
      /\ assertions' \in [Assertions -> AssertionState]
      /\ \A b \in Assertions \ {a} : assertions'[b] = assertions[b]
  BY <1>1 DEF NotAsserted, AssertionState
<1>5. TypeOK'
  BY <1>1, <1>4 DEF settingVars, allowVars
<1>6. MappingsAgree'
  <2>. SUFFICES ASSUME NEW g \in ProposalHashes, NEW b \in Assertions
                PROVE  assertionIds'[g] = b <=> assertionIdToProposalHash'[b] = g
    BY DEF MappingsAgree
  <2>1. /\ assertionIds[g] = b <=> assertionIdToProposalHash[b] = g
        /\ assertionIds[g] = a <=> assertionIdToProposalHash[a] = g
        /\ assertionIds[h] = b <=> assertionIdToProposalHash[b] = h
    BY DEF MappingsAgree
  <2>. QED
    BY <2>1, <1>1, <1>2, NobodyAssumption
<1>7. PendingAreUndisputed' /\ OraclesAreSound' /\ ExecutedAreTrue'
  BY <1>1, <1>3, <1>4 DEF PendingAreUndisputed, OraclesAreSound, ExecutedAreTrue, isPending
<1>. QED
  BY <1>5, <1>6, <1>7

LEMMA StartIInv ==
  ASSUME IInv, NEW h \in ProposalHashes, startRebalance(h)
  PROVE  IInv'
<1>. USE DEF IInv
<1>1. PICK a \in Assertions :
        /\ a = assertionIds[h]
        /\ deleteProposal(a)
        /\ settleAndGetAssertionResult(optimisticOracleV3, a)
        /\ isOpen' = FALSE
        /\ executed' = executed \union {a}
        /\ UNCHANGED <<settingVars, allowVars, components>>
  BY DEF startRebalance, TypeOK
<1>2. isPending(a)
  BY <1>1, NobodyAssumption DEF MappingsAgree, isPending
<1>3. settle(a) \/ (assertions[a].stage = "settled" /\ UNCHANGED assertions)
  BY <1>1 DEF settleAndGetAssertionResult
<1>4. TypeOK'
  BY <1>1, <1>3, DeleteProposal, Settle DEF TypeOK, settingVars, allowVars
<1>5. MappingsAgree'
  BY <1>1, DeleteProposal
<1>6. OraclesAreSound'
  BY <1>3, Settle
<1>7. PendingAreUndisputed'
  <2>. SUFFICES ASSUME NEW b \in Assertions, isPending(b)'
                PROVE  /\ assertions'[b].stage # "none" /\ ~ assertions'[b].disputed
                       /\ b \notin executed'
    BY DEF PendingAreUndisputed, isPending
  <2>1. b # a /\ isPending(b)
    BY <1>1, DeleteProposal DEF isPending
  <2>. QED
    BY <2>1, <1>1, <1>3, Settle DEF PendingAreUndisputed
<1>8. ExecutedAreTrue'
  <2>. SUFFICES ASSUME NEW b \in executed'
                PROVE  /\ assertions'[b].stage = "settled" /\ ~ assertions'[b].disputed
                       /\ assertions'[b].settlementResolution
    BY DEF ExecutedAreTrue
  <2>1. CASE b = a
    BY <2>1, <1>2, <1>3, <1>6, Settle DEF PendingAreUndisputed, OraclesAreSound
  <2>2. CASE b \in executed
    BY <2>2, <1>3, Settle DEF ExecutedAreTrue, TypeOK
  <2>. QED
    BY <1>1, <2>1, <2>2
<1>. QED
  BY <1>4, <1>5, <1>6, <1>7, <1>8

LEMMA DisputeIInv ==
  ASSUME IInv, NEW a \in Assertions, disputeAssertion(a)
  PROVE  IInv'
<1>. USE DEF IInv
<1>1. /\ assertions[a].stage = "asserted"
      /\ assertions' = [assertions EXCEPT ![a].disputed = TRUE]
      /\ deleteProposal(a)
      /\ UNCHANGED <<settingVars, isOpen, allowVars, components, executed>>
  BY DEF disputeAssertion
<1>2. /\ assertions'[a] = [assertions[a] EXCEPT !.disputed = TRUE]
      /\ assertions[a] \in AssertionState
      /\ \A b \in Assertions \ {a} : assertions'[b] = assertions[b]
  BY <1>1 DEF TypeOK
<1>3. /\ assertions'[a].oracle = assertions[a].oracle
      /\ assertions'[a].stage = "asserted" /\ assertions'[a].disputed
      /\ assertions'[a] \in AssertionState
  <2>1. assertions'[a].oracle = assertions[a].oracle /\ assertions'[a].stage = "asserted"
    BY <1>1, <1>2 DEF AssertionState
  <2>2. assertions'[a].disputed = TRUE
    BY <1>2 DEF AssertionState
  <2>3. assertions'[a] \in AssertionState
    BY <1>2 DEF AssertionState
  <2>. QED
    BY <2>1, <2>2, <2>3
<1>4. assertions' \in [Assertions -> AssertionState]
  BY <1>1, <1>2, <1>3 DEF TypeOK
<1>5. TypeOK'
  BY <1>1, <1>4, DeleteProposal DEF TypeOK, settingVars, allowVars
<1>6. MappingsAgree'
  BY <1>1, DeleteProposal
<1>7. OraclesAreSound'
  BY <1>1, <1>2, <1>3 DEF OraclesAreSound
<1>8. PendingAreUndisputed'
  BY <1>1, <1>2, DeleteProposal DEF PendingAreUndisputed, isPending
<1>9. ExecutedAreTrue'
  <2>1. a \notin executed
    BY <1>1 DEF ExecutedAreTrue
  <2>. QED
    BY <2>1, <1>1, <1>2 DEF ExecutedAreTrue, TypeOK
<1>. QED
  BY <1>5, <1>6, <1>7, <1>8, <1>9

LEMMA CallbackIInv ==
  ASSUME IInv, NEW a \in Assertions, assertionDisputedCallback(a)
  PROVE  IInv'
<1>. USE DEF IInv
<1>1. /\ deleteProposal(a)
      /\ UNCHANGED <<settingVars, isOpen, allowVars, components, assertions, executed>>
  BY DEF assertionDisputedCallback
<1>2. TypeOK'
  BY <1>1, DeleteProposal DEF TypeOK, settingVars, allowVars
<1>3. MappingsAgree'
  BY <1>1, DeleteProposal
<1>4. PendingAreUndisputed'
  BY <1>1, DeleteProposal DEF PendingAreUndisputed, isPending
<1>. QED
  BY <1>1, <1>2, <1>3, <1>4 DEF OraclesAreSound, ExecutedAreTrue

(* The oracle's own steps.                                                 *)
LEMMA OracleIInv ==
  ASSUME IInv, NEW a \in Assertions, livenessPasses(a) \/ settleAssertion(a)
  PROVE  IInv'
<1>. USE DEF IInv
<1>1. CASE settleAssertion(a)
  <2>1. settle(a)
        /\ UNCHANGED <<settingVars, proposalVars, isOpen, allowVars, components, executed>>
    BY <1>1 DEF settleAssertion
  <2>2. TypeOK' /\ OraclesAreSound'
    BY <2>1, Settle DEF TypeOK, settingVars, proposalVars, allowVars
  <2>3. PendingAreUndisputed' /\ MappingsAgree' /\ ExecutedAreTrue'
    BY <2>1, Settle
       DEF PendingAreUndisputed, MappingsAgree, ExecutedAreTrue, isPending, proposalVars, TypeOK
  <2>. QED
    BY <2>2, <2>3
<1>2. CASE livenessPasses(a)
  <2>1. /\ assertions[a].stage = "asserted" /\ ~ assertions[a].disputed
        /\ assertions' = [assertions EXCEPT ![a].stage = "expired"]
        /\ UNCHANGED <<settingVars, proposalVars, isOpen, allowVars, components, executed>>
    BY <1>2 DEF livenessPasses
  <2>2. /\ assertions'[a] = [assertions[a] EXCEPT !.stage = "expired"]
        /\ assertions[a] \in AssertionState
        /\ \A b \in Assertions \ {a} : assertions'[b] = assertions[b]
    BY <2>1 DEF TypeOK
  <2>3. /\ assertions'[a].oracle = assertions[a].oracle
        /\ assertions'[a].stage = "expired" /\ ~ assertions'[a].disputed
        /\ assertions'[a] \in AssertionState
    BY <2>1, <2>2 DEF AssertionState
  <2>4. TypeOK'
    BY <2>1, <2>2, <2>3 DEF TypeOK, settingVars, proposalVars, allowVars
  <2>5. OraclesAreSound' /\ PendingAreUndisputed' /\ MappingsAgree'
    BY <2>1, <2>2, <2>3
       DEF OraclesAreSound, PendingAreUndisputed, MappingsAgree, isPending, proposalVars
  <2>6. ExecutedAreTrue'
    BY <2>1, <2>2 DEF ExecutedAreTrue, TypeOK
  <2>. QED
    BY <2>4, <2>5, <2>6
<1>. QED
  BY <1>1, <1>2

(* The operator and the SetToken do not touch proposals or assertions.     *)
LEMMA OtherIInv ==
  ASSUME IInv, operatorCalls \/ componentsChange \/ UNCHANGED vars
  PROVE  IInv'
<1>1. UNCHANGED <<proposalVars, assertions, executed>>
  BY DEF operatorCalls, setProductSettings, updateIsOpen, updateUseAssetAllowlist,
         addAllowedAssets, removeAllowedAssets, componentsChange, vars
<1>2. TypeOK'
  BY DEF IInv, TypeOK, operatorCalls, setProductSettings, updateIsOpen,
         updateUseAssetAllowlist, addAllowedAssets, removeAllowedAssets,
         componentsChange, vars, settingVars, proposalVars, allowVars
<1>. QED
  BY <1>1, <1>2
     DEF IInv, MappingsAgree, PendingAreUndisputed, OraclesAreSound, ExecutedAreTrue,
         isPending, proposalVars

LEMMA NextIInv == IInv /\ [Next]_vars => IInv'
  BY ProposeIInv, StartIInv, DisputeIInv, CallbackIInv, OracleIInv, OtherIInv DEF Next

(* The inductive invariant holds in every reachable state.                 *)
THEOREM Invariance == Spec => []IInv
  BY InitIInv, NextIInv, PTL DEF Spec

(* The state of the extension and of the oracles is well typed.            *)
THEOREM TypeCorrect == Spec => []TypeOK
<1>1. IInv => TypeOK
  BY DEF IInv
<1>. QED
  BY <1>1, Invariance, PTL

(* Proposal hashes and assertion ids map to each other, through every      *)
(* deletion and every proposal of the same terms again.                    *)
THEOREM MappingsStayInverse == Spec => []MappingsAgree
<1>1. IInv => MappingsAgree
  BY DEF IInv
<1>. QED
  BY <1>1, Invariance, PTL

(* Ignoring the oracle's answer in startRebalance is sound: it is true.    *)
THEOREM AnswerIsTrue == Spec => []ExecutedAreTrue
<1>1. IInv => ExecutedAreTrue
  BY DEF IInv
<1>. QED
  BY <1>1, Invariance, PTL

(* While an oracle is set, the callback of a dispute never reverts on a    *)
(* pending proposal.                                                       *)
THEOREM DisputesGoThrough == Spec => []PendingCanBeDisputed
<1>1. IInv => PendingCanBeDisputed
  BY DEF IInv, PendingCanBeDisputed, callbackAccepts, hasAssertion, isPending
<1>. QED
  BY <1>1, Invariance, PTL

-----------------------------------------------------------------------------
(* OptimisticAuctionRebalance implements ChallengePeriod                   *)

stages == [a \in Assertions |-> stageOf(a)]

(* A step that moves at most a's stage, seen from the promise.             *)
LEMMA OnlyMoves ==
  ASSUME NEW a \in Assertions,
         \A b \in Assertions \ {a} : stageOf(b)' = stageOf(b),
         NEW from, NEW to, stageOf(a) \in from, stageOf(a)' = to
  PROVE  Promise!moves(a, from, to)
<1>1. stages' = [stages EXCEPT ![a] = to]
  BY DEF stages
<1>2. stages[a] \in from
  BY DEF stages
<1>. QED
  BY <1>1, <1>2 DEF Promise!moves, stages

(* What a state means only depends on three things.                        *)
LEMMA SameStage ==
  ASSUME NEW b \in Assertions,
         (b \in executed)' <=> b \in executed,
         assertions'[b] = assertions[b],
         assertionIdToProposalHash'[b] = assertionIdToProposalHash[b]
  PROVE  stageOf(b)' = stageOf(b)
  BY DEF stageOf, isPending

LEMMA ProposeMoves ==
  ASSUME IInv, NEW h \in ProposalHashes, NEW a \in Assertions, proposeRebalance(h, a)
  PROVE  Promise!Propose(a)
<1>1. /\ isOpen /\ UNCHANGED <<isOpen, executed>>
      /\ assertions[a] = NotAsserted
      /\ assertions'[a].stage = "asserted" /\ assertions'[a].disputed = FALSE
      /\ assertionIdToProposalHash'[a] = h
      /\ \A b \in Assertions \ {a} :
           /\ assertions'[b] = assertions[b]
           /\ assertionIdToProposalHash'[b] = assertionIdToProposalHash[b]
  BY DEF proposeRebalance, IInv, TypeOK, NotAsserted
<1>2. a \notin executed
  BY <1>1 DEF IInv, ExecutedAreTrue, NotAsserted
<1>3. \A b \in Assertions \ {a} : stageOf(b)' = stageOf(b)
  BY <1>1, SameStage
<1>4. stageOf(a) = "unused"
  BY <1>1, <1>2 DEF stageOf, NotAsserted
<1>5. stageOf(a)' = "pending"
  BY <1>1, <1>2, NobodyAssumption DEF stageOf, isPending
<1>6. Promise!moves(a, {"unused"}, "pending")
  BY <1>3, <1>4, <1>5, OnlyMoves
<1>. QED
  BY <1>1, <1>6 DEF Promise!Propose

LEMMA StartMoves ==
  ASSUME IInv, NEW h \in ProposalHashes, startRebalance(h)
  PROVE  \E a \in Assertions : Promise!Execute(a)
<1>1. PICK a \in Assertions :
        /\ a = assertionIds[h]
        /\ isOpen /\ isOpen' = FALSE
        /\ deleteProposal(a)
        /\ settle(a) \/ (assertions[a].stage = "settled" /\ UNCHANGED assertions)
        /\ executed' = executed \union {a}
  BY DEF startRebalance, settleAndGetAssertionResult, IInv, TypeOK
<1>2. isPending(a)
  BY <1>1, NobodyAssumption DEF MappingsAgree, isPending, IInv
<1>3. assertions[a].stage \in {"expired", "settled"} /\ ~ assertions[a].disputed
      /\ a \notin executed
  BY <1>1, <1>2 DEF IInv, PendingAreUndisputed, settle
<1>4. stageOf(a) = "approved"
  BY <1>2, <1>3 DEF stageOf
<1>5. stageOf(a)' = "executed"
  BY <1>1 DEF stageOf
<1>6. \A b \in Assertions \ {a} : /\ assertions'[b] = assertions[b]
                                  /\ (b \in executed)' <=> b \in executed
  BY <1>1 DEF settle, IInv, TypeOK
<1>7. \A b \in Assertions \ {a} :
        assertionIdToProposalHash'[b] = assertionIdToProposalHash[b]
  BY <1>1, DeleteProposal DEF IInv
<1>8. \A b \in Assertions \ {a} : stageOf(b)' = stageOf(b)
  BY <1>6, <1>7, SameStage
<1>9. Promise!moves(a, {"approved"}, "executed")
  BY <1>4, <1>5, <1>8, OnlyMoves
<1>. QED
  BY <1>1, <1>9 DEF Promise!Execute

LEMMA DisputeMoves ==
  ASSUME IInv, NEW a \in Assertions, disputeAssertion(a)
  PROVE  Promise!Challenge(a)
<1>1. /\ assertions[a].stage = "asserted" /\ ~ assertions[a].disputed
      /\ assertions' = [assertions EXCEPT ![a].disputed = TRUE]
      /\ deleteProposal(a) /\ UNCHANGED <<isOpen, executed>>
  BY DEF disputeAssertion
<1>2. /\ assertions'[a] = [assertions[a] EXCEPT !.disputed = TRUE]
      /\ assertions[a] \in AssertionState
      /\ \A b \in Assertions \ {a} : assertions'[b] = assertions[b]
  BY <1>1 DEF IInv, TypeOK
<1>3. assertions'[a].disputed = TRUE
  BY <1>2 DEF AssertionState
<1>4. a \notin executed
  BY <1>1 DEF IInv, ExecutedAreTrue
<1>5. stageOf(a) \in {"pending", "withdrawn"}
  BY <1>1, <1>4 DEF stageOf
<1>6. stageOf(a)' = "rejected"
  BY <1>1, <1>3, <1>4 DEF stageOf
<1>7. \A b \in Assertions \ {a} : stageOf(b)' = stageOf(b)
  BY <1>1, <1>2, DeleteProposal, SameStage DEF IInv
<1>8. Promise!moves(a, {"pending", "withdrawn"}, "rejected")
  BY <1>5, <1>6, <1>7, OnlyMoves
<1>. QED
  BY <1>1, <1>8 DEF Promise!Challenge

LEMMA CallbackMoves ==
  ASSUME IInv, NEW a \in Assertions, assertionDisputedCallback(a)
  PROVE  Promise!Withdraw(a) \/ UNCHANGED <<stages, isOpen>>
<1>1. deleteProposal(a) /\ UNCHANGED <<isOpen, assertions, executed>>
  BY DEF assertionDisputedCallback
<1>2. \A b \in Assertions \ {a} : stageOf(b)' = stageOf(b)
  BY <1>1, DeleteProposal, SameStage DEF IInv
<1>3. CASE isPending(a)
  <2>1. stageOf(a) \in {"pending", "approved"}
    BY <1>3 DEF stageOf, IInv, PendingAreUndisputed
  <2>2. stageOf(a)' = "withdrawn"
    BY <1>1, <1>3, DeleteProposal DEF stageOf, IInv, PendingAreUndisputed, isPending
  <2>3. Promise!moves(a, {"pending", "approved"}, "withdrawn")
    BY <1>2, <2>1, <2>2, OnlyMoves
  <2>. QED
    BY <1>1, <2>3 DEF Promise!Withdraw
<1>4. CASE ~ isPending(a)
  <2>1. assertionIdToProposalHash'[a] = assertionIdToProposalHash[a]
    BY <1>1, <1>4, DeleteProposal DEF IInv, isPending
  <2>2. stageOf(a)' = stageOf(a)
    BY <1>1, <2>1, SameStage
  <2>. QED
    BY <1>1, <1>2, <2>2 DEF stages
<1>. QED
  BY <1>3, <1>4

LEMMA LivenessMoves ==
  ASSUME IInv, NEW a \in Assertions, livenessPasses(a)
  PROVE  Promise!Stand(a) \/ UNCHANGED <<stages, isOpen>>
<1>1. /\ assertions[a].stage = "asserted" /\ ~ assertions[a].disputed
      /\ assertions' = [assertions EXCEPT ![a].stage = "expired"]
      /\ UNCHANGED <<proposalVars, isOpen, executed>>
  BY DEF livenessPasses
<1>2. /\ assertions'[a] = [assertions[a] EXCEPT !.stage = "expired"]
      /\ assertions[a] \in AssertionState
      /\ \A b \in Assertions \ {a} : assertions'[b] = assertions[b]
  BY <1>1 DEF IInv, TypeOK
<1>3. assertions'[a].stage = "expired" /\ ~ assertions'[a].disputed
  BY <1>1, <1>2 DEF AssertionState
<1>4. a \notin executed
  BY <1>1 DEF IInv, ExecutedAreTrue
<1>5. \A b \in Assertions \ {a} : stageOf(b)' = stageOf(b)
  BY <1>1, <1>2, SameStage DEF proposalVars
<1>6. CASE isPending(a)
  <2>1. stageOf(a) = "pending" /\ stageOf(a)' = "approved"
    BY <1>1, <1>3, <1>4, <1>6 DEF stageOf, isPending, proposalVars
  <2>2. Promise!moves(a, {"pending"}, "approved")
    BY <1>5, <2>1, OnlyMoves
  <2>. QED
    BY <1>1, <2>2 DEF Promise!Stand
<1>7. CASE ~ isPending(a)
  <2>1. stageOf(a) = "withdrawn" /\ stageOf(a)' = "withdrawn"
    BY <1>1, <1>3, <1>4, <1>7 DEF stageOf, isPending, proposalVars
  <2>. QED
    BY <1>1, <1>5, <2>1 DEF stages
<1>. QED
  BY <1>6, <1>7

LEMMA SettleMovesNothing ==
  ASSUME IInv, NEW a \in Assertions, settleAssertion(a)
  PROVE  UNCHANGED <<stages, isOpen>>
<1>1. settle(a) /\ UNCHANGED <<proposalVars, isOpen, executed>>
  BY DEF settleAssertion
<1>2. \A b \in Assertions \ {a} : assertions'[b] = assertions[b]
  BY <1>1 DEF settle, IInv, TypeOK
<1>3. \A b \in Assertions \ {a} : stageOf(b)' = stageOf(b)
  BY <1>1, <1>2, SameStage DEF proposalVars
<1>4. /\ assertions'[a].stage = "settled"
      /\ assertions'[a].disputed = assertions[a].disputed
  BY <1>1, Settle DEF IInv
<1>5. assertions[a].stage # "none"
      /\ (assertions[a].stage = "asserted" => assertions[a].disputed)
  BY <1>1 DEF settle
<1>6. stageOf(a)' = stageOf(a)
  BY <1>1, <1>4, <1>5 DEF stageOf, isPending, proposalVars
<1>. QED
  BY <1>1, <1>3, <1>6 DEF stages

LEMMA OtherMoves ==
  ASSUME IInv, operatorCalls \/ componentsChange \/ UNCHANGED vars
  PROVE  Promise!SetOpen \/ UNCHANGED <<stages, isOpen>>
<1>1. UNCHANGED <<proposalVars, assertions, executed>>
  BY DEF operatorCalls, setProductSettings, updateIsOpen, updateUseAssetAllowlist,
         addAllowedAssets, removeAllowedAssets, componentsChange, vars
<1>2. UNCHANGED stages
  BY <1>1 DEF stages, stageOf, isPending, proposalVars
<1>3. isOpen' \in BOOLEAN
  BY OtherIInv DEF IInv, TypeOK
<1>. QED
  BY <1>2, <1>3 DEF Promise!SetOpen, stages

(* The extension keeps ChallengePeriod's promise: every step of a proposal,*)
(* an oracle, the operator or a bystander is one the promise allows.       *)
THEOREM Refinement == Spec => ImplementsChallengePeriod
<1>1. Init => Promise!Init
  BY DEF Init, Promise!Init, stageOf, NotAsserted, isPending
<1>2. IInv /\ [Next]_vars => [Promise!Next]_<<stages, isOpen>>
  BY ProposeMoves, StartMoves, DisputeMoves, CallbackMoves, LivenessMoves,
     SettleMovesNothing, OtherMoves
     DEF Next, Promise!Next
<1>3. IInv /\ [Next]_vars => [Promise!Next]_<<[a \in Assertions |-> stageOf(a)], isOpen>>
  BY <1>2 DEF stages
<1>. QED
  BY <1>1, <1>3, Invariance, PTL DEF Spec, ImplementsChallengePeriod, Promise!Spec
=============================================================================
