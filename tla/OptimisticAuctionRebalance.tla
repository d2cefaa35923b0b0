---------------------- MODULE OptimisticAuctionRebalance ----------------------
(***************************************************************************)
(* src/contracts/adapters/OptimisticAuctionRebalanceExtensionV1.sol:       *)
(* rebalances are proposed by anyone as assertions to UMA's Optimistic     *)
(* Oracle, wait out the oracle's challenge period, and are then started by *)
(* anyone.  A reverted transaction is a step that is not taken.            *)
(*                                                                         *)
(* A proposal's terms and their hash are one value.  The oracles are       *)
(* external: an assertion is asserted on one of them under a fresh id,     *)
(* disputed or left to expire, and settled; a dispute calls back, and      *)
(* cannot be made when the callback reverts.  Bonds are left out.          *)
(***************************************************************************)
EXTENDS Naturals, FiniteSets

CONSTANTS
  ProposalHashes,        \* terms a rebalance may be proposed with
  Assertions,            \* assertion ids
  Oracles,               \* Optimistic Oracle V3 contracts
  Assets,                \* components a SetToken may have
  Arrangements,          \* values of setToken.getComponents()
  oldComponents,         \* the arrangement the terms were made for
  newComponents,         \* the assets the terms add
  NoOracle, NoAssertion, NoProposal

ASSUME NobodyAssumption ==
  NoOracle \notin Oracles /\ NoAssertion \notin Assertions /\ NoProposal \notin ProposalHashes
ASSUME TermsAssumption ==
  /\ oldComponents \in [ProposalHashes -> Arrangements]
  /\ newComponents \in [ProposalHashes -> SUBSET Assets]

VARIABLES
  optimisticOracleV3, rulesSet,            \* productSettings
  assertionIds, assertionIdToProposalHash, isOpen,
  useAssetAllowlist, assetAllowlist,       \* AssetAllowList
  components,                              \* of the SetToken
  assertions,                              \* at the oracles
  executed                                 \* history: assertions of started rebalances

settingVars == <<optimisticOracleV3, rulesSet>>
proposalVars == <<assertionIds, assertionIdToProposalHash>>
allowVars == <<useAssetAllowlist, assetAllowlist>>
vars == <<settingVars, proposalVars, isOpen, allowVars, components, assertions, executed>>

(* An assertion at an oracle: not made, within its challenge period, past  *)
(* it, or settled.                                                         *)
AssertionState ==
  [oracle : Oracles \union {NoOracle}, stage : {"none", "asserted", "expired", "settled"},
   disputed : BOOLEAN, settlementResolution : BOOLEAN]
NotAsserted == [oracle |-> NoOracle, stage |-> "none", disputed |-> FALSE,
                settlementResolution |-> FALSE]

Init ==
  /\ optimisticOracleV3 = NoOracle /\ rulesSet = FALSE
  /\ assertionIds = [h \in ProposalHashes |-> NoAssertion]
  /\ assertionIdToProposalHash = [a \in Assertions |-> NoProposal]
  /\ isOpen = FALSE
  /\ useAssetAllowlist \in BOOLEAN /\ assetAllowlist \in SUBSET Assets
  /\ components \in Arrangements
  /\ assertions = [a \in Assertions |-> NotAsserted]
  /\ executed = {}

-----------------------------------------------------------------------------
(* The oracles                                                             *)

(* getAssertion(a).asserter is not the zero address                        *)
hasAssertion(oracle, a) == assertions[a].stage # "none" /\ assertions[a].oracle = oracle

(* Undisputed an assertion settles as true once it has expired, disputed   *)
(* as the voters decide.                                                   *)
settle(a) ==
  \/ /\ assertions[a].stage = "expired"
     /\ assertions' = [assertions EXCEPT ![a].stage = "settled",
                                         ![a].settlementResolution = TRUE]
  \/ /\ assertions[a].stage = "asserted" /\ assertions[a].disputed
     /\ \E truth \in BOOLEAN :
          assertions' = [assertions EXCEPT ![a].stage = "settled",
                                           ![a].settlementResolution = truth]

settleAndGetAssertionResult(oracle, a) ==
  /\ hasAssertion(oracle, a)
  /\ \/ settle(a)
     \/ assertions[a].stage = "settled" /\ UNCHANGED assertions

settleAssertion(a) ==
  /\ settle(a)
  /\ UNCHANGED <<settingVars, proposalVars, isOpen, allowVars, components, executed>>

livenessPasses(a) ==
  /\ assertions[a].stage = "asserted" /\ ~ assertions[a].disputed
  /\ assertions' = [assertions EXCEPT ![a].stage = "expired"]
  /\ UNCHANGED <<settingVars, proposalVars, isOpen, allowVars, components, executed>>

-----------------------------------------------------------------------------
(* Proposals                                                               *)

(* _deleteProposal                                                         *)
(* Mutants: the assertion id used as the key; one mapping is not cleared.  *)
deleteProposalByAssertion(a) ==
  /\ assertionIds' = [h \in ProposalHashes \union {a} |->
       IF h = a THEN NoAssertion ELSE assertionIds[h]]
  /\ assertionIdToProposalHash' = [assertionIdToProposalHash EXCEPT ![a] = NoProposal]
deleteProposalHalf(a) ==
  /\ assertionIds' = [h \in ProposalHashes |->
       IF h = assertionIdToProposalHash[a] THEN NoAssertion ELSE assertionIds[h]]
  /\ UNCHANGED assertionIdToProposalHash
deleteProposal(a) ==
  /\ assertionIds' = [h \in ProposalHashes |->
       IF h = assertionIdToProposalHash[a] THEN NoAssertion ELSE assertionIds[h]]
  /\ assertionIdToProposalHash' = [assertionIdToProposalHash EXCEPT ![a] = NoProposal]

areAllowedAssets(assets) == useAssetAllowlist => assets \subseteq assetAllowlist

proposeRebalance(h, a) ==
  /\ areAllowedAssets(newComponents[h])
  /\ isOpen
  /\ assertionIds[h] = NoAssertion
  /\ rulesSet
  /\ optimisticOracleV3 # NoOracle
  /\ assertions[a] = NotAsserted
  /\ assertions' = [assertions EXCEPT ![a] =
       [NotAsserted EXCEPT !.oracle = optimisticOracleV3, !.stage = "asserted"]]
  /\ assertionIds' = [assertionIds EXCEPT ![h] = a]
  /\ assertionIdToProposalHash' = [assertionIdToProposalHash EXCEPT ![a] = h]
  /\ UNCHANGED <<settingVars, isOpen, allowVars, components, executed>>

(* Mutant: the extension stays open.                                       *)
startRebalanceStaysOpen(h) ==
  LET a == assertionIds[h]
  IN  /\ isOpen
      /\ a # NoAssertion
      /\ deleteProposal(a)
      /\ settleAndGetAssertionResult(optimisticOracleV3, a)
      /\ components = oldComponents[h]
      /\ executed' = executed \union {a}
      /\ UNCHANGED <<settingVars, isOpen, allowVars, components>>
startRebalance(h) ==
  LET a == assertionIds[h]
  IN  /\ isOpen
      /\ a # NoAssertion
      /\ deleteProposal(a)
      /\ settleAndGetAssertionResult(optimisticOracleV3, a)
      /\ components = oldComponents[h]
      /\ isOpen' = FALSE
      /\ executed' = executed \union {a}
      /\ UNCHANGED <<settingVars, allowVars, components>>

(* assertionDisputedCallback goes through: called by the oracle in the     *)
(* settings, or by anyone about an assertion that oracle does not have.    *)
(* Mutant: called by another oracle about an assertion the current one has.*)
callbackAcceptsSwapped(sender, a) ==
  /\ optimisticOracleV3 # NoOracle
  /\ sender # optimisticOracleV3 =>
       /\ assertionIdToProposalHash[a] # NoProposal
       /\ hasAssertion(optimisticOracleV3, a)
callbackAccepts(sender, a) ==
  /\ optimisticOracleV3 # NoOracle
  /\ sender # optimisticOracleV3 =>
       /\ assertionIdToProposalHash[a] # NoProposal
       /\ ~ hasAssertion(optimisticOracleV3, a)

(* Anyone but an oracle.                                                   *)
assertionDisputedCallback(a) ==
  /\ callbackAccepts("anyone", a)
  /\ deleteProposal(a)
  /\ UNCHANGED <<settingVars, isOpen, allowVars, components, assertions, executed>>

(* disputeAssertion on the oracle of a, which calls back.                  *)
(* Mutant: only the oracle in the settings gets the proposal deleted.      *)
disputeAssertionCurrentOnly(a) ==
  /\ assertions[a].stage = "asserted" /\ ~ assertions[a].disputed
  /\ assertions' = [assertions EXCEPT ![a].disputed = TRUE]
  /\ callbackAccepts(assertions[a].oracle, a)
  /\ IF assertions[a].oracle = optimisticOracleV3 THEN deleteProposal(a)
                                                  ELSE UNCHANGED proposalVars
  /\ UNCHANGED <<settingVars, isOpen, allowVars, components, executed>>
disputeAssertion(a) ==
  /\ assertions[a].stage = "asserted" /\ ~ assertions[a].disputed
  /\ assertions' = [assertions EXCEPT ![a].disputed = TRUE]
  /\ callbackAccepts(assertions[a].oracle, a)
  /\ deleteProposal(a)
  /\ UNCHANGED <<settingVars, isOpen, allowVars, components, executed>>

-----------------------------------------------------------------------------
(* The operator                                                            *)

setProductSettings(oracle, rules) ==
  /\ optimisticOracleV3' = oracle /\ rulesSet' = rules
  /\ UNCHANGED <<proposalVars, isOpen, allowVars, components, assertions, executed>>

updateIsOpen(status) ==
  /\ isOpen' = status
  /\ UNCHANGED <<settingVars, proposalVars, allowVars, components, assertions, executed>>

addAllowedAssets(asset) ==
  /\ asset \notin assetAllowlist
  /\ assetAllowlist' = assetAllowlist \union {asset}
  /\ UNCHANGED <<settingVars, proposalVars, isOpen, useAssetAllowlist, components,
                 assertions, executed>>

removeAllowedAssets(asset) ==
  /\ asset \in assetAllowlist
  /\ assetAllowlist' = assetAllowlist \ {asset}
  /\ UNCHANGED <<settingVars, proposalVars, isOpen, useAssetAllowlist, components,
                 assertions, executed>>

updateUseAssetAllowlist(status) ==
  /\ useAssetAllowlist' = status
  /\ UNCHANGED <<settingVars, proposalVars, isOpen, assetAllowlist, components,
                 assertions, executed>>

(* Auctions and other modules trade: the SetToken's components change.     *)
componentsChange ==
  /\ components' \in Arrangements
  /\ UNCHANGED <<settingVars, proposalVars, isOpen, allowVars, assertions, executed>>

operatorCalls ==
  \/ \E oracle \in Oracles \union {NoOracle}, rules \in BOOLEAN :
       setProductSettings(oracle, rules)
  \/ \E status \in BOOLEAN : updateIsOpen(status) \/ updateUseAssetAllowlist(status)
  \/ \E asset \in Assets : addAllowedAssets(asset) \/ removeAllowedAssets(asset)

Next ==
  \/ \E h \in ProposalHashes : startRebalance(h)
                               \/ \E a \in Assertions : proposeRebalance(h, a)
  \/ \E a \in Assertions : \/ disputeAssertion(a) \/ assertionDisputedCallback(a)
                           \/ livenessPasses(a) \/ settleAssertion(a)
  \/ operatorCalls
  \/ componentsChange

Spec == Init /\ [][Next]_vars

-----------------------------------------------------------------------------
(* Properties                                                              *)

TypeOK ==
  /\ optimisticOracleV3 \in Oracles \union {NoOracle} /\ rulesSet \in BOOLEAN
  /\ assertionIds \in [ProposalHashes -> Assertions \union {NoAssertion}]
  /\ assertionIdToProposalHash \in [Assertions -> ProposalHashes \union {NoProposal}]
  /\ isOpen \in BOOLEAN
  /\ useAssetAllowlist \in BOOLEAN /\ assetAllowlist \in SUBSET Assets
  /\ components \in Arrangements
  /\ assertions \in [Assertions -> AssertionState]
  /\ executed \in SUBSET Assertions

isPending(a) == assertionIdToProposalHash[a] # NoProposal

(* The two mappings are inverse to each other through proposals, disputes, *)
(* executions and proposals of the same terms again.                       *)
MappingsAgree ==
  \A h \in ProposalHashes, a \in Assertions :
    assertionIds[h] = a <=> assertionIdToProposalHash[a] = h

(* While an oracle is set, nobody is kept from disputing a pending         *)
(* proposal within its challenge period, on whichever oracle it was made   *)
(* and however often the settings were changed since.                      *)
PendingCanBeDisputed ==
  optimisticOracleV3 # NoOracle =>
    \A a \in Assertions :
      isPending(a) /\ assertions[a].stage = "asserted"
        => callbackAccepts(assertions[a].oracle, a)

(* startRebalance ignores what the oracle answers: "this point can be      *)
(* reached only for non-disputed assertions".  Indeed the answer is always *)
(* true there.                                                             *)
ExecutedAreTrue ==
  \A a \in executed : /\ assertions[a].stage = "settled" /\ ~ assertions[a].disputed
                      /\ assertions[a].settlementResolution

stageOf(a) ==
  IF a \in executed THEN "executed"
  ELSE IF assertions[a].disputed THEN "rejected"
  ELSE IF assertions[a].stage = "none" THEN "unused"
  ELSE IF ~ isPending(a) THEN "withdrawn"
  ELSE IF assertions[a].stage = "asserted" THEN "pending"
  ELSE "approved"

Promise == INSTANCE ChallengePeriod
             WITH stage <- [a \in Assertions |-> stageOf(a)], open <- isOpen

(* Whatever the oracle is changed to meanwhile, in whatever order disputes,*)
(* settlements and callbacks come: a rebalance starts only from a proposal *)
(* that stood its challenge period undisputed, once, and each opening lets *)
(* at most one start.                                                      *)
ImplementsChallengePeriod == Promise!Spec
=============================================================================
