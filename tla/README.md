# Index Coop smart contracts in TLA+

TLA+ models of the managers, the leverage strategy and its keepers, the optimistic
auctions, the fee extension, the staking contract and the token distributor of this
repository, the TLC runs that check them on small instances, and TLAPS proofs of
what matters most. Every definition is translated from the source; the `map` of
`PROJECT.json` gives the lines each one stands for.

Contents: 1 the system, 2 the modules, 3 the runs, 4 the proofs,
5 what the models leave out, 6 disagreements with the comments, 7 not modelled.

## 1. The system

A SetToken is an ERC20 basket. *Modules* (vendored Set Protocol contracts, in
`src/external/contracts/set`) may change its positions; its one *manager* adds,
initializes and calls modules. This repository supplies managers that split the
manager's power between an **operator** and a **methodologist**, and
**extensions** through which the manager calls modules.

    operator, methodologist        keepers (EOAs, Chainlink)
          |                              |
          v        interactManager       v
     manager  <----------------------  extension
          |                              ^ prices, balances
          v                              |
     modules  --- invoke, positions --> SetToken, Compound, Aave, exchanges

Execution is by transactions: one runs to its end or reverts and changes nothing.
There is no concurrency inside a call. What is hard is the order of transactions
of several parties, what each finds when it is its turn, and integer arithmetic.

### Components

| Component (src/contracts) | State | Operations | What makes it correct |
|---|---|---|---|
| `manager/BaseManagerV2` with `lib/MutualUpgrade` | operator, methodologist, extensions (array and mapping), protected modules (struct, mapping inside a mapping, array), emergencies, initialized, approvals | 18 external functions: of the operator, of the methodologist, of both (two calls, any order), of extensions | the operator alone never weakens a protected module's arrangement except by a declared emergency; arrays and mappings agree; no authorization survives its module |
| SetToken's module registry (external) | module states, manager, locker | add, initialize, remove, lock, unlock | a protected module stays on the SetToken |
| `adapters/FlexibleLeverageStrategyExtension` | three settings structs, exchanges, `twapLeverageRatio`, timestamps, ETH | engage, rebalance, iterateRebalance, ripcord, disengage, setters, exchange list, ETH | leverage is moved to the target in chunks that the lending market accepts, without overshooting or trading to and fro; keepers are told the truth |
| `CompoundLeverageModule` (external) | collateral and debt units | lever, delever, delever to zero | debt within what Compound lends |
| `keepers/FliRebalanceKeeper` | exchange index, bounds | checkUpkeep, performUpkeep | what was checked is still wanted when it is performed |
| `lib/BaseExtension`, `lib/BaseGlobalExtension` | allowed callers, manager per SetToken | access checks, initialization handshake | callers and managers match |
| `manager/DelegatedManager`, `ManagerCore`, `factories/DelegatedManagerFactory`, `lib/MutualUpgradeV2` | extension states NONE, PENDING, INITIALIZED; registries; pending creations | create, initialize, add and remove extensions, owner, methodologist, operators, fee split | creation ends with an owner that controls what it was promised; removed extensions have no power |
| `manager/BaseManager`, `ICManager` | adapters | predecessors of BaseManagerV2 | the methodologist keeps what was agreed |
| Fee extensions (`FeeSplit`, `StreamingFeeSplit`, `PrtFeeSplit`, `GlobalStreamingFeeSplit`) with `lib/TimeLockUpgrade` | split, recipients, registered upgrades, period | accrue and distribute, change fees, split and recipients | each fee is split as agreed when it came in; no fee changes without notice |
| `adapters/OptimisticAuctionRebalanceExtensionV1` with `lib/AssetAllowList`, and its global form | product settings, assertion and proposal maps (inverse to each other), open or closed, allow list | propose, start, dispute callback, settings | only an undisputed proposal is started, and once |
| Rebalancing extensions (`GIM`, `FixedRebalance`, `TargetWeightWrap`, `Reinvestment`, auction) | targets, phase | start, step, end | phases in order |
| Aave, AaveV3, Morpho leverage strategies, `FLIRedemptionHelper` | as the FLI extension | as the FLI extension | as the FLI extension |
| `staking/*` | reward per token, stakes, rewards owed | stake, withdraw, claim, exit, notify | what is owed is covered; only time earns |
| `token/MerkleDistributor` with `src/utils/merkleUtils` | root, bitmap; off chain the tree and its proofs | build, claim | everybody gets what the list says, nobody more |
| other `token/*` | balances, checkpoints, vesting | vest, claim, vote | vested at most the grant |
| Hooks, viewers, pass-through extensions, migration extensions, `exchangeIssuance/*` | little or none | forward calls, compute, route trades | arithmetic of external protocols |

The hazards, each at the line where it bites, are in `PROJECT.json`. In short:

* *approvals in the air*: a mutual upgrade is two transactions; the first may be
  old when the second arrives: roles, emergencies and lists have changed;
* *Solidity storage*: `delete` of a struct leaves its inner mapping, an array and
  a mapping are two copies of one fact;
* *emergencies*: counted, not named; the operator may declare several;
* *TWAPs*: a target ratio stored between transactions, while prices, supply and
  exchanges change;
* *two copies of one condition*: `shouldRebalance` against the functions' own
  requirements;
* *looking first, acting later*: keepers send transactions for a state that has
  passed; a proposal waits at an oracle that has been replaced meanwhile;
* *arithmetic*: divisions that round down three deep, subtractions that revert,
  accumulators that are brought up to date lazily, bits packed into words.

## 2. The modules

| Module | Models | Used by |
|---|---|---|
| `SetTokenModules` | the SetToken's registry and lock | `BaseManagerV2` |
| `MutualUpgrade` | the modifier `mutualUpgrade` | `BaseManagerV2`, `FeeSplitExtension` |
| `BaseManagerV2` | the manager: an action per external function | `MCBaseManagerV2`, `BaseManagerV2_proofs` |
| `ProtectionPolicy` | abstract: what the methodologist is promised | `BaseManagerV2` (refinement) |
| `PreciseUnitMath` | the fixed-point operations | `CompoundLeverageModule` |
| `CompoundLeverageModule` | the lending position and its trades | `FlexibleLeverageStrategy` |
| `FlexibleLeverageStrategy` | the leverage extension: an action per external function | `LeverageKeepers`, `MCFlexibleLeverageStrategy`, `FlexibleLeverageStrategy_proofs` |
| `MutualUpgradeV2` | the modifier `mutualUpgrade` of the newer managers | `DelegatedManager` |
| `DelegatedManager` | the storage of such a manager, and what its functions make of it | `DelegatedManagerFactory` |
| `ManagerCore` | the registries | `DelegatedManagerFactory` |
| `DelegatedManagerFactory` | the composition around one SetToken: factory, managers, registry, global extensions | `MCDelegatedManagerFactory`, `DelegatedManagerCalls`, `DelegatedManagerFactory_proofs` |
| `DelegatedManagerCalls` | the composition with a history of the fee split's calls | its violation run, `DelegatedManagerFactory_proofs` |
| `LeverageKeepers` | the leverage extension with `FliRebalanceKeeper`, bots, outsiders and `BaseExtension`'s permissions | `MCLeverageKeepers`, `FlexibleLeverageStrategy_proofs` |
| `OptimisticAuctionRebalance` | the auction extension, its allow list and the oracles | `MCOptimisticAuctionRebalance`, `OptimisticAuctionRebalance_proofs` |
| `ChallengePeriod` | abstract: what holders of the SetToken are promised | `OptimisticAuctionRebalance` (refinement) |
| `StakingRewards` | both staking contracts | `MCStakingRewards`, `StakingRewards_proofs` |
| `TimeLockUpgrade` | the modifier `timeLockUpgrade` | `FeeSplitExtension` |
| `FeeSplitExtension` | the fee extension over both modifiers | `MCFeeSplitExtension`, `FeeSplitExtension_proofs` |
| `MerkleTree` | the tree and its proofs, off chain and as verified on chain | `MerkleDistributor` |
| `MerkleDistributor` | a distribution from the list to the last claim | `MCMerkleDistributor`, `MerkleDistributor_proofs` |
| `MC*` | finite instances for TLC | the `.cfg` files |
| `FiniteSums` | lemmas: induction over naturals and finite sets, sums over finite sets | `StakingRewards_proofs`, `MerkleDistributor_proofs` |
| `*_proofs` | theorems | |

### BaseManagerV2

State follows the contract's storage. An array of addresses is a *bag* (how often
each address occurs), since the code never depends on the order; that a bag can
count to two is the point, because `removeStorage` deletes one occurrence. A
mapping to `bool` is the set of its true keys. The struct `ProtectedModule` keeps
its three fields, and `unProtectedStruct` clears what the code clears: the flags
named in the list, then `isProtected` and the list.

Actions take the sender, whose role is checked where the modifier checks it. A
mutual upgrade is two disjuncts: `mutualRegister` (the other side has not called
yet; only the approval is stored) and `mutualExecute` (it has; the approval is
used up and the body runs). Approvals persist over changes of roles, as in the
code, and one address may hold both roles.

`consent` is a ghost variable, the roles of the parties that agreed to the step
(both, after a mutual upgrade). It lets properties speak of who did something.
`interactManager` carries two of the calls an extension can make: initializing a
module and locking the SetToken until an auction ends, which blocks removals.
`receiveTokens` and `unlockSet` are the environment.

### FlexibleLeverageStrategy

Three structs of settings, the exchanges' settings, the list of enabled names,
the TWAP's target, the ETH balance, and the lending position. A timestamp is kept
as its *age*: the code compares `timestamp + period < block.timestamp`, that is
`age > period`, so ages may stop growing one above the largest period (`MaxAge`);
the timestamp 0 that a new exchange starts with has that age. `timePasses`
advances every age by one.

The trade of a chunk is computed as in `_calculateChunkRebalanceNotional` and
`_calculateMaxBorrowCollateral`, rounding included, and executed by `lever` or
`delever`. The exchange may deliver anything from the minimum the extension asks
for to the oracle's price; Compound accepts a borrow or a redemption only within
the collateral factor. A call that would revert (an underflow in `sub`, a zero
quantity, an insufficient fill) has no step; `chunkIsDefined`, `solvent` and
`leveraged` are those requirements.

`shouldRebalance` is the keepers' view; `"reverts"` is its answer when the
position is insolvent.

### DelegatedManagerFactory

One SetToken, and the several managers that may be deployed for it over time: by
`createSetAndManager`, then by every migration back from an account
(`createManager`). A manager's storage is a record; `DelegatedManager` gives
what each function requires and makes of it, and `DelegatedManagerFactory` puts
together the transactions, which cross contracts: `initialize` calls the SetToken,
the extensions, through them the manager, and the manager's setters;
`removeExtensions` calls each extension back. An extension keeps, per SetToken,
one manager (`setManagers`). The list of extensions is, as above, a count per
extension: `setManager` looks only at its length.

`canTrade` is what an operator needs to trade: the extension's check, the
manager's and the module's. The ghost `sender` says who sent the latest
transaction. Accounts pass the SetToken on to accounts and deployed managers;
governance adds to and removes from `ManagerCore` at any time.

### LeverageKeepers

`FlexibleLeverageStrategy` has no callers: an action is a call that goes through.
This module puts them in front. A keeper looks (`checkUpkeep`, or for a bot the
view with the methodology's bounds) and keeps what it will call in `performData`;
`performUpkeep` sends it later, against whatever the state is by then. `onlyEOA`
compares sender and origin, which for a `FliRebalanceKeeper` differ. Outsiders
call without looking, where the code lets them. The operator changes the allow
list, `anyoneCallable` and, as owner, the keeper's bounds.

### OptimisticAuctionRebalance

Terms and their hash are one value: the two mappings are kept as the code keeps
them, from hashes to assertions and back. An assertion lives at one of two oracles
and goes through its challenge period there (`asserted`, then `expired`, then
`settled`); `disputed` may be set while it is asserted, and the dispute is one
transaction with the callback into the extension, so that a callback which reverts prevents
the dispute. The callback may also come from anybody, with any assertion. The
operator replaces the oracle, clears it, opens, closes and edits the allow list at
any moment, and the SetToken's components change by other trades.

`ChallengePeriod` is the abstract form: one stage per proposal, from *pending* to
*executed* through *approved* only, and an opening that one start uses up.

### StakingRewards

`StakingRewardsV2` with `rewardsDuration` a constant; `StakingRewards` is the same
contract with 60 days. The accumulator, the accounts and the period are kept as in
the code; of the rewards token only what came in and what was paid out, of the staking
token nothing but the stakes. `transferRewards` is a transfer the contract does
not notice; `notifyRewardAmount` may come before or after it.

### FeeSplitExtension

Each of the fee updates passes two modifiers: `mutualUpgrade` (both parties), then
`timeLockUpgrade` (twice, the period apart). `updateFee` has the three
outcomes: an approval is kept, the call is registered, or the fee is set. Fees come in
with issues and redemptions, and by the block. `operatorDue` is a ghost: for every
fee the operator's share by the split in force when it came in, less what the
operator was sent. `agreedAt` is another: when both parties first agreed on a fee.

### MerkleDistributor

`MerkleTree` is the off-chain code: layers by twos, an element without a
neighbour moves up, a proof is the neighbours on the way. A hash is the term it was
computed from, so it has no collisions, and the order in which hashes sort is
left open: `Init` takes every order of the leaves. `parseBalanceMap` numbers the
entries by the order of their spelling. The contract keeps a word of the bitmap as
the set of bits that are set. Claims are tried with every mix of index, account
and amount, and with every published proof and its parts.

## 3. The runs

Bounds are chosen so that every action fires and each hazard can occur.

| Run | Instance | Shows |
|---|---|---|
| `BaseManagerV2` | 2 modules, an own and a foreign extension, 2 parties, 1 pending approval, 2 emergencies, lists with one or two entries (one a duplicate), 1 token | the invariants, who changes what, and the refinement of `ProtectionPolicy` |
| `FlexibleLeverageStrategy` | 2 exchanges, 2 methodologies, 2 execution settings, 2 incentive settings (one that only one methodology admits), 3 prices, supply 0 or 1 Set, positions to 40 units | the state machine of TWAPs with every setter |
| `FlexibleLeverageStrategy_Trades` | 1 exchange, a larger position, supply 1 or 2 Sets, 2 execution settings (one with the margin of `DeleversFit`, one without), every fill from the minimum to the oracle price, no waiting times | the arithmetic of trades |
| `DelegatedManagerFactory` | 2 managers, 1 extension, 2 accounts that deploy, own or are methodologists, 1 operator, 1 fee split | creation, migration and handover, with the registry changing at any time |
| `LeverageKeepers` | 1 bot, 1 exchange, 2 prices, trades of 2 and of 4 units, cooldown and interval of 1 | advice gone stale, permissions, and liveness |
| `OptimisticAuctionRebalance` | 2 sets of terms (one adds an asset), 3 assertions, 2 oracles, 2 arrangements of components | proposals, disputes and starts in every order, and the refinement of `ChallengePeriod` |
| `StakingRewards` | 2 stakers, at most 3 tokens staked, a period of 2, rewards of 10, up to 20 in all, timestamps to 6, `Unit` 20 | reward accounting over two periods, notified apart or while the first one runs |
| `FeeSplitExtension` | 2 parties, the streaming and one other fee, fees 1 and 2, splits 1 and 3 of 4, one period, timestamps to 4, 2 distributions | splitting and announcing |
| `MerkleDistributor` | lists of 1 to 6 addresses (some of one account), words of 2 bits, the full total or one token less | trees of every shape to three levels, claims in every order |
| three violation runs | as above, or smaller | see section 6 |

*Two modules* are enough for a replacement (one out, one in) and for an extension
authorized for one module and not the other. *Two parties* are enough for the
roles to be apart, swapped or joined. *One pending approval* (`MaxPendingUpgrades`)
can become stale in every way the others could: each is consumed on its own.
*Two emergencies* distinguish ending one from ending all. *Two managers* of one
SetToken are enough for each to be the old one and the new one; an *extension*
is treated alike whatever the others do, so one is enough, and the theorems hold
for any number. `MaxApprovals` bounds the approvals that parties leave at a
manager; the factory's own comes on top. The bounds
`MaxEmergencies`, `MaxTokensHeld`, `MaxPendingUpgrades`, `MaxEther`, `MaxLocked`,
`MaxDistributions`, `MaxFees`, `MaxNow`, `MaxSupply`, `MaxNotified` stop counters
that the code does not stop; `MaxCollateral` and `MaxBorrow` stand for the
liquidity of the lending market. *Modules*, *parties* and *exchanges* are
interchangeable in the code, hence the symmetry sets, except in `LeverageKeepers`,
whose liveness properties would not be sound under symmetry.

*One bot* makes stale advice stale enough: outsiders, the operator, prices and
time come between its two steps, and another bot could do no more than an
outsider or itself. *One exchange* leaves a cooldown that binds. *Two oracles* are
the old one and the new one. *Two stakers* are one and the others. *Six entries*
give odd layers at two levels and an index in each bit of three words.

One precise unit is 20 instead of 10^18. Rounding errors, at most one unit each,
are therefore much larger in proportion than on chain, and cases that would need
astronomically unlikely numbers occur all the time. That is wanted: a property
that tolerates them is not an accident of precision. For 10^18, and every other
precise unit, supply and price, the properties of the arithmetic are theorems
(section 4), `DeleverFitsCompound` with a margin that the small instance can do without.

What each property says is written above its definition. The ones to read first:

* `ImplementsPolicy`: every step of the manager maps to a step of
  `ProtectionPolicy` or changes nothing there. The policy is one page with
  no arrays, lists or approvals.
* `ReachIsAgreed`: while a module stays protected, only a call the methodologist
  took part in changes which extensions get through to it.
* `FrozenInEmergency`: no additions by the operator alone until the emergency
  has been dealt with.
* `TwapKeepsDirection`: the trades of one TWAP never undo each other.
* `TwapWithinBounds`, `GlobalIsLatest`: what a TWAP leaves behind stays meaningful
  when others change settings and exchanges.
* `SignalsAreActionable`: the keepers' view agrees with the functions.
* `DeleverFitsCompound`: an emergency deleveraging is not refused by Compound.
* `TradesDoNotOvershoot`: a trade stops at the ratio it was meant for; a delever
  exactly, a lever up to the last digit of the current ratio.
* `PowersGrantedByOwner`: nobody comes to trade for a SetToken but by a
  transaction of its manager's owner, whatever happens at other managers.
* `PendingIsTheFactorys`, `LeavesNothingBehind`: the two ends of a manager's time
  with a SetToken, each a sequence of transactions, leave nothing in between.
* `TwapEnds`, `HighLeverageFalls`: in a quiet market chunks and ripcords get where
  they are going, or the position is one that nobody can trade.
* `StaleUpkeepIsRefused`: acting on advice that has gone stale does no harm.
* `ImplementsChallengePeriod`: what starts stood its challenge period undisputed,
  whatever the oracle in the settings was meanwhile.
* `PendingCanBeDisputed`: replacing the oracle takes nobody's dispute away.
* `RewardsAreCovered`: no more is paid, owed and promised than was notified.
* `CallsEarnNothing`: nobody gains or loses rewards by anybody's transaction.
* `SharesFollowTheSplit`, `FeesAreAnnounced`: a changed split does not reach back,
  a changed fee is known in advance.
* `PaidByTheList`, `EveryoneCanClaim`: the off-chain builder and the contract agree.

Each property has a mutant: a plausible bug in a mapped definition which makes
TLC find it violated. The mutated forms stand next to the definitions and are
commented *Mutant*; no specification uses them.

**Fairness** is stated in `LeverageKeepers` alone, and weakly: blocks keep coming
(`clockTicks`), a bot that could look at an exchange does so again and again, and a
transaction of a bot that would go through stays wanted until it does. Nothing is
assumed of `FliRebalanceKeeper`s, outsiders, the operator or the market. Both liveness
properties are conditional on `Quiet`, from some point on no operator calls, prices, issues or
redemptions, and allow an end in which the position is `blocked`: gone,
insolvent, with a debt above the net borrow limit, with no bot allowed, or with a chunk that
rounds to nothing. The rest of `blocked` is therefore the statement: nothing else
stops a TWAP or an emergency.

**Deadlock** is checked where the system cannot stop. `StakingRewards` stops at the
bounds of time, stakes and rewards, and `MerkleDistributor` when all is claimed;
their runs say so.

## 4. The proofs

TLAPS proves, for every value of the constants that satisfies the modules' named
assumptions (bounds are numbers, prices positive, a period below `MaxAge`, this
contract is a manager, `NoLocker` is no module, the controller's modules are
modules, accounts and contracts have different addresses, a keeper contract is no account, the
marks for "none" are no values, units, durations and words are positive, the stakers
are finitely many, what is published is a list):

| Module | Theorem | Says |
|---|---|---|
| `BaseManagerV2_proofs` | `Invariance`, `TypeCorrect`, `ArraysAgree`, `AuthorizationsEnd`, `AuthorizedStay`, `ProtectedStay` | the invariants of the run |
| | `Refinement` | `Spec => Policy!Spec` |
| | `EmergencyFreezes`, `ReachStays` | the action properties |
| `FlexibleLeverageStrategy_proofs` | `Invariance`, `TypeCorrect`, `TwapStaysWithinBounds`, `GlobalCoversExchanges`, `SettingsStayValid`, `SignalsHold` | invariants |
| | `TwapNeverReverses`, `HeadroomIsLeft`, `TradesStop` | the action properties |
| | `DeleversFit` | `Spec => [](unutilizedCoversRoundings => DeleverFitsCompound)` |
| | `ComposedIsTheExtension` | `KeepersSpec => Spec`: what is proved of the extension holds with its keepers |
| | `KeepersInvariance`, `KeepersTypeCorrect`, `StaleAdviceIsHarmless` | the keepers' type invariant and action property |
| `DelegatedManagerFactory_proofs` | `Invariance`, `TypeCorrect`, `ArraysAgree`, `RegisteredStay`, `PendingStays` | the invariants of the run |
| | `PowersAreTheOwners`, `NothingIsLeft` | the action properties |
| | `ApartTheyBothCall` | `CallsSpec /\ []rolesApart => FeeSplitTakesBoth`: what the third disagreement of section 6 needs |
| `OptimisticAuctionRebalance_proofs` | `Invariance`, `TypeCorrect`, `MappingsStayInverse`, `AnswerIsTrue`, `DisputesGoThrough` | the invariants of the run |
| | `Refinement` | `Spec => Promise!Spec` |
| `StakingRewards_proofs` | `NeverReverts` | `ViewsAreDefined`, inductive as it stands |
| | `RewardsCovered` | the books balance, over any finite set of stakers |
| | `OnlyTimeEarns`, `StakersGetTheirShare` | the action properties |
| `FeeSplitExtension_proofs` | `Invariance`, `EachFeeSplitAsAgreed` | the invariant |
| | `NoticeIsGiven` | the action property |
| `MerkleDistributor_proofs` | `ByTheList`, `AllCanClaim` | the invariants of the run, for lists of any length |
| | `TotalIsEnough` | given the total at first, everyone can claim at any time |

**BaseManagerV2.** No invariant is inductive alone. That the end of a protection
clears all authorizations (`NoStaleAuthorization`) needs every authorization to be
in the module's list, since the loop clears only those. That an authorized
extension cannot be removed needs the scanned array to hold each protected module
(`ArraysMatchMappings`), and that a removal from an array deletes the last
occurrence needs the same. `IInv` is their conjunction with the types. The proof
does not go through all external functions four times: it states once how each of
the few internal functions (`doProtectModule`, `doUnProtectModule`,
`authorizeIn`, `addMissing`) preserves the arrangement, and has a step per action
above that. The refinement theorem maps every action to one disjunct of
`ProtectionPolicy!Next`, using `IInv`: with a stale authorization the abstract
`Protects(m, es)` would not be what happens.

**FlexibleLeverageStrategy.** `IInv` adds to the run's invariants two facts they
rest on: the settings in force pass the validation together (each setter replaces
one of three), and the enabled names are those with a trade size. `TwapWithinBounds`
follows because the stored target comes from `newLeverageRatio`, clamped between
the bounds, or from a valid methodology's target, and because every setter is
refused during a TWAP. Type correctness contains the absence of underflow in trades and
in the reward. `TwapNeverReverses` compares the two forms of one question:
`isAdvantageousTWAP` and the direction `_handleRebalance` chooses.

The three theorems about arithmetic follow one pattern. `isQuotient(q, a, n)` says that
*q* is *a* divided by *n* and rounded down; each step of the code, from a ratio to
a chunk, to units, to a debt, is one such fact, and what they make together
is a lemma about naturals alone (`ChunkFitsHeadroom`, `ChunkIsShare`,
`LimitIsBounded`, `RestSupportsDebt`, `LeverNumbers`, `DeleverNumbers`).

* `HeadroomIsLeft`: on the way from the headroom to the debt every rounding is down,
  so that the debt rises by no more than the headroom, and the limit does not fall
  when collateral is bought.
* `TradesStop`: the roundings of a delever's chunk make up for those of the collateral's
  balance and value, so the collateral never falls short of the plan. A lever divides
  by the current ratio, which is rounded down, so its chunk may be too large by one
  unit of that ratio. `plannedDebt` allows for exactly what the proof yields; on chain
  it is one part in 10^18 of the position.
* `DeleversFit`: `_calculateMaxBorrowCollateral` counts the debt's value, rounded down,
  where Compound looks at the debt itself. The unutilized percentage is what
  makes up for it, if the share of the debt that it keeps free is worth the
  roundings of one Set (`unutilizedCoversRoundings`). The condition cannot be left
  out: with an unutilized percentage of 0, which the settings admit, TLC finds a delever
  that Compound refuses. On chain, with 1% unutilized and one Set issued, it asks for
  a debt of 200 of the asset's smallest units.

**DelegatedManagerFactory.** `IInv` adds to the run's invariants that before the
SetToken exists no manager is deployed for it; from this follows that a SetToken
the factory has just created has one manager to go to. Eight of the transactions
rewrite the storage of one manager; `StoreStep` proves for all of them what
they keep, given that the new record agrees with itself and that the manager is not the
pending one, which nobody but the factory may touch. `NothingIsLeft` is the reason
for the other invariants: an empty array means no extension initialized
(`ArraysMatchStates`), and an extension remembers only a manager that has it
initialized (`RegisteredAreInitialized`).

`ApartTheyBothCall` is about the history variable `unused` of `DelegatedManagerCalls`.
`CallsInv` says that each party's approval in storage is a call that no execution has used,
and that the factory has both roles of a manager or neither. An execution under two
different signers deletes the approval it uses, and every other transaction leaves
approvals and fee split alone (`OtherStepsKeepCalls`). Only under a signer with both
roles would an executed call stay as an approval; the factory's stays too when it
completes a creation, and harms nobody, as the factory never signs again.

**LeverageKeepers**, in the same module. Every step is a step of the extension or leaves it alone, once
what waits in `performData` is known to name an exchange. `KeepersIInv` is that,
the permissions' types, and the extension's `IInv`, which comes from the
extension's own theorem. `StaleAdviceIsHarmless` then compares each function's
requirements with the view's branches.

**OptimisticAuctionRebalance.** The mappings being inverse is needed for everything:
`deleteProposal` clears the hash it finds under the assertion, and only if the two agree is
that the proposal meant. `IInv` adds that a pending proposal's assertion was made, at an
oracle, and is not disputed, that an executed one is not pending, and that a settled, undisputed
assertion is true. The last is why ignoring the oracle's answer is harmless. The
refinement follows action by action; `Withdraw` covers a proposal deleted by anyone
after the oracle in the settings was replaced.

**StakingRewards.** `OnlyTimeEarns` rests on one fact of arithmetic: bringing the
accumulator up to date twice at one moment adds nothing, so that `earned` is the same
before and after `updateReward`, for the caller and for the others; what a call
does to stake or rate begins to count after that. `NeverReverts` is what keeps the
subtractions of these views natural. For `RewardsCovered` the inductive invariant is
about what is stored and not about the views: over all stakers, what was paid, what is
recorded, and stake times the accumulator's growth since the record, plus rate times
the rest of the period, is at most what was notified. A call moves amounts between
these terms or rounds one down; bringing the accumulator up to date by `t` seconds takes `t` times
the rate from the last term and adds no more than that to the others, because the
stakes add up to the supply that the growth is divided by. `FiniteSums` has the sums.
`StakersGetTheirShare` bounds the roundings of the same step from the other side.

**FeeSplitExtension.** `SharesFollowTheSplit` is inductive with the types; the step that
matters is `updateFeeSplit`, where everything held or accrued is distributed by the old
split before the new one is stored, and the step of a distribution loses less than one
unit to rounding. For `NoticeIsGiven` the ghost `agreedAt` equals the registrations of
the lock, and while there is no time lock there are none.

**MerkleDistributor.** Nothing is assumed of the list but that it is one: any length,
any order of the leaves, duplicates. Each layer is about half of the one below, so the layers end in
a root (`TreeExists`), which is what makes the recursive functions of `MerkleTree`
defined. *Everyone can claim:* a proof is one neighbour per layer on the way up, and the
hash of a node and its neighbour is the node above, so folding it ends in the root
(`ProofLeadsToRoot`). *Nobody else can:* every hash in the tree is an entry or a pair of two
hashes in the tree, and no entry is a pair; so a fold that ends in the root was
inside the tree at each step before, back to its start, which must be an entry
(`OnlyEntriesHaveProofs`). On the contract's side the bit of an index is its own
(division and remainder determine it), so that an entry is paid once; `IInv` says that what is
published is what the list gives, the types, and that every account has been paid its
claimed entries. The claimed entries are a part of all entries (`SumOfPart`) and a claim takes
from the funds what it adds to them, so a distributor that was given the total pays everybody
(`TotalIsEnough`). The run tries parts of the published proofs; `OnlyEntriesHaveProofs` is
about every sequence of hashes, index, account and amount.

`FiniteSums` proves induction over the naturals and over finite sets for predicates
given as sets, from the library's theorem that a well-founded relation has minimal
elements; the induction theorems of the library take an operator, which the provers here
cannot instantiate. That a recursively defined function has the values its definition
says, sums included, is proved there and in `MerkleDistributor_proofs` the same way.

**Only model-checked:** `TwapEnds` and `HighLeverageFalls`, liveness under fairness, and the
three disagreements, whose runs end in counterexamples. Liveness and `ENABLED` are
**out of the prover's reach**. `DeleverFitsCompound` without its margin is checked on the
instance only, and false in general.

## 5. What the model leaves out

* Reverted transactions: they change nothing. Gas, reentrancy (the modules'
  guards) and events are not modelled.
* In `BaseManagerV2`: other calls of extensions to modules; what happens to the
  SetToken after `setManager` has given it away, except that the old manager's
  calls revert.
* In `FlexibleLeverageStrategy`: the callers, who are in `LeverageKeepers`; the
  manager between extension and module; the exchange's call data.
  The protocol's fee on trades is 0. Interest does not accrue by itself: a change of the
  price stands for any drift of the ratio. The price of the borrow asset is the unit of account.
  The constructor sets the exchanges' timestamps from its arguments: they are 0 here,
  as the deployment passes.
* In `CompoundLeverageModule`: `sync`, the module's administration, enabling
  and disabling assets. Compound's rules and the exchange are external.
* In the DelegatedManager system: the lists of operators (the code keeps them as
  it keeps extensions) and of allowed assets; `updateOwnerFeeRecipient`,
  `transferTokens`, `addModule` and `removeModule`; renouncing ownership; zero
  addresses as owner or methodologist, with which `initialize` reverts for good
  and a SetToken created with them stays with the factory; the calls that
  `initialize` forwards other than those that initialize an extension; an account
  that makes the factory manager of an existing SetToken.
* In `LeverageKeepers`: the registry's check of its own address; which exchange
  `exchangeIndex` names (any enabled one). A transaction that reverts is dropped, and the
  keeper looks again.
* In `OptimisticAuctionRebalance`: bonds, the claim's text, the auction that a
  start sets off, the manager in between. Rules are set or not set.
* In `StakingRewards`: a staking token that is also the rewards token.
* In `FeeSplitExtension`: `initializeIssuanceModule`, `initializeStreamingFeeModule`,
  `updateFeeRecipient`, `updateOperatorFeeRecipient`, and with them the addresses;
  the fee modules' limits on a fee.
* In `MerkleDistributor`: collisions of hashes, and a token whose transfer fails for
  other reasons than the balance.

## 6. Disagreements with the comments

Three have a run that ends in the counterexample.

1. `LeverageKeepers_KeeperMayRebalance`: `FliRebalanceKeeper` is commented "Chainlink
   Keeper which automatically rebalances FLI SetTokens". `rebalance`,
   `iterateRebalance` and `ripcord` of the extension have the modifier `onlyEOA`, and the
   keeper is a contract: every `performUpkeep` reverts. Its tests run against a mock
   without the modifier.
2. `DelegatedManagerFactory_TrackedCanBeRemoved`: "Remove existing extension(s)
   tracked by the DelegatedManager". When a second manager of the SetToken has been given the
   extension, the extension refuses the first one's call, and the first manager can
   remove neither it nor itself: `setManager` wants the array empty.
3. `DelegatedManagerCalls_FeeSplitTakesBoth`: "Owner and Methodologist must each call
   this function to execute the update". A call executed while they were
   one address is kept as an approval too, and later replaces one of the two calls.
   Where no account ever has both roles the comment is true (`ApartTheyBothCall`).

Read in the code while modelling, each plain from its lines and without a run:

* `BaseManagerV2.protectModule` accepts a list that names an extension twice;
  revoking it leaves one entry in a list that is commented "List of Extensions
  authorized to call module" (line 48). The models keep the duplicate.
* `BaseManagerV2.transferTokens` is commented "OPERATOR ONLY" (line 310) and has
  the modifier `onlyExtension`.
* `ShouldRebalance.NONE` is commented "no rebalance action can be taken". In a TWAP
  outside the bounds `iterateRebalance` does not wait for the cooldown that
  `_shouldRebalance` waits for (lines 997, 1268). `RIPCORD` is commented "ripcord()
  function can be successfully called"; it reverts on an exchange whose incentivized
  size is 0 and when the debt is above the net borrow limit (line 1131).
* `disengage` is commented "The function iterateRebalance will not work" (line 429); a
  TWAP under way is not cleared, and iterating it borrows again. A TWAP left over by a full
  redemption or disengagement keeps the setters and the ETH locked.
* The comments of `minLeverageRatio` and `maxLeverageRatio` say the target of a
  rebalance outside the bounds is the bound, while `_calculateNewLeverageRatio` clamps
  the recentred ratio, which may lie inside. Removing and adding an exchange resets
  its cooldown.
* `FliRebalanceKeeper.checkUpkeep` is commented "it will always return true" (line 72);
  it returns false for `NONE`.
* `setManager` of a DelegatedManager counts initialized extensions only, so a PENDING one
  can still be initialized at a manager that has given the SetToken away.
* `OptimisticAuctionRebalanceExtensionV1.startRebalance` is commented "OPERATOR ONLY" and
  may be called by anyone. Setting the oracle to zero makes pending proposals
  undisputable meanwhile. `removeAllowedAssets` says a removed asset "can't be included as
  new components in rebalances"; the list is looked at when a rebalance is proposed, not when
  it starts.
* `FeeSplitExtension`'s constructor takes any split; one above 100% makes
  `accrueFeesAndDistribute`, and with it `updateFeeSplit`, revert once there are fees.
  Registrations of the time lock do not expire. In `ICManager`, which is not modelled,
  `timeLockUpgrade` stands before `onlyMethodologist` in `updateStreamingFee`, so that
  anybody can register, and `setTimeLockPeriod` may shorten the period.
* `parseBalanceMap` compares spellings: two spellings of one account are two entries, which
  the model allows and the contract pays both.

## 7. Not modelled

What remains is listed in `PROJECT.json` with a reason each. In short:

* *Variants.* The Aave, AaveV3 and Morpho strategies, `StreamingFeeSplitExtension`, the
  global forms of the auction and fee extensions, `BaseManager` and `ICManager` repeat
  modelled mechanisms over other storage or other markets. What differs in the leverage
  strategies is the lending market's rule in `compoundAllows` and the order of one rounding.
* *Forwarding.* Wrap, claim, airdrop, governance and batch extensions check a caller and
  encode one call; hooks make one comparison; viewers compute nothing they keep.
* *External arithmetic.* Exchange issuance, flash mint and the migration extensions route
  tokens through Uniswap, Balancer, Aave, 0x and others. Their results are those protocols'
  results; a model of the routing alone would assume what it is to show.
* *Rebalancing extensions* (`GIM`, `FixedRebalance`, `TargetWeightWrap`, `Reinvestment`)
  compute target units from positions and prices of modules that are not modelled here.
* *TypeScript.* Apart from `merkleUtils`, the TypeScript of the repository deploys
  contracts, sets up test fixtures, fetches quotes and repeats the contracts'
  formulas for the tests. It has no state machine; the program is the contracts, and it
  is their lines that the models stand for.
