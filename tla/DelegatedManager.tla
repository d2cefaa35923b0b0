--------------------------- MODULE DelegatedManager ---------------------------
(***************************************************************************)
(* src/contracts/manager/DelegatedManager.sol.  Several such contracts can *)
(* exist for one SetToken, so the storage is a function of the address.    *)
(* Each operator below gives the requirements, or the storage afterwards,  *)
(* of one function of the contract at address m; the calls that leave the  *)
(* contract are put together in DelegatedManagerFactory.                   *)
(*                                                                         *)
(* The lists of operators and of allowed assets, and the modules of the    *)
(* SetToken, are left out.                                                 *)
(***************************************************************************)
EXTENDS Naturals, MutualUpgradeV2

CONSTANTS
  Managers,     \* addresses of DelegatedManager contracts
  Extensions,   \* global extensions
  Parties,      \* accounts that deploy, own or are methodologists
  Operators,    \* accounts that may be operators
  Factory,      \* the DelegatedManagerFactory
  FeeSplits     \* shares of the fee an owner may get, up to 100%

ASSUME FactoryAssumption == Factory \notin Parties \union Managers
ASSUME AddressAssumption == Managers \intersect Parties = {}

VARIABLE dm     \* the storage of the contract at every address

ExtensionState == {"NONE", "PENDING", "INITIALIZED"}
Accounts == Parties \union {Factory}

Storage ==
  [deployed : BOOLEAN,
   owner : Accounts,
   methodologist : Accounts,
   extensionAllowlist : [Extensions -> ExtensionState],
   extensions : [Extensions -> Nat],
   operatorAllowlist : SUBSET Operators,
   ownerFeeSplit : FeeSplits \union {0},
   mutualUpgrades : SUBSET (FeeSplits \X Accounts)]

(* The constructor, called by the factory: extensions are PENDING, and the *)
(* factory is owner (Ownable) and methodologist.                           *)
Constructed(es, operators) ==
  [deployed |-> TRUE, owner |-> Factory, methodologist |-> Factory,
   extensionAllowlist |-> [e \in Extensions |-> IF e \in es THEN "PENDING" ELSE "NONE"],
   extensions |-> [e \in Extensions |-> 0],
   operatorAllowlist |-> operators,
   ownerFeeSplit |-> 0, mutualUpgrades |-> {}]

(* An address without a contract.                                          *)
NotDeployed == [Constructed({}, {}) EXCEPT !.deployed = FALSE]

onlyOwner(sender, m) == dm[m].deployed /\ sender = dm[m].owner
onlyMethodologist(sender, m) == dm[m].deployed /\ sender = dm[m].methodologist

isInState(m, e, state) == dm[m].deployed /\ dm[m].extensionAllowlist[e] = state

(* initializeExtension, called by each of the pending extensions es.       *)
withInitialized(s, es) ==
  [s EXCEPT
     !.extensionAllowlist =
        [e \in Extensions |-> IF e \in es THEN "INITIALIZED" ELSE @[e]],
     !.extensions = [e \in Extensions |-> IF e \in es THEN @[e] + 1 ELSE @[e]]]

(* addExtensions                                                           *)
withPending(s, es) ==
  [s EXCEPT !.extensionAllowlist =
     [e \in Extensions |-> IF e \in es THEN "PENDING" ELSE @[e]]]

(* removeExtensions                                                        *)
(* Mutant: the array is forgotten.                                         *)
withoutExtensionsListed(s, es) ==
  [s EXCEPT !.extensionAllowlist =
     [e \in Extensions |-> IF e \in es THEN "NONE" ELSE @[e]]]
withoutExtensions(s, es) ==
  [s EXCEPT
     !.extensionAllowlist = [e \in Extensions |-> IF e \in es THEN "NONE" ELSE @[e]],
     !.extensions = [e \in Extensions |-> IF e \in es THEN @[e] - 1 ELSE @[e]]]

(* updateOwnerFeeSplit under the modifier mutualUpgrade.                   *)
withFeeSplit(s, sender, split) ==
  [s EXCEPT
     !.ownerFeeSplit =
        IF runsBody(s.mutualUpgrades, sender, s.owner, s.methodologist, split)
          THEN split ELSE @,
     !.mutualUpgrades = approvalsAfter(@, sender, s.owner, s.methodologist, split)]

noExtensionsLeft(m) == \A e \in Extensions : dm[m].extensions[e] = 0
=============================================================================
