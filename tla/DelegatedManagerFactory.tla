----------------------- MODULE DelegatedManagerFactory -----------------------
(***************************************************************************)
(* The DelegatedManager system around one SetToken: the factory that       *)
(* deploys managers and initializes them in a second transaction           *)
(* (src/contracts/factories/DelegatedManagerFactory.sol), the managers,    *)
(* the registry ManagerCore, and the global extensions, which remember one *)
(* manager for the SetToken (src/contracts/lib/BaseGlobalExtension.sol and *)
(* src/contracts/global-extensions).  One action per transaction; a        *)
(* reverted transaction is a step that is not taken.                       *)
(***************************************************************************)
EXTENDS DelegatedManager, ManagerCore, FiniteSets

CONSTANTS
  Nobody,        \* no SetToken, and the zero address
  MaxApprovals   \* bound on the parties' approvals that a manager keeps

ASSUME NobodyAssumption == Nobody \notin Managers \union Parties \union {Factory}
ASSUME MaxApprovalsAssumption == MaxApprovals \in Nat

VARIABLES
  tokenManager,     \* the manager of the SetToken; Nobody before it exists
  initializeState,  \* the InitializeParams the factory keeps for the SetToken
  setManagers,      \* setManagers[SetToken] of every global extension
  sender            \* ghost: msg.sender of the latest transaction

vars == <<dm, coreVars, tokenManager, initializeState, setManagers, sender>>

InitializeParams ==
  [deployer : Parties, owner : Parties, methodologist : Parties,
   manager : Managers, isPending : {TRUE}]
NotPending == [isPending |-> FALSE]

(* The SetToken is not there yet, or an account manages it.                *)
Init ==
  /\ dm = [m \in Managers |-> NotDeployed]
  /\ isExtension = Extensions /\ isFactory = {Factory} /\ isManager = {}
  /\ tokenManager \in Parties \union {Nobody}
  /\ initializeState = NotPending
  /\ setManagers = [e \in Extensions |-> Nobody]
  /\ sender = Nobody

-----------------------------------------------------------------------------
(* The factory                                                             *)

(* _deployManager and _setInitializationState                              *)
deployManager(p, m, owner, methodologist, operators, es) ==
  /\ es # {}
  /\ ~ dm[m].deployed
  /\ addManager(Factory, m)
  /\ dm' = [dm EXCEPT ![m] = Constructed(es, operators)]
  /\ initializeState' =
       [deployer |-> p, owner |-> owner, methodologist |-> methodologist,
        manager |-> m, isPending |-> TRUE]
  /\ sender' = p
  /\ UNCHANGED setManagers

createSetAndManager(p, m, owner, methodologist, operators, es) ==
  /\ tokenManager = Nobody
  /\ tokenManager' = Factory
  /\ deployManager(p, m, owner, methodologist, operators, es)

(* Mutant: whoever calls.                                                  *)
createManagerByAnyone(p, m, owner, methodologist, operators, es) ==
  /\ tokenManager # Nobody
  /\ deployManager(p, m, owner, methodologist, operators, es)
  /\ UNCHANGED tokenManager
createManager(p, m, owner, methodologist, operators, es) ==
  /\ tokenManager = p
  /\ deployManager(p, m, owner, methodologist, operators, es)
  /\ UNCHANGED tokenManager

(* The requirements of a global extension for being initialized at m by    *)
(* its owner: onlyOwnerAndValidManager, and "Extension must be pending".   *)
(* Mutant: the owner is not asked.                                         *)
canInitializeAnyone(p, m, e) == m \in isManager /\ isInState(m, e, "PENDING")
canInitialize(p, m, e) ==
  /\ onlyOwner(p, m)
  /\ m \in isManager
  /\ isInState(m, e, "PENDING")

(* initialize, with _initializeExtensions and _setManagerState; the factory *)
(* is owner and methodologist until its end.                               *)
initialize(p, es, split) ==
  LET m == initializeState.manager
  IN  /\ initializeState.isPending
      /\ p = initializeState.deployer
      /\ es # {}
      /\ \A e \in es : e \in isExtension /\ canInitialize(Factory, m, e)
      /\ tokenManager' = IF tokenManager = Factory THEN m ELSE tokenManager
      /\ setManagers' = [e \in Extensions |-> IF e \in es THEN m ELSE setManagers[e]]
      /\ dm' = [dm EXCEPT ![m] =
           [withFeeSplit(withInitialized(@, es), Factory, split) EXCEPT
              !.owner = initializeState.owner,
              !.methodologist = initializeState.methodologist]]
      /\ initializeState' = NotPending
      /\ sender' = p
      /\ UNCHANGED <<coreVars>>

-----------------------------------------------------------------------------
(* The global extensions                                                   *)

(* initializeExtension; initializeModuleAndExtension, whose module accepts *)
(* only the manager of the SetToken, changes the same state.               *)
initializeExtension(p, m, e) ==
  /\ canInitialize(p, m, e)
  /\ dm' = [dm EXCEPT ![m] = withInitialized(@, {e})]
  /\ setManagers' = [setManagers EXCEPT ![e] = m]
  /\ sender' = p
  /\ UNCHANGED <<coreVars, tokenManager, initializeState>>

(* trade, by an operator: it goes from the extension through the manager   *)
(* the extension remembers to a module, which obeys the SetToken's manager.*)
canTrade(p, e) ==
  /\ setManagers[e] \in Managers
  /\ p \in dm[setManagers[e]].operatorAllowlist
  /\ isInState(setManagers[e], e, "INITIALIZED")
  /\ tokenManager = setManagers[e]

-----------------------------------------------------------------------------
(* The managers                                                            *)

ownerStores(p, m, storage) ==
  /\ onlyOwner(p, m)
  /\ dm' = [dm EXCEPT ![m] = storage]
  /\ sender' = p

addExtensions(p, m, es) ==
  /\ \A e \in es : isInState(m, e, "NONE")
  /\ ownerStores(p, m, withPending(dm[m], es))
  /\ UNCHANGED <<coreVars, tokenManager, initializeState, setManagers>>

(* Each extension in turn deletes its manager, which must be the caller.   *)
(* Mutant: the extensions are not told.                                    *)
removeExtensionsSilently(p, m, es) ==
  /\ \A e \in es : isInState(m, e, "INITIALIZED")
  /\ ownerStores(p, m, withoutExtensions(dm[m], es))
  /\ UNCHANGED <<coreVars, tokenManager, initializeState, setManagers>>
removeExtensions(p, m, es) ==
  /\ \A e \in es : isInState(m, e, "INITIALIZED") /\ setManagers[e] = m
  /\ ownerStores(p, m, withoutExtensions(dm[m], es))
  /\ setManagers' =
       [e \in Extensions |-> IF e \in es THEN Nobody ELSE setManagers[e]]
  /\ UNCHANGED <<coreVars, tokenManager, initializeState>>

addOperators(p, m, ps) ==
  /\ dm[m].operatorAllowlist \intersect ps = {}
  /\ ownerStores(p, m, [dm[m] EXCEPT !.operatorAllowlist = @ \union ps])
  /\ UNCHANGED <<coreVars, tokenManager, initializeState, setManagers>>

removeOperators(p, m, ps) ==
  /\ ps \subseteq dm[m].operatorAllowlist
  /\ ownerStores(p, m, [dm[m] EXCEPT !.operatorAllowlist = @ \ ps])
  /\ UNCHANGED <<coreVars, tokenManager, initializeState, setManagers>>

transferOwnership(p, m, newOwner) ==
  /\ ownerStores(p, m, [dm[m] EXCEPT !.owner = newOwner])
  /\ UNCHANGED <<coreVars, tokenManager, initializeState, setManagers>>

setMethodologist(p, m, newMethodologist) ==
  /\ onlyMethodologist(p, m)
  /\ dm' = [dm EXCEPT ![m].methodologist = newMethodologist]
  /\ sender' = p
  /\ UNCHANGED <<coreVars, tokenManager, initializeState, setManagers>>

updateOwnerFeeSplit(p, m, split) ==
  LET s == dm[m]
  IN  /\ s.deployed
      /\ isSigner(p, s.owner, s.methodologist)
      /\ dm' = [dm EXCEPT ![m] = withFeeSplit(s, p, split)]
      /\ Cardinality(dm'[m].mutualUpgrades \intersect (FeeSplits \X Parties)) <= MaxApprovals
      /\ sender' = p
      /\ UNCHANGED <<coreVars, tokenManager, initializeState, setManagers>>

(* Mutant: extensions may remain.                                          *)
setManagerOfSetAnytime(p, m, newManager) ==
  /\ onlyOwner(p, m)
  /\ tokenManager = m
  /\ tokenManager' = newManager
  /\ sender' = p
  /\ UNCHANGED <<dm, coreVars, initializeState, setManagers>>
setManagerOfSet(p, m, newManager) ==
  /\ onlyOwner(p, m)
  /\ noExtensionsLeft(m)
  /\ tokenManager = m
  /\ tokenManager' = newManager
  /\ sender' = p
  /\ UNCHANGED <<dm, coreVars, initializeState, setManagers>>

-----------------------------------------------------------------------------
(* The environment                                                         *)

(* An account that manages the SetToken passes it on.                      *)
accountSetsManager(p, newManager) ==
  /\ tokenManager = p
  /\ tokenManager' = newManager
  /\ sender' = p
  /\ UNCHANGED <<dm, coreVars, initializeState, setManagers>>

governance ==
  /\ \/ \E e \in Extensions : addExtension(e) \/ removeExtension(e)
     \/ addFactory(Factory) \/ removeFactory(Factory)
     \/ \E m \in Managers : removeManager(m)
  /\ sender' = Nobody
  /\ UNCHANGED <<dm, tokenManager, initializeState, setManagers>>

-----------------------------------------------------------------------------

Deployed == {m \in Managers : dm[m].deployed}
ExtensionLists == SUBSET Extensions \ {{}}
OperatorLists == SUBSET Operators \ {{}}

FactoryNext(p) ==
  \/ \E m \in Managers, owner, methodologist \in Parties,
        operators \in SUBSET Operators, es \in ExtensionLists :
       \/ createSetAndManager(p, m, owner, methodologist, operators, es)
       \/ createManager(p, m, owner, methodologist, operators, es)
  \/ \E es \in ExtensionLists, split \in FeeSplits : initialize(p, es, split)

OwnerNext(p, m) ==
  \/ \E es \in ExtensionLists : addExtensions(p, m, es) \/ removeExtensions(p, m, es)
  \/ \E e \in Extensions : initializeExtension(p, m, e)
  \/ \E ps \in OperatorLists : addOperators(p, m, ps) \/ removeOperators(p, m, ps)
  \/ \E q \in Parties : transferOwnership(p, m, q)
  \/ \E x \in Parties \union Deployed : setManagerOfSet(p, m, x)

Next ==
  \/ \E p \in Parties :
       \/ FactoryNext(p)
       \/ \E m \in Managers : OwnerNext(p, m)
       \/ \E m \in Managers, q \in Parties : setMethodologist(p, m, q)
       \/ \E m \in Managers, split \in FeeSplits : updateOwnerFeeSplit(p, m, split)
       \/ \E x \in Parties \union Deployed : accountSetsManager(p, x)
  \/ governance

Spec == Init /\ [][Next]_vars

-----------------------------------------------------------------------------
(* Properties                                                              *)

(* The storage of every contract is well typed.                            *)
TypeOK ==
  /\ dm \in [Managers -> Storage]
  /\ isExtension \subseteq Extensions
  /\ isFactory \subseteq {Factory}
  /\ isManager \subseteq Managers
  /\ tokenManager \in Managers \union Accounts \union {Nobody}
  /\ initializeState \in InitializeParams \union {NotPending}
  /\ setManagers \in [Extensions -> Managers \union {Nobody}]
  /\ sender \in Parties \union {Nobody}

(* The array `extensions', whose length setManager looks at, lists each    *)
(* initialized extension once and no other, through removals, additions    *)
(* and second initializations.                                             *)
ArraysMatchStates ==
  \A m \in Managers, e \in Extensions :
    dm[m].extensions[e] = IF isInState(m, e, "INITIALIZED") THEN 1 ELSE 0

(* The manager that an extension remembers is one that has let it in and   *)
(* not removed it: the two contracts' records never disagree in a way that *)
(* sends the extension's operators to a manager that will not obey it.     *)
RegisteredAreInitialized ==
  \A e \in Extensions :
    setManagers[e] # Nobody => isInState(setManagers[e], e, "INITIALIZED")

(* Between the two transactions of a creation the new manager is the       *)
(* factory's alone, no extension of it works yet, and it is not lost: a    *)
(* SetToken that the factory manages still waits for its initialization,   *)
(* and there is no other manager that it could go to.                      *)
PendingIsTheFactorys ==
  /\ initializeState.isPending =>
       LET m == initializeState.manager
       IN  /\ dm[m].deployed /\ dm[m].owner = Factory /\ dm[m].methodologist = Factory
           /\ \A e \in Extensions : ~ isInState(m, e, "INITIALIZED")
  /\ tokenManager = Factory =>
       initializeState.isPending /\ Deployed = {initializeState.manager}

(* As long as the SetToken stays with its manager, nobody comes to trade   *)
(* for it but by a transaction of that manager's owner: not through        *)
(* another manager of the same SetToken, a late initialization of it, or   *)
(* the registry.                                                           *)
PowersGrantedByOwner ==
  [][\A p \in Operators, e \in Extensions :
       canTrade(p, e)' /\ ~ canTrade(p, e) /\ tokenManager' = tokenManager =>
         \/ sender' = dm[tokenManager].owner
         \/ dm[tokenManager].owner = Factory /\ sender' = initializeState.deployer]_vars

(* When a DelegatedManager gives the SetToken away, no extension remembers *)
(* it any more, so none keeps sending its operators to the old manager.    *)
LeavesNothingBehind ==
  [][(tokenManager \in Managers) /\ tokenManager' # tokenManager =>
       \A e \in Extensions : setManagers[e] # tokenManager]_vars

(* removeExtensions: "Remove existing extension(s) tracked by the          *)
(* DelegatedManager".  Not so: when another manager of the SetToken has    *)
(* been given the extension meanwhile, the extension refuses.              *)
TrackedCanBeRemoved ==
  \A m \in Managers, e \in Extensions :
    isInState(m, e, "INITIALIZED") => setManagers[e] = m
=============================================================================
