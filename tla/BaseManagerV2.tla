---------------------------- MODULE BaseManagerV2 ----------------------------
(***************************************************************************)
(* src/contracts/manager/BaseManagerV2.sol, the manager contract of a      *)
(* SetToken, together with the SetToken's module registry and with the     *)
(* modules that extensions reach through interactManager.  A reverted      *)
(* transaction changes nothing, so it is a step that is not taken.         *)
(*                                                                         *)
(* Arrays of addresses are bags (the number of occurrences of each         *)
(* address): the contract never reads their order.  A mapping to bool is   *)
(* the set of its true keys.                                               *)
(***************************************************************************)
EXTENDS SetTokenModules, MutualUpgrade

CONSTANTS
  Extensions,        \* extension addresses
  OwnExtensions,     \* the extensions whose manager() is this contract
  ExtensionLists,    \* bags of extensions passed as `_extensions'
  This,              \* this contract, as a manager of the SetToken
  ZeroAddress,       \* address(0), as a manager of the SetToken
  MaxEmergencies,    \* bound on the emergencies counter
  MaxTokensHeld      \* bound on the token units held by this contract

ASSUME ListsAssumption == ExtensionLists \subseteq [Extensions -> Nat]
ASSUME ThisAssumption == This \in Managers /\ This # ZeroAddress
ASSUME MaxEmergenciesAssumption == MaxEmergencies \in Nat
ASSUME MaxTokensAssumption == MaxTokensHeld \in Nat

VARIABLES
  operator, methodologist,
  extensions,             \* the array of listed extensions
  isExtension,            \* the mapping: extensions that may call
  protectedModules,       \* the struct ProtectedModule of every module
  protectedModulesList,   \* the array of protected modules
  emergencies,
  initialized,
  tokensHeld,             \* units of some ERC20 token sent to this contract
  consent                 \* ghost: roles that agreed to the latest executed call

arrangementVars == <<extensions, isExtension, protectedModules, protectedModulesList>>
roleVars == <<operator, methodologist>>
miscVars == <<initialized, tokensHeld>>
vars == <<setTokenVars, mutualUpgrades, arrangementVars, roleVars,
          emergencies, miscVars, consent>>

Bag == [Extensions -> Nat]
NoExtensions == [e \in Extensions |-> 0]
OneExtension(e) == [x \in Extensions |-> IF x = e THEN 1 ELSE 0]
Listed(bag) == {e \in Extensions : bag[e] > 0}

ProtectedModule ==
  [isProtected : BOOLEAN,
   authorizedExtensionsList : Bag,
   authorizedExtensions : SUBSET Extensions]

isProtected(m) == protectedModules[m].isProtected
authorized(m) == protectedModules[m].authorizedExtensions

Role == {"operator", "methodologist"}

(* The roles an address has: both, when operator and methodologist agree.  *)
rolesOf(p) == {r \in Role : \/ r = "operator" /\ p = operator
                            \/ r = "methodologist" /\ p = methodologist}

(* The constructor; the SetToken was built and its modules initialized     *)
(* before it was handed to this manager.                                   *)
Init ==
  /\ moduleStates \in [Modules -> {"NONE", "INITIALIZED"}]
  /\ manager = This
  /\ locker = NoLocker
  /\ mutualUpgrades = {}
  /\ operator \in Parties /\ methodologist \in Parties
  /\ extensions = NoExtensions
  /\ isExtension = {}
  /\ protectedModules = [m \in Modules |->
       [isProtected |-> FALSE, authorizedExtensionsList |-> NoExtensions,
        authorizedExtensions |-> {}]]
  /\ protectedModulesList = [m \in Modules |-> 0]
  /\ emergencies = 0
  /\ initialized = FALSE
  /\ tokensHeld = 0
  /\ consent = {}

-----------------------------------------------------------------------------
(* Modifiers                                                               *)

onlyOperator(sender) == sender = operator /\ consent' = rolesOf(sender)
onlyMethodologist(sender) == sender = methodologist /\ consent' = rolesOf(sender)
(* Mutant: one emergency is tolerated.                                     *)
upgradesPermittedTolerant == emergencies <= 1
upgradesPermitted == emergencies = 0
onlyEmergency == emergencies > 0

mutualRegister(sender, call) ==
  /\ registersUpgrade(sender, operator, methodologist, call)
  /\ consent' = {}
  /\ UNCHANGED <<setTokenVars, arrangementVars, roleVars, emergencies, miscVars>>

mutualExecute(sender, call) ==
  /\ executesUpgrade(sender, operator, methodologist, call)
  /\ consent' = Role
  /\ UNCHANGED <<roleVars, miscVars>>

-----------------------------------------------------------------------------
(* Internal functions                                                      *)

(* _authorizeExtension for every entry of bag: the struct afterwards ...   *)
authorizeIn(pm, bag) ==
  [pm EXCEPT !.authorizedExtensions = @ \union Listed(bag),
             !.authorizedExtensionsList = [e \in Extensions |-> @[e] + bag[e]]]

(* ... and the extensions that _addExtension adds on the way.              *)
(* Mutant: an extension is added again although it is already there.       *)
addMissingAgain(bag) ==
  /\ extensions' = [e \in Extensions |->
       extensions[e] + (IF e \in Listed(bag) THEN 1 ELSE 0)]
  /\ isExtension' = isExtension \union Listed(bag)

addMissing(bag) ==
  /\ extensions' = [e \in Extensions |->
       extensions[e] + (IF e \in Listed(bag) \ isExtension THEN 1 ELSE 0)]
  /\ isExtension' = isExtension \union Listed(bag)

(* _protectModule on the struct of one module.                             *)
protectedStruct(pm, bag) ==
  authorizeIn([pm EXCEPT !.isProtected = TRUE], bag)

(* _unProtectModule: the loop clears the flags of the listed extensions;   *)
(* `delete' resets isProtected and the list, and leaves the inner mapping. *)
(* Mutant: `delete' without the loop before it.                            *)
unProtectedStructUncleared(pm) ==
  [pm EXCEPT !.isProtected = FALSE, !.authorizedExtensionsList = NoExtensions]

unProtectedStruct(pm) ==
  [isProtected |-> FALSE,
   authorizedExtensionsList |-> NoExtensions,
   authorizedExtensions |->
     pm.authorizedExtensions \ Listed(pm.authorizedExtensionsList)]

(* protectedModules after _unProtectModule(m).                             *)
withoutModule(m) == [protectedModules EXCEPT ![m] = unProtectedStruct(@)]

doProtectModule(m, bag) ==
  /\ ~isProtected(m)
  /\ protectedModules' = [protectedModules EXCEPT ![m] = protectedStruct(@, bag)]
  /\ protectedModulesList' = [protectedModulesList EXCEPT ![m] = @ + 1]
  /\ addMissing(bag)

doUnProtectModule(m) ==
  /\ isProtected(m)
  /\ protectedModulesList[m] > 0
  /\ protectedModules' = withoutModule(m)
  /\ protectedModulesList' = [protectedModulesList EXCEPT ![m] = @ - 1]
  /\ UNCHANGED <<extensions, isExtension>>

(* The scan of protectedModulesList.                                       *)
(* Mutant: the scan misses the modules that are listed once.               *)
isAuthorizedExtensionOffByOne(e) ==
  \E m \in Modules : protectedModulesList[m] > 1 /\ e \in authorized(m)

isAuthorizedExtension(e) ==
  \E m \in Modules : protectedModulesList[m] > 0 /\ e \in authorized(m)

(* Mutant: the protection of the module is not consulted.                  *)
senderAuthorizedForAnyModule(m, e) == TRUE

senderAuthorizedForModule(m, e) == isProtected(m) => e \in authorized(m)

-----------------------------------------------------------------------------
(* External functions of the operator alone                                *)

addExtension(sender, e) ==
  /\ upgradesPermitted /\ onlyOperator(sender)
  /\ e \notin isExtension
  /\ e \in OwnExtensions
  /\ addMissing(OneExtension(e))
  /\ UNCHANGED <<setTokenVars, mutualUpgrades, protectedModules,
                 protectedModulesList, roleVars, emergencies, miscVars>>

removeExtension(sender, e) ==
  /\ onlyOperator(sender)
  /\ e \in isExtension
  /\ ~isAuthorizedExtension(e)
  /\ extensions[e] > 0
  /\ extensions' = [extensions EXCEPT ![e] = @ - 1]
  /\ isExtension' = isExtension \ {e}
  /\ UNCHANGED <<setTokenVars, mutualUpgrades, protectedModules,
                 protectedModulesList, roleVars, emergencies, miscVars>>

addModuleToSet(sender, m) ==
  /\ upgradesPermitted /\ onlyOperator(sender)
  /\ addModule(This, m)
  /\ UNCHANGED <<mutualUpgrades, arrangementVars, roleVars, emergencies, miscVars>>

(* Mutant: the operator may remove a protected module.                     *)
removeAnyModuleFromSet(sender, m) ==
  /\ onlyOperator(sender)
  /\ removeModule(This, m)
  /\ UNCHANGED <<mutualUpgrades, arrangementVars, roleVars, emergencies, miscVars>>

removeModuleFromSet(sender, m) ==
  /\ onlyOperator(sender)
  /\ ~isProtected(m)
  /\ removeModule(This, m)
  /\ UNCHANGED <<mutualUpgrades, arrangementVars, roleVars, emergencies, miscVars>>

protectModule(sender, m, bag) ==
  /\ upgradesPermitted /\ onlyOperator(sender)
  /\ m \in GetModules
  /\ doProtectModule(m, bag)
  /\ UNCHANGED <<setTokenVars, mutualUpgrades, roleVars, emergencies, miscVars>>

(* Mutant: the emergency is not counted.                                   *)
emergencyRemoveUncounted(sender, m) ==
  /\ onlyOperator(sender)
  /\ doUnProtectModule(m)
  /\ removeModule(This, m)
  /\ UNCHANGED <<mutualUpgrades, roleVars, emergencies, miscVars>>

emergencyRemoveProtectedModule(sender, m) ==
  /\ onlyOperator(sender)
  /\ doUnProtectModule(m)
  /\ removeModule(This, m)
  /\ emergencies < MaxEmergencies
  /\ emergencies' = emergencies + 1
  /\ UNCHANGED <<mutualUpgrades, roleVars, miscVars>>

setOperator(sender, newOperator) ==
  /\ onlyOperator(sender)
  /\ operator' = newOperator
  /\ UNCHANGED <<setTokenVars, mutualUpgrades, arrangementVars, methodologist,
                 emergencies, miscVars>>

-----------------------------------------------------------------------------
(* External functions of the methodologist alone                           *)

authorizeInitialization(sender) ==
  /\ onlyMethodologist(sender)
  /\ ~initialized
  /\ initialized' = TRUE
  /\ UNCHANGED <<setTokenVars, mutualUpgrades, arrangementVars, roleVars,
                 emergencies, tokensHeld>>

unProtectModule(sender, m) ==
  /\ onlyMethodologist(sender)
  /\ doUnProtectModule(m)
  /\ UNCHANGED <<setTokenVars, mutualUpgrades, roleVars, emergencies, miscVars>>

(* Mutant: resolving without an emergency.                                 *)
resolveEmergencyAnyTime(sender) ==
  /\ onlyMethodologist(sender)
  /\ emergencies' = emergencies - 1
  /\ UNCHANGED <<setTokenVars, mutualUpgrades, arrangementVars, roleVars, miscVars>>

resolveEmergency(sender) ==
  /\ onlyMethodologist(sender) /\ onlyEmergency
  /\ emergencies' = emergencies - 1
  /\ UNCHANGED <<setTokenVars, mutualUpgrades, arrangementVars, roleVars, miscVars>>

setMethodologist(sender, newMethodologist) ==
  /\ onlyMethodologist(sender)
  /\ methodologist' = newMethodologist
  /\ UNCHANGED <<setTokenVars, mutualUpgrades, arrangementVars, operator,
                 emergencies, miscVars>>

-----------------------------------------------------------------------------
(* External functions under the mutualUpgrade modifier                     *)

setManagerOfSet(sender, newManager) ==
  LET call == <<"setManager", newManager>> IN
  \/ mutualRegister(sender, call)
  \/ /\ mutualExecute(sender, call)
     /\ newManager # ZeroAddress
     /\ setManager(This, newManager)
     /\ UNCHANGED <<arrangementVars, emergencies>>

authorizeExtension(sender, m, e) ==
  LET call == <<"authorizeExtension", m, e>> IN
  \/ mutualRegister(sender, call)
  \/ /\ mutualExecute(sender, call)
     /\ isProtected(m)
     /\ e \notin authorized(m)
     /\ protectedModules' =
          [protectedModules EXCEPT ![m] = authorizeIn(@, OneExtension(e))]
     /\ addMissing(OneExtension(e))
     /\ UNCHANGED <<setTokenVars, protectedModulesList, emergencies>>

revokeExtensionAuthorization(sender, m, e) ==
  LET call == <<"revokeExtensionAuthorization", m, e>> IN
  \/ mutualRegister(sender, call)
  \/ /\ mutualExecute(sender, call)
     /\ isProtected(m)
     /\ e \in isExtension
     /\ e \in authorized(m)
     /\ protectedModules[m].authorizedExtensionsList[e] > 0
     /\ protectedModules' = [protectedModules EXCEPT
          ![m].authorizedExtensions = @ \ {e},
          ![m].authorizedExtensionsList[e] = @ - 1]
     /\ UNCHANGED <<setTokenVars, extensions, isExtension,
                    protectedModulesList, emergencies>>

replaceProtectedModule(sender, old, new, bag) ==
  LET call == <<"replaceProtectedModule", old, new, bag>> IN
  \/ mutualRegister(sender, call)
  \/ /\ mutualExecute(sender, call)
     /\ isProtected(old)
     /\ protectedModulesList[old] > 0
     /\ replaceModule(This, old, new)
     /\ ~withoutModule(old)[new].isProtected
     /\ protectedModules' =
          [withoutModule(old) EXCEPT ![new] = protectedStruct(@, bag)]
     /\ protectedModulesList' =
          [protectedModulesList EXCEPT ![old] = @ - 1, ![new] = @ + 1]
     /\ addMissing(bag)
     /\ UNCHANGED emergencies

emergencyReplaceProtectedModule(sender, m, bag) ==
  LET call == <<"emergencyReplaceProtectedModule", m, bag>> IN
  \/ mutualRegister(sender, call)
  \/ /\ mutualExecute(sender, call)
     /\ onlyEmergency
     /\ addModule(This, m)
     /\ doProtectModule(m, bag)
     /\ emergencies' = emergencies - 1

-----------------------------------------------------------------------------
(* Calls by extensions                                                     *)

(* interactManager forwards any call to the module.  Two of them change    *)
(* the registry: initialize, which the module accepts from the manager of  *)
(* the SetToken, and a call that locks the SetToken across transactions    *)
(* (AuctionRebalanceModuleV1.startRebalance).                              *)
interactManager(e, m) ==
  /\ e \in isExtension
  /\ initialized
  /\ senderAuthorizedForModule(m, e)
  /\ manager = This
  /\ initializeModule(m) \/ lock(m)
  /\ consent' = {}
  /\ UNCHANGED <<mutualUpgrades, arrangementVars, roleVars, emergencies, miscVars>>

transferTokens(e) ==
  /\ e \in isExtension
  /\ tokensHeld > 0
  /\ tokensHeld' = tokensHeld - 1
  /\ consent' = {}
  /\ UNCHANGED <<setTokenVars, mutualUpgrades, arrangementVars, roleVars,
                 emergencies, initialized>>

-----------------------------------------------------------------------------
(* The environment                                                         *)

(* The module that locked the SetToken ends the auction.                   *)
unlockSet(m) ==
  /\ unlock(m)
  /\ consent' = {}
  /\ UNCHANGED <<mutualUpgrades, arrangementVars, roleVars, emergencies, miscVars>>

(* Somebody sends tokens to this contract.                                 *)
receiveTokens ==
  /\ tokensHeld < MaxTokensHeld
  /\ tokensHeld' = tokensHeld + 1
  /\ consent' = {}
  /\ UNCHANGED <<setTokenVars, mutualUpgrades, arrangementVars, roleVars,
                 emergencies, initialized>>

-----------------------------------------------------------------------------

OperatorNext(sender) ==
  \/ \E e \in Extensions : addExtension(sender, e) \/ removeExtension(sender, e)
  \/ \E m \in Modules : \/ addModuleToSet(sender, m)
                        \/ removeModuleFromSet(sender, m)
                        \/ emergencyRemoveProtectedModule(sender, m)
  \/ \E m \in Modules, bag \in ExtensionLists : protectModule(sender, m, bag)
  \/ \E p \in Parties : setOperator(sender, p)

MethodologistNext(sender) ==
  \/ authorizeInitialization(sender)
  \/ \E m \in Modules : unProtectModule(sender, m)
  \/ resolveEmergency(sender)
  \/ \E p \in Parties : setMethodologist(sender, p)

MutualNext(sender) ==
  \/ \E x \in Managers : setManagerOfSet(sender, x)
  \/ \E m \in Modules, e \in Extensions :
       \/ authorizeExtension(sender, m, e)
       \/ revokeExtensionAuthorization(sender, m, e)
  \/ \E old, new \in Modules, bag \in ExtensionLists :
       replaceProtectedModule(sender, old, new, bag)
  \/ \E m \in Modules, bag \in ExtensionLists :
       emergencyReplaceProtectedModule(sender, m, bag)

EnvironmentNext ==
  \/ \E e \in Extensions, m \in Modules : interactManager(e, m)
  \/ \E e \in Extensions : transferTokens(e)
  \/ \E m \in Modules : unlockSet(m)
  \/ receiveTokens

Next ==
  \/ \E sender \in Parties :
       OperatorNext(sender) \/ MethodologistNext(sender) \/ MutualNext(sender)
  \/ EnvironmentNext

Spec == Init /\ [][Next]_vars

-----------------------------------------------------------------------------
(* Properties                                                              *)

(* The state of the contract and of the SetToken's registry is well typed. *)
TypeOK ==
  /\ SetTokenTypeOK
  /\ operator \in Parties /\ methodologist \in Parties
  /\ extensions \in Bag
  /\ isExtension \subseteq Extensions
  /\ protectedModules \in [Modules -> ProtectedModule]
  /\ protectedModulesList \in [Modules -> Nat]
  /\ emergencies \in Nat
  /\ initialized \in BOOLEAN
  /\ tokensHeld \in Nat
  /\ consent \subseteq Role

(* The arrays and the mappings never drift apart, whatever order           *)
(* extensions and modules are added, removed, protected and replaced in:   *)
(* an extension or a protected module is listed once when its flag is set  *)
(* and not at all otherwise.  removeStorage deletes one entry, so a second *)
(* one would outlive its flag.                                             *)
ArraysMatchMappings ==
  /\ \A e \in Extensions : extensions[e] = IF e \in isExtension THEN 1 ELSE 0
  /\ \A m \in Modules : protectedModulesList[m] = IF isProtected(m) THEN 1 ELSE 0

(* Every authorization can be found through the module's list, which is    *)
(* all that _unProtectModule clears; so none survives the end of the       *)
(* protection, ready to come back to life when the module is protected     *)
(* again for other extensions.                                             *)
NoStaleAuthorization ==
  \A m \in Modules :
    /\ authorized(m) \subseteq Listed(protectedModules[m].authorizedExtensionsList)
    /\ ~isProtected(m) => authorized(m) = {}

(* An extension authorized for a protected module is still an extension:   *)
(* the operator cannot take the methodologist's fee extension away from    *)
(* interactManager by removeExtension.                                     *)
AuthorizedAreExtensions == \A m \in Modules : authorized(m) \subseteq isExtension

(* While this contract manages the SetToken, a protected module has not    *)
(* left it, and only an initialized module holds the lock that makes every *)
(* removal revert.                                                         *)
ProtectedOnSetToken ==
  /\ manager = This => \A m \in Modules : isProtected(m) => moduleStates[m] # "NONE"
  /\ isLocked => moduleStates[locker] = "INITIALIZED"

(* Until the methodologist has agreed, the period after an emergency       *)
(* removal brings no new module to the SetToken, no new extension, no new  *)
(* protected module, and no end of the emergency.                          *)
FrozenInEmergency ==
  [][emergencies > 0 /\ "methodologist" \notin consent' =>
       /\ \A m \in Modules : moduleStates'[m] = "PENDING" => moduleStates[m] = "PENDING"
       /\ isExtension' \subseteq isExtension
       /\ \A m \in Modules : isProtected(m)' => isProtected(m)
       /\ emergencies' >= emergencies]_vars

(* As long as a module stays protected, the extensions that get through    *)
(* interactManager to it are those the methodologist agreed to: no         *)
(* sequence of additions and removals by the operator takes one away or    *)
(* lets another one in.                                                    *)
canReach(m) == {e \in isExtension : senderAuthorizedForModule(m, e)}

ReachIsAgreed ==
  [][\A m \in Modules :
       isProtected(m) /\ isProtected(m)' /\ "methodologist" \notin consent'
         => canReach(m)' = canReach(m)]_vars

(* The contract keeps the promise of ProtectionPolicy: every change of the *)
(* arrangement the methodologist relies on is one of the policy's steps.   *)
Policy == INSTANCE ProtectionPolicy WITH
  protected <- {m \in Modules : isProtected(m)},
  callers <- [m \in Modules |-> authorized(m)]

ImplementsPolicy == Policy!Spec
=============================================================================
