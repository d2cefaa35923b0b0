--------------------------- MODULE SetTokenModules ---------------------------
(***************************************************************************)
(* The part of a SetToken that its manager governs: which modules it has,  *)
(* who its manager is, and whether a module has locked it                  *)
(* (src/external/contracts/set/SetToken.sol).  Each operator below is one  *)
(* external function, require clauses first; the caller check              *)
(* (onlyManager, msg.sender = module) is the `caller' parameter.           *)
(***************************************************************************)
EXTENDS Naturals

CONSTANTS
  Modules,            \* module addresses
  ControllerModules,  \* the modules enabled on the protocol Controller
  Managers,           \* addresses that can be the manager of the SetToken
  NoLocker            \* the null `locker' of an unlocked SetToken

ASSUME ControllerAssumption == ControllerModules \subseteq Modules
ASSUME NoLockerAssumption == NoLocker \notin Modules

VARIABLES
  moduleStates,       \* ModuleState of every module
  manager,            \* the address that may add and remove modules
  locker              \* the module that locked the token, or NoLocker

setTokenVars == <<moduleStates, manager, locker>>

ModuleState == {"NONE", "PENDING", "INITIALIZED"}

SetTokenTypeOK ==
  /\ moduleStates \in [Modules -> ModuleState]
  /\ manager \in Managers
  /\ locker \in Modules \union {NoLocker}

isLocked == locker # NoLocker

(* getModules() lists the initialized modules only.                        *)
GetModules == {m \in Modules : moduleStates[m] = "INITIALIZED"}

-----------------------------------------------------------------------------

addModule(caller, m) ==
  /\ caller = manager
  /\ moduleStates[m] = "NONE"
  /\ m \in ControllerModules
  /\ moduleStates' = [moduleStates EXCEPT ![m] = "PENDING"]
  /\ UNCHANGED <<manager, locker>>

(* The hook IModule.removeModule() of the removed module may revert; then  *)
(* the step is not taken.                                                  *)
removeModule(caller, m) ==
  /\ caller = manager
  /\ ~isLocked
  /\ moduleStates[m] = "INITIALIZED"
  /\ moduleStates' = [moduleStates EXCEPT ![m] = "NONE"]
  /\ UNCHANGED <<manager, locker>>

(* removeModule(old) then addModule(new), in one transaction.              *)
replaceModule(caller, old, new) ==
  /\ caller = manager
  /\ ~isLocked
  /\ moduleStates[old] = "INITIALIZED"
  /\ new = old \/ moduleStates[new] = "NONE"
  /\ new \in ControllerModules
  /\ moduleStates' = [moduleStates EXCEPT ![old] = "NONE", ![new] = "PENDING"]
  /\ UNCHANGED <<manager, locker>>

initializeModule(m) ==
  /\ ~isLocked
  /\ moduleStates[m] = "PENDING"
  /\ moduleStates' = [moduleStates EXCEPT ![m] = "INITIALIZED"]
  /\ UNCHANGED <<manager, locker>>

setManager(caller, newManager) ==
  /\ caller = manager
  /\ ~isLocked
  /\ manager' = newManager
  /\ UNCHANGED <<moduleStates, locker>>

lock(m) ==
  /\ moduleStates[m] = "INITIALIZED"
  /\ ~isLocked
  /\ locker' = m
  /\ UNCHANGED <<moduleStates, manager>>

unlock(m) ==
  /\ locker = m
  /\ locker' = NoLocker
  /\ UNCHANGED <<moduleStates, manager>>
=============================================================================
