----------------------------- MODULE ManagerCore -----------------------------
(***************************************************************************)
(* src/contracts/ManagerCore.sol: the registry of extensions, factories    *)
(* and managers that its owner, the protocol's governance, has enabled.  A *)
(* mapping to bool is the set of its true keys; the arrays that repeat     *)
(* them for the getters are left out.                                      *)
(***************************************************************************)
VARIABLES isExtension, isFactory, isManager

coreVars == <<isExtension, isFactory, isManager>>

addExtension(e) ==
  /\ e \notin isExtension
  /\ isExtension' = isExtension \union {e}
  /\ UNCHANGED <<isFactory, isManager>>

removeExtension(e) ==
  /\ e \in isExtension
  /\ isExtension' = isExtension \ {e}
  /\ UNCHANGED <<isFactory, isManager>>

addFactory(f) ==
  /\ f \notin isFactory
  /\ isFactory' = isFactory \union {f}
  /\ UNCHANGED <<isExtension, isManager>>

removeFactory(f) ==
  /\ f \in isFactory
  /\ isFactory' = isFactory \ {f}
  /\ UNCHANGED <<isExtension, isManager>>

(* Called by a factory; a factory that was removed cannot.                 *)
addManager(f, m) ==
  /\ f \in isFactory
  /\ m \notin isManager
  /\ isManager' = isManager \union {m}
  /\ UNCHANGED <<isExtension, isFactory>>

removeManager(m) ==
  /\ m \in isManager
  /\ isManager' = isManager \ {m}
  /\ UNCHANGED <<isExtension, isFactory>>
=============================================================================
