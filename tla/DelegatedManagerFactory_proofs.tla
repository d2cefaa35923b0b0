-------------------- MODULE DelegatedManagerFactory_proofs --------------------
(***************************************************************************)
(* Safety of the DelegatedManager system for every set of managers,        *)
(* extensions and accounts.  The invariants are inductive together:        *)
(* that a manager's own records agree (ArraysMatchStates) and that an      *)
(* extension remembers a manager which has let it in                       *)
(* (RegisteredAreInitialized) are what the handover rests on; and a new    *)
(* manager is the factory's alone (PendingIsTheFactorys) because before    *)
(* the SetToken exists nothing can have been deployed for it.              *)
(***************************************************************************)
EXTENDS DelegatedManagerCalls, TLAPS

(* No manager is deployed for a SetToken that is not there yet.            *)
NoManagerWithoutSet == tokenManager = Nobody => Deployed = {}

IInv ==
  /\ TypeOK
  /\ ArraysMatchStates
  /\ RegisteredAreInitialized
  /\ PendingIsTheFactorys
  /\ NoManagerWithoutSet

(* Roles are told apart by their addresses.                                *)
LEMMA Addresses ==
  /\ Factory \notin Parties /\ Factory \notin Managers
  /\ Nobody \notin Managers /\ Nobody \notin Parties /\ Nobody # Factory
  /\ \A p \in Parties : p \notin Managers
BY FactoryAssumption, AddressAssumption, NobodyAssumption

-----------------------------------------------------------------------------
(* The operators on a manager's storage keep its type.                     *)

LEMMA ConstructedType ==
  ASSUME NEW es \in SUBSET Extensions, NEW operators \in SUBSET Operators
  PROVE  Constructed(es, operators) \in Storage
BY DEF Constructed, Storage, ExtensionState, Accounts

LEMMA InitializedType ==
  ASSUME NEW s \in Storage, NEW es \in SUBSET Extensions
  PROVE  withInitialized(s, es) \in Storage
<1> DEFINE states == [e \in Extensions |->
             IF e \in es THEN "INITIALIZED" ELSE s.extensionAllowlist[e]]
           array == [e \in Extensions |->
             IF e \in es THEN s.extensions[e] + 1 ELSE s.extensions[e]]
<1>1. states \in [Extensions -> ExtensionState]
  BY DEF Storage, ExtensionState
<1>2. array \in [Extensions -> Nat]
  BY DEF Storage
<1>3. withInitialized(s, es)
        = [s EXCEPT !.extensionAllowlist = states, !.extensions = array]
  BY DEF withInitialized, Storage
<1> HIDE DEF states, array
<1> QED
  BY <1>1, <1>2, <1>3 DEF Storage

LEMMA PendingType ==
  ASSUME NEW s \in Storage, NEW es \in SUBSET Extensions
  PROVE  withPending(s, es) \in Storage
<1> DEFINE states == [e \in Extensions |->
             IF e \in es THEN "PENDING" ELSE s.extensionAllowlist[e]]
<1>1. states \in [Extensions -> ExtensionState]
  BY DEF Storage, ExtensionState
<1>2. withPending(s, es) = [s EXCEPT !.extensionAllowlist = states]
  BY DEF withPending, Storage
<1> HIDE DEF states
<1> QED
  BY <1>1, <1>2 DEF Storage

(* Removing needs the array to list what is removed.                       *)
LEMMA WithoutType ==
  ASSUME NEW s \in Storage, NEW es \in SUBSET Extensions,
         \A e \in es : s.extensions[e] = 1
  PROVE  withoutExtensions(s, es) \in Storage
<1> DEFINE states == [e \in Extensions |->
             IF e \in es THEN "NONE" ELSE s.extensionAllowlist[e]]
           array == [e \in Extensions |->
             IF e \in es THEN s.extensions[e] - 1 ELSE s.extensions[e]]
<1>1. states \in [Extensions -> ExtensionState]
  BY DEF Storage, ExtensionState
<1>2. array \in [Extensions -> Nat]
  BY DEF Storage
<1>3. withoutExtensions(s, es)
        = [s EXCEPT !.extensionAllowlist = states, !.extensions = array]
  BY DEF withoutExtensions, Storage
<1> HIDE DEF states, array
<1> QED
  BY <1>1, <1>2, <1>3 DEF Storage

(* A fee split is stored, or an approval; the rest stays.                  *)
LEMMA FeeSplitFacts ==
  ASSUME NEW s \in Storage, NEW p \in Accounts, NEW split \in FeeSplits
  PROVE  /\ withFeeSplit(s, p, split) \in Storage
         /\ withFeeSplit(s, p, split).deployed = s.deployed
         /\ withFeeSplit(s, p, split).owner = s.owner
         /\ withFeeSplit(s, p, split).methodologist = s.methodologist
         /\ withFeeSplit(s, p, split).extensionAllowlist = s.extensionAllowlist
         /\ withFeeSplit(s, p, split).extensions = s.extensions
         /\ withFeeSplit(s, p, split).operatorAllowlist = s.operatorAllowlist
<1> DEFINE share == IF runsBody(s.mutualUpgrades, p, s.owner, s.methodologist, split)
                      THEN split ELSE s.ownerFeeSplit
           after == approvalsAfter(s.mutualUpgrades, p, s.owner, s.methodologist, split)
<1>1. share \in FeeSplits \union {0}
  BY DEF Storage
<1>2. after \in SUBSET (FeeSplits \X Accounts)
  BY DEF Storage, approvalsAfter
<1>3. withFeeSplit(s, p, split)
        = [s EXCEPT !.ownerFeeSplit = share, !.mutualUpgrades = after]
  BY DEF withFeeSplit, Storage
<1> HIDE DEF share, after
<1> QED
  BY <1>1, <1>2, <1>3 DEF Storage

-----------------------------------------------------------------------------
(* The storage records of a manager and the rest of the state.             *)

(* A manager's array lists what its allowlist calls initialized.           *)
Agree(s) ==
  \A e \in Extensions :
    s.extensions[e] = IF s.deployed /\ s.extensionAllowlist[e] = "INITIALIZED" THEN 1 ELSE 0

LEMMA AgreeEverywhere == ArraysMatchStates <=> \A m \in Managers : Agree(dm[m])
BY DEF ArraysMatchStates, Agree, isInState

LEMMA PendingParams ==
  ASSUME TypeOK, initializeState.isPending
  PROVE  initializeState \in InitializeParams
<1>1. initializeState # NotPending
  BY DEF NotPending
<1> QED
  BY <1>1 DEF TypeOK

(* Who signs as a party does not sign for a manager that waits for its     *)
(* initialization.                                                         *)
LEMMA PendingHasNoParty ==
  ASSUME PendingIsTheFactorys, NEW m \in Managers, NEW p \in Parties,
         p \in {dm[m].owner, dm[m].methodologist}
  PROVE  initializeState.isPending => initializeState.manager # m
BY Addresses DEF PendingIsTheFactorys

(* A transaction that rewrites the storage of one manager, other than the  *)
(* pending one, and in the extensions' records nothing but that manager.   *)
LEMMA StoreStep ==
  ASSUME IInv,
         NEW m \in Managers, NEW t \in Storage, Agree(t),
         dm[m].deployed, t.deployed,
         initializeState.isPending => initializeState.manager # m,
         dm' = [dm EXCEPT ![m] = t],
         setManagers' \in [Extensions -> Managers \union {Nobody}],
         \A e \in Extensions : setManagers'[e] # Nobody =>
           IF setManagers'[e] = m THEN t.extensionAllowlist[e] = "INITIALIZED"
                                  ELSE setManagers'[e] = setManagers[e],
         UNCHANGED <<coreVars, tokenManager, initializeState>>,
         sender' \in Parties
  PROVE  IInv'
<1>1. /\ dm \in [Managers -> Storage]
      /\ dm'[m] = t
      /\ \A k \in Managers : k # m => dm'[k] = dm[k]
  BY DEF IInv, TypeOK
<1>2. TypeOK'
  BY <1>1 DEF IInv, TypeOK, coreVars
<1>3. ArraysMatchStates'
  <2>1. \A k \in Managers : Agree(dm[k])
    BY AgreeEverywhere DEF IInv
  <2>2. \A k \in Managers : Agree(dm'[k])
    BY <1>1, <2>1
  <2> QED
    BY <2>2 DEF ArraysMatchStates, Agree, isInState
<1>4. RegisteredAreInitialized'
  <2> SUFFICES ASSUME NEW e \in Extensions, setManagers'[e] # Nobody
               PROVE  /\ dm'[setManagers'[e]].deployed
                      /\ dm'[setManagers'[e]].extensionAllowlist[e] = "INITIALIZED"
    BY DEF RegisteredAreInitialized, isInState
  <2>1. CASE setManagers'[e] = m
    BY <2>1, <1>1
  <2>2. CASE setManagers'[e] # m
    <3>1. setManagers'[e] \in Managers /\ setManagers'[e] = setManagers[e]
      BY <2>2
    <3> QED
      BY <3>1, <2>2, <1>1 DEF isInState, IInv, RegisteredAreInitialized
  <2> QED
    BY <2>1, <2>2
<1>5. Deployed' = Deployed
  BY <1>1 DEF Deployed
<1>6. PendingIsTheFactorys'
  <2>1. initializeState.isPending => initializeState.manager \in Managers
    BY PendingParams DEF IInv, InitializeParams
  <2> QED
    BY <1>1, <1>5, <2>1 DEF IInv, PendingIsTheFactorys, isInState
<1>7. NoManagerWithoutSet'
  BY <1>5 DEF IInv, NoManagerWithoutSet
<1> QED
  BY <1>2, <1>3, <1>4, <1>6, <1>7 DEF IInv

(* A transaction that passes the SetToken on, and stores nothing.          *)
LEMMA HandoverStep ==
  ASSUME IInv, tokenManager \in Managers \union Parties,
         tokenManager' \in Parties \union Deployed,
         UNCHANGED <<dm, coreVars, initializeState, setManagers>>,
         sender' \in Parties
  PROVE  IInv'
<1>1. tokenManager' \in Parties \union Managers
  BY DEF Deployed
<1>2. TypeOK'
  BY <1>1 DEF IInv, TypeOK, coreVars, Accounts
<1>3. ArraysMatchStates' /\ RegisteredAreInitialized'
  BY DEF IInv, ArraysMatchStates, RegisteredAreInitialized, isInState
<1>4. PendingIsTheFactorys' /\ NoManagerWithoutSet'
  BY <1>1, Addresses DEF IInv, PendingIsTheFactorys, NoManagerWithoutSet, isInState
<1> QED
  BY <1>2, <1>3, <1>4 DEF IInv

-----------------------------------------------------------------------------
(* Every transaction keeps the invariant.                                  *)

(* A contract that an action of its own changes is deployed and typed.     *)
LEMMA StorageFacts ==
  ASSUME IInv, NEW m \in Managers
  PROVE  dm[m] \in Storage /\ Agree(dm[m])
<1>1. dm[m] \in Storage
  BY DEF IInv, TypeOK
<1> QED
  BY <1>1, AgreeEverywhere DEF IInv

LEMMA DeployKeeps ==
  ASSUME IInv,
         NEW p \in Parties, NEW m \in Managers,
         NEW owner \in Parties, NEW methodologist \in Parties,
         NEW operators \in SUBSET Operators, NEW es \in ExtensionLists,
         deployManager(p, m, owner, methodologist, operators, es),
         \/ tokenManager = Nobody /\ tokenManager' = Factory
         \/ tokenManager = p /\ tokenManager' = p
  PROVE  IInv'
<1> DEFINE t == Constructed(es, operators)
<1>1. /\ t \in Storage /\ t.deployed
      /\ t.owner = Factory /\ t.methodologist = Factory
      /\ \A e \in Extensions :
           t.extensions[e] = 0 /\ t.extensionAllowlist[e] # "INITIALIZED"
  <2>1. es \in SUBSET Extensions
    BY DEF ExtensionLists
  <2> QED
    BY <2>1, ConstructedType DEF Constructed
<1>2. /\ ~ dm[m].deployed
      /\ dm' = [dm EXCEPT ![m] = t]
      /\ initializeState' =
           [deployer |-> p, owner |-> owner, methodologist |-> methodologist,
            manager |-> m, isPending |-> TRUE]
      /\ isManager' = isManager \union {m}
      /\ UNCHANGED <<isExtension, isFactory, setManagers>>
      /\ sender' = p
  BY DEF deployManager, addManager
<1> HIDE DEF t
<1>3. /\ dm'[m] = t
      /\ \A k \in Managers : k # m => dm'[k] = dm[k]
  BY <1>2 DEF IInv, TypeOK
<1>4. TypeOK'
  <2>1. initializeState' \in InitializeParams
    BY <1>2 DEF InitializeParams
  <2> QED
    BY <1>1, <1>2, <2>1 DEF IInv, TypeOK, Accounts
<1>5. ArraysMatchStates'
  BY <1>1, <1>3 DEF IInv, ArraysMatchStates, isInState
<1>6. RegisteredAreInitialized'
  <2> SUFFICES ASSUME NEW e \in Extensions, setManagers[e] # Nobody
               PROVE  /\ dm'[setManagers[e]].deployed
                      /\ dm'[setManagers[e]].extensionAllowlist[e] = "INITIALIZED"
    BY <1>2 DEF RegisteredAreInitialized, isInState
  <2>1. /\ setManagers[e] \in Managers
        /\ dm[setManagers[e]].deployed
        /\ dm[setManagers[e]].extensionAllowlist[e] = "INITIALIZED"
    BY DEF IInv, TypeOK, RegisteredAreInitialized, isInState
  <2>2. setManagers[e] # m
    BY <2>1, <1>2
  <2> QED
    BY <2>1, <2>2, <1>3
<1>7. PendingIsTheFactorys'
  <2>1. initializeState'.manager = m /\ initializeState'.isPending
    BY <1>2
  <2>2. tokenManager' = Factory => Deployed' = {m}
    <3>1. SUFFICES ASSUME tokenManager' = Factory
                   PROVE  Deployed' = {m}
      OBVIOUS
    <3>2. Deployed = {}
      BY <3>1, Addresses DEF IInv, NoManagerWithoutSet
    <3> QED
      BY <3>2, <1>1, <1>3 DEF Deployed
  <2> QED
    BY <1>1, <1>3, <2>1, <2>2 DEF PendingIsTheFactorys, isInState
<1>8. NoManagerWithoutSet'
  BY Addresses DEF NoManagerWithoutSet
<1> QED
  BY <1>4, <1>5, <1>6, <1>7, <1>8 DEF IInv

LEMMA InitializeKeeps ==
  ASSUME IInv,
         NEW p \in Parties, NEW es \in ExtensionLists, NEW split \in FeeSplits,
         initialize(p, es, split)
  PROVE  IInv'
<1> DEFINE m == initializeState.manager
           i == withInitialized(dm[m], es)
           f == withFeeSplit(i, Factory, split)
           t == [f EXCEPT !.owner = initializeState.owner,
                          !.methodologist = initializeState.methodologist]
<1>1. es \in SUBSET Extensions
  BY DEF ExtensionLists
<1>2. /\ initializeState \in InitializeParams
      /\ m \in Managers
      /\ initializeState.owner \in Parties
      /\ initializeState.methodologist \in Parties
  <2>1. initializeState \in InitializeParams
    BY PendingParams DEF IInv, initialize
  <2> QED
    BY <2>1 DEF InitializeParams
<1>3. /\ dm[m] \in Storage /\ Agree(dm[m]) /\ dm[m].deployed
      /\ \A e \in Extensions : dm[m].extensionAllowlist[e] # "INITIALIZED"
  BY <1>2, StorageFacts DEF initialize, IInv, PendingIsTheFactorys, isInState
<1>4. /\ i \in Storage /\ i.deployed
      /\ \A e \in Extensions :
           IF e \in es THEN i.extensionAllowlist[e] = "INITIALIZED" /\ i.extensions[e] = 1
                       ELSE i.extensionAllowlist[e] # "INITIALIZED" /\ i.extensions[e] = 0
  <2>1. i \in Storage
    BY <1>1, <1>3, InitializedType
  <2>2. i.deployed = dm[m].deployed
    BY <1>3 DEF withInitialized, Storage
  <2>3. \A e \in Extensions : dm[m].extensions[e] = 0
    BY <1>3 DEF Agree
  <2>4. \A e \in Extensions :
          /\ i.extensionAllowlist[e] =
               IF e \in es THEN "INITIALIZED" ELSE dm[m].extensionAllowlist[e]
          /\ i.extensions[e] =
               IF e \in es THEN dm[m].extensions[e] + 1 ELSE dm[m].extensions[e]
    BY <1>3 DEF withInitialized, Storage
  <2> QED
    BY <1>3, <2>1, <2>2, <2>3, <2>4
<1>5. /\ f \in Storage
      /\ f.deployed = i.deployed
      /\ f.extensionAllowlist = i.extensionAllowlist
      /\ f.extensions = i.extensions
  <2>1. Factory \in Accounts
    BY DEF Accounts
  <2> HIDE DEF i
  <2> QED
    BY <1>4, <2>1, FeeSplitFacts
<1>6. /\ dm' = [dm EXCEPT ![m] = t]
      /\ tokenManager' = IF tokenManager = Factory THEN m ELSE tokenManager
      /\ setManagers' = [e \in Extensions |-> IF e \in es THEN m ELSE setManagers[e]]
      /\ initializeState' = NotPending
      /\ sender' = p
      /\ UNCHANGED coreVars
  <2>1. dm' = [dm EXCEPT ![m] =
           [withFeeSplit(withInitialized(@, es), Factory, split) EXCEPT
              !.owner = initializeState.owner,
              !.methodologist = initializeState.methodologist]]
    BY DEF initialize
  <2>2. dm \in [Managers -> Storage]
    BY DEF IInv, TypeOK
  <2> QED
    BY <2>1, <2>2, <1>2 DEF initialize
<1>7. /\ t \in Storage /\ t.deployed
      /\ t.extensionAllowlist = i.extensionAllowlist
      /\ t.extensions = i.extensions
  <2>1. initializeState.owner \in Accounts /\ initializeState.methodologist \in Accounts
    BY <1>2 DEF Accounts
  <2> HIDE DEF f, i
  <2> QED
    BY <2>1, <1>4, <1>5 DEF Storage
<1> HIDE DEF t, f, i
<1>8. /\ dm'[m] = t
      /\ \A k \in Managers : k # m => dm'[k] = dm[k]
  BY <1>2, <1>6 DEF IInv, TypeOK
<1>9. TypeOK'
  <2>1. dm' \in [Managers -> Storage]
    BY <1>2, <1>6, <1>7 DEF IInv, TypeOK
  <2>2. setManagers' \in [Extensions -> Managers \union {Nobody}]
    BY <1>2, <1>6 DEF IInv, TypeOK
  <2> QED
    BY <2>1, <2>2, <1>2, <1>6 DEF IInv, TypeOK, coreVars
<1>10. ArraysMatchStates'
  BY <1>4, <1>7, <1>8 DEF IInv, ArraysMatchStates, isInState
<1>11. RegisteredAreInitialized'
  <2> SUFFICES ASSUME NEW e \in Extensions, setManagers'[e] # Nobody
               PROVE  /\ dm'[setManagers'[e]].deployed
                      /\ dm'[setManagers'[e]].extensionAllowlist[e] = "INITIALIZED"
    BY DEF RegisteredAreInitialized, isInState
  <2>1. CASE e \in es
    BY <2>1, <1>4, <1>6, <1>7, <1>8
  <2>2. CASE e \notin es
    <3>1. setManagers'[e] = setManagers[e]
      BY <2>2, <1>6
    <3>2. /\ setManagers[e] \in Managers
          /\ dm[setManagers[e]].deployed
          /\ dm[setManagers[e]].extensionAllowlist[e] = "INITIALIZED"
      BY <3>1 DEF IInv, TypeOK, RegisteredAreInitialized, isInState
    <3>3. setManagers[e] # m
      BY <3>2, <1>3
    <3> QED
      BY <3>1, <3>2, <3>3, <1>8
  <2> QED
    BY <2>1, <2>2
<1>12. PendingIsTheFactorys'
  <2>1. tokenManager' # Factory
    BY <1>2, <1>6, Addresses
  <2>2. ~ initializeState'.isPending
    BY <1>6 DEF NotPending
  <2> QED
    BY <2>1, <2>2 DEF PendingIsTheFactorys
<1>13. NoManagerWithoutSet'
  <2>1. Deployed # {}
    BY <1>2, <1>3 DEF Deployed
  <2>2. tokenManager # Nobody
    BY <2>1 DEF IInv, NoManagerWithoutSet
  <2> QED
    BY <2>2, <1>2, <1>6, Addresses DEF NoManagerWithoutSet
<1> QED
  BY <1>9, <1>10, <1>11, <1>12, <1>13 DEF IInv

LEMMA InitializeExtensionKeeps ==
  ASSUME IInv, NEW p \in Parties, NEW m \in Managers, NEW e \in Extensions,
         initializeExtension(p, m, e)
  PROVE  IInv'
<1> DEFINE t == withInitialized(dm[m], {e})
<1>1. /\ dm[m] \in Storage /\ Agree(dm[m]) /\ dm[m].deployed
      /\ p = dm[m].owner
      /\ dm[m].extensionAllowlist[e] = "PENDING"
  BY StorageFacts DEF initializeExtension, canInitialize, onlyOwner, isInState
<1>2. t \in Storage
  BY <1>1, InitializedType
<1>3. /\ t.deployed = dm[m].deployed
      /\ \A x \in Extensions :
           /\ t.extensionAllowlist[x] =
                IF x = e THEN "INITIALIZED" ELSE dm[m].extensionAllowlist[x]
           /\ t.extensions[x] =
                IF x = e THEN dm[m].extensions[x] + 1 ELSE dm[m].extensions[x]
  BY <1>1 DEF withInitialized, Storage
<1>4. dm' = [dm EXCEPT ![m] = t]
  BY DEF initializeExtension, IInv, TypeOK
<1>5. setManagers' = [setManagers EXCEPT ![e] = m]
  BY DEF initializeExtension
<1> HIDE DEF t
<1>6. Agree(t)
  BY <1>1, <1>3 DEF Agree
<1>7. initializeState.isPending => initializeState.manager # m
  BY <1>1, PendingHasNoParty DEF IInv
<1>8. setManagers' \in [Extensions -> Managers \union {Nobody}]
  BY <1>5 DEF IInv, TypeOK
<1>9. ASSUME NEW x \in Extensions, setManagers'[x] # Nobody
      PROVE  IF setManagers'[x] = m THEN t.extensionAllowlist[x] = "INITIALIZED"
                                   ELSE setManagers'[x] = setManagers[x]
  <2>1. setManagers'[x] = IF x = e THEN m ELSE setManagers[x]
    BY <1>5 DEF IInv, TypeOK
  <2>2. setManagers[x] = m => dm[m].extensionAllowlist[x] = "INITIALIZED"
    BY Addresses DEF IInv, RegisteredAreInitialized, isInState
  <2> QED
    BY <2>1, <2>2, <1>3
<1>10. UNCHANGED <<coreVars, tokenManager, initializeState>> /\ sender' = p
  BY DEF initializeExtension
<1> QED
  BY <1>1, <1>2, <1>3, <1>4, <1>6, <1>7, <1>8, <1>9, <1>10, StoreStep

LEMMA AddExtensionsKeeps ==
  ASSUME IInv, NEW p \in Parties, NEW m \in Managers, NEW es \in ExtensionLists,
         addExtensions(p, m, es)
  PROVE  IInv'
<1> DEFINE t == withPending(dm[m], es)
<1>1. /\ dm[m] \in Storage /\ Agree(dm[m]) /\ dm[m].deployed
      /\ p = dm[m].owner
      /\ \A e \in es : dm[m].extensionAllowlist[e] = "NONE"
  BY StorageFacts DEF addExtensions, ownerStores, onlyOwner, isInState
<1>2. t \in Storage
  BY <1>1, PendingType DEF ExtensionLists
<1>3. /\ t.deployed = dm[m].deployed
      /\ t.extensions = dm[m].extensions
      /\ \A x \in Extensions : t.extensionAllowlist[x] =
           IF x \in es THEN "PENDING" ELSE dm[m].extensionAllowlist[x]
  BY <1>1 DEF withPending, Storage
<1>4. /\ dm' = [dm EXCEPT ![m] = t]
      /\ UNCHANGED <<coreVars, tokenManager, initializeState, setManagers>>
      /\ sender' = p
  BY DEF addExtensions, ownerStores
<1> HIDE DEF t
<1>5. Agree(t)
  BY <1>1, <1>3 DEF Agree
<1>6. initializeState.isPending => initializeState.manager # m
  BY <1>1, PendingHasNoParty DEF IInv
<1>7. ASSUME NEW x \in Extensions, setManagers'[x] = m
      PROVE  t.extensionAllowlist[x] = "INITIALIZED"
  <2>1. dm[m].extensionAllowlist[x] = "INITIALIZED"
    BY <1>4, <1>7, Addresses DEF IInv, RegisteredAreInitialized, isInState
  <2> QED
    BY <2>1, <1>1, <1>3
<1>8. setManagers' \in [Extensions -> Managers \union {Nobody}]
  BY <1>4 DEF IInv, TypeOK
<1> QED
  BY <1>1, <1>2, <1>3, <1>4, <1>5, <1>6, <1>7, <1>8, StoreStep

LEMMA RemoveExtensionsKeeps ==
  ASSUME IInv, NEW p \in Parties, NEW m \in Managers, NEW es \in ExtensionLists,
         removeExtensions(p, m, es)
  PROVE  IInv'
<1> DEFINE t == withoutExtensions(dm[m], es)
<1>1. /\ dm[m] \in Storage /\ Agree(dm[m]) /\ dm[m].deployed
      /\ p = dm[m].owner
      /\ es \in SUBSET Extensions
      /\ \A e \in es : dm[m].extensionAllowlist[e] = "INITIALIZED"
  BY StorageFacts DEF removeExtensions, ownerStores, onlyOwner, isInState, ExtensionLists
<1>2. \A e \in es : dm[m].extensions[e] = 1
  BY <1>1 DEF Agree
<1>3. t \in Storage
  BY <1>1, <1>2, WithoutType
<1>4. /\ t.deployed = dm[m].deployed
      /\ \A x \in Extensions :
           /\ t.extensionAllowlist[x] =
                IF x \in es THEN "NONE" ELSE dm[m].extensionAllowlist[x]
           /\ t.extensions[x] =
                IF x \in es THEN dm[m].extensions[x] - 1 ELSE dm[m].extensions[x]
  BY <1>1 DEF withoutExtensions, Storage
<1>5. /\ dm' = [dm EXCEPT ![m] = t]
      /\ setManagers' =
           [e \in Extensions |-> IF e \in es THEN Nobody ELSE setManagers[e]]
      /\ UNCHANGED <<coreVars, tokenManager, initializeState>>
      /\ sender' = p
  BY DEF removeExtensions, ownerStores
<1> HIDE DEF t
<1>6. Agree(t)
  BY <1>1, <1>2, <1>4 DEF Agree
<1>7. initializeState.isPending => initializeState.manager # m
  BY <1>1, PendingHasNoParty DEF IInv
<1>8. setManagers' \in [Extensions -> Managers \union {Nobody}]
  BY <1>5 DEF IInv, TypeOK
<1>9. ASSUME NEW x \in Extensions, setManagers'[x] # Nobody
      PROVE  IF setManagers'[x] = m THEN t.extensionAllowlist[x] = "INITIALIZED"
                                   ELSE setManagers'[x] = setManagers[x]
  <2>1. x \notin es /\ setManagers'[x] = setManagers[x]
    BY <1>5, <1>9
  <2>2. setManagers[x] = m => dm[m].extensionAllowlist[x] = "INITIALIZED"
    BY Addresses DEF IInv, RegisteredAreInitialized, isInState
  <2> QED
    BY <2>1, <2>2, <1>4
<1> QED
  BY <1>1, <1>3, <1>4, <1>5, <1>6, <1>7, <1>8, <1>9, StoreStep

(* The functions that leave the extensions of the manager alone.           *)
LEMMA OtherStoreKeeps ==
  ASSUME IInv, NEW p \in Parties, NEW m \in Managers, NEW t \in Storage,
         dm[m].deployed,
         p \in {dm[m].owner, dm[m].methodologist},
         t.deployed = dm[m].deployed,
         t.extensionAllowlist = dm[m].extensionAllowlist,
         t.extensions = dm[m].extensions,
         dm' = [dm EXCEPT ![m] = t],
         UNCHANGED <<coreVars, tokenManager, initializeState, setManagers>>,
         sender' = p
  PROVE  IInv'
<1>1. Agree(t)
  BY StorageFacts DEF Agree
<1>2. initializeState.isPending => initializeState.manager # m
  BY PendingHasNoParty DEF IInv
<1>3. ASSUME NEW x \in Extensions, setManagers'[x] = m
      PROVE  t.extensionAllowlist[x] = "INITIALIZED"
  BY <1>3, Addresses DEF IInv, RegisteredAreInitialized, isInState
<1>4. setManagers' \in [Extensions -> Managers \union {Nobody}]
  BY DEF IInv, TypeOK
<1> QED
  BY <1>1, <1>2, <1>3, <1>4, StoreStep

LEMMA OperatorsKeep ==
  ASSUME IInv, NEW p \in Parties, NEW m \in Managers, NEW ps \in OperatorLists,
         addOperators(p, m, ps) \/ removeOperators(p, m, ps)
  PROVE  IInv'
<1>1. PICK qs \in SUBSET Operators :
        /\ ownerStores(p, m, [dm[m] EXCEPT !.operatorAllowlist = qs])
        /\ UNCHANGED <<coreVars, tokenManager, initializeState, setManagers>>
  <2>1. dm[m] \in Storage
    BY StorageFacts
  <2>2. /\ dm[m].operatorAllowlist \union ps \in SUBSET Operators
        /\ dm[m].operatorAllowlist \ ps \in SUBSET Operators
    BY <2>1 DEF Storage, OperatorLists
  <2> QED
    BY <2>1, <2>2 DEF addOperators, removeOperators
<1> DEFINE t == [dm[m] EXCEPT !.operatorAllowlist = qs]
<1>2. /\ t \in Storage
      /\ t.deployed = dm[m].deployed
      /\ t.extensionAllowlist = dm[m].extensionAllowlist
      /\ t.extensions = dm[m].extensions
  BY StorageFacts DEF Storage
<1>3. /\ dm[m].deployed /\ p = dm[m].owner
      /\ dm' = [dm EXCEPT ![m] = t] /\ sender' = p
  BY <1>1 DEF ownerStores, onlyOwner
<1> HIDE DEF t
<1> QED
  BY <1>1, <1>2, <1>3, OtherStoreKeeps

LEMMA RolesKeep ==
  ASSUME IInv, NEW p \in Parties, NEW m \in Managers, NEW q \in Parties,
         transferOwnership(p, m, q) \/ setMethodologist(p, m, q)
  PROVE  IInv'
<1> DEFINE o == [dm[m] EXCEPT !.owner = q]
           n == [dm[m] EXCEPT !.methodologist = q]
<1>1. q \in Accounts /\ dm[m] \in Storage
  BY StorageFacts DEF Accounts
<1>2. \A t \in {o, n} :
        /\ t \in Storage
        /\ t.deployed = dm[m].deployed
        /\ t.extensionAllowlist = dm[m].extensionAllowlist
        /\ t.extensions = dm[m].extensions
  BY <1>1 DEF Storage
<1>3. PICK t \in {o, n} : dm' = [dm EXCEPT ![m] = t]
  <2>1. dm \in [Managers -> Storage]
    BY DEF IInv, TypeOK
  <2>2. CASE transferOwnership(p, m, q)
    BY <2>2 DEF transferOwnership, ownerStores
  <2>3. CASE setMethodologist(p, m, q)
    BY <2>1, <2>3 DEF setMethodologist
  <2> QED
    BY <2>2, <2>3
<1>4. /\ dm[m].deployed
      /\ p \in {dm[m].owner, dm[m].methodologist}
      /\ UNCHANGED <<coreVars, tokenManager, initializeState, setManagers>>
      /\ sender' = p
  BY DEF transferOwnership, setMethodologist, ownerStores, onlyOwner, onlyMethodologist
<1> HIDE DEF o, n
<1> QED
  BY <1>2, <1>3, <1>4, OtherStoreKeeps

LEMMA FeeSplitKeeps ==
  ASSUME IInv, NEW p \in Parties, NEW m \in Managers, NEW split \in FeeSplits,
         updateOwnerFeeSplit(p, m, split)
  PROVE  IInv'
<1> DEFINE t == withFeeSplit(dm[m], p, split)
<1>1. p \in Accounts /\ dm[m] \in Storage
  BY StorageFacts DEF Accounts
<1>2. /\ t \in Storage
      /\ t.deployed = dm[m].deployed
      /\ t.extensionAllowlist = dm[m].extensionAllowlist
      /\ t.extensions = dm[m].extensions
  BY <1>1, FeeSplitFacts
<1>3. /\ dm[m].deployed
      /\ p \in {dm[m].owner, dm[m].methodologist}
      /\ dm' = [dm EXCEPT ![m] = t]
      /\ UNCHANGED <<coreVars, tokenManager, initializeState, setManagers>>
      /\ sender' = p
  BY DEF updateOwnerFeeSplit, isSigner
<1> HIDE DEF t
<1> QED
  BY <1>2, <1>3, OtherStoreKeeps

LEMMA GovernanceKeeps ==
  ASSUME IInv, governance
  PROVE  IInv'
<1>1. /\ isExtension' \subseteq Extensions
      /\ isFactory' \subseteq {Factory}
      /\ isManager' \subseteq Managers
  BY DEF governance, addExtension, removeExtension, addFactory, removeFactory,
         removeManager, IInv, TypeOK
<1>2. UNCHANGED <<dm, tokenManager, initializeState, setManagers>> /\ sender' = Nobody
  BY DEF governance
<1> QED
  BY <1>1, <1>2 DEF IInv, TypeOK, ArraysMatchStates, RegisteredAreInitialized,
     PendingIsTheFactorys, NoManagerWithoutSet, Deployed, isInState

LEMMA InitEstablishes == Init => IInv
<1> SUFFICES ASSUME Init PROVE IInv
  OBVIOUS
<1>1. NotDeployed \in Storage /\ ~ NotDeployed.deployed
  <2>1. Constructed({}, {}) \in Storage
    BY ConstructedType
  <2> QED
    BY <2>1 DEF NotDeployed, Storage
<1>2. \A e \in Extensions : NotDeployed.extensions[e] = 0
  BY DEF NotDeployed, Constructed
<1>3. \A m \in Managers : dm[m] = NotDeployed
  BY DEF Init
<1>4. TypeOK
  BY <1>1 DEF Init, TypeOK, Accounts
<1>5. ArraysMatchStates
  BY <1>1, <1>2, <1>3 DEF ArraysMatchStates, isInState
<1>6. RegisteredAreInitialized
  BY DEF Init, RegisteredAreInitialized
<1>7. PendingIsTheFactorys
  BY Addresses DEF Init, NotPending, PendingIsTheFactorys
<1>8. NoManagerWithoutSet
  BY <1>1, <1>3 DEF NoManagerWithoutSet, Deployed
<1> QED
  BY <1>4, <1>5, <1>6, <1>7, <1>8 DEF IInv

LEMMA NextKeeps == IInv /\ [Next]_vars => IInv'
<1> SUFFICES ASSUME IInv, [Next]_vars PROVE IInv'
  OBVIOUS
<1>1. ASSUME NEW p \in Parties, NEW m \in Managers,
             NEW owner \in Parties, NEW methodologist \in Parties,
             NEW operators \in SUBSET Operators, NEW es \in ExtensionLists,
             \/ createSetAndManager(p, m, owner, methodologist, operators, es)
             \/ createManager(p, m, owner, methodologist, operators, es)
      PROVE  IInv'
  BY <1>1, DeployKeeps DEF createSetAndManager, createManager
<1>2. ASSUME NEW p \in Parties, NEW es \in ExtensionLists, NEW split \in FeeSplits,
             initialize(p, es, split)
      PROVE  IInv'
  BY <1>2, InitializeKeeps
<1>3. ASSUME NEW p \in Parties, NEW m \in Managers, OwnerNext(p, m)
      PROVE  IInv'
  <2>1. ASSUME NEW es \in ExtensionLists,
               addExtensions(p, m, es) \/ removeExtensions(p, m, es)
        PROVE  IInv'
    BY <2>1, AddExtensionsKeeps, RemoveExtensionsKeeps
  <2>2. ASSUME NEW e \in Extensions, initializeExtension(p, m, e)
        PROVE  IInv'
    BY <2>2, InitializeExtensionKeeps
  <2>3. ASSUME NEW ps \in OperatorLists, addOperators(p, m, ps) \/ removeOperators(p, m, ps)
        PROVE  IInv'
    BY <2>3, OperatorsKeep
  <2>4. ASSUME NEW q \in Parties, transferOwnership(p, m, q)
        PROVE  IInv'
    BY <2>4, RolesKeep
  <2>5. ASSUME NEW x \in Parties \union Deployed, setManagerOfSet(p, m, x)
        PROVE  IInv'
    BY <2>5, HandoverStep DEF setManagerOfSet
  <2> QED
    BY <1>3, <2>1, <2>2, <2>3, <2>4, <2>5 DEF OwnerNext
<1>4. ASSUME NEW p \in Parties, NEW m \in Managers, NEW q \in Parties,
             setMethodologist(p, m, q)
      PROVE  IInv'
  BY <1>4, RolesKeep
<1>5. ASSUME NEW p \in Parties, NEW m \in Managers, NEW split \in FeeSplits,
             updateOwnerFeeSplit(p, m, split)
      PROVE  IInv'
  BY <1>5, FeeSplitKeeps
<1>6. ASSUME NEW p \in Parties, NEW x \in Parties \union Deployed, accountSetsManager(p, x)
      PROVE  IInv'
  BY <1>6, HandoverStep DEF accountSetsManager
<1>7. CASE governance
  BY <1>7, GovernanceKeeps
<1>8. CASE UNCHANGED vars
  BY <1>8 DEF vars, coreVars, IInv, TypeOK, ArraysMatchStates, RegisteredAreInitialized,
     PendingIsTheFactorys, NoManagerWithoutSet, Deployed, isInState
<1> QED
  BY <1>1, <1>2, <1>3, <1>4, <1>5, <1>6, <1>7, <1>8 DEF Next, FactoryNext

-----------------------------------------------------------------------------
(* The invariants, of every reachable state.                               *)

(* The four properties and the absence of managers without a SetToken hold *)
(* together, by induction over the transactions.                           *)
THEOREM Invariance == Spec => []IInv
BY InitEstablishes, NextKeeps, PTL DEF Spec

(* The storage of every contract is well typed.                            *)
THEOREM TypeCorrect == Spec => []TypeOK
<1>1. IInv => TypeOK
  BY DEF IInv
<1> QED
  BY <1>1, Invariance, PTL

(* The array of extensions, by whose length a manager decides whether it   *)
(* may leave the SetToken, lists exactly the initialized extensions.       *)
THEOREM ArraysAgree == Spec => []ArraysMatchStates
<1>1. IInv => ArraysMatchStates
  BY DEF IInv
<1> QED
  BY <1>1, Invariance, PTL

(* An extension remembers only a manager that has it initialized.          *)
THEOREM RegisteredStay == Spec => []RegisteredAreInitialized
<1>1. IInv => RegisteredAreInitialized
  BY DEF IInv
<1> QED
  BY <1>1, Invariance, PTL

(* Between creation and initialization a manager is the factory's, and the *)
(* SetToken that the factory created waits for this one.                   *)
THEOREM PendingStays == Spec => []PendingIsTheFactorys
<1>1. IInv => PendingIsTheFactorys
  BY DEF IInv
<1> QED
  BY <1>1, Invariance, PTL

-----------------------------------------------------------------------------
(* Who comes to trade for the SetToken.                                    *)

LEMMA TradingFacts ==
  ASSUME TypeOK, NEW p \in Operators, NEW e \in Extensions
  PROVE  canTrade(p, e) <=>
           /\ tokenManager \in Managers
           /\ setManagers[e] = tokenManager
           /\ dm[tokenManager].deployed
           /\ p \in dm[tokenManager].operatorAllowlist
           /\ dm[tokenManager].extensionAllowlist[e] = "INITIALIZED"
BY DEF canTrade, isInState, TypeOK

(* Nobody comes to trade by a step that leaves what the SetToken's manager *)
(* stores, and whom the extensions remember, as it is, or takes            *)
(* extensions away from it.                                                *)
LEMMA NoGrant ==
  ASSUME IInv, IInv', tokenManager' = tokenManager,
         tokenManager \in Managers =>
           /\ dm'[tokenManager].operatorAllowlist \subseteq dm[tokenManager].operatorAllowlist
           /\ \A e \in Extensions :
                setManagers'[e] = tokenManager => setManagers[e] = tokenManager,
         NEW p \in Operators, NEW e \in Extensions, canTrade(p, e)'
  PROVE  canTrade(p, e)
<1>1. /\ tokenManager \in Managers
      /\ setManagers'[e] = tokenManager
      /\ p \in dm'[tokenManager].operatorAllowlist
  BY DEF canTrade, IInv, TypeOK
<1>2. /\ setManagers[e] = tokenManager
      /\ p \in dm[tokenManager].operatorAllowlist
  BY <1>1
<1>3. setManagers[e] # Nobody
  BY <1>1, <1>2, Addresses
<1>4. isInState(setManagers[e], e, "INITIALIZED")
  BY <1>3 DEF IInv, RegisteredAreInitialized
<1> QED
  BY <1>1, <1>2, <1>4 DEF canTrade

(* While the SetToken stays with its manager, nobody comes to trade for it *)
(* but by a transaction of the manager's owner, or of the deployer who     *)
(* completes the creation.                                                 *)
THEOREM PowersAreTheOwners == Spec => PowersGrantedByOwner
<1> DEFINE Granted ==
      \A p \in Operators, e \in Extensions :
        canTrade(p, e)' /\ ~ canTrade(p, e) /\ tokenManager' = tokenManager =>
          \/ sender' = dm[tokenManager].owner
          \/ dm[tokenManager].owner = Factory /\ sender' = initializeState.deployer
<1>1. IInv /\ IInv' /\ [Next]_vars => Granted
  <2> SUFFICES ASSUME IInv, IInv', [Next]_vars,
                      NEW o \in Operators, NEW x \in Extensions,
                      canTrade(o, x)', ~ canTrade(o, x), tokenManager' = tokenManager
               PROVE  \/ sender' = dm[tokenManager].owner
                      \/ /\ dm[tokenManager].owner = Factory
                         /\ sender' = initializeState.deployer
    OBVIOUS
  <2>1. /\ dm \in [Managers -> Storage]
        /\ setManagers \in [Extensions -> Managers \union {Nobody}]
    BY DEF IInv, TypeOK
  <2>2. /\ tokenManager \in Managers
        /\ setManagers'[x] = tokenManager
    BY DEF canTrade, IInv, TypeOK
  <2>3. ~ /\ dm'[tokenManager].operatorAllowlist
               \subseteq dm[tokenManager].operatorAllowlist
          /\ \A e \in Extensions :
               setManagers'[e] = tokenManager => setManagers[e] = tokenManager
    BY NoGrant
  <2>4. CASE UNCHANGED <<dm, setManagers>>
    BY <2>3, <2>4
  <2>5. ASSUME NEW p \in Parties, NEW m \in Managers,
               NEW owner \in Parties, NEW methodologist \in Parties,
               NEW operators \in SUBSET Operators, NEW es \in ExtensionLists,
               \/ createSetAndManager(p, m, owner, methodologist, operators, es)
               \/ createManager(p, m, owner, methodologist, operators, es)
        PROVE  FALSE
    <3>1. /\ ~ dm[m].deployed
          /\ \A k \in Managers : k # m => dm'[k] = dm[k]
          /\ setManagers' = setManagers
      BY <2>1, <2>5 DEF createSetAndManager, createManager, deployManager
    <3>2. setManagers[x] # Nobody
      BY <2>2, <3>1, Addresses
    <3>3. dm[tokenManager].deployed
      BY <2>2, <3>1, <3>2 DEF IInv, RegisteredAreInitialized, isInState
    <3>4. dm'[tokenManager] = dm[tokenManager]
      BY <2>2, <3>1, <3>3
    <3> QED
      BY <2>3, <3>1, <3>4
  <2>6. ASSUME NEW p \in Parties, NEW es \in ExtensionLists, NEW split \in FeeSplits,
               initialize(p, es, split)
        PROVE  dm[tokenManager].owner = Factory /\ sender' = initializeState.deployer
    <3>1. /\ sender' = initializeState.deployer
          /\ initializeState.isPending
          /\ setManagers' = [e \in Extensions |->
               IF e \in es THEN initializeState.manager ELSE setManagers[e]]
          /\ \A k \in Managers : k # initializeState.manager => dm'[k] = dm[k]
      BY <2>1, <2>6 DEF initialize
    <3>2. dm[initializeState.manager].owner = Factory
      BY <3>1 DEF IInv, PendingIsTheFactorys
    <3>3. CASE tokenManager = initializeState.manager
      BY <3>1, <3>2, <3>3
    <3>4. CASE tokenManager # initializeState.manager
      BY <2>2, <2>3, <3>1, <3>4
    <3> QED
      BY <3>3, <3>4
  <2>7. ASSUME NEW p \in Parties, NEW m \in Managers, OwnerNext(p, m)
        PROVE  sender' = dm[tokenManager].owner
    <3>1. CASE UNCHANGED <<dm, setManagers>>
      BY <3>1, <2>4, <2>3
    <3>2. CASE /\ sender' = dm[m].owner
               /\ \A k \in Managers : k # m => dm'[k] = dm[k]
               /\ \A e \in Extensions :
                    setManagers'[e] \in {m, Nobody} \/ setManagers'[e] = setManagers[e]
      <4>1. CASE m = tokenManager
        BY <3>2, <4>1
      <4>2. CASE m # tokenManager
        BY <2>2, <2>3, <3>2, <4>2, Addresses
      <4> QED
        BY <4>1, <4>2
    <3>3. ASSUME NEW e \in Extensions, initializeExtension(p, m, e)
          PROVE  sender' = dm[tokenManager].owner
      BY <2>1, <3>2, <3>3 DEF initializeExtension, canInitialize, onlyOwner
    <3>4. ASSUME NEW es \in ExtensionLists, removeExtensions(p, m, es)
          PROVE  sender' = dm[tokenManager].owner
      BY <2>1, <3>2, <3>4 DEF removeExtensions, ownerStores, onlyOwner
    <3>5. ASSUME NEW es \in ExtensionLists, addExtensions(p, m, es)
          PROVE  sender' = dm[tokenManager].owner
      BY <2>1, <3>2, <3>5 DEF addExtensions, ownerStores, onlyOwner
    <3>6. ASSUME NEW ps \in OperatorLists, addOperators(p, m, ps) \/ removeOperators(p, m, ps)
          PROVE  sender' = dm[tokenManager].owner
      BY <2>1, <3>2, <3>6 DEF addOperators, removeOperators, ownerStores, onlyOwner
    <3>7. ASSUME NEW q \in Parties, transferOwnership(p, m, q)
          PROVE  sender' = dm[tokenManager].owner
      BY <2>1, <3>2, <3>7 DEF transferOwnership, ownerStores, onlyOwner
    <3>8. ASSUME NEW q \in Parties \union Deployed, setManagerOfSet(p, m, q)
          PROVE  sender' = dm[tokenManager].owner
      BY <3>1, <3>8 DEF setManagerOfSet
    <3> QED
      BY <2>7, <3>3, <3>4, <3>5, <3>6, <3>7, <3>8 DEF OwnerNext
  <2>8. ASSUME NEW p \in Parties, NEW m \in Managers, NEW q \in Parties,
               setMethodologist(p, m, q)
        PROVE  FALSE
    <3>1. /\ \A k \in Managers : dm'[k].operatorAllowlist = dm[k].operatorAllowlist
          /\ setManagers' = setManagers
      BY <2>1, <2>8 DEF setMethodologist, Storage
    <3> QED
      BY <2>2, <2>3, <3>1
  <2>9. ASSUME NEW p \in Parties, NEW m \in Managers, NEW split \in FeeSplits,
               updateOwnerFeeSplit(p, m, split)
        PROVE  FALSE
    <3>1. withFeeSplit(dm[m], p, split).operatorAllowlist = dm[m].operatorAllowlist
      BY <2>1, FeeSplitFacts DEF Accounts
    <3>2. /\ \A k \in Managers : dm'[k].operatorAllowlist = dm[k].operatorAllowlist
          /\ setManagers' = setManagers
      BY <2>1, <2>9, <3>1 DEF updateOwnerFeeSplit
    <3> QED
      BY <2>2, <2>3, <3>2
  <2>10. ASSUME NEW p \in Parties, NEW q \in Parties \union Deployed, accountSetsManager(p, q)
         PROVE  FALSE
    BY <2>10, <2>3 DEF accountSetsManager
  <2>11. CASE governance
    BY <2>11, <2>4 DEF governance
  <2>12. CASE UNCHANGED vars
    BY <2>12, <2>4 DEF vars
  <2> QED
    BY <2>5, <2>6, <2>7, <2>8, <2>9, <2>10, <2>11, <2>12 DEF Next, FactoryNext
<1> QED
  BY <1>1, Invariance, PTL DEF Spec, PowersGrantedByOwner

-----------------------------------------------------------------------------
(* When a manager lets go of the SetToken.                                 *)

(* No extension remembers a manager that has given the SetToken away.      *)
THEOREM NothingIsLeft == Spec => LeavesNothingBehind
<1>1. IInv /\ [Next]_vars =>
        ((tokenManager \in Managers) /\ tokenManager' # tokenManager =>
           \A e \in Extensions : setManagers[e] # tokenManager)
  <2> SUFFICES ASSUME IInv, Next, tokenManager \in Managers, tokenManager' # tokenManager,
                      NEW e \in Extensions
               PROVE  setManagers[e] # tokenManager
    BY DEF vars
  <2>1. PICK p \in Parties, q \in Parties \union Deployed :
          setManagerOfSet(p, tokenManager, q)
    BY Addresses DEF Next, FactoryNext, OwnerNext, createSetAndManager, createManager,
       initialize, addExtensions, removeExtensions, initializeExtension, addOperators,
       removeOperators, transferOwnership, setManagerOfSet, setMethodologist,
       updateOwnerFeeSplit, accountSetsManager, governance
  <2>2. dm[tokenManager].extensions[e] = 0
    BY <2>1 DEF setManagerOfSet, noExtensionsLeft
  <2>3. ~ isInState(tokenManager, e, "INITIALIZED")
    BY <2>2 DEF IInv, ArraysMatchStates
  <2> QED
    BY <2>3, Addresses DEF IInv, RegisteredAreInitialized
<1> QED
  BY <1>1, Invariance, PTL DEF Spec, LeavesNothingBehind

-----------------------------------------------------------------------------
(* The calls of updateOwnerFeeSplit (DelegatedManagerCalls).               *)

(* What a manager's storage s says of the unused calls u: a party's        *)
(* approval is one of them.  The factory is both owner and methodologist,  *)
(* or neither.                                                             *)
CallsStored(s, u) ==
  /\ s.deployed \/ s = NotDeployed
  /\ s.owner \in Parties <=> s.methodologist \in Parties
  /\ \A x \in FeeSplits \X Parties : x \in s.mutualUpgrades => x \in u

CallsInv ==
  /\ IInv
  /\ unused \in [Managers -> SUBSET (FeeSplits \X Parties)]
  /\ \A m \in Managers : CallsStored(dm[m], unused[m])

(* A storage that keeps the record of calls and, once the roles are apart, *)
(* the fee split.                                                          *)
KeepsCalls(s, t) ==
  /\ \A u : CallsStored(s, u) => CallsStored(t, u)
  /\ s.owner = s.methodologist \/ t.ownerFeeSplit = s.ownerFeeSplit

LEMMA OneStorageKeepsCalls ==
  ASSUME TypeOK, NEW m \in Managers, NEW t, dm' = [dm EXCEPT ![m] = t], KeepsCalls(dm[m], t)
  PROVE  \A k \in Managers : KeepsCalls(dm[k], dm'[k])
<1>. SUFFICES ASSUME NEW k \in Managers PROVE KeepsCalls(dm[k], dm'[k])
  OBVIOUS
<1>1. dm'[k] = IF k = m THEN t ELSE dm[k]
  BY DEF TypeOK
<1>. QED
  BY <1>1 DEF KeepsCalls

(* An owner or a methodologist that is an account: the manager is deployed *)
(* and the factory is neither of its roles.                                *)
LEMMA SignersAreParties ==
  ASSUME NEW s \in Storage, NEW u, CallsStored(s, u), NEW p \in Parties,
         p \in {s.owner, s.methodologist}
  PROVE  s.deployed /\ s.owner \in Parties /\ s.methodologist \in Parties
<1>1. NotDeployed.owner = Factory /\ NotDeployed.methodologist = Factory
  BY DEF NotDeployed, Constructed
<1>. QED
  BY <1>1, Addresses DEF CallsStored

(* Storages that differ in the rest only.                                  *)
LEMMA RestKeepsCalls ==
  ASSUME NEW s \in Storage, NEW t \in Storage, s.deployed, t.deployed,
         t.mutualUpgrades = s.mutualUpgrades, t.ownerFeeSplit = s.ownerFeeSplit,
         \/ t.owner = s.owner /\ t.methodologist = s.methodologist
         \/ t.owner \in Parties /\ t.methodologist \in Parties
  PROVE  KeepsCalls(s, t)
BY DEF KeepsCalls, CallsStored

LEMMA DeployKeepsCalls ==
  ASSUME NEW es, NEW operators
  PROVE  KeepsCalls(NotDeployed, Constructed(es, operators))
<1>. DEFINE t == Constructed(es, operators)
<1>1. /\ t.deployed /\ t.owner = Factory /\ t.methodologist = Factory
      /\ t.mutualUpgrades = {}
      /\ NotDeployed.owner = NotDeployed.methodologist
  BY DEF Constructed, NotDeployed
<1>. HIDE DEF t
<1>2. ASSUME NEW u, CallsStored(NotDeployed, u) PROVE CallsStored(t, u)
  BY <1>1 DEF CallsStored
<1>. QED
  BY <1>1, <1>2 DEF KeepsCalls, t

(* The factory's own call of updateOwnerFeeSplit leaves an approval of the *)
(* factory, which is no party, and then two parties have the roles.        *)
LEMMA InitializeKeepsCalls ==
  ASSUME CallsInv,
         NEW p \in Parties, NEW es \in ExtensionLists, NEW split \in FeeSplits,
         initialize(p, es, split)
  PROVE  \A k \in Managers : KeepsCalls(dm[k], dm'[k])
<1>. DEFINE m == initializeState.manager
            s == dm[m]
            i == withInitialized(s, es)
            f == withFeeSplit(i, Factory, split)
            t == [f EXCEPT !.owner = initializeState.owner,
                           !.methodologist = initializeState.methodologist]
<1>1. initializeState \in InitializeParams /\ TypeOK
  BY PendingParams DEF initialize, CallsInv, IInv
<1>2. m \in Managers /\ s \in Storage
  BY <1>1, StorageFacts DEF InitializeParams, CallsInv
<1>3. s.deployed /\ s.owner = Factory /\ s.methodologist = Factory
  BY DEF initialize, CallsInv, IInv, PendingIsTheFactorys
<1>4. /\ i \in Storage /\ i.deployed /\ i.owner = Factory /\ i.methodologist = Factory
      /\ i.mutualUpgrades = s.mutualUpgrades
  <2>1. es \in SUBSET Extensions
    BY DEF ExtensionLists
  <2>. HIDE DEF s
  <2>2. i \in Storage
    BY <1>2, <2>1, InitializedType
  <2>3. /\ i.deployed = s.deployed /\ i.owner = s.owner /\ i.methodologist = s.methodologist
        /\ i.mutualUpgrades = s.mutualUpgrades
    BY <1>2 DEF withInitialized, Storage
  <2>. QED  BY <1>3, <2>2, <2>3
<1>. HIDE DEF i
<1>5. /\ f \in Storage /\ f.deployed
      /\ f.mutualUpgrades
           = approvalsAfter(s.mutualUpgrades, Factory, Factory, Factory, split)
  <2>1. Factory \in Accounts
    BY DEF Accounts
  <2>2. f.mutualUpgrades = approvalsAfter(i.mutualUpgrades, Factory, i.owner, i.methodologist, split)
    BY <1>4 DEF withFeeSplit, Storage
  <2>. QED  BY <1>4, <2>1, <2>2, FeeSplitFacts
<1>. HIDE DEF f
<1>6. /\ t.deployed /\ t.owner \in Parties /\ t.methodologist \in Parties
      /\ t.mutualUpgrades = f.mutualUpgrades
  BY <1>1, <1>5 DEF Storage, InitializeParams
<1>7. \A x \in FeeSplits \X Parties : x \in t.mutualUpgrades => x \in s.mutualUpgrades
  <2>. SUFFICES ASSUME NEW x \in FeeSplits \X Parties, x \in f.mutualUpgrades
                PROVE  x \in s.mutualUpgrades
    BY <1>6
  <2>1. x # <<split, Factory>>
    BY Addresses
  <2>. QED  BY <1>5, <2>1 DEF approvalsAfter
<1>8. dm' = [dm EXCEPT ![m] = t]
  BY DEF initialize, t, f, i
<1>. HIDE DEF t, s, m
<1>9. KeepsCalls(s, t)
  BY <1>3, <1>6, <1>7 DEF KeepsCalls, CallsStored
<1>. QED
  BY <1>1, <1>2, <1>8, <1>9, OneStorageKeepsCalls DEF s

LEMMA OwnersKeepCalls ==
  ASSUME CallsInv, NEW p \in Parties, NEW m \in Managers, NEW t \in Storage,
         p \in {dm[m].owner, dm[m].methodologist}, dm' = [dm EXCEPT ![m] = t],
         t.deployed = dm[m].deployed, t.mutualUpgrades = dm[m].mutualUpgrades,
         t.ownerFeeSplit = dm[m].ownerFeeSplit,
         t.owner \in {dm[m].owner} \union Parties,
         t.methodologist \in {dm[m].methodologist} \union Parties
  PROVE  \A k \in Managers : KeepsCalls(dm[k], dm'[k])
<1>1. TypeOK /\ dm[m] \in Storage /\ CallsStored(dm[m], unused[m])
  BY StorageFacts DEF CallsInv, IInv
<1>2. dm[m].deployed /\ dm[m].owner \in Parties /\ dm[m].methodologist \in Parties
  BY <1>1, SignersAreParties
<1>3. KeepsCalls(dm[m], t)
  BY <1>1, <1>2, RestKeepsCalls
<1>. QED
  BY <1>1, <1>3, OneStorageKeepsCalls

LEMMA OwnerNextKeepsCalls ==
  ASSUME CallsInv, NEW p \in Parties, NEW m \in Managers, OwnerNext(p, m)
  PROVE  \A k \in Managers : KeepsCalls(dm[k], dm'[k])
<1>. DEFINE s == dm[m]
<1>1. s \in Storage /\ IInv
  BY StorageFacts DEF CallsInv
<1>2. ASSUME NEW t, onlyOwner(p, m), dm' = [dm EXCEPT ![m] = t], t \in Storage,
             t.deployed = s.deployed, t.mutualUpgrades = s.mutualUpgrades,
             t.ownerFeeSplit = s.ownerFeeSplit, t.owner \in {s.owner} \union Parties,
             t.methodologist = s.methodologist
      PROVE  \A k \in Managers : KeepsCalls(dm[k], dm'[k])
  BY <1>2, OwnersKeepCalls DEF onlyOwner
<1>3. ASSUME NEW es \in ExtensionLists, addExtensions(p, m, es)
      PROVE  \A k \in Managers : KeepsCalls(dm[k], dm'[k])
  <2>. DEFINE t == withPending(s, es)
  <2>1. es \in SUBSET Extensions
    BY DEF ExtensionLists
  <2>2. t \in Storage
    BY <1>1, <2>1, PendingType
  <2>3. /\ t.deployed = s.deployed /\ t.mutualUpgrades = s.mutualUpgrades
        /\ t.ownerFeeSplit = s.ownerFeeSplit /\ t.owner = s.owner
        /\ t.methodologist = s.methodologist
    BY <1>1 DEF withPending, Storage
  <2>4. onlyOwner(p, m) /\ dm' = [dm EXCEPT ![m] = t]
    BY <1>3 DEF addExtensions, ownerStores
  <2>. HIDE DEF t
  <2>. QED  BY <1>2, <2>2, <2>3, <2>4
<1>4. ASSUME NEW es \in ExtensionLists, removeExtensions(p, m, es)
      PROVE  \A k \in Managers : KeepsCalls(dm[k], dm'[k])
  <2>. DEFINE t == withoutExtensions(s, es)
  <2>1. es \in SUBSET Extensions
    BY DEF ExtensionLists
  <2>2. \A e \in es : s.extensions[e] = 1
    BY <1>1, <1>4, <2>1 DEF removeExtensions, IInv, ArraysMatchStates
  <2>3. t \in Storage
    BY <1>1, <2>1, <2>2, WithoutType
  <2>4. /\ t.deployed = s.deployed /\ t.mutualUpgrades = s.mutualUpgrades
        /\ t.ownerFeeSplit = s.ownerFeeSplit /\ t.owner = s.owner
        /\ t.methodologist = s.methodologist
    BY <1>1 DEF withoutExtensions, Storage
  <2>5. onlyOwner(p, m) /\ dm' = [dm EXCEPT ![m] = t]
    BY <1>4 DEF removeExtensions, ownerStores
  <2>. HIDE DEF t
  <2>. QED  BY <1>2, <2>3, <2>4, <2>5
<1>5. ASSUME NEW e \in Extensions, initializeExtension(p, m, e)
      PROVE  \A k \in Managers : KeepsCalls(dm[k], dm'[k])
  <2>. DEFINE t == withInitialized(s, {e})
  <2>1. t \in Storage
    BY <1>1, InitializedType
  <2>2. /\ t.deployed = s.deployed /\ t.mutualUpgrades = s.mutualUpgrades
        /\ t.ownerFeeSplit = s.ownerFeeSplit /\ t.owner = s.owner
        /\ t.methodologist = s.methodologist
    BY <1>1 DEF withInitialized, Storage
  <2>3. onlyOwner(p, m) /\ dm' = [dm EXCEPT ![m] = t]
    BY <1>5 DEF initializeExtension, canInitialize
  <2>. HIDE DEF t
  <2>. QED  BY <1>2, <2>1, <2>2, <2>3
<1>6. ASSUME NEW ps \in OperatorLists, addOperators(p, m, ps) \/ removeOperators(p, m, ps)
      PROVE  \A k \in Managers : KeepsCalls(dm[k], dm'[k])
  <2>1. PICK qs \in SUBSET Operators :
          ownerStores(p, m, [s EXCEPT !.operatorAllowlist = qs])
    <3>1. s.operatorAllowlist \union ps \in SUBSET Operators
          /\ s.operatorAllowlist \ ps \in SUBSET Operators
      BY <1>1 DEF Storage, OperatorLists
    <3>. QED  BY <1>6, <3>1 DEF addOperators, removeOperators
  <2>. DEFINE t == [s EXCEPT !.operatorAllowlist = qs]
  <2>2. /\ t \in Storage
        /\ t.deployed = s.deployed /\ t.mutualUpgrades = s.mutualUpgrades
        /\ t.ownerFeeSplit = s.ownerFeeSplit /\ t.owner = s.owner
        /\ t.methodologist = s.methodologist
    BY <1>1 DEF Storage
  <2>3. onlyOwner(p, m) /\ dm' = [dm EXCEPT ![m] = t]
    BY <2>1 DEF ownerStores
  <2>. HIDE DEF t
  <2>. QED  BY <1>2, <2>2, <2>3
<1>7. ASSUME NEW q \in Parties, transferOwnership(p, m, q)
      PROVE  \A k \in Managers : KeepsCalls(dm[k], dm'[k])
  <2>. DEFINE t == [s EXCEPT !.owner = q]
  <2>1. /\ t \in Storage
        /\ t.deployed = s.deployed /\ t.mutualUpgrades = s.mutualUpgrades
        /\ t.ownerFeeSplit = s.ownerFeeSplit /\ t.owner = q
        /\ t.methodologist = s.methodologist
    BY <1>1 DEF Storage, Accounts
  <2>2. onlyOwner(p, m) /\ dm' = [dm EXCEPT ![m] = t]
    BY <1>7 DEF transferOwnership, ownerStores
  <2>. HIDE DEF t
  <2>. QED  BY <1>2, <2>1, <2>2
<1>8. ASSUME dm' = dm
      PROVE  \A k \in Managers : KeepsCalls(dm[k], dm'[k])
  BY <1>8 DEF KeepsCalls
<1>. QED
  BY <1>3, <1>4, <1>5, <1>6, <1>7, <1>8 DEF OwnerNext, setManagerOfSet

(* What is left: every other transaction.                                  *)
LEMMA OtherStepsKeepCalls ==
  ASSUME CallsInv, Next, ~ update
  PROVE  \A k \in Managers : KeepsCalls(dm[k], dm'[k])
<1>0. TypeOK /\ IInv
  BY DEF CallsInv, IInv
<1>1. ASSUME NEW p \in Parties, NEW m \in Managers, NEW owner, NEW methodologist,
             NEW operators, NEW es, deployManager(p, m, owner, methodologist, operators, es)
      PROVE  \A k \in Managers : KeepsCalls(dm[k], dm'[k])
  <2>. DEFINE t == Constructed(es, operators)
  <2>1. ~ dm[m].deployed /\ dm' = [dm EXCEPT ![m] = t]
    BY <1>1 DEF deployManager
  <2>2. dm[m] = NotDeployed
    BY <2>1 DEF CallsInv, CallsStored
  <2>3. KeepsCalls(dm[m], t)
    BY <2>2, DeployKeepsCalls
  <2>. HIDE DEF t
  <2>. QED  BY <1>0, <2>1, <2>3, OneStorageKeepsCalls
<1>2. ASSUME NEW p \in Parties, NEW m \in Managers, NEW q \in Parties, setMethodologist(p, m, q)
      PROVE  \A k \in Managers : KeepsCalls(dm[k], dm'[k])
  <2>. DEFINE t == [dm[m] EXCEPT !.methodologist = q]
  <2>1. /\ t \in Storage
        /\ t.deployed = dm[m].deployed /\ t.mutualUpgrades = dm[m].mutualUpgrades
        /\ t.ownerFeeSplit = dm[m].ownerFeeSplit /\ t.owner = dm[m].owner
        /\ t.methodologist = q
    BY <1>0, StorageFacts DEF Storage, Accounts
  <2>2. p \in {dm[m].owner, dm[m].methodologist}
    BY <1>2 DEF setMethodologist, onlyMethodologist
  <2>3. dm' = [dm EXCEPT ![m] = t]
    BY <1>0, <1>2 DEF setMethodologist, TypeOK
  <2>. HIDE DEF t
  <2>. QED  BY <2>1, <2>2, <2>3, OwnersKeepCalls
<1>3. ASSUME dm' = dm
      PROVE  \A k \in Managers : KeepsCalls(dm[k], dm'[k])
  BY <1>3 DEF KeepsCalls
<1>4. CASE \E p \in Parties : FactoryNext(p)
  BY <1>1, <1>4, InitializeKeepsCalls DEF FactoryNext, createSetAndManager, createManager
<1>5. CASE \E p \in Parties, m \in Managers : OwnerNext(p, m)
  BY <1>5, OwnerNextKeepsCalls
<1>6. CASE governance \/ \E p \in Parties, x \in Parties \union Deployed : accountSetsManager(p, x)
  BY <1>3, <1>6 DEF governance, accountSetsManager
<1>. QED
  BY <1>2, <1>4, <1>5, <1>6 DEF Next, update

(* A call of a fee split, with the roles apart: it uses a call of the      *)
(* other signer, whose approval it deletes, or it waits as an approval.    *)
LEMMA UpdateUsesBoth ==
  ASSUME CallsInv, rolesApart,
         NEW p \in Parties, NEW m \in Managers, NEW split \in FeeSplits,
         recordedUpdate(p, m, split)
  PROVE  /\ CallsInv'
         /\ dm'[m].ownerFeeSplit # dm[m].ownerFeeSplit =>
              <<dm'[m].ownerFeeSplit, nonCaller(sender', dm[m].owner, dm[m].methodologist)>>
                \in unused[m]
         /\ \A k \in Managers : k # m => dm'[k] = dm[k]
<1>. DEFINE s == dm[m]
            t == withFeeSplit(s, p, split)
            other == nonCaller(p, s.owner, s.methodologist)
            runs == runsBody(s.mutualUpgrades, p, s.owner, s.methodologist, split)
<1>1. IInv /\ TypeOK /\ s \in Storage /\ CallsStored(s, unused[m])
      /\ unused \in [Managers -> SUBSET (FeeSplits \X Parties)]
  BY StorageFacts DEF CallsInv, IInv
<1>2. /\ updateOwnerFeeSplit(p, m, split)
      /\ unused' = [unused EXCEPT ![m] = IF runs THEN @ \ {<<split, other>>}
                                                 ELSE @ \union {<<split, p>>}]
  BY DEF recordedUpdate
<1>3. p \in {s.owner, s.methodologist} /\ dm' = [dm EXCEPT ![m] = t] /\ sender' = p
  BY <1>2 DEF updateOwnerFeeSplit, isSigner
<1>4. s.deployed /\ s.owner \in Parties /\ s.methodologist \in Parties
  BY <1>1, <1>3, SignersAreParties
<1>5. s.owner # s.methodologist /\ other \in Parties
  BY <1>4 DEF rolesApart, nonCaller
<1>6. runs <=> <<split, other>> \in s.mutualUpgrades
  BY <1>5 DEF runsBody
<1>7. /\ t.ownerFeeSplit = IF runs THEN split ELSE s.ownerFeeSplit
      /\ t.mutualUpgrades = IF runs THEN s.mutualUpgrades \ {<<split, other>>}
                                    ELSE s.mutualUpgrades \union {<<split, p>>}
  BY <1>1, <1>6 DEF withFeeSplit, approvalsAfter, Storage
<1>8. t.deployed = s.deployed /\ t.owner = s.owner /\ t.methodologist = s.methodologist
  BY <1>1, FeeSplitFacts DEF Accounts
<1>9. dm'[m] = t /\ \A k \in Managers : k # m => dm'[k] = dm[k]
  BY <1>1, <1>3 DEF TypeOK
<1>. HIDE DEF t, other, runs
<1>10. runs => <<split, other>> \in unused[m]
  BY <1>1, <1>5, <1>6 DEF CallsStored
<1>11. IInv'
  BY <1>1, <1>2, FeeSplitKeeps
<1>12. unused' \in [Managers -> SUBSET (FeeSplits \X Parties)]
  BY <1>1, <1>2
<1>13. ASSUME NEW k \in Managers
       PROVE  CallsStored(dm'[k], unused'[k])
  <2>1. CASE k # m
    BY <1>1, <1>2, <1>9, <2>1 DEF CallsInv
  <2>2. CASE k = m
    <3>1. unused'[m] = IF runs THEN unused[m] \ {<<split, other>>}
                               ELSE unused[m] \union {<<split, p>>}
      BY <1>1, <1>2
    <3>. QED  BY <1>1, <1>4, <1>7, <1>8, <1>9, <2>2, <3>1 DEF CallsStored
  <2>. QED  BY <2>1, <2>2
<1>14. CallsInv'
  BY <1>11, <1>12, <1>13 DEF CallsInv
<1>. QED
  BY <1>3, <1>7, <1>9, <1>10, <1>14 DEF other

TakesBoth(m) ==
  dm[m].owner # dm[m].methodologist /\ dm'[m].ownerFeeSplit # dm[m].ownerFeeSplit =>
    <<dm'[m].ownerFeeSplit, nonCaller(sender', dm[m].owner, dm[m].methodologist)>>
      \in unused[m]

LEMMA CallsKeep ==
  ASSUME CallsInv, rolesApart, [CallsNext]_<<vars, unused>>
  PROVE  CallsInv' /\ \A m \in Managers : TakesBoth(m)
<1>1. ASSUME NEW p \in Parties, NEW m \in Managers, NEW split \in FeeSplits,
             recordedUpdate(p, m, split)
      PROVE  CallsInv' /\ \A k \in Managers : TakesBoth(k)
  BY <1>1, UpdateUsesBoth DEF TakesBoth
<1>2. CASE Next /\ ~ update /\ UNCHANGED unused
  <2>1. IInv'
    BY <1>2, NextKeeps DEF CallsInv
  <2>2. \A k \in Managers : KeepsCalls(dm[k], dm'[k])
    BY <1>2, OtherStepsKeepCalls
  <2>3. \A k \in Managers : CallsStored(dm'[k], unused'[k])
    BY <1>2, <2>2 DEF KeepsCalls, CallsInv
  <2>. QED  BY <1>2, <2>1, <2>2, <2>3 DEF KeepsCalls, CallsInv, TakesBoth
<1>3. CASE UNCHANGED <<vars, unused>>
  <2>1. IInv'
    BY <1>3, NextKeeps DEF CallsInv
  <2>2. dm' = dm /\ unused' = unused
    BY <1>3 DEF vars
  <2>. QED  BY <2>1, <2>2 DEF CallsInv, TakesBoth
<1>. QED
  BY <1>1, <1>2, <1>3 DEF CallsNext

(* The modifier mutualUpgrade does keep its promise as long as no account  *)
(* has both roles: then each execution takes a call of the owner and one   *)
(* of the methodologist, however roles and managers change in between.     *)
THEOREM ApartTheyBothCall == CallsSpec /\ []rolesApart => FeeSplitTakesBoth
<1>1. CallsInit => CallsInv
  <2>. SUFFICES ASSUME CallsInit PROVE CallsInv
    OBVIOUS
  <2>1. IInv /\ unused = [m \in Managers |-> {}] /\ dm = [m \in Managers |-> NotDeployed]
    BY InitEstablishes DEF CallsInit, Init
  <2>2. /\ NotDeployed.owner = Factory /\ NotDeployed.methodologist = Factory
        /\ NotDeployed.mutualUpgrades = {}
    BY DEF NotDeployed, Constructed
  <2>. QED  BY <2>1, <2>2 DEF CallsInv, CallsStored
<1>2. CallsInv /\ rolesApart /\ [CallsNext]_<<vars, unused>> => CallsInv'
  BY CallsKeep
<1>3. CallsInv /\ rolesApart /\ [CallsNext]_<<vars, unused>> =>
        [\A m \in Managers :
           dm[m].owner # dm[m].methodologist /\ dm'[m].ownerFeeSplit # dm[m].ownerFeeSplit =>
             <<dm'[m].ownerFeeSplit, nonCaller(sender', dm[m].owner, dm[m].methodologist)>>
               \in unused[m]]_<<vars, unused>>
  BY CallsKeep DEF TakesBoth
<1>. QED
  BY <1>1, <1>2, <1>3, PTL DEF CallsSpec, FeeSplitTakesBoth
=============================================================================
