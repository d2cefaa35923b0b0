------------------------ MODULE BaseManagerV2_proofs ------------------------
(***************************************************************************)
(* Safety of BaseManagerV2 for every set of modules, extensions and        *)
(* parties.  The five invariants are inductive only together: that the     *)
(* authorizations disappear with the protection (NoStaleAuthorization)     *)
(* needs the lists to hold every authorization, that an authorized         *)
(* extension cannot be removed (AuthorizedAreExtensions) needs             *)
(* protectedModulesList, which the scan reads, to hold every protected     *)
(* module (ArraysMatchMappings).                                           *)
(***************************************************************************)
EXTENDS BaseManagerV2, TLAPS

(* The invariants of the arrangement, with the types they need.            *)
ArrangementInv ==
  /\ extensions \in Bag
  /\ isExtension \subseteq Extensions
  /\ protectedModules \in [Modules -> ProtectedModule]
  /\ protectedModulesList \in [Modules -> Nat]
  /\ ArraysMatchMappings
  /\ NoStaleAuthorization
  /\ AuthorizedAreExtensions

(* The types of the variables outside the arrangement.                     *)
OthersTypeOK ==
  /\ SetTokenTypeOK
  /\ operator \in Parties /\ methodologist \in Parties
  /\ emergencies \in Nat
  /\ initialized \in BOOLEAN
  /\ tokensHeld \in Nat
  /\ consent \subseteq Role

IInv == OthersTypeOK /\ ArrangementInv /\ ProtectedOnSetToken

-----------------------------------------------------------------------------
(* The operators the arrangement is built from                             *)

(* The bag OneExtension(e) lists e alone.                                  *)
LEMMA OneExtensionFacts ==
  ASSUME NEW e \in Extensions
  PROVE  /\ OneExtension(e) \in Bag
         /\ Listed(OneExtension(e)) = {e}
BY DEF OneExtension, Bag, Listed

(* Authorizing a bag adds its extensions to the mapping and to the list,   *)
(* and nothing else.                                                       *)
LEMMA AuthorizeInFacts ==
  ASSUME NEW pm \in ProtectedModule, NEW bag \in Bag
  PROVE  /\ authorizeIn(pm, bag) \in ProtectedModule
         /\ authorizeIn(pm, bag).isProtected = pm.isProtected
         /\ authorizeIn(pm, bag).authorizedExtensions
              = pm.authorizedExtensions \union Listed(bag)
         /\ Listed(authorizeIn(pm, bag).authorizedExtensionsList)
              = Listed(pm.authorizedExtensionsList) \union Listed(bag)
<1> DEFINE sum == [e \in Extensions |-> pm.authorizedExtensionsList[e] + bag[e]]
<1>1. sum \in Bag
  BY DEF Bag, ProtectedModule
<1>2. Listed(sum) = Listed(pm.authorizedExtensionsList) \union Listed(bag)
  BY DEF Bag, ProtectedModule, Listed
<1>3. Listed(bag) \subseteq Extensions
  BY DEF Listed
<1>4. /\ authorizeIn(pm, bag).isProtected = pm.isProtected
      /\ authorizeIn(pm, bag).authorizedExtensions
           = pm.authorizedExtensions \union Listed(bag)
      /\ authorizeIn(pm, bag).authorizedExtensionsList = sum
      /\ authorizeIn(pm, bag) \in ProtectedModule
  BY <1>1, <1>3 DEF authorizeIn, ProtectedModule
<1> QED
  BY <1>2, <1>4

(* Protecting a module whose struct is cleared authorizes exactly the bag. *)
LEMMA ProtectedStructFacts ==
  ASSUME NEW pm \in ProtectedModule, NEW bag \in Bag
  PROVE  /\ protectedStruct(pm, bag) \in ProtectedModule
         /\ protectedStruct(pm, bag).isProtected = TRUE
         /\ protectedStruct(pm, bag).authorizedExtensions
              = pm.authorizedExtensions \union Listed(bag)
         /\ Listed(protectedStruct(pm, bag).authorizedExtensionsList)
              = Listed(pm.authorizedExtensionsList) \union Listed(bag)
<1> DEFINE on == [pm EXCEPT !.isProtected = TRUE]
<1>1. /\ on \in ProtectedModule
      /\ on.isProtected = TRUE
      /\ on.authorizedExtensions = pm.authorizedExtensions
      /\ on.authorizedExtensionsList = pm.authorizedExtensionsList
  BY DEF ProtectedModule
<1>2. protectedStruct(pm, bag) = authorizeIn(on, bag)
  BY DEF protectedStruct
<1> HIDE DEF on
<1> QED
  BY <1>1, <1>2, AuthorizeInFacts

(* Ending the protection clears the struct, the inner mapping included,    *)
(* provided that every authorization was listed.                           *)
LEMMA UnProtectedStructFacts ==
  ASSUME NEW pm \in ProtectedModule,
         pm.authorizedExtensions \subseteq Listed(pm.authorizedExtensionsList)
  PROVE  /\ unProtectedStruct(pm) \in ProtectedModule
         /\ unProtectedStruct(pm).isProtected = FALSE
         /\ unProtectedStruct(pm).authorizedExtensions = {}
         /\ Listed(unProtectedStruct(pm).authorizedExtensionsList) = {}
<1>1. NoExtensions \in Bag /\ Listed(NoExtensions) = {}
  BY DEF NoExtensions, Bag, Listed
<1> QED
  BY <1>1 DEF unProtectedStruct, ProtectedModule

(* _addExtension, repeated, keeps the array of extensions a set.           *)
LEMMA AddMissingFacts ==
  ASSUME NEW bag \in Bag, ArrangementInv, addMissing(bag)
  PROVE  /\ extensions' \in Bag
         /\ isExtension' = isExtension \union Listed(bag)
         /\ isExtension' \subseteq Extensions
         /\ \A e \in Extensions : extensions'[e] = IF e \in isExtension' THEN 1 ELSE 0
<1>1. Listed(bag) \subseteq Extensions
  BY DEF Listed
<1>2. \A e \in Extensions :
        extensions'[e] = extensions[e] + (IF e \in Listed(bag) \ isExtension THEN 1 ELSE 0)
  BY DEF addMissing
<1>3. extensions' \in Bag
  BY DEF addMissing, ArrangementInv, Bag
<1>4. \A e \in Extensions : extensions[e] = IF e \in isExtension THEN 1 ELSE 0
  BY DEF ArrangementInv, ArraysMatchMappings
<1> QED
  BY <1>1, <1>2, <1>3, <1>4 DEF addMissing, ArrangementInv

-----------------------------------------------------------------------------
(* The internal functions keep the arrangement                             *)

(* _unProtectModule ends the protection of one module.                     *)
LEMMA UnProtectKeeps ==
  ASSUME ArrangementInv, NEW m \in Modules, doUnProtectModule(m)
  PROVE  /\ ArrangementInv'
         /\ isProtected(m) /\ ~isProtected(m)'
         /\ authorized(m)' = {}
         /\ \A n \in Modules \ {m} : protectedModules'[n] = protectedModules[n]
<1>1. protectedModules[m] \in ProtectedModule
  BY DEF ArrangementInv
<1>2. protectedModules[m].authorizedExtensions
        \subseteq Listed(protectedModules[m].authorizedExtensionsList)
  BY DEF ArrangementInv, NoStaleAuthorization, authorized
<1>3. /\ protectedModules' \in [Modules -> ProtectedModule]
      /\ protectedModules'[m].isProtected = FALSE
      /\ protectedModules'[m].authorizedExtensions = {}
      /\ \A n \in Modules \ {m} : protectedModules'[n] = protectedModules[n]
  BY <1>1, <1>2, UnProtectedStructFacts DEF doUnProtectModule, withoutModule, ArrangementInv
<1>4. /\ protectedModulesList' \in [Modules -> Nat]
      /\ ArraysMatchMappings'
  BY <1>3 DEF doUnProtectModule, ArrangementInv, ArraysMatchMappings, isProtected
<1>5. NoStaleAuthorization' /\ AuthorizedAreExtensions'
  BY <1>3 DEF doUnProtectModule, ArrangementInv, NoStaleAuthorization,
              AuthorizedAreExtensions, isProtected, authorized, Listed
<1> QED
  BY <1>3, <1>4, <1>5 DEF ArrangementInv, doUnProtectModule, isProtected, authorized

(* _protectModule protects one module, for the extensions of the bag.      *)
LEMMA ProtectKeeps ==
  ASSUME ArrangementInv, NEW m \in Modules, NEW bag \in Bag, doProtectModule(m, bag)
  PROVE  /\ ArrangementInv'
         /\ ~isProtected(m) /\ isProtected(m)'
         /\ authorized(m)' = Listed(bag)
         /\ \A n \in Modules \ {m} : protectedModules'[n] = protectedModules[n]
<1>1. /\ protectedModules[m] \in ProtectedModule
      /\ protectedModules[m].authorizedExtensions = {}
  BY DEF ArrangementInv, NoStaleAuthorization, authorized, doProtectModule
<1>2. /\ protectedModules' \in [Modules -> ProtectedModule]
      /\ protectedModules'[m].isProtected = TRUE
      /\ protectedModules'[m].authorizedExtensions = Listed(bag)
      /\ Listed(bag) \subseteq Listed(protectedModules'[m].authorizedExtensionsList)
      /\ \A n \in Modules \ {m} : protectedModules'[n] = protectedModules[n]
  <2>1. /\ protectedStruct(protectedModules[m], bag) \in ProtectedModule
        /\ protectedStruct(protectedModules[m], bag).isProtected = TRUE
        /\ protectedStruct(protectedModules[m], bag).authorizedExtensions = Listed(bag)
        /\ Listed(bag) \subseteq
             Listed(protectedStruct(protectedModules[m], bag).authorizedExtensionsList)
    <3> DEFINE pm == protectedModules[m]
    <3>1. pm \in ProtectedModule /\ pm.authorizedExtensions = {}
      BY <1>1
    <3> HIDE DEF pm
    <3>2. /\ protectedStruct(pm, bag) \in ProtectedModule
          /\ protectedStruct(pm, bag).isProtected = TRUE
          /\ protectedStruct(pm, bag).authorizedExtensions
               = pm.authorizedExtensions \union Listed(bag)
          /\ Listed(protectedStruct(pm, bag).authorizedExtensionsList)
               = Listed(pm.authorizedExtensionsList) \union Listed(bag)
      BY <3>1, ProtectedStructFacts
    <3> QED
      BY <3>1, <3>2 DEF pm
  <2> QED
    BY <2>1 DEF doProtectModule, ArrangementInv
<1>3. /\ extensions' \in Bag
      /\ isExtension' = isExtension \union Listed(bag)
      /\ isExtension' \subseteq Extensions
      /\ \A e \in Extensions : extensions'[e] = IF e \in isExtension' THEN 1 ELSE 0
  BY AddMissingFacts DEF doProtectModule
<1>4. /\ protectedModulesList' \in [Modules -> Nat]
      /\ ArraysMatchMappings'
  BY <1>2, <1>3 DEF doProtectModule, ArrangementInv, ArraysMatchMappings, isProtected
<1>5. NoStaleAuthorization' /\ AuthorizedAreExtensions'
  BY <1>2, <1>3 DEF ArrangementInv, NoStaleAuthorization,
              AuthorizedAreExtensions, isProtected, authorized, Listed
<1> QED
  BY <1>2, <1>3, <1>4, <1>5 DEF ArrangementInv, doProtectModule, isProtected, authorized

-----------------------------------------------------------------------------
(* The external functions keep the arrangement                             *)

LEMMA AddExtensionKeeps ==
  ASSUME ArrangementInv, NEW sender, NEW e \in Extensions, addExtension(sender, e)
  PROVE  ArrangementInv'
<1>1. OneExtension(e) \in Bag
  BY OneExtensionFacts
<1>2. /\ extensions' \in Bag
      /\ isExtension \subseteq isExtension'
      /\ isExtension' \subseteq Extensions
      /\ \A x \in Extensions : extensions'[x] = IF x \in isExtension' THEN 1 ELSE 0
  BY <1>1, AddMissingFacts DEF addExtension
<1>3. UNCHANGED <<protectedModules, protectedModulesList>>
  BY DEF addExtension
<1> QED
  BY <1>2, <1>3 DEF ArrangementInv, ArraysMatchMappings, NoStaleAuthorization,
                    AuthorizedAreExtensions, isProtected, authorized, Listed

(* The scan of protectedModulesList sees every module that authorizes e,   *)
(* because a module that authorizes an extension is protected, hence       *)
(* listed.                                                                 *)
LEMMA RemoveExtensionKeeps ==
  ASSUME ArrangementInv, NEW sender, NEW e \in Extensions, removeExtension(sender, e)
  PROVE  ArrangementInv'
<1>1. \A m \in Modules : e \notin authorized(m)
  <2> SUFFICES ASSUME NEW m \in Modules, e \in authorized(m)
               PROVE  FALSE
    OBVIOUS
  <2>1. isProtected(m)
    BY DEF ArrangementInv, NoStaleAuthorization
  <2>2. protectedModulesList[m] = 1
    BY <2>1 DEF ArrangementInv, ArraysMatchMappings
  <2> QED
    BY <2>2 DEF removeExtension, isAuthorizedExtension
<1>2. /\ isExtension' = isExtension \ {e}
      /\ extensions' = [extensions EXCEPT ![e] = @ - 1]
      /\ e \in isExtension
      /\ UNCHANGED <<protectedModules, protectedModulesList>>
  BY DEF removeExtension
<1>3. extensions' \in Bag /\ ArraysMatchMappings'
  BY <1>2 DEF ArrangementInv, ArraysMatchMappings, isProtected, Bag
<1>4. NoStaleAuthorization'
  BY <1>2 DEF ArrangementInv, NoStaleAuthorization, isProtected, authorized, Listed
<1>5. AuthorizedAreExtensions'
  BY <1>1, <1>2 DEF ArrangementInv, AuthorizedAreExtensions, authorized
<1> QED
  BY <1>2, <1>3, <1>4, <1>5 DEF ArrangementInv

(* A mutual authorization of one more extension.                           *)
LEMMA AuthorizeExtensionKeeps ==
  ASSUME ArrangementInv, NEW m \in Modules, NEW e \in Extensions, isProtected(m),
         protectedModules' =
           [protectedModules EXCEPT ![m] = authorizeIn(@, OneExtension(e))],
         addMissing(OneExtension(e)), UNCHANGED protectedModulesList
  PROVE  /\ ArrangementInv'
         /\ \A n \in Modules : isProtected(n)' = isProtected(n)
         /\ \A n \in Modules \ {m} : authorized(n)' = authorized(n)
<1> DEFINE pm == protectedModules[m]
           bag == OneExtension(e)
<1>1. bag \in Bag /\ Listed(bag) = {e}
  BY OneExtensionFacts
<1>2. pm \in ProtectedModule
  BY DEF ArrangementInv
<1> HIDE DEF pm, bag
<1>3. /\ authorizeIn(pm, bag) \in ProtectedModule
      /\ authorizeIn(pm, bag).isProtected = pm.isProtected
      /\ authorizeIn(pm, bag).authorizedExtensions
           = pm.authorizedExtensions \union Listed(bag)
      /\ Listed(authorizeIn(pm, bag).authorizedExtensionsList)
           = Listed(pm.authorizedExtensionsList) \union Listed(bag)
  BY <1>1, <1>2, AuthorizeInFacts
<1>4. /\ protectedModules' \in [Modules -> ProtectedModule]
      /\ protectedModules'[m] = authorizeIn(pm, bag)
      /\ \A n \in Modules \ {m} : protectedModules'[n] = protectedModules[n]
  BY <1>3 DEF ArrangementInv, pm, bag
<1>5. /\ extensions' \in Bag
      /\ isExtension' = isExtension \union Listed(bag)
      /\ isExtension' \subseteq Extensions
      /\ \A x \in Extensions : extensions'[x] = IF x \in isExtension' THEN 1 ELSE 0
  BY <1>1, AddMissingFacts DEF bag
<1>6. protectedModules'[m].isProtected = protectedModules[m].isProtected
  BY <1>3, <1>4 DEF pm
<1>7. ArraysMatchMappings'
  BY <1>4, <1>5, <1>6 DEF ArrangementInv, ArraysMatchMappings, isProtected
<1>8. /\ protectedModules'[m].authorizedExtensions
           = protectedModules[m].authorizedExtensions \union {e}
      /\ Listed(protectedModules'[m].authorizedExtensionsList)
           = Listed(protectedModules[m].authorizedExtensionsList) \union {e}
  BY <1>1, <1>3, <1>4 DEF pm
<1>9. NoStaleAuthorization' /\ AuthorizedAreExtensions'
  BY <1>1, <1>4, <1>5, <1>6, <1>8 DEF ArrangementInv, NoStaleAuthorization,
              AuthorizedAreExtensions, isProtected, authorized, Listed
<1> QED
  BY <1>4, <1>5, <1>6, <1>7, <1>9 DEF ArrangementInv, isProtected, authorized

(* A mutual revocation: the authorization goes, and with it one entry of   *)
(* the list; a second entry of the same extension would stay.              *)
LEMMA RevokeKeeps ==
  ASSUME ArrangementInv, NEW m \in Modules, NEW e \in Extensions, isProtected(m),
         protectedModules[m].authorizedExtensionsList[e] > 0,
         protectedModules' = [protectedModules EXCEPT
           ![m].authorizedExtensions = @ \ {e},
           ![m].authorizedExtensionsList[e] = @ - 1],
         UNCHANGED <<extensions, isExtension, protectedModulesList>>
  PROVE  /\ ArrangementInv'
         /\ \A n \in Modules : isProtected(n)' = isProtected(n)
         /\ \A n \in Modules \ {m} : authorized(n)' = authorized(n)
<1> DEFINE pm == protectedModules[m]
           pm2 == protectedModules'[m]
<1>1. pm \in ProtectedModule
  BY DEF ArrangementInv
<1>2. /\ pm2 = [pm EXCEPT !.authorizedExtensions = @ \ {e},
                          !.authorizedExtensionsList[e] = @ - 1]
      /\ DOMAIN protectedModules' = Modules
      /\ \A n \in Modules \ {m} : protectedModules'[n] = protectedModules[n]
  BY DEF ArrangementInv
<1>3. /\ pm2 \in ProtectedModule
      /\ pm2.isProtected = pm.isProtected
      /\ pm2.authorizedExtensions = pm.authorizedExtensions \ {e}
      /\ \A x \in Extensions \ {e} :
           pm2.authorizedExtensionsList[x] = pm.authorizedExtensionsList[x]
  BY <1>1, <1>2 DEF ProtectedModule, Bag
<1>4. protectedModules' \in [Modules -> ProtectedModule]
  BY <1>2, <1>3 DEF ArrangementInv
<1>5. ArraysMatchMappings' /\ AuthorizedAreExtensions'
  BY <1>2, <1>3 DEF ArrangementInv, ArraysMatchMappings, AuthorizedAreExtensions,
                    isProtected, authorized
<1>6. NoStaleAuthorization'
  BY <1>2, <1>3 DEF ArrangementInv, NoStaleAuthorization, isProtected, authorized, Listed
<1> QED
  BY <1>2, <1>3, <1>4, <1>5, <1>6 DEF ArrangementInv, isProtected, authorized

(* A mutual replacement: the struct of the old module is cleared before    *)
(* the new one is protected, so that also old = new starts afresh.         *)
LEMMA ReplaceKeeps ==
  ASSUME ArrangementInv, NEW old \in Modules, NEW new \in Modules, NEW bag \in Bag,
         isProtected(old), protectedModulesList[old] > 0,
         ~withoutModule(old)[new].isProtected,
         protectedModules' = [withoutModule(old) EXCEPT ![new] = protectedStruct(@, bag)],
         protectedModulesList' =
           [protectedModulesList EXCEPT ![old] = @ - 1, ![new] = @ + 1],
         addMissing(bag)
  PROVE  /\ ArrangementInv'
         /\ new = old \/ (~isProtected(new) /\ ~isProtected(old)')
         /\ isProtected(new)'
         /\ authorized(new)' = Listed(bag)
         /\ new # old => authorized(old)' = {}
         /\ \A n \in Modules \ {old, new} : protectedModules'[n] = protectedModules[n]
<1> DEFINE pm == protectedModules[old]
           unProtected == withoutModule(old)
           cleared == unProtected[new]
<1>1. /\ pm \in ProtectedModule
      /\ pm.authorizedExtensions \subseteq Listed(pm.authorizedExtensionsList)
  BY DEF ArrangementInv, NoStaleAuthorization, authorized
<1>2. /\ unProtectedStruct(pm) \in ProtectedModule
      /\ unProtectedStruct(pm).isProtected = FALSE
      /\ unProtectedStruct(pm).authorizedExtensions = {}
  BY <1>1, UnProtectedStructFacts
<1>3. /\ unProtected \in [Modules -> ProtectedModule]
      /\ unProtected[old] = unProtectedStruct(pm)
      /\ \A n \in Modules \ {old} : unProtected[n] = protectedModules[n]
  BY <1>2 DEF ArrangementInv, withoutModule
<1>4. \A n \in Modules : ~unProtected[n].isProtected =>
                           unProtected[n].authorizedExtensions = {}
  BY <1>2, <1>3 DEF ArrangementInv, NoStaleAuthorization, isProtected, authorized
<1>5. /\ cleared \in ProtectedModule
      /\ cleared.authorizedExtensions = {}
      /\ new # old => protectedModules[new].isProtected = FALSE
  BY <1>3, <1>4 DEF ProtectedModule
<1> HIDE DEF cleared, unProtected
<1>6. /\ protectedStruct(cleared, bag) \in ProtectedModule
      /\ protectedStruct(cleared, bag).isProtected = TRUE
      /\ protectedStruct(cleared, bag).authorizedExtensions
           = cleared.authorizedExtensions \union Listed(bag)
      /\ Listed(protectedStruct(cleared, bag).authorizedExtensionsList)
           = Listed(cleared.authorizedExtensionsList) \union Listed(bag)
  BY <1>5, ProtectedStructFacts
<1>7. /\ protectedModules' \in [Modules -> ProtectedModule]
      /\ protectedModules'[new] = protectedStruct(cleared, bag)
      /\ \A n \in Modules \ {new} : protectedModules'[n] = unProtected[n]
  BY <1>3, <1>6 DEF cleared, unProtected
<1>8. /\ protectedModules'[new].isProtected = TRUE
      /\ protectedModules'[new].authorizedExtensions = Listed(bag)
      /\ Listed(bag) \subseteq Listed(protectedModules'[new].authorizedExtensionsList)
  BY <1>5, <1>6, <1>7
<1>9. new # old => /\ protectedModules'[old].isProtected = FALSE
                   /\ protectedModules'[old].authorizedExtensions = {}
                   /\ protectedModules[new].isProtected = FALSE
  BY <1>2, <1>3, <1>5, <1>7
<1>10. \A n \in Modules \ {old, new} : protectedModules'[n] = protectedModules[n]
  BY <1>3, <1>7
<1>11. /\ extensions' \in Bag
       /\ isExtension' = isExtension \union Listed(bag)
       /\ isExtension' \subseteq Extensions
       /\ \A e \in Extensions : extensions'[e] = IF e \in isExtension' THEN 1 ELSE 0
  BY AddMissingFacts
<1>12. protectedModulesList' \in [Modules -> Nat] /\ ArraysMatchMappings'
  <2>1. /\ protectedModulesList \in [Modules -> Nat]
        /\ \A n \in Modules : protectedModulesList[n] = IF isProtected(n) THEN 1 ELSE 0
    BY DEF ArrangementInv, ArraysMatchMappings
  <2>2. CASE new = old
    BY <2>1, <2>2, <1>8, <1>10, <1>11 DEF ArraysMatchMappings, isProtected
  <2>3. CASE new # old
    <3>1. protectedModulesList[old] = 1 /\ protectedModulesList[new] = 0
      BY <2>1, <2>3, <1>9 DEF isProtected
    <3>2. /\ protectedModulesList' \in [Modules -> Nat]
          /\ protectedModulesList'[old] = 0 /\ protectedModulesList'[new] = 1
          /\ \A n \in Modules \ {old, new} :
               protectedModulesList'[n] = protectedModulesList[n]
      BY <2>1, <2>3, <3>1
    <3>3. \A n \in Modules : protectedModulesList'[n] = IF isProtected(n)' THEN 1 ELSE 0
      BY <2>1, <2>3, <3>2, <1>8, <1>9, <1>10 DEF isProtected
    <3> QED
      BY <3>2, <3>3, <1>11 DEF ArraysMatchMappings
  <2> QED
    BY <2>2, <2>3
<1>13. NoStaleAuthorization' /\ AuthorizedAreExtensions'
  BY <1>8, <1>9, <1>10, <1>11 DEF ArrangementInv, NoStaleAuthorization,
              AuthorizedAreExtensions, isProtected, authorized, Listed
<1> QED
  BY <1>7, <1>8, <1>9, <1>10, <1>11, <1>12, <1>13
  DEF ArrangementInv, isProtected, authorized

-----------------------------------------------------------------------------
(* The invariant                                                           *)

(* The constructor establishes the invariant.                              *)
LEMMA InitIInv == Init => IInv
<1> SUFFICES ASSUME Init PROVE IInv
  OBVIOUS
<1> DEFINE fresh == [isProtected |-> FALSE, authorizedExtensionsList |-> NoExtensions,
                     authorizedExtensions |-> {}]
<1>1. NoExtensions \in Bag /\ \A e \in Extensions : NoExtensions[e] = 0
  BY DEF NoExtensions, Bag
<1>2. fresh \in ProtectedModule
  BY <1>1 DEF ProtectedModule
<1>3. /\ protectedModules \in [Modules -> ProtectedModule]
      /\ \A m \in Modules : ~isProtected(m) /\ authorized(m) = {}
  BY <1>2 DEF Init, isProtected, authorized
<1>4. ArrangementInv
  BY <1>1, <1>3 DEF Init, ArrangementInv, ArraysMatchMappings, NoStaleAuthorization,
                    AuthorizedAreExtensions
<1>5. OthersTypeOK
  BY ThisAssumption DEF Init, OthersTypeOK, SetTokenTypeOK, ModuleState
<1>6. ProtectedOnSetToken
  BY <1>3, NoLockerAssumption DEF Init, ProtectedOnSetToken, isLocked
<1> QED
  BY <1>4, <1>5, <1>6 DEF IInv

(* A step that leaves the arrangement alone keeps its invariant.           *)
LEMMA ArrangementStutters ==
  ASSUME ArrangementInv, UNCHANGED arrangementVars
  PROVE  ArrangementInv' /\ \A m \in Modules : isProtected(m)' = isProtected(m)
BY DEF arrangementVars, ArrangementInv, ArraysMatchMappings, NoStaleAuthorization,
       AuthorizedAreExtensions, isProtected, authorized, Listed

(* Consent is given in the name of roles.                                  *)
LEMMA ConsentIsRoles == \A p : rolesOf(p) \subseteq Role
BY DEF rolesOf

(* The steps of the operator keep the invariant.                           *)
LEMMA OperatorStep ==
  ASSUME IInv, NEW sender \in Parties, OperatorNext(sender)
  PROVE  IInv'
<1> USE ConsentIsRoles DEF IInv
<1>1. ASSUME NEW e \in Extensions, addExtension(sender, e) PROVE IInv'
  <2>1. ArrangementInv'
    BY <1>1, AddExtensionKeeps
  <2>2. OthersTypeOK'
    BY <1>1 DEF addExtension, OthersTypeOK, onlyOperator, setTokenVars, roleVars,
                miscVars, SetTokenTypeOK
  <2>3. ProtectedOnSetToken'
    BY <1>1 DEF addExtension, ProtectedOnSetToken, setTokenVars, isProtected, isLocked
  <2> QED
    BY <2>1, <2>2, <2>3
<1>2. ASSUME NEW e \in Extensions, removeExtension(sender, e) PROVE IInv'
  <2>1. ArrangementInv'
    BY <1>2, RemoveExtensionKeeps
  <2>2. OthersTypeOK'
    BY <1>2 DEF removeExtension, OthersTypeOK, onlyOperator, setTokenVars, roleVars,
                miscVars, SetTokenTypeOK
  <2>3. ProtectedOnSetToken'
    BY <1>2 DEF removeExtension, ProtectedOnSetToken, setTokenVars, isProtected, isLocked
  <2> QED
    BY <2>1, <2>2, <2>3
<1>3. ASSUME NEW m \in Modules, addModuleToSet(sender, m) PROVE IInv'
  <2>1. ArrangementInv' /\ \A n \in Modules : isProtected(n)' = isProtected(n)
    BY <1>3, ArrangementStutters DEF addModuleToSet
  <2>2. OthersTypeOK'
    BY <1>3 DEF addModuleToSet, addModule, OthersTypeOK, onlyOperator, roleVars,
                miscVars, SetTokenTypeOK, ModuleState
  <2>3. ProtectedOnSetToken'
    BY <1>3, <2>1 DEF addModuleToSet, addModule, ProtectedOnSetToken, isLocked,
                OthersTypeOK, SetTokenTypeOK
  <2> QED
    BY <2>1, <2>2, <2>3
<1>4. ASSUME NEW m \in Modules, removeModuleFromSet(sender, m) PROVE IInv'
  <2>1. ArrangementInv' /\ \A n \in Modules : isProtected(n)' = isProtected(n)
    BY <1>4, ArrangementStutters DEF removeModuleFromSet
  <2>2. OthersTypeOK'
    BY <1>4 DEF removeModuleFromSet, removeModule, OthersTypeOK, onlyOperator, roleVars,
                miscVars, SetTokenTypeOK, ModuleState
  <2>3. ProtectedOnSetToken'
    BY <1>4, <2>1 DEF removeModuleFromSet, removeModule, ProtectedOnSetToken, isLocked,
                OthersTypeOK, SetTokenTypeOK
  <2> QED
    BY <2>1, <2>2, <2>3
<1>5. ASSUME NEW m \in Modules, emergencyRemoveProtectedModule(sender, m) PROVE IInv'
  <2>1. /\ ArrangementInv'
        /\ ~isProtected(m)'
        /\ \A n \in Modules \ {m} : protectedModules'[n] = protectedModules[n]
    BY <1>5, UnProtectKeeps DEF emergencyRemoveProtectedModule
  <2>2. OthersTypeOK'
    BY <1>5 DEF emergencyRemoveProtectedModule, removeModule, OthersTypeOK, onlyOperator,
                roleVars, miscVars, SetTokenTypeOK, ModuleState
  <2>3. ProtectedOnSetToken'
    BY <1>5, <2>1 DEF emergencyRemoveProtectedModule, removeModule, ProtectedOnSetToken,
                isProtected, isLocked, OthersTypeOK, SetTokenTypeOK
  <2> QED
    BY <2>1, <2>2, <2>3
<1>6. ASSUME NEW m \in Modules, NEW bag \in ExtensionLists, protectModule(sender, m, bag)
      PROVE  IInv'
  <2>1. /\ ArrangementInv'
        /\ \A n \in Modules \ {m} : protectedModules'[n] = protectedModules[n]
    BY <1>6, ProtectKeeps, ListsAssumption DEF protectModule, Bag
  <2>2. OthersTypeOK'
    BY <1>6 DEF protectModule, OthersTypeOK, onlyOperator, roleVars, miscVars,
                setTokenVars, SetTokenTypeOK
  <2>3. moduleStates[m] # "NONE"
    BY <1>6 DEF protectModule, GetModules
  <2>4. ProtectedOnSetToken'
    BY <1>6, <2>1, <2>3 DEF protectModule, ProtectedOnSetToken, setTokenVars,
                isProtected, isLocked
  <2> QED
    BY <2>1, <2>2, <2>4
<1>7. ASSUME NEW p \in Parties, setOperator(sender, p) PROVE IInv'
  <2>1. ArrangementInv' /\ \A n \in Modules : isProtected(n)' = isProtected(n)
    BY <1>7, ArrangementStutters DEF setOperator
  <2>2. OthersTypeOK'
    BY <1>7 DEF setOperator, OthersTypeOK, onlyOperator, miscVars, setTokenVars,
                SetTokenTypeOK
  <2>3. ProtectedOnSetToken'
    BY <1>7, <2>1 DEF setOperator, ProtectedOnSetToken, setTokenVars, isLocked
  <2> QED
    BY <2>1, <2>2, <2>3
<1> QED
  BY <1>1, <1>2, <1>3, <1>4, <1>5, <1>6, <1>7 DEF OperatorNext

(* The steps of the methodologist keep the invariant.                      *)
LEMMA MethodologistStep ==
  ASSUME IInv, NEW sender \in Parties, MethodologistNext(sender)
  PROVE  IInv'
<1> USE ConsentIsRoles DEF IInv
<1>1. ASSUME NEW m \in Modules, unProtectModule(sender, m) PROVE IInv'
  <2>1. /\ ArrangementInv'
        /\ ~isProtected(m)'
        /\ \A n \in Modules \ {m} : protectedModules'[n] = protectedModules[n]
    BY <1>1, UnProtectKeeps DEF unProtectModule
  <2>2. OthersTypeOK'
    BY <1>1 DEF unProtectModule, OthersTypeOK, onlyMethodologist, roleVars, miscVars,
                setTokenVars, SetTokenTypeOK
  <2>3. ProtectedOnSetToken'
    BY <1>1, <2>1 DEF unProtectModule, ProtectedOnSetToken, setTokenVars, isProtected,
                isLocked
  <2> QED
    BY <2>1, <2>2, <2>3
<1>2. ASSUME \/ authorizeInitialization(sender)
             \/ resolveEmergency(sender)
             \/ \E p \in Parties : setMethodologist(sender, p)
      PROVE  IInv'
  <2>1. /\ ArrangementInv'
        /\ \A n \in Modules : isProtected(n)' = isProtected(n)
    BY <1>2, ArrangementStutters
    DEF authorizeInitialization, resolveEmergency, setMethodologist
  <2>2. OthersTypeOK'
    <3> USE DEF OthersTypeOK, onlyMethodologist, roleVars, miscVars, setTokenVars,
                SetTokenTypeOK
    <3>1. CASE authorizeInitialization(sender)
      BY <3>1 DEF authorizeInitialization
    <3>2. CASE resolveEmergency(sender)
      BY <3>2 DEF resolveEmergency, onlyEmergency
    <3>3. ASSUME NEW p \in Parties, setMethodologist(sender, p) PROVE OthersTypeOK'
      BY <3>3 DEF setMethodologist
    <3> QED
      BY <1>2, <3>1, <3>2, <3>3
  <2>3. UNCHANGED setTokenVars
    BY <1>2 DEF authorizeInitialization, resolveEmergency, setMethodologist
  <2>4. ProtectedOnSetToken'
    BY <2>1, <2>3 DEF ProtectedOnSetToken, setTokenVars, isLocked
  <2> QED
    BY <2>1, <2>2, <2>4
<1> QED
  BY <1>1, <1>2 DEF MethodologistNext

(* The first of two calls only registers an approval.                      *)
LEMMA RegisterStep ==
  ASSUME IInv, NEW sender, NEW call, mutualRegister(sender, call)
  PROVE  IInv'
<1>1. /\ ArrangementInv'
      /\ \A n \in Modules : isProtected(n)' = isProtected(n)
  BY ArrangementStutters DEF mutualRegister, IInv
<1>2. OthersTypeOK'
  BY DEF mutualRegister, IInv, OthersTypeOK, roleVars, miscVars, setTokenVars,
         SetTokenTypeOK
<1>3. ProtectedOnSetToken'
  BY <1>1 DEF mutualRegister, IInv, ProtectedOnSetToken, setTokenVars, isLocked
<1> QED
  BY <1>1, <1>2, <1>3 DEF IInv

(* The steps both parties agree to keep the invariant.                     *)
LEMMA MutualStep ==
  ASSUME IInv, NEW sender \in Parties, MutualNext(sender)
  PROVE  IInv'
<1> USE DEF IInv
<1>1. ASSUME NEW x \in Managers, setManagerOfSet(sender, x) PROVE IInv'
  <2> DEFINE call == <<"setManager", x>>
  <2>1. CASE mutualRegister(sender, call)
    BY <2>1, RegisterStep
  <2>2. CASE ~mutualRegister(sender, call)
    <3>1. /\ mutualExecute(sender, call)
          /\ setManager(This, x)
          /\ UNCHANGED <<arrangementVars, emergencies>>
      BY <1>1, <2>2 DEF setManagerOfSet
    <3>2. /\ ArrangementInv'
          /\ \A n \in Modules : isProtected(n)' = isProtected(n)
      BY <3>1, ArrangementStutters
    <3>3. OthersTypeOK'
      BY <3>1 DEF mutualExecute, setManager, OthersTypeOK, roleVars, miscVars,
                  SetTokenTypeOK
    <3>4. ProtectedOnSetToken'
      BY <3>1, <3>2 DEF setManager, ProtectedOnSetToken, isLocked
    <3> QED
      BY <3>2, <3>3, <3>4
  <2> QED
    BY <2>1, <2>2
<1>2. ASSUME NEW m \in Modules, NEW e \in Extensions, authorizeExtension(sender, m, e)
      PROVE  IInv'
  <2> DEFINE call == <<"authorizeExtension", m, e>>
  <2>1. CASE mutualRegister(sender, call)
    BY <2>1, RegisterStep
  <2>2. CASE ~mutualRegister(sender, call)
    <3>1. /\ mutualExecute(sender, call)
          /\ isProtected(m)
          /\ protectedModules' =
               [protectedModules EXCEPT ![m] = authorizeIn(@, OneExtension(e))]
          /\ addMissing(OneExtension(e))
          /\ UNCHANGED <<setTokenVars, protectedModulesList, emergencies>>
      BY <1>2, <2>2 DEF authorizeExtension
    <3>2. /\ ArrangementInv'
          /\ \A n \in Modules : isProtected(n)' = isProtected(n)
      BY <3>1, AuthorizeExtensionKeeps
    <3>3. OthersTypeOK'
      BY <3>1 DEF mutualExecute, OthersTypeOK, roleVars, miscVars, setTokenVars,
                  SetTokenTypeOK
    <3>4. ProtectedOnSetToken'
      BY <3>1, <3>2 DEF ProtectedOnSetToken, isLocked, setTokenVars
    <3> QED
      BY <3>2, <3>3, <3>4
  <2> QED
    BY <2>1, <2>2
<1>3. ASSUME NEW m \in Modules, NEW e \in Extensions,
             revokeExtensionAuthorization(sender, m, e)
      PROVE  IInv'
  <2> DEFINE call == <<"revokeExtensionAuthorization", m, e>>
  <2>1. CASE mutualRegister(sender, call)
    BY <2>1, RegisterStep
  <2>2. CASE ~mutualRegister(sender, call)
    <3>1. /\ mutualExecute(sender, call)
          /\ isProtected(m)
          /\ protectedModules[m].authorizedExtensionsList[e] > 0
          /\ protectedModules' = [protectedModules EXCEPT
               ![m].authorizedExtensions = @ \ {e},
               ![m].authorizedExtensionsList[e] = @ - 1]
          /\ UNCHANGED <<setTokenVars, extensions, isExtension,
                         protectedModulesList, emergencies>>
      BY <1>3, <2>2 DEF revokeExtensionAuthorization
    <3>2. /\ ArrangementInv'
          /\ \A n \in Modules : isProtected(n)' = isProtected(n)
      BY <3>1, RevokeKeeps
    <3>3. OthersTypeOK'
      BY <3>1 DEF mutualExecute, OthersTypeOK, roleVars, miscVars, setTokenVars,
                  SetTokenTypeOK
    <3>4. ProtectedOnSetToken'
      BY <3>1, <3>2 DEF ProtectedOnSetToken, isLocked, setTokenVars
    <3> QED
      BY <3>2, <3>3, <3>4
  <2> QED
    BY <2>1, <2>2
<1>4. ASSUME NEW old \in Modules, NEW new \in Modules, NEW bag \in ExtensionLists,
             replaceProtectedModule(sender, old, new, bag)
      PROVE  IInv'
  <2> DEFINE call == <<"replaceProtectedModule", old, new, bag>>
  <2>1. CASE mutualRegister(sender, call)
    BY <2>1, RegisterStep
  <2>2. CASE ~mutualRegister(sender, call)
    <3>1. /\ mutualExecute(sender, call)
          /\ isProtected(old)
          /\ protectedModulesList[old] > 0
          /\ replaceModule(This, old, new)
          /\ ~withoutModule(old)[new].isProtected
          /\ protectedModules' = [withoutModule(old) EXCEPT ![new] = protectedStruct(@, bag)]
          /\ protectedModulesList' =
               [protectedModulesList EXCEPT ![old] = @ - 1, ![new] = @ + 1]
          /\ addMissing(bag)
          /\ UNCHANGED emergencies
      BY <1>4, <2>2 DEF replaceProtectedModule
    <3>2. bag \in Bag
      BY ListsAssumption DEF Bag
    <3>3. /\ ArrangementInv'
          /\ new = old \/ (~isProtected(new) /\ ~isProtected(old)')
          /\ \A n \in Modules \ {old, new} : protectedModules'[n] = protectedModules[n]
      BY <3>1, <3>2, ReplaceKeeps
    <3>4. OthersTypeOK'
      BY <3>1 DEF mutualExecute, replaceModule, OthersTypeOK, roleVars, miscVars,
                  SetTokenTypeOK, ModuleState
    <3>5. ProtectedOnSetToken'
      BY <3>1, <3>3 DEF replaceModule, ProtectedOnSetToken, isLocked, isProtected,
                  OthersTypeOK, SetTokenTypeOK
    <3> QED
      BY <3>3, <3>4, <3>5
  <2> QED
    BY <2>1, <2>2
<1>5. ASSUME NEW m \in Modules, NEW bag \in ExtensionLists,
             emergencyReplaceProtectedModule(sender, m, bag)
      PROVE  IInv'
  <2> DEFINE call == <<"emergencyReplaceProtectedModule", m, bag>>
  <2>1. CASE mutualRegister(sender, call)
    BY <2>1, RegisterStep
  <2>2. CASE ~mutualRegister(sender, call)
    <3>1. /\ mutualExecute(sender, call)
          /\ onlyEmergency
          /\ addModule(This, m)
          /\ doProtectModule(m, bag)
          /\ emergencies' = emergencies - 1
      BY <1>5, <2>2 DEF emergencyReplaceProtectedModule
    <3>2. /\ ArrangementInv'
          /\ \A n \in Modules \ {m} : protectedModules'[n] = protectedModules[n]
      BY <3>1, ProtectKeeps, ListsAssumption DEF Bag
    <3>3. OthersTypeOK'
      BY <3>1 DEF mutualExecute, addModule, OthersTypeOK, onlyEmergency, roleVars,
                  miscVars, SetTokenTypeOK, ModuleState
    <3>4. ProtectedOnSetToken'
      BY <3>1, <3>2 DEF addModule, ProtectedOnSetToken, isLocked, isProtected,
                  OthersTypeOK, SetTokenTypeOK
    <3> QED
      BY <3>2, <3>3, <3>4
  <2> QED
    BY <2>1, <2>2
<1> QED
  BY <1>1, <1>2, <1>3, <1>4, <1>5 DEF MutualNext

(* Extensions, modules and token senders keep the invariant.               *)
LEMMA EnvironmentStep ==
  ASSUME IInv, EnvironmentNext
  PROVE  IInv'
<1> USE DEF IInv
<1>1. UNCHANGED <<arrangementVars, roleVars, emergencies>> /\ consent' = {}
  BY DEF EnvironmentNext, interactManager, transferTokens, unlockSet, receiveTokens
<1>2. /\ ArrangementInv'
      /\ \A n \in Modules : isProtected(n)' = isProtected(n)
  BY <1>1, ArrangementStutters
<1>3. SetTokenTypeOK' /\ ProtectedOnSetToken'
  <2>1. ASSUME NEW e \in Extensions, NEW m \in Modules, interactManager(e, m)
        PROVE  SetTokenTypeOK' /\ ProtectedOnSetToken'
    BY <1>2, <2>1 DEF interactManager, initializeModule, lock, OthersTypeOK, isLocked,
                SetTokenTypeOK, ModuleState, ProtectedOnSetToken
  <2>2. ASSUME NEW m \in Modules, unlockSet(m)
        PROVE  SetTokenTypeOK' /\ ProtectedOnSetToken'
    BY <1>2, <2>2 DEF unlockSet, unlock, OthersTypeOK, isLocked, SetTokenTypeOK,
                ProtectedOnSetToken
  <2>3. ASSUME UNCHANGED setTokenVars
        PROVE  SetTokenTypeOK' /\ ProtectedOnSetToken'
    BY <1>2, <2>3 DEF setTokenVars, OthersTypeOK, isLocked, SetTokenTypeOK,
                ProtectedOnSetToken
  <2> QED
    BY <2>1, <2>2, <2>3 DEF EnvironmentNext, transferTokens, receiveTokens
<1>4. initialized' \in BOOLEAN /\ tokensHeld' \in Nat
  BY DEF EnvironmentNext, interactManager, transferTokens, unlockSet, receiveTokens,
         miscVars, OthersTypeOK
<1>5. OthersTypeOK'
  BY <1>1, <1>3, <1>4 DEF OthersTypeOK, roleVars
<1> QED
  BY <1>2, <1>3, <1>5

(* IInv is an invariant of BaseManagerV2, whatever its modules, its        *)
(* extensions and its parties are.                                         *)
THEOREM Invariance == Spec => []IInv
<1>1. Init => IInv
  BY InitIInv
<1>2. IInv /\ [Next]_vars => IInv'
  <2> SUFFICES ASSUME IInv, [Next]_vars PROVE IInv'
    OBVIOUS
  <2>1. CASE Next
    BY <2>1, OperatorStep, MethodologistStep, MutualStep, EnvironmentStep DEF Next
  <2>2. CASE UNCHANGED vars
    <3>1. /\ ArrangementInv'
          /\ \A n \in Modules : isProtected(n)' = isProtected(n)
      BY <2>2, ArrangementStutters DEF IInv, vars
    <3> QED
      BY <2>2, <3>1 DEF IInv, vars, setTokenVars, roleVars, miscVars, OthersTypeOK,
                        SetTokenTypeOK, ProtectedOnSetToken, isLocked
  <2> QED
    BY <2>1, <2>2
<1> QED
  BY <1>1, <1>2, PTL DEF Spec

(* The contract and the registry it governs stay well typed.               *)
THEOREM TypeCorrect == Spec => []TypeOK
<1>1. IInv => TypeOK
  BY DEF IInv, OthersTypeOK, ArrangementInv, TypeOK
<1> QED
  BY <1>1, Invariance, PTL

(* The arrays list exactly what the mappings flag, once.                   *)
THEOREM ArraysAgree == Spec => []ArraysMatchMappings
<1>1. IInv => ArraysMatchMappings
  BY DEF IInv, ArrangementInv
<1> QED
  BY <1>1, Invariance, PTL

(* No authorization outlives the protection of its module.                 *)
THEOREM AuthorizationsEnd == Spec => []NoStaleAuthorization
<1>1. IInv => NoStaleAuthorization
  BY DEF IInv, ArrangementInv
<1> QED
  BY <1>1, Invariance, PTL

(* The operator cannot remove an authorized extension.                     *)
THEOREM AuthorizedStay == Spec => []AuthorizedAreExtensions
<1>1. IInv => AuthorizedAreExtensions
  BY DEF IInv, ArrangementInv
<1> QED
  BY <1>1, Invariance, PTL

(* A protected module stays on the SetToken this contract manages.         *)
THEOREM ProtectedStay == Spec => []ProtectedOnSetToken
<1>1. IInv => ProtectedOnSetToken
  BY DEF IInv
<1> QED
  BY <1>1, Invariance, PTL

-----------------------------------------------------------------------------
(* The policy                                                              *)

(* What a step leaves alone.                                               *)
LEMMA PolicyNoChange ==
  ASSUME UNCHANGED <<protectedModules, emergencies>>, consent' \subseteq Role
  PROVE  Policy!Next
BY DEF Policy!Next, Policy!NoChange, Policy!KeepsArrangement, Policy!Role, Role,
       isProtected, authorized

(* _unProtectModule is the policy's Drops.                                 *)
LEMMA PolicyDrops ==
  ASSUME ArrangementInv, NEW m \in Modules, doUnProtectModule(m)
  PROVE  Policy!Drops(m)
<1>1. /\ isProtected(m) /\ ~isProtected(m)'
      /\ authorized(m)' = {}
      /\ \A n \in Modules \ {m} : protectedModules'[n] = protectedModules[n]
  BY UnProtectKeeps
<1>2. {n \in Modules : isProtected(n)}' = {n \in Modules : isProtected(n)} \ {m}
  BY <1>1 DEF isProtected
<1>3. [n \in Modules |-> authorized(n)]'
        = [[n \in Modules |-> authorized(n)] EXCEPT ![m] = {}]
  BY <1>1 DEF authorized
<1> QED
  BY <1>1, <1>2, <1>3 DEF Policy!Drops

(* _protectModule is the policy's Protects.                                *)
LEMMA PolicyProtects ==
  ASSUME ArrangementInv, NEW m \in Modules, NEW bag \in Bag, doProtectModule(m, bag)
  PROVE  Policy!Protects(m, Listed(bag)) /\ Listed(bag) \in SUBSET Extensions
<1>1. /\ ~isProtected(m) /\ isProtected(m)'
      /\ authorized(m)' = Listed(bag)
      /\ \A n \in Modules \ {m} : protectedModules'[n] = protectedModules[n]
  BY ProtectKeeps
<1>2. {n \in Modules : isProtected(n)}' = {n \in Modules : isProtected(n)} \union {m}
  BY <1>1 DEF isProtected
<1>3. [n \in Modules |-> authorized(n)]'
        = [[n \in Modules |-> authorized(n)] EXCEPT ![m] = Listed(bag)]
  BY <1>1 DEF authorized
<1>4. Listed(bag) \in SUBSET Extensions
  BY DEF Listed
<1> QED
  BY <1>1, <1>2, <1>3, <1>4 DEF Policy!Protects

(* A changed set of callers of one protected module is Recalls.            *)
LEMMA PolicyRecalls ==
  ASSUME NEW m \in Modules, isProtected(m),
         \A n \in Modules : isProtected(n)' = isProtected(n),
         \A n \in Modules \ {m} : authorized(n)' = authorized(n),
         authorized(m)' \subseteq Extensions
  PROVE  \E es \in SUBSET Extensions : Policy!Recalls(m, es)
<1> DEFINE es == authorized(m)'
<1>1. [n \in Modules |-> authorized(n)]'
        = [[n \in Modules |-> authorized(n)] EXCEPT ![m] = es]
  OBVIOUS
<1>2. {n \in Modules : isProtected(n)}' = {n \in Modules : isProtected(n)}
  OBVIOUS
<1>3. Policy!Recalls(m, es)
  BY <1>1, <1>2 DEF Policy!Recalls
<1> QED
  BY <1>3

(* A replacement is the policy's Replaces.                                 *)
LEMMA PolicyReplaces ==
  ASSUME NEW old \in Modules, NEW new \in Modules, NEW es \in SUBSET Extensions,
         isProtected(old),
         new = old \/ (~isProtected(new) /\ ~isProtected(old)'),
         isProtected(new)',
         authorized(new)' = es,
         new # old => authorized(old)' = {},
         \A n \in Modules \ {old, new} : protectedModules'[n] = protectedModules[n]
  PROVE  Policy!Replaces(old, new, es)
<1>1. {n \in Modules : isProtected(n)}'
        = ({n \in Modules : isProtected(n)} \ {old}) \union {new}
  BY DEF isProtected
<1>2. [n \in Modules |-> authorized(n)]'
        = [[n \in Modules |-> authorized(n)] EXCEPT ![old] = {}, ![new] = es]
  BY DEF authorized
<1>3. new \notin {n \in Modules : isProtected(n)} \ {old}
  OBVIOUS
<1> QED
  BY <1>1, <1>2, <1>3 DEF Policy!Replaces

(* Steps of the operator: one more protection, an emergency, or nothing.   *)
LEMMA PolicyOperator ==
  ASSUME IInv, NEW sender \in Parties, OperatorNext(sender)
  PROVE  Policy!Next
<1> USE DEF IInv
<1>1. "operator" \in consent' /\ consent' \subseteq Role
  BY DEF OperatorNext, addExtension, removeExtension, addModuleToSet, removeModuleFromSet,
         emergencyRemoveProtectedModule, protectModule, setOperator, onlyOperator,
         rolesOf, Role
<1>2. ASSUME NEW m \in Modules, NEW bag \in ExtensionLists, protectModule(sender, m, bag)
      PROVE  Policy!Next
  <2>1. Policy!Protects(m, Listed(bag)) /\ Listed(bag) \in SUBSET Extensions
    BY <1>2, PolicyProtects, ListsAssumption DEF protectModule, Bag
  <2>2. emergencies = 0 /\ emergencies' = emergencies
    BY <1>2 DEF protectModule, upgradesPermitted
  <2>3. Policy!OperatorProtects
    BY <1>1, <2>1, <2>2 DEF Policy!OperatorProtects
  <2> QED
    BY <2>3 DEF Policy!Next
<1>3. ASSUME NEW m \in Modules, emergencyRemoveProtectedModule(sender, m)
      PROVE  Policy!Next
  <2>1. Policy!Drops(m)
    BY <1>3, PolicyDrops DEF emergencyRemoveProtectedModule
  <2>2. Policy!OperatorDeclaresEmergency
    BY <1>1, <1>3, <2>1 DEF emergencyRemoveProtectedModule,
                            Policy!OperatorDeclaresEmergency
  <2> QED
    BY <2>2 DEF Policy!Next
<1>4. ASSUME UNCHANGED <<protectedModules, emergencies>>
      PROVE  Policy!Next
  BY <1>1, <1>4, PolicyNoChange
<1> QED
  BY <1>2, <1>3, <1>4
  DEF OperatorNext, addExtension, removeExtension, addModuleToSet, removeModuleFromSet,
      setOperator, arrangementVars

(* Steps of the methodologist: the end of a protection or of an emergency. *)
LEMMA PolicyMethodologist ==
  ASSUME IInv, NEW sender \in Parties, MethodologistNext(sender)
  PROVE  Policy!Next
<1> USE DEF IInv
<1>1. "methodologist" \in consent' /\ consent' \subseteq Role
  BY DEF MethodologistNext, authorizeInitialization, unProtectModule, resolveEmergency,
         setMethodologist, onlyMethodologist, rolesOf, Role
<1>2. ASSUME NEW m \in Modules, unProtectModule(sender, m)
      PROVE  Policy!Next
  <2>1. Policy!Drops(m)
    BY <1>2, PolicyDrops DEF unProtectModule
  <2>2. Policy!MethodologistReleases
    BY <1>1, <1>2, <2>1 DEF unProtectModule, Policy!MethodologistReleases
  <2> QED
    BY <2>2 DEF Policy!Next
<1>3. ASSUME resolveEmergency(sender)
      PROVE  Policy!Next
  <2>1. UNCHANGED protectedModules
    BY <1>3 DEF resolveEmergency, arrangementVars
  <2>2. Policy!KeepsArrangement
    BY <2>1 DEF Policy!KeepsArrangement, isProtected, authorized
  <2>3. Policy!MethodologistResolves
    BY <1>1, <1>3, <2>2 DEF resolveEmergency, onlyEmergency, Policy!EndsEmergency,
                            Policy!MethodologistResolves
  <2> QED
    BY <2>3 DEF Policy!Next
<1>4. ASSUME UNCHANGED <<protectedModules, emergencies>>
      PROVE  Policy!Next
  BY <1>1, <1>4, PolicyNoChange
<1> QED
  BY <1>2, <1>3, <1>4
  DEF MethodologistNext, authorizeInitialization, setMethodologist, arrangementVars

(* Steps both parties agree to.                                            *)
LEMMA PolicyMutual ==
  ASSUME IInv, NEW sender \in Parties, MutualNext(sender)
  PROVE  Policy!Next
<1> USE DEF IInv
<1>1. ASSUME NEW call, mutualRegister(sender, call)
      PROVE  Policy!Next
  BY <1>1, PolicyNoChange DEF mutualRegister, arrangementVars
<1>2. ASSUME NEW call, mutualExecute(sender, call)
      PROVE  consent' = Policy!Role /\ consent' = Role
  BY <1>2 DEF mutualExecute, Role, Policy!Role
<1>3. ASSUME NEW x \in Managers, setManagerOfSet(sender, x)
      PROVE  Policy!Next
  <2> DEFINE call == <<"setManager", x>>
  <2>1. CASE mutualRegister(sender, call)
    BY <2>1, <1>1
  <2>2. CASE ~mutualRegister(sender, call)
    <3>1. mutualExecute(sender, call) /\ UNCHANGED <<arrangementVars, emergencies>>
      BY <1>3, <2>2 DEF setManagerOfSet
    <3> QED
      BY <1>2, <3>1, PolicyNoChange DEF arrangementVars
  <2> QED
    BY <2>1, <2>2
<1>4. ASSUME NEW m \in Modules, NEW e \in Extensions, authorizeExtension(sender, m, e)
      PROVE  Policy!Next
  <2> DEFINE call == <<"authorizeExtension", m, e>>
  <2>1. CASE mutualRegister(sender, call)
    BY <2>1, <1>1
  <2>2. CASE ~mutualRegister(sender, call)
    <3>1. /\ mutualExecute(sender, call)
          /\ isProtected(m)
          /\ protectedModules' =
               [protectedModules EXCEPT ![m] = authorizeIn(@, OneExtension(e))]
          /\ addMissing(OneExtension(e))
          /\ UNCHANGED <<protectedModulesList, emergencies>>
      BY <1>4, <2>2 DEF authorizeExtension
    <3>2. /\ ArrangementInv'
          /\ \A n \in Modules : isProtected(n)' = isProtected(n)
          /\ \A n \in Modules \ {m} : authorized(n)' = authorized(n)
      BY <3>1, AuthorizeExtensionKeeps
    <3>3. authorized(m)' \subseteq Extensions
      BY <3>2 DEF ArrangementInv, ProtectedModule, authorized
    <3>4. \E es \in SUBSET Extensions : Policy!Recalls(m, es)
      BY <3>1, <3>2, <3>3, PolicyRecalls
    <3>5. Policy!BothRearrange
      BY <1>2, <3>1, <3>4 DEF Policy!BothRearrange
    <3> QED
      BY <3>5 DEF Policy!Next
  <2> QED
    BY <2>1, <2>2
<1>5. ASSUME NEW m \in Modules, NEW e \in Extensions,
             revokeExtensionAuthorization(sender, m, e)
      PROVE  Policy!Next
  <2> DEFINE call == <<"revokeExtensionAuthorization", m, e>>
  <2>1. CASE mutualRegister(sender, call)
    BY <2>1, <1>1
  <2>2. CASE ~mutualRegister(sender, call)
    <3>1. /\ mutualExecute(sender, call)
          /\ isProtected(m)
          /\ protectedModules[m].authorizedExtensionsList[e] > 0
          /\ protectedModules' = [protectedModules EXCEPT
               ![m].authorizedExtensions = @ \ {e},
               ![m].authorizedExtensionsList[e] = @ - 1]
          /\ UNCHANGED <<extensions, isExtension, protectedModulesList, emergencies>>
      BY <1>5, <2>2 DEF revokeExtensionAuthorization
    <3>2. /\ ArrangementInv'
          /\ \A n \in Modules : isProtected(n)' = isProtected(n)
          /\ \A n \in Modules \ {m} : authorized(n)' = authorized(n)
      BY <3>1, RevokeKeeps
    <3>3. authorized(m)' \subseteq Extensions
      BY <3>2 DEF ArrangementInv, ProtectedModule, authorized
    <3>4. \E es \in SUBSET Extensions : Policy!Recalls(m, es)
      BY <3>1, <3>2, <3>3, PolicyRecalls
    <3>5. Policy!BothRearrange
      BY <1>2, <3>1, <3>4 DEF Policy!BothRearrange
    <3> QED
      BY <3>5 DEF Policy!Next
  <2> QED
    BY <2>1, <2>2
<1>6. ASSUME NEW old \in Modules, NEW new \in Modules, NEW bag \in ExtensionLists,
             replaceProtectedModule(sender, old, new, bag)
      PROVE  Policy!Next
  <2> DEFINE call == <<"replaceProtectedModule", old, new, bag>>
  <2>1. CASE mutualRegister(sender, call)
    BY <2>1, <1>1
  <2>2. CASE ~mutualRegister(sender, call)
    <3>1. /\ mutualExecute(sender, call)
          /\ isProtected(old)
          /\ protectedModulesList[old] > 0
          /\ ~withoutModule(old)[new].isProtected
          /\ protectedModules' = [withoutModule(old) EXCEPT ![new] = protectedStruct(@, bag)]
          /\ protectedModulesList' =
               [protectedModulesList EXCEPT ![old] = @ - 1, ![new] = @ + 1]
          /\ addMissing(bag)
          /\ UNCHANGED emergencies
      BY <1>6, <2>2 DEF replaceProtectedModule
    <3>2. bag \in Bag /\ Listed(bag) \in SUBSET Extensions
      BY ListsAssumption DEF Bag, Listed
    <3>3. /\ ArrangementInv'
          /\ new = old \/ (~isProtected(new) /\ ~isProtected(old)')
          /\ isProtected(new)'
          /\ authorized(new)' = Listed(bag)
          /\ new # old => authorized(old)' = {}
          /\ \A n \in Modules \ {old, new} : protectedModules'[n] = protectedModules[n]
      BY <3>1, <3>2, ReplaceKeeps
    <3>4. Policy!Replaces(old, new, Listed(bag))
      BY <3>1, <3>2, <3>3, PolicyReplaces
    <3>5. Policy!BothRearrange
      BY <1>2, <3>1, <3>2, <3>4 DEF Policy!BothRearrange
    <3> QED
      BY <3>5 DEF Policy!Next
  <2> QED
    BY <2>1, <2>2
<1>7. ASSUME NEW m \in Modules, NEW bag \in ExtensionLists,
             emergencyReplaceProtectedModule(sender, m, bag)
      PROVE  Policy!Next
  <2> DEFINE call == <<"emergencyReplaceProtectedModule", m, bag>>
  <2>1. CASE mutualRegister(sender, call)
    BY <2>1, <1>1
  <2>2. CASE ~mutualRegister(sender, call)
    <3>1. /\ mutualExecute(sender, call)
          /\ onlyEmergency
          /\ doProtectModule(m, bag)
          /\ emergencies' = emergencies - 1
      BY <1>7, <2>2 DEF emergencyReplaceProtectedModule
    <3>2. Policy!Protects(m, Listed(bag)) /\ Listed(bag) \in SUBSET Extensions
      BY <3>1, PolicyProtects, ListsAssumption DEF Bag
    <3>3. Policy!BothReplaceInEmergency
      BY <1>2, <3>1, <3>2 DEF Policy!BothReplaceInEmergency, Policy!EndsEmergency,
                              onlyEmergency
    <3> QED
      BY <3>3 DEF Policy!Next
  <2> QED
    BY <2>1, <2>2
<1> QED
  BY <1>3, <1>4, <1>5, <1>6, <1>7 DEF MutualNext

(* BaseManagerV2 implements ProtectionPolicy: whatever both parties, the   *)
(* extensions and the modules do, the arrangement changes only the way the *)
(* policy allows.                                                          *)
THEOREM Refinement == Spec => ImplementsPolicy
<1>1. Init => Policy!Init
  BY DEF Init, Policy!Init, isProtected, authorized
<1>2. IInv /\ [Next]_vars => [Policy!Next]_Policy!policyVars
  <2> SUFFICES ASSUME IInv, [Next]_vars
               PROVE  Policy!Next \/ UNCHANGED Policy!policyVars
    OBVIOUS
  <2>1. CASE \E sender \in Parties :
               OperatorNext(sender) \/ MethodologistNext(sender) \/ MutualNext(sender)
    BY <2>1, PolicyOperator, PolicyMethodologist, PolicyMutual
  <2>2. CASE EnvironmentNext
    <3>1. UNCHANGED <<protectedModules, emergencies>> /\ consent' = {}
      BY <2>2 DEF EnvironmentNext, interactManager, transferTokens, unlockSet,
                  receiveTokens, arrangementVars
    <3> QED
      BY <3>1, PolicyNoChange
  <2>3. CASE UNCHANGED vars
    BY <2>3 DEF vars, arrangementVars, Policy!policyVars, isProtected, authorized
  <2> QED
    BY <2>1, <2>2, <2>3 DEF Next
<1> QED
  BY <1>1, <1>2, Invariance, PTL DEF Spec, ImplementsPolicy, Policy!Spec

-----------------------------------------------------------------------------
(* Action properties                                                       *)

(* What a step without the methodologist does: it is a step of the         *)
(* operator, of the environment, or the registration of an approval.       *)
LEMMA WithoutMethodologist ==
  ASSUME [Next]_vars, "methodologist" \notin consent'
  PROVE  \/ \E sender \in Parties : OperatorNext(sender)
         \/ UNCHANGED <<arrangementVars, emergencies>> /\
            \A m \in Modules : moduleStates'[m] = "PENDING" => moduleStates[m] = "PENDING"
<1>1. CASE \E sender \in Parties : MethodologistNext(sender)
  BY <1>1 DEF MethodologistNext, authorizeInitialization, unProtectModule,
              resolveEmergency, setMethodologist, onlyMethodologist, rolesOf, Role
<1>2. ASSUME NEW sender, NEW call, mutualExecute(sender, call)
      PROVE  FALSE
  BY <1>2 DEF mutualExecute, Role
<1>3. ASSUME NEW sender, NEW call, mutualRegister(sender, call)
      PROVE  UNCHANGED <<arrangementVars, emergencies, moduleStates>>
  BY <1>3 DEF mutualRegister, setTokenVars
<1>4. CASE \E sender \in Parties : MutualNext(sender)
  <2> PICK sender \in Parties : MutualNext(sender)
    BY <1>4
  <2>1. ASSUME NEW x \in Managers, setManagerOfSet(sender, x)
        PROVE  mutualRegister(sender, <<"setManager", x>>)
    BY <2>1, <1>2 DEF setManagerOfSet
  <2>2. ASSUME NEW m \in Modules, NEW e \in Extensions, authorizeExtension(sender, m, e)
        PROVE  mutualRegister(sender, <<"authorizeExtension", m, e>>)
    BY <2>2, <1>2 DEF authorizeExtension
  <2>3. ASSUME NEW m \in Modules, NEW e \in Extensions,
               revokeExtensionAuthorization(sender, m, e)
        PROVE  mutualRegister(sender, <<"revokeExtensionAuthorization", m, e>>)
    BY <2>3, <1>2 DEF revokeExtensionAuthorization
  <2>4. ASSUME NEW old \in Modules, NEW new \in Modules, NEW bag \in ExtensionLists,
               replaceProtectedModule(sender, old, new, bag)
        PROVE  mutualRegister(sender, <<"replaceProtectedModule", old, new, bag>>)
    BY <2>4, <1>2 DEF replaceProtectedModule
  <2>5. ASSUME NEW m \in Modules, NEW bag \in ExtensionLists,
               emergencyReplaceProtectedModule(sender, m, bag)
        PROVE  mutualRegister(sender, <<"emergencyReplaceProtectedModule", m, bag>>)
    BY <2>5, <1>2 DEF emergencyReplaceProtectedModule
  <2>6. \E call : mutualRegister(sender, call)
    BY <2>1, <2>2, <2>3, <2>4, <2>5 DEF MutualNext
  <2> QED
    BY <2>6, <1>3
<1>5. CASE EnvironmentNext
  <2>1. UNCHANGED <<arrangementVars, emergencies>>
    BY <1>5 DEF EnvironmentNext, interactManager, transferTokens, unlockSet, receiveTokens
  <2>2. \A m \in Modules : moduleStates'[m] = "PENDING" => moduleStates[m] = "PENDING"
    <3>1. ASSUME NEW m \in Modules, initializeModule(m)
          PROVE  \A n \in Modules : moduleStates'[n] = "PENDING" => moduleStates[n] = "PENDING"
      BY <3>1 DEF initializeModule
    <3>2. (\E m \in Modules : initializeModule(m)) \/ UNCHANGED moduleStates
      BY <1>5 DEF EnvironmentNext, interactManager, transferTokens, unlockSet,
                  receiveTokens, lock, unlock, setTokenVars
    <3> QED
      BY <3>1, <3>2
  <2> QED
    BY <2>1, <2>2
<1>6. CASE UNCHANGED vars
  BY <1>6 DEF vars, setTokenVars
<1> QED
  BY <1>1, <1>4, <1>5, <1>6 DEF Next

(* In an emergency nothing is added and nothing is resolved without the    *)
(* methodologist.                                                          *)
THEOREM EmergencyFreezes == Spec => FrozenInEmergency
<1>1. IInv /\ [Next]_vars =>
        (emergencies > 0 /\ "methodologist" \notin consent' =>
           /\ \A m \in Modules : moduleStates'[m] = "PENDING" => moduleStates[m] = "PENDING"
           /\ isExtension' \subseteq isExtension
           /\ \A m \in Modules : isProtected(m)' => isProtected(m)
           /\ emergencies' >= emergencies)
  <2> SUFFICES ASSUME IInv, [Next]_vars, emergencies > 0, "methodologist" \notin consent'
               PROVE  /\ \A m \in Modules : moduleStates'[m] = "PENDING"
                                               => moduleStates[m] = "PENDING"
                      /\ isExtension' \subseteq isExtension
                      /\ \A m \in Modules : isProtected(m)' => isProtected(m)
                      /\ emergencies' >= emergencies
    OBVIOUS
  <2>1. emergencies \in Nat
    BY DEF IInv, OthersTypeOK
  <2>2. CASE UNCHANGED <<arrangementVars, emergencies>> /\
             \A m \in Modules : moduleStates'[m] = "PENDING" => moduleStates[m] = "PENDING"
    BY <2>1, <2>2 DEF arrangementVars, isProtected
  <2>3. ASSUME NEW sender \in Parties, OperatorNext(sender)
        PROVE  /\ \A m \in Modules : moduleStates'[m] = "PENDING"
                                        => moduleStates[m] = "PENDING"
               /\ isExtension' \subseteq isExtension
               /\ \A m \in Modules : isProtected(m)' => isProtected(m)
               /\ emergencies' >= emergencies
    <3>1. CASE \E m \in Modules : emergencyRemoveProtectedModule(sender, m)
      <4> PICK m \in Modules : emergencyRemoveProtectedModule(sender, m)
        BY <3>1
      <4>1. /\ ~isProtected(m)'
            /\ \A n \in Modules \ {m} : protectedModules'[n] = protectedModules[n]
        BY UnProtectKeeps DEF emergencyRemoveProtectedModule, IInv
      <4>2. /\ isExtension' = isExtension
            /\ emergencies' = emergencies + 1
            /\ moduleStates' = [moduleStates EXCEPT ![m] = "NONE"]
        BY DEF emergencyRemoveProtectedModule, doUnProtectModule, removeModule
      <4> QED
        BY <2>1, <4>1, <4>2 DEF isProtected, IInv, OthersTypeOK, SetTokenTypeOK
    <3>2. CASE \E e \in Extensions : removeExtension(sender, e)
      BY <2>1, <3>2 DEF removeExtension, setTokenVars, isProtected
    <3>3. CASE \E m \in Modules : removeModuleFromSet(sender, m)
      BY <2>1, <3>3 DEF removeModuleFromSet, removeModule, arrangementVars, isProtected,
                        IInv, OthersTypeOK, SetTokenTypeOK
    <3>4. CASE \E p \in Parties : setOperator(sender, p)
      BY <2>1, <3>4 DEF setOperator, setTokenVars, arrangementVars, isProtected
    <3> QED
      BY <2>1, <2>3, <3>1, <3>2, <3>3, <3>4
      DEF OperatorNext, addExtension, addModuleToSet, protectModule, upgradesPermitted
  <2> QED
    BY <2>2, <2>3, WithoutMethodologist
<1> QED
  BY <1>1, Invariance, PTL DEF Spec, FrozenInEmergency

(* Without the methodologist nobody gains or loses access to a module that *)
(* stays protected.                                                        *)
THEOREM ReachStays == Spec => ReachIsAgreed
<1>1. ASSUME IInv, NEW m \in Modules, isProtected(m)
      PROVE  canReach(m) = authorized(m)
  BY <1>1 DEF IInv, ArrangementInv, AuthorizedAreExtensions, canReach,
              senderAuthorizedForModule
<1>2. ASSUME IInv', NEW m \in Modules, isProtected(m)'
      PROVE  canReach(m)' = authorized(m)'
  BY <1>2 DEF IInv, ArrangementInv, AuthorizedAreExtensions, canReach,
              senderAuthorizedForModule
<1>3. ASSUME IInv, [Next]_vars, "methodologist" \notin consent',
             NEW m \in Modules, isProtected(m), isProtected(m)'
      PROVE  authorized(m)' = authorized(m)
  <2>1. CASE UNCHANGED protectedModules
    BY <2>1 DEF authorized
  <2>2. ASSUME NEW sender \in Parties, NEW n \in Modules,
               emergencyRemoveProtectedModule(sender, n)
        PROVE  authorized(m)' = authorized(m)
    <3>1. ~isProtected(n)' /\ \A x \in Modules \ {n} : protectedModules'[x] = protectedModules[x]
      BY <1>3, <2>2, UnProtectKeeps DEF emergencyRemoveProtectedModule, IInv
    <3> QED
      BY <1>3, <3>1 DEF authorized
  <2>3. ASSUME NEW sender \in Parties, NEW n \in Modules, NEW bag \in ExtensionLists,
               protectModule(sender, n, bag)
        PROVE  authorized(m)' = authorized(m)
    <3>1. ~isProtected(n) /\ \A x \in Modules \ {n} : protectedModules'[x] = protectedModules[x]
      BY <1>3, <2>3, ProtectKeeps, ListsAssumption DEF protectModule, IInv, Bag
    <3> QED
      BY <1>3, <3>1 DEF authorized
  <2>4. \/ UNCHANGED protectedModules
        \/ \E sender \in Parties, n \in Modules : emergencyRemoveProtectedModule(sender, n)
        \/ \E sender \in Parties, n \in Modules, bag \in ExtensionLists :
             protectModule(sender, n, bag)
    BY <1>3, WithoutMethodologist
    DEF OperatorNext, addExtension, removeExtension, addModuleToSet, removeModuleFromSet,
        setOperator, arrangementVars
  <2> QED
    BY <2>1, <2>2, <2>3, <2>4
<1>4. IInv /\ IInv' /\ [Next]_vars =>
        \A m \in Modules :
          isProtected(m) /\ isProtected(m)' /\ "methodologist" \notin consent'
            => canReach(m)' = canReach(m)
  BY <1>1, <1>2, <1>3
<1> QED
  BY <1>4, Invariance, PTL DEF Spec, ReachIsAgreed
=============================================================================
