--------------------------- MODULE ProtectionPolicy ---------------------------
(***************************************************************************)
(* What BaseManagerV2 promises the methodologist (IIP-64), with none of    *)
(* its bookkeeping: which modules are protected, which extensions may call *)
(* each of them, and what each party can change alone.                     *)
(*                                                                         *)
(*   - Alone, the operator protects one more module while there is no      *)
(*     emergency, or drops one protected module and thereby declares an    *)
(*     emergency.                                                          *)
(*   - Every other change has the consent of the methodologist, ends at    *)
(*     most one emergency, and concerns one protected module, or one and   *)
(*     its replacement.                                                    *)
(*   - A module that is not protected has no callers recorded: protecting  *)
(*     it again starts from the extensions named at that time.             *)
(***************************************************************************)
EXTENDS Naturals

CONSTANTS Modules, Extensions

VARIABLES
  protected,     \* the protected modules
  callers,       \* the extensions authorized for each module
  emergencies,   \* emergencies declared and not yet ended
  consent        \* the roles that agreed to the latest executed change

policyVars == <<protected, callers, emergencies, consent>>

Role == {"operator", "methodologist"}

Init ==
  /\ protected = {}
  /\ callers = [m \in Modules |-> {}]
  /\ emergencies = 0
  /\ consent = {}

Protects(m, es) ==
  /\ m \notin protected
  /\ protected' = protected \union {m}
  /\ callers' = [callers EXCEPT ![m] = es]

Drops(m) ==
  /\ m \in protected
  /\ protected' = protected \ {m}
  /\ callers' = [callers EXCEPT ![m] = {}]

Replaces(old, new, es) ==
  /\ old \in protected
  /\ new \notin protected \ {old}
  /\ protected' = (protected \ {old}) \union {new}
  /\ callers' = [callers EXCEPT ![old] = {}, ![new] = es]

Recalls(m, es) ==
  /\ m \in protected
  /\ callers' = [callers EXCEPT ![m] = es]
  /\ UNCHANGED protected

KeepsArrangement == UNCHANGED <<protected, callers>>

EndsEmergency == emergencies > 0 /\ emergencies' = emergencies - 1

-----------------------------------------------------------------------------

OperatorProtects ==
  /\ "operator" \in consent' /\ emergencies = 0
  /\ \E m \in Modules, es \in SUBSET Extensions : Protects(m, es)
  /\ UNCHANGED emergencies

OperatorDeclaresEmergency ==
  /\ "operator" \in consent'
  /\ \E m \in Modules : Drops(m)
  /\ emergencies' = emergencies + 1

MethodologistReleases ==
  /\ "methodologist" \in consent'
  /\ \E m \in Modules : Drops(m)
  /\ UNCHANGED emergencies

MethodologistResolves ==
  /\ "methodologist" \in consent'
  /\ EndsEmergency /\ KeepsArrangement

BothRearrange ==
  /\ consent' = Role
  /\ \E old, new \in Modules, es \in SUBSET Extensions :
       Replaces(old, new, es) \/ Recalls(new, es)
  /\ UNCHANGED emergencies

BothReplaceInEmergency ==
  /\ consent' = Role
  /\ \E m \in Modules, es \in SUBSET Extensions : Protects(m, es)
  /\ EndsEmergency

(* Anything else either party, both, or neither of them does.              *)
NoChange ==
  /\ consent' \in SUBSET Role
  /\ KeepsArrangement /\ UNCHANGED emergencies

Next ==
  \/ OperatorProtects \/ OperatorDeclaresEmergency
  \/ MethodologistReleases \/ MethodologistResolves
  \/ BothRearrange \/ BothReplaceInEmergency \/ NoChange

Spec == Init /\ [][Next]_policyVars
=============================================================================
