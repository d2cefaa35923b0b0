------------------------ MODULE DelegatedManagerCalls ------------------------
(***************************************************************************)
(* DelegatedManagerFactory with a history variable: the calls of           *)
(* updateOwnerFeeSplit that no execution has used yet.  An execution uses  *)
(* itself, the call of the sender, and a call of the other signer; a call  *)
(* that only registers an approval is unused.                              *)
(***************************************************************************)
EXTENDS DelegatedManagerFactory

VARIABLE unused   \* pairs <<split, party>>, by manager

CallsInit == Init /\ unused = [m \in Managers |-> {}]

recordedUpdate(p, m, split) ==
  LET s == dm[m]
      other == nonCaller(p, s.owner, s.methodologist)
  IN  /\ updateOwnerFeeSplit(p, m, split)
      /\ unused' = [unused EXCEPT ![m] =
           IF runsBody(s.mutualUpgrades, p, s.owner, s.methodologist, split)
             THEN @ \ {<<split, other>>}
             ELSE @ \union {<<split, p>>}]

update ==
  \E p \in Parties, m \in Managers, split \in FeeSplits : updateOwnerFeeSplit(p, m, split)

CallsNext ==
  \/ \E p \in Parties, m \in Managers, split \in FeeSplits : recordedUpdate(p, m, split)
  \/ Next /\ ~ update /\ UNCHANGED unused

CallsSpec == CallsInit /\ [][CallsNext]_<<vars, unused>>

(* No account owns a manager and is its methodologist as well.             *)
rolesApart ==
  \A m \in Managers : dm[m].owner \in Parties => dm[m].owner # dm[m].methodologist

(* updateOwnerFeeSplit: "Owner and Methodologist must each call this       *)
(* function to execute the update."  Not so: a call that was executed      *)
(* while the two were one address stays behind as an approval, and later   *)
(* counts for a second execution.                                          *)
FeeSplitTakesBoth ==
  [][\A m \in Managers :
       dm[m].owner # dm[m].methodologist /\ dm'[m].ownerFeeSplit # dm[m].ownerFeeSplit =>
         <<dm'[m].ownerFeeSplit, nonCaller(sender', dm[m].owner, dm[m].methodologist)>>
           \in unused[m]]_<<vars, unused>>
=============================================================================
