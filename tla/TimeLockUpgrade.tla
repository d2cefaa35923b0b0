--------------------------- MODULE TimeLockUpgrade ---------------------------
(***************************************************************************)
(* The modifier timeLockUpgrade and setTimeLockPeriod of                   *)
(* src/contracts/lib/TimeLockUpgrade.sol.  A call stands for the hash of   *)
(* its data; hashes do not collide.                                        *)
(***************************************************************************)
EXTENDS Naturals, FiniteSets

CONSTANTS
  LockedCalls,
  Periods,
  MaxLocked            \* bound: calls registered and not executed

ASSUME PeriodsAssumption == Periods \subseteq Nat
ASSUME MaxLockedAssumption == MaxLocked \in Nat

VARIABLES
  now,                 \* block.timestamp
  timeLockPeriod,
  timeLockedUpgrades   \* when each call was registered, 0 for never

lockVars == <<timeLockPeriod, timeLockedUpgrades>>

(* The call has not been registered: it is, and its body does not run.     *)
registersTimeLock(call) ==
  /\ timeLockPeriod > 0
  /\ timeLockedUpgrades[call] = 0
  /\ timeLockedUpgrades' = [timeLockedUpgrades EXCEPT ![call] = now]
  /\ Cardinality({c \in LockedCalls : timeLockedUpgrades'[c] # 0}) <= MaxLocked
  /\ UNCHANGED timeLockPeriod

(* Mutant: the registration is not deleted.                                *)
passesTimeLockKeepingIt(call) ==
  \/ timeLockPeriod = 0 /\ UNCHANGED lockVars
  \/ /\ timeLockPeriod > 0
     /\ timeLockedUpgrades[call] # 0
     /\ now >= timeLockedUpgrades[call] + timeLockPeriod
     /\ UNCHANGED lockVars

(* The body runs: the period has elapsed since the registration, which is  *)
(* deleted, or there is no period at all.                                  *)
passesTimeLock(call) ==
  \/ timeLockPeriod = 0 /\ UNCHANGED lockVars
  \/ /\ timeLockPeriod > 0
     /\ timeLockedUpgrades[call] # 0
     /\ now >= timeLockedUpgrades[call] + timeLockPeriod
     /\ timeLockedUpgrades' = [timeLockedUpgrades EXCEPT ![call] = 0]
     /\ UNCHANGED timeLockPeriod

(* By the owner: the period can only be lengthened.                        *)
lengthensTimeLock(period) ==
  /\ period > timeLockPeriod
  /\ timeLockPeriod' = period
  /\ UNCHANGED timeLockedUpgrades
=============================================================================
