------------------------------- MODULE Mutex -------------------------------
(***************************************************************************)
(* Mutex<T> of core/sync/mutex.vr over FutexLock: the data, the advisory   *)
(* poison flag, and the guard that lock() and try_lock() return with Ok or *)
(* with Err(PoisonError).  Callers follow the comment on poison(): whoever *)
(* leaves the data inconsistent calls it before the guard is dropped.      *)
(***************************************************************************)
EXTENDS FutexLock

VARIABLES
  poisoned,   \* Mutex.poisoned
  data,       \* is the protected data consistent?
  guard       \* the guard of each thread: none, Ok or Err(PoisonError)

mutexVars == <<poisoned, data, guard>>
allVars == <<vars, mutexVars>>

MutexTypeOK ==
  /\ TypeOK
  /\ poisoned \in BOOLEAN
  /\ data \in {"consistent", "inconsistent"}
  /\ guard \in [Threads -> {"none", "ok", "poisoned"}]
  /\ \A t \in Threads : guard[t] # "none" => pc[t] = "held"

MutexInit ==
  /\ Init
  /\ poisoned = FALSE
  /\ data = "consistent"
  /\ guard = [t \in Threads |-> "none"]

(* Mutant: one of the two callers of the lock forgets to look at the flag.   *)
MakeGuardUnchecked(t) ==
  /\ pc[t] = "held" /\ guard[t] = "none"
  /\ guard' = [guard EXCEPT ![t] = "ok"]
  /\ UNCHANGED <<vars, poisoned, data>>

(* The guard is built after the lock is taken, from the flag as it is then.  *)
MakeGuard(t) ==
  /\ pc[t] = "held" /\ guard[t] = "none"
  /\ guard' = [guard EXCEPT ![t] = IF poisoned THEN "poisoned" ELSE "ok"]
  /\ UNCHANGED <<vars, poisoned, data>>

(* The holder writes through the guard.                                      *)
Write(t) ==
  /\ guard[t] # "none"
  /\ data' \in {"consistent", "inconsistent"}
  /\ UNCHANGED <<vars, poisoned, guard>>

Poison(t) ==
  /\ guard[t] # "none" /\ data = "inconsistent"
  /\ poisoned' = TRUE
  /\ UNCHANGED <<vars, data, guard>>

ClearPoison(t) ==
  /\ guard[t] # "none" /\ data = "consistent"
  /\ poisoned' = FALSE
  /\ UNCHANGED <<vars, data, guard>>

(* MutexGuard.drop: unlock().                                                *)
DropGuard(t) ==
  /\ guard[t] # "none" /\ (data = "consistent" \/ poisoned)
  /\ Unlock(t)
  /\ guard' = [guard EXCEPT ![t] = "none"]
  /\ UNCHANGED <<poisoned, data>>

LockStep(t) ==
  /\ \/ TryLock(t) \/ Lock(t) \/ Interrupted(t) \/ LoadState(t) \/ SlowCas(t)
     \/ SwapContended(t) \/ FutexWait(t) \/ WaitReturns(t) \/ WakeOne(t)
  /\ UNCHANGED mutexVars

MutexNext == \E t \in Threads :
  \/ LockStep(t) \/ MakeGuard(t) \/ Write(t) \/ Poison(t) \/ ClearPoison(t)
  \/ DropGuard(t)

PoisonSpec == MutexInit /\ [][MutexNext]_allVars

-----------------------------------------------------------------------------
(* Whoever is given Ok(guard) finds consistent data: the flag a predecessor  *)
(* raised is visible through every path into the lock, and nobody writes in  *)
(* between (mutex.vr:118, "so the next acquirer sees the poison flag").      *)
OkMeansConsistent ==
  [][\A t \in Threads :
       guard[t] = "none" /\ guard'[t] = "ok" => data' = "consistent"]_allVars
=============================================================================
