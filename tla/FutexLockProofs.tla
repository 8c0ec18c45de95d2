-------------------------- MODULE FutexLockProofs --------------------------
(***************************************************************************)
(* FutexLock is a lock for any set of threads, and the Mutex over it hands *)
(* the poison flag on to whoever takes the lock next.                      *)
(***************************************************************************)
EXTENDS Mutex, TLAPS

(* The inductive invariant: the word is UNLOCKED exactly when nobody holds  *)
(* the lock, and the holder is unique.  Neither half is inductive alone:     *)
(* the exchange needs the word to know that nobody holds the lock, unlock    *)
(* needs uniqueness to know that clearing the word leaves no holder.         *)
IInv == TypeOK /\ WordTracksOwner /\ MutualExclusion

LEMMA InitIInv == Init => IInv
BY DEF Init, IInv, TypeOK, WordTracksOwner, MutualExclusion, Holders, PC,
       FUTEX_UNLOCKED, FUTEX_LOCKED, FUTEX_LOCKED_CONTENDED

LEMMA NextIInv == IInv /\ [Next]_vars => IInv'
<1> SUFFICES ASSUME IInv, [Next]_vars PROVE IInv'
  OBVIOUS
<1> USE DEF IInv, TypeOK, WordTracksOwner, MutualExclusion, Holders, PC, Goto,
            FUTEX_UNLOCKED, FUTEX_LOCKED, FUTEX_LOCKED_CONTENDED
<1>1. ASSUME NEW t \in Threads, TryLock(t) PROVE IInv'
  BY <1>1 DEF TryLock, CasLock
<1>2. ASSUME NEW t \in Threads, Lock(t) PROVE IInv'
  BY <1>2 DEF Lock, CasLock
<1>3. ASSUME NEW t \in Threads, LoadState(t) PROVE IInv'
  BY <1>3 DEF LoadState, SlowLabel
<1>4. ASSUME NEW t \in Threads, SlowCas(t) PROVE IInv'
  BY <1>4 DEF SlowCas, CasLock, SlowLabel
<1>5. ASSUME NEW t \in Threads, SwapContended(t) PROVE IInv'
  BY <1>5 DEF SwapContended
<1>6. ASSUME NEW t \in Threads, FutexWait(t) PROVE IInv'
  BY <1>6 DEF FutexWait, Parked
<1>7. ASSUME NEW t \in Threads, WaitReturns(t) PROVE IInv'
  BY <1>7 DEF WaitReturns
<1>8. ASSUME NEW t \in Threads, Interrupted(t) PROVE IInv'
  BY <1>8 DEF Interrupted
<1>9. ASSUME NEW t \in Threads, Unlock(t) PROVE IInv'
  BY <1>9 DEF Unlock
<1>10. ASSUME NEW t \in Threads, WakeOne(t) PROVE IInv'
  BY <1>10 DEF WakeOne, StillParked
<1>11. CASE UNCHANGED vars
  BY <1>11 DEF vars
<1> QED
  BY <1>1, <1>2, <1>3, <1>4, <1>5, <1>6, <1>7, <1>8, <1>9, <1>10, <1>11
  DEF Next, Step

(* The word takes three values only, the swaps and exchanges included.       *)
THEOREM FutexLockTypeOK == Spec => []TypeOK
<1>1. IInv => TypeOK
  BY DEF IInv
<1> QED
  BY InitIInv, NextIInv, <1>1, PTL DEF Spec

(* FutexLock gives mutual exclusion to any number of threads: no path of     *)
(* lock_slow, and no futex wake-up however late, lets two threads in.        *)
THEOREM FutexLockMutualExclusion == Spec => []MutualExclusion
<1>1. IInv => MutualExclusion
  BY DEF IInv
<1> QED
  BY InitIInv, NextIInv, <1>1, PTL DEF Spec

(* is_locked() is exact at every instant: the word is UNLOCKED if and only   *)
(* if no thread is between lock() and unlock().                              *)
THEOREM FutexLockWordTracksOwner == Spec => []WordTracksOwner
<1>1. IInv => WordTracksOwner
  BY DEF IInv
<1> QED
  BY InitIInv, NextIInv, <1>1, PTL DEF Spec

-----------------------------------------------------------------------------
(* The owner is the thread at "held", if there is one.                       *)
LEMMA OwnerIsHolder ==
  ASSUME MutualExclusion
  PROVE  /\ Holders = {} => Owner = NoOwner
         /\ \A t \in Holders : Owner = t
BY DEF Owner, MutualExclusion

LEMMA OwnerIsHolderPrime ==
  ASSUME MutualExclusion'
  PROVE  /\ Holders' = {} => Owner' = NoOwner
         /\ \A t \in Holders' : Owner' = t
BY DEF Owner, MutualExclusion

(* FutexLock implements the abstract lock: seen through Owner, each step is  *)
(* an Acquire of a free lock, a Release by its owner, or no step at all.     *)
THEOREM FutexLockRefinement == Spec => ImplementsMutex
<1>1. Init => Abstract!Init
  BY DEF Init, Abstract!Init, Owner, Holders
<1>2. IInv /\ IInv' /\ [Next]_vars => [Abstract!Next]_Owner
  <2> SUFFICES ASSUME IInv, IInv', [Next]_vars PROVE [Abstract!Next]_Owner
    OBVIOUS
  <2> USE DEF IInv, TypeOK, WordTracksOwner, Goto, PC,
              FUTEX_UNLOCKED, FUTEX_LOCKED, FUTEX_LOCKED_CONTENDED
  <2> DEFINE Same == Holders' = Holders
             Enter(t) == Holders = {} /\ Holders' = {t}
             Leave(t) == Holders = {t} /\ Holders' = {}
  <2>1. ASSUME Same PROVE Owner' = Owner
    BY <2>1 DEF Owner
  <2>2. ASSUME NEW t \in Threads, Enter(t) PROVE Abstract!Acquire(t)
    BY <2>2, OwnerIsHolder, OwnerIsHolderPrime DEF Abstract!Acquire
  <2>3. ASSUME NEW t \in Threads, Leave(t) PROVE Abstract!Release(t)
    BY <2>3, OwnerIsHolder, OwnerIsHolderPrime DEF Abstract!Release
  <2>4. Same \/ \E t \in Threads : Enter(t) \/ Leave(t)
    <3>1. ASSUME NEW t \in Threads, TryLock(t) \/ Lock(t) \/ SlowCas(t)
          PROVE  Same \/ Enter(t)
      BY <3>1 DEF TryLock, Lock, SlowCas, CasLock, SlowLabel, Holders
    <3>2. ASSUME NEW t \in Threads, SwapContended(t) PROVE Same \/ Enter(t)
      BY <3>2 DEF SwapContended, Holders
    <3>3. ASSUME NEW t \in Threads, Unlock(t) PROVE Leave(t)
      BY <3>3 DEF Unlock, Holders, MutualExclusion
    <3>4. ASSUME NEW t \in Threads,
                 LoadState(t) \/ FutexWait(t) \/ WaitReturns(t)
                   \/ Interrupted(t) \/ WakeOne(t)
          PROVE  Same
      BY <3>4 DEF LoadState, SlowLabel, FutexWait, WaitReturns, Interrupted,
                  WakeOne, Holders
    <3>5. CASE UNCHANGED vars
      BY <3>5 DEF vars, Holders
    <3> QED
      BY <3>1, <3>2, <3>3, <3>4, <3>5 DEF Next, Step
  <2> QED
    BY <2>1, <2>2, <2>3, <2>4 DEF Abstract!Next
<1> QED
  BY <1>1, <1>2, InitIInv, NextIInv, PTL DEF Spec, ImplementsMutex, Abstract!Spec

-----------------------------------------------------------------------------
(* A guard is a part of holding the lock, and data that nobody has a guard   *)
(* for is consistent or marked.                                              *)
GuardIInv ==
  /\ IInv
  /\ guard \in [Threads -> {"none", "ok", "poisoned"}]
  /\ \A t \in Threads : guard[t] # "none" => pc[t] = "held"
  /\ (\A t \in Threads : guard[t] = "none") => data = "consistent" \/ poisoned

(* The lock under a Mutex takes the steps of a FutexLock.                    *)
LEMMA MutexStep ==
  ASSUME [MutexNext]_allVars
  PROVE  [Next]_vars
BY DEF MutexNext, LockStep, MakeGuard, Write, Poison, ClearPoison, DropGuard, Next, Step,
       allVars

LEMMA MutexNextIInv ==
  ASSUME GuardIInv, [MutexNext]_allVars
  PROVE  GuardIInv'
<1>1. IInv'
  BY MutexStep, NextIInv DEF GuardIInv
<1> USE <1>1 DEF GuardIInv
<1>2. CASE UNCHANGED allVars
  BY <1>2 DEF allVars, mutexVars, vars
<1>3. ASSUME NEW t \in Threads, LockStep(t) PROVE GuardIInv'
  <2>1. \A u \in Threads : pc[u] = "held" => pc'[u] = "held"
    BY <1>3 DEF LockStep, TryLock, Lock, CasLock, Interrupted, LoadState, SlowCas,
       SwapContended, FutexWait, WaitReturns, WakeOne, Goto, IInv, TypeOK
  <2> QED
    BY <1>3, <2>1 DEF LockStep, mutexVars
<1>4. ASSUME NEW t \in Threads, MakeGuard(t) PROVE GuardIInv'
  BY <1>4 DEF MakeGuard, vars
<1>5. ASSUME NEW t \in Threads, Write(t) \/ Poison(t) \/ ClearPoison(t) PROVE GuardIInv'
  BY <1>5 DEF Write, Poison, ClearPoison, vars
<1>6. ASSUME NEW t \in Threads, DropGuard(t) PROVE GuardIInv'
  BY <1>6 DEF DropGuard, Unlock, Goto, IInv, TypeOK
<1> QED
  BY <1>2, <1>3, <1>4, <1>5, <1>6 DEF MutexNext

(* Whoever lock() or try_lock() gives Ok(guard) finds consistent data, for   *)
(* any number of threads: a flag raised before a guard is dropped is seen by *)
(* the next acquirer on each of the three paths into the lock.               *)
THEOREM MutexOkMeansConsistent == PoisonSpec => OkMeansConsistent
<1>1. MutexInit => GuardIInv
  BY InitIInv DEF MutexInit, GuardIInv
<1>2. GuardIInv /\ [MutexNext]_allVars => GuardIInv'
  BY MutexNextIInv
<1>3. GuardIInv /\ [MutexNext]_allVars =>
        [\A t \in Threads :
           guard[t] = "none" /\ guard'[t] = "ok" => data' = "consistent"]_allVars
  <2> SUFFICES ASSUME GuardIInv, MutexNext,
                      NEW t \in Threads, guard[t] = "none", guard'[t] = "ok"
               PROVE  data' = "consistent"
    OBVIOUS
  <2>1. MakeGuard(t)
    BY DEF MutexNext, LockStep, mutexVars, MakeGuard, Write, Poison, ClearPoison, DropGuard,
       GuardIInv
  <2>2. \A u \in Threads : guard[u] = "none"
    BY <2>1 DEF MakeGuard, GuardIInv, IInv, MutualExclusion, Holders
  <2> QED
    BY <2>1, <2>2 DEF MakeGuard, GuardIInv
<1> QED
  BY <1>1, <1>2, <1>3, PTL DEF PoisonSpec, OkMeansConsistent
=============================================================================
