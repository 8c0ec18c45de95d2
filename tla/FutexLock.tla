----------------------------- MODULE FutexLock -----------------------------
(***************************************************************************)
(* FutexLock of core/sync/atomic.vr: the three-state lock word under       *)
(* Mutex, Channel and Broadcast.  One action per atomic instruction or     *)
(* system call: between any two of them every other thread may run.        *)
(***************************************************************************)
EXTENDS Integers, FiniteSets, Futex

CONSTANTS Threads,    \* the threads that share the lock
          NoOwner     \* the owner of a free lock

ASSUME NoOwnerAssumption == NoOwner \notin Threads

FUTEX_UNLOCKED         == 0
FUTEX_LOCKED           == 1
FUTEX_LOCKED_CONTENDED == 2

VARIABLES
  state,     \* the lock word
  parked,    \* threads parked in futex_wait on the word
  pc         \* where each thread is in its call

vars == <<state, parked, pc>>

PC == {"idle", "load", "cas", "swap", "wait", "asleep", "held", "wake"}

TypeOK ==
  /\ state \in {FUTEX_UNLOCKED, FUTEX_LOCKED, FUTEX_LOCKED_CONTENDED}
  /\ parked \in SUBSET Threads
  /\ pc \in [Threads -> PC]

Init ==
  /\ state = FUTEX_UNLOCKED
  /\ parked = {}
  /\ pc = [t \in Threads |-> "idle"]

Goto(t, l) == pc' = [pc EXCEPT ![t] = l]

-----------------------------------------------------------------------------
(* compare_exchange(UNLOCKED, LOCKED): the caller holds the lock, or goes to *)
(* the label it takes for the value the exchange saw.                        *)
CasLock(t, failed) ==
  \/ /\ state = FUTEX_UNLOCKED
     /\ state' = FUTEX_LOCKED
     /\ Goto(t, "held")
  \/ /\ state # FUTEX_UNLOCKED
     /\ UNCHANGED state
     /\ Goto(t, failed)

(* try_lock as a caller uses it: one exchange, no waiting.                   *)
TryLock(t) ==
  /\ pc[t] = "idle"
  /\ CasLock(t, "idle")
  /\ UNCHANGED parked

(* lock(): the fast path is the same exchange; a failure enters lock_slow.   *)
Lock(t) ==
  /\ pc[t] = "idle"
  /\ CasLock(t, "load")
  /\ UNCHANGED parked

(* The label lock_slow continues at for a word that is not UNLOCKED.         *)
SlowLabel(word) == IF word = FUTEX_LOCKED THEN "swap" ELSE "wait"

LoadState(t) ==
  /\ pc[t] = "load"
  /\ Goto(t, IF state = FUTEX_UNLOCKED THEN "cas" ELSE SlowLabel(state))
  /\ UNCHANGED <<state, parked>>

SlowCas(t) ==
  /\ pc[t] = "cas"
  /\ CasLock(t, SlowLabel(state))
  /\ UNCHANGED parked

(* Mutant: any uncontended value is taken for the lock.                      *)
SwapContendedTakesLocked(t) ==
  /\ pc[t] = "swap"
  /\ state' = FUTEX_LOCKED_CONTENDED
  /\ Goto(t, IF state # FUTEX_LOCKED_CONTENDED THEN "held" ELSE "wait")
  /\ UNCHANGED parked

(* swap(LOCKED_CONTENDED): an UNLOCKED word makes the swapper the owner.     *)
SwapContended(t) ==
  /\ pc[t] = "swap"
  /\ state' = FUTEX_LOCKED_CONTENDED
  /\ Goto(t, IF state = FUTEX_UNLOCKED THEN "held" ELSE "wait")
  /\ UNCHANGED parked

FutexWait(t) ==
  /\ pc[t] = "wait"
  /\ parked' = Parked(parked, state, FUTEX_LOCKED_CONTENDED, t)
  /\ Goto(t, "asleep")
  /\ UNCHANGED state

(* futex_wait returned: the loop of lock_slow starts over.                   *)
WaitReturns(t) ==
  /\ pc[t] = "asleep"
  /\ t \notin parked
  /\ Goto(t, "load")
  /\ UNCHANGED <<state, parked>>

(* A signal may end futex_wait early (EINTR).                                *)
Interrupted(t) ==
  /\ t \in parked
  /\ parked' = parked \ {t}
  /\ UNCHANGED <<state, pc>>

Unlock(t) ==
  /\ pc[t] = "held"
  /\ state' = FUTEX_UNLOCKED
  /\ Goto(t, IF state = FUTEX_LOCKED_CONTENDED THEN "wake" ELSE "idle")
  /\ UNCHANGED parked

WakeOne(t) ==
  /\ pc[t] = "wake"
  /\ parked' \in StillParked(parked, 1)
  /\ Goto(t, "idle")
  /\ UNCHANGED state

-----------------------------------------------------------------------------
Step(t) ==
  \/ LoadState(t) \/ SlowCas(t) \/ SwapContended(t) \/ FutexWait(t)
  \/ WaitReturns(t) \/ Unlock(t) \/ WakeOne(t)

Next == \E t \in Threads : TryLock(t) \/ Lock(t) \/ Interrupted(t) \/ Step(t)

Spec == Init /\ [][Next]_vars

-----------------------------------------------------------------------------
Holders == {t \in Threads : pc[t] = "held"}

(* Two threads are never both between a successful lock()/try_lock() and    *)
(* unlock(), whichever of the three exchanges gave them the lock.            *)
MutualExclusion == \A t, u \in Holders : t = u

(* The word tells the truth: is_locked() answers whether somebody owns it.  *)
WordTracksOwner == (state = FUTEX_UNLOCKED) <=> (Holders = {})

(* The owner in the eyes of the callers.                                     *)
Owner == IF Holders = {} THEN NoOwner ELSE CHOOSE t \in Holders : TRUE

Abstract == INSTANCE MutexSpec WITH owner <- Owner

(* Every step of the word, the swaps and the futex is an acquire by a thread *)
(* that finds the lock free, a release by its owner, or invisible.           *)
ImplementsMutex == Abstract!Spec

(* A thread parked in lock() is never left behind: while it is parked some   *)
(* other thread owns the lock or is still inside a call that can wake it.    *)
(* mutex.vr promises that lock() "Blocks until lock is available".           *)
NotStranded ==
  parked # {} => \E t \in Threads : pc[t] # "idle" /\ t \notin parked
=============================================================================
