------------------------------ MODULE Condvar ------------------------------
(***************************************************************************)
(* Condvar of core/sync/condvar.vr with the Mutex it is used with.  The    *)
(* mutex is the abstract one of MutexSpec, which FutexLock implements.     *)
(* One action per atomic instruction, system call or lock operation; a     *)
(* component that owns a Condvar extends this module, starts a wait with   *)
(* Wait, a notification with NotifyOne or NotifyAll, and lets CvStep run   *)
(* the rest of the call.                                                   *)
(***************************************************************************)
EXTENDS Integers, FiniteSets, Futex

CONSTANTS Threads, NoOwner

ASSUME CondvarAssumption == NoOwner \notin Threads /\ IsFiniteSet(Threads)

VARIABLES
  owner,     \* the owner of the mutex
  waiters,   \* number of waiting threads (diagnostic)
  seq,       \* sequence counter, the futex word
  parked,    \* threads parked in futex_wait on seq
  cv,        \* where each thread is in its call of the condvar
  my_seq,    \* the sequence number a waiter snapshotted
  timed,     \* whether its call is wait_timeout
  ret        \* what its futex_wait returns

cvVars == <<owner, waiters, seq, parked, cv, my_seq, timed, ret>>

CV == {"out", "snap", "drop", "wait", "asleep", "relock", "wake_one", "wake_all"}

RET == {"none", "ok", "EAGAIN", "EINTR", "ETIMEDOUT"}

Lk == INSTANCE MutexSpec

CvTypeOK ==
  /\ owner \in Threads \cup {NoOwner}
  /\ waiters \in Nat /\ seq \in Nat
  /\ parked \subseteq {t \in Threads : cv[t] = "asleep"}
  /\ cv \in [Threads -> CV]
  /\ my_seq \in [Threads -> Nat]
  /\ timed \in [Threads -> BOOLEAN]
  /\ ret \in [Threads -> RET]

CvInit ==
  /\ Lk!Init
  /\ waiters = 0 /\ seq = 0
  /\ parked = {}
  /\ cv = [t \in Threads |-> "out"]
  /\ my_seq = [t \in Threads |-> 0]
  /\ timed = [t \in Threads |-> FALSE]
  /\ ret = [t \in Threads |-> "none"]

CvGoto(t, l) == cv' = [cv EXCEPT ![t] = l]

-----------------------------------------------------------------------------
(* Mutex.lock() and the drop of a MutexGuard, outside condvar calls.         *)
Lock(t) ==
  /\ cv[t] = "out"
  /\ Lk!Acquire(t)
  /\ ret' = [ret EXCEPT ![t] = "none"]
  /\ UNCHANGED <<waiters, seq, parked, cv, my_seq, timed>>

Unlock(t) ==
  /\ cv[t] = "out"
  /\ Lk!Release(t)
  /\ UNCHANGED <<waiters, seq, parked, cv, my_seq, timed, ret>>

(* wait(guard) or wait_timeout(guard, timeout_ns), up to the registration.   *)
Wait(t, withTimeout) ==
  /\ cv[t] = "out" /\ owner = t
  /\ waiters' = waiters + 1
  /\ timed' = [timed EXCEPT ![t] = withTimeout]
  /\ CvGoto(t, "snap")
  /\ UNCHANGED <<owner, seq, parked, my_seq, ret>>

Snapshot(t) ==
  /\ cv[t] = "snap"
  /\ my_seq' = [my_seq EXCEPT ![t] = seq]
  /\ CvGoto(t, "drop")
  /\ UNCHANGED <<owner, waiters, seq, parked, timed, ret>>

DropGuard(t) ==
  /\ cv[t] = "drop"
  /\ Lk!Release(t)
  /\ CvGoto(t, "wait")
  /\ UNCHANGED <<waiters, seq, parked, my_seq, timed, ret>>

(* Mutant: the sequence number is read again once the mutex is released.     *)
FutexWaitLateSnapshot(t) ==
  /\ cv[t] = "wait"
  /\ parked' = Parked(parked, seq, seq, t)
  /\ ret' = [ret EXCEPT ![t] = "ok"]
  /\ CvGoto(t, "asleep")
  /\ UNCHANGED <<owner, waiters, seq, my_seq, timed>>

FutexWait(t) ==
  /\ cv[t] = "wait"
  /\ parked' = Parked(parked, seq, my_seq[t], t)
  /\ ret' = [ret EXCEPT ![t] = IF seq = my_seq[t] THEN "ok" ELSE "EAGAIN"]
  /\ CvGoto(t, "asleep")
  /\ UNCHANGED <<owner, waiters, seq, my_seq, timed>>

(* The kernel ends the sleep for a reason other than a wake.                 *)
SleepEnds(t, errno) ==
  /\ t \in parked
  /\ parked' = parked \ {t}
  /\ ret' = [ret EXCEPT ![t] = errno]
  /\ UNCHANGED <<owner, waiters, seq, cv, my_seq, timed>>

Interrupted(t) == SleepEnds(t, "EINTR")

TimeExpires(t) == timed[t] /\ SleepEnds(t, "ETIMEDOUT")

Deregister(t) ==
  /\ cv[t] = "asleep" /\ t \notin parked
  /\ waiters' = waiters - 1
  /\ my_seq' = [my_seq EXCEPT ![t] = 0]
  /\ CvGoto(t, "relock")
  /\ UNCHANGED <<owner, seq, parked, timed, ret>>

Relock(t) ==
  /\ cv[t] = "relock"
  /\ Lk!Acquire(t)
  /\ CvGoto(t, "out")
  /\ UNCHANGED <<waiters, seq, parked, my_seq, timed, ret>>

(* What wait_timeout reports: any error of futex_wait counts as a timeout.   *)
TimedOut(t) == timed[t] /\ ret[t] \notin {"none", "ok"}

-----------------------------------------------------------------------------
(* notify_one() and notify_all(): bump the counter, then wake.               *)
Bump(t, label) ==
  /\ cv[t] = "out"
  /\ seq' = seq + 1
  /\ CvGoto(t, label)
  /\ UNCHANGED <<owner, waiters, parked, my_seq, timed, ret>>

NotifyOne(t) == Bump(t, "wake_one")

NotifyAll(t) == Bump(t, "wake_all")

WakeOne(t) ==
  /\ cv[t] = "wake_one"
  /\ parked' \in StillParked(parked, 1)
  /\ CvGoto(t, "out")
  /\ UNCHANGED <<owner, waiters, seq, my_seq, timed, ret>>

(* Mutant: notify_all wakes a single thread.                                 *)
WakeAllWakesOne(t) ==
  /\ cv[t] = "wake_all"
  /\ parked' \in StillParked(parked, 1)
  /\ CvGoto(t, "out")
  /\ UNCHANGED <<owner, waiters, seq, my_seq, timed, ret>>

WakeAll(t) ==
  /\ cv[t] = "wake_all"
  /\ parked' = NoneParked
  /\ CvGoto(t, "out")
  /\ UNCHANGED <<owner, waiters, seq, my_seq, timed, ret>>

-----------------------------------------------------------------------------
(* The steps that finish a call already begun.  Only Relock can be disabled  *)
(* again by another thread.                                                  *)
CvProgress(t) == \/ Snapshot(t) \/ DropGuard(t) \/ FutexWait(t)
                 \/ Deregister(t) \/ WakeOne(t) \/ WakeAll(t)

CvStep(t) == CvProgress(t) \/ Relock(t) \/ Interrupted(t) \/ TimeExpires(t)
=============================================================================
