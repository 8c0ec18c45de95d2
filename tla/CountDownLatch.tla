--------------------------- MODULE CountDownLatch ---------------------------
(***************************************************************************)
(* CountDownLatch of core/sync/barrier.vr.  The count is an atomic that    *)
(* count_down() changes without the mutex the waiters hold while they test *)
(* it.                                                                     *)
(***************************************************************************)
EXTENDS Condvar

CONSTANTS Initial,    \* CountDownLatch.new(Initial)
          MaxDowns,   \* bound: calls of count_down()
          Waits       \* which of "forever", "timeout", "poll" are called

ASSUME LatchAssumption == Initial \in Nat /\ MaxDowns \in Nat

VARIABLES
  count,      \* the atomic
  downs,      \* calls of count_down() so far
  pc,         \* where each thread is in its call
  call,       \* which wait a thread is in
  expired,    \* whether the deadline of its call has passed
  result      \* what its last wait returned

latchVars == <<count, downs, pc, call, expired, result>>
vars == <<cvVars, latchVars>>

PC == {"idle", "notify", "fast", "poll", "lock", "test", "deadline", "return"}

TypeOK ==
  /\ CvTypeOK
  /\ count \in Int /\ downs \in 0..MaxDowns
  /\ pc \in [Threads -> PC]
  /\ call \in [Threads -> {"none", "forever", "timeout", "poll"}]
  /\ expired \in [Threads -> BOOLEAN]
  /\ result \in [Threads -> {"none", "zero", "timed_out"}]

Init ==
  /\ CvInit
  /\ count = Initial /\ downs = 0
  /\ pc = [t \in Threads |-> "idle"]
  /\ call = [t \in Threads |-> "none"]
  /\ expired = [t \in Threads |-> FALSE]
  /\ result = [t \in Threads |-> "none"]

Goto(t, l) == pc' = [pc EXCEPT ![t] = l]

Answer(t, r) == result' = [result EXCEPT ![t] = r]

-----------------------------------------------------------------------------
(* count_down(): the thread that takes the count from 1 to 0 notifies.       *)
CountDown(t) ==
  /\ pc[t] = "idle" /\ cv[t] = "out" /\ downs < MaxDowns
  /\ count' = count - 1 /\ downs' = downs + 1
  /\ Goto(t, IF count = 1 THEN "notify" ELSE "idle")
  /\ UNCHANGED <<cvVars, call, expired, result>>

NotifyZero(t) ==
  /\ pc[t] = "notify"
  /\ NotifyAll(t)
  /\ Goto(t, "idle")
  /\ UNCHANGED <<count, downs, call, expired, result>>

-----------------------------------------------------------------------------
(* wait_for_zero() is a call "forever", wait_for_zero_timeout(ns) a call     *)
(* "timeout", or "poll" when ns is not positive.                             *)
WaitCall(t) ==
  /\ pc[t] = "idle" /\ cv[t] = "out" /\ result[t] = "none"
  /\ \E w \in Waits : call' = [call EXCEPT ![t] = w]
  /\ Goto(t, "fast")
  /\ UNCHANGED <<cvVars, count, downs, expired, result>>

FastPath(t) ==
  /\ pc[t] = "fast"
  /\ IF count = 0 THEN Goto(t, "idle") /\ Answer(t, "zero")
                  ELSE /\ Goto(t, IF call[t] = "poll" THEN "poll" ELSE "lock")
                       /\ UNCHANGED result
  /\ UNCHANGED <<cvVars, count, downs, call, expired>>

Poll(t) ==
  /\ pc[t] = "poll"
  /\ Answer(t, IF count = 0 THEN "zero" ELSE "timed_out")
  /\ Goto(t, "idle")
  /\ UNCHANGED <<cvVars, count, downs, call, expired>>

LockLatch(t) ==
  /\ pc[t] = "lock"
  /\ Lock(t)
  /\ Goto(t, "test")
  /\ UNCHANGED <<count, downs, call, expired, result>>

(* Mutant: any return of the condition variable ends the wait.               *)
TestCountOnce(t) ==
  /\ pc[t] = "test" /\ cv[t] = "out" /\ owner = t
  /\ IF count > 0 /\ ret[t] = "none"
     THEN Goto(t, "deadline") /\ UNCHANGED result
     ELSE Goto(t, "return") /\ Answer(t, "zero")
  /\ UNCHANGED <<cvVars, count, downs, call, expired>>

(* The test at the loop head, made with the mutex held.                      *)
TestCount(t) ==
  /\ pc[t] = "test" /\ cv[t] = "out" /\ owner = t
  /\ IF count > 0
     THEN Goto(t, "deadline") /\ UNCHANGED result
     ELSE Goto(t, "return") /\ Answer(t, "zero")
  /\ UNCHANGED <<cvVars, count, downs, call, expired>>

(* Mutant: the loop waits again without looking at the clock.                *)
WaitMoreForever(t) ==
  /\ pc[t] = "deadline"
  /\ Wait(t, call[t] = "timeout")
  /\ Goto(t, "test")
  /\ UNCHANGED <<count, downs, call, expired, result>>

(* Condvar.wait, or wait_timeout with what remains until the deadline.       *)
WaitMore(t) ==
  /\ pc[t] = "deadline"
  /\ IF expired[t]
     THEN Goto(t, "return") /\ Answer(t, "timed_out") /\ UNCHANGED cvVars
     ELSE /\ Wait(t, call[t] = "timeout")
          /\ Goto(t, "test") /\ UNCHANGED result
  /\ UNCHANGED <<count, downs, call, expired>>

Return(t) ==
  /\ pc[t] = "return"
  /\ Unlock(t)
  /\ Goto(t, "idle")
  /\ UNCHANGED <<count, downs, call, expired, result>>

(* The clock: the deadline of a timed call passes at some moment of it, and  *)
(* futex_wait then ends.                                                     *)
DeadlinePasses(t) ==
  /\ call[t] = "timeout" /\ pc[t] # "idle" /\ ~expired[t]
  /\ expired' = [expired EXCEPT ![t] = TRUE]
  /\ UNCHANGED <<cvVars, count, downs, pc, call, result>>

SleepTimesOut(t) ==
  /\ expired[t]
  /\ TimeExpires(t)
  /\ UNCHANGED latchVars

-----------------------------------------------------------------------------
Running(t) == \/ NotifyZero(t) \/ FastPath(t) \/ Poll(t)
              \/ TestCount(t) \/ WaitMore(t) \/ Return(t)

CvAlone(t) ==
  /\ CvProgress(t) \/ Relock(t) \/ Interrupted(t)
  /\ UNCHANGED latchVars

Next == \E t \in Threads :
          \/ CountDown(t) \/ WaitCall(t) \/ LockLatch(t) \/ Running(t)
          \/ DeadlinePasses(t) \/ SleepTimesOut(t) \/ CvAlone(t)

(* Threads keep running inside their calls, time passes, and lock() returns  *)
(* to a thread that finds the mutex free again and again.  Nobody has to     *)
(* call count_down().                                                        *)
Fairness ==
  \A t \in Threads :
    /\ WF_vars(Running(t))
    /\ WF_vars(DeadlinePasses(t))
    /\ WF_vars(SleepTimesOut(t))
    /\ WF_vars(CvProgress(t) /\ UNCHANGED latchVars)
    /\ SF_vars(LockLatch(t))
    /\ SF_vars(Relock(t) /\ UNCHANGED latchVars)

Spec == Init /\ [][Next]_vars /\ Fairness

-----------------------------------------------------------------------------
(* Nobody is let through before the count has reached zero, and a timed call *)
(* gives up only after its deadline: spurious and interrupted wakeups decide *)
(* nothing.                                                                  *)
AnswersTrue ==
  \A t \in Threads :
    /\ result[t] = "zero" => count <= 0
    /\ (result[t] = "timed_out" /\ call[t] = "timeout") => expired[t]

(* A timed wait returns even when no notification ever reaches it.           *)
TimedWaitReturns ==
  \A t \in Threads :
    (call[t] = "timeout" /\ pc[t] = "lock") ~> result[t] # "none"

(* "If the count reaches zero, all waiting threads are released"             *)
(* (barrier.vr:529): once the count is zero, whoever sleeps without a        *)
(* timeout still has the notification ahead of it.                           *)
ReleasedAtZero ==
  (count <= 0 /\ \E t \in parked : ~timed[t]) =>
     \E t \in Threads : pc[t] = "notify" \/ cv[t] = "wake_all"
=============================================================================
