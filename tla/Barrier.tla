------------------------------ MODULE Barrier ------------------------------
(***************************************************************************)
(* Barrier of core/sync/barrier.vr: a count and a generation under a       *)
(* mutex, and a condition variable the early threads wait on.              *)
(***************************************************************************)
EXTENDS Condvar

CONSTANTS num_threads,   \* threads required to pass
          MaxRounds      \* bound: calls of wait() per thread

BarrierAssumption ==
  /\ num_threads \in Nat \ {0}      \* the assertion of Barrier.new
  /\ MaxRounds \in Nat

VARIABLES
  count, generation,   \* BarrierState
  my_generation,       \* the generation a thread arrived in
  pc,                  \* where each thread is in wait()
  arrivals,            \* history: times a thread has been counted
  departures,          \* history: times a thread has returned
  leaders              \* history: <<generation, thread>> told is_leader

barrierVars == <<count, generation, my_generation, pc, arrivals, departures, leaders>>
vars == <<cvVars, barrierVars>>

PC == {"idle", "arrive", "notify", "loop", "leave", "lead"}

TypeOK ==
  /\ CvTypeOK
  /\ count \in 0 .. num_threads - 1
  /\ generation \in Nat
  /\ my_generation \in [Threads -> Nat]
  /\ pc \in [Threads -> PC]
  /\ arrivals \in [Threads -> 0..MaxRounds]
  /\ departures \in [Threads -> 0..MaxRounds]
  /\ leaders \subseteq Nat \X Threads

Init ==
  /\ CvInit
  /\ count = 0 /\ generation = 0
  /\ my_generation = [t \in Threads |-> 0]
  /\ pc = [t \in Threads |-> "idle"]
  /\ arrivals = [t \in Threads |-> 0]
  /\ departures = [t \in Threads |-> 0]
  /\ leaders = {}

Goto(t, l) == pc' = [pc EXCEPT ![t] = l]

-----------------------------------------------------------------------------
WaitCall(t) ==
  /\ pc[t] = "idle" /\ arrivals[t] < MaxRounds
  /\ Lock(t)
  /\ Goto(t, "arrive")
  /\ UNCHANGED <<count, generation, my_generation, arrivals, departures, leaders>>

(* The early threads go to the loop, the last one opens the barrier.         *)
Counted(t) ==
  /\ pc[t] = "arrive"
  /\ my_generation' = [my_generation EXCEPT ![t] = generation]
  /\ arrivals' = [arrivals EXCEPT ![t] = @ + 1]
  /\ UNCHANGED <<cvVars, departures, leaders>>

ArriveEarly(t) ==
  /\ count + 1 # num_threads
  /\ count' = count + 1
  /\ Goto(t, "loop")
  /\ Counted(t)
  /\ UNCHANGED generation

ArriveLast(t) ==
  /\ count + 1 = num_threads
  /\ count' = 0
  /\ generation' = generation + 1
  /\ Goto(t, "notify")
  /\ Counted(t)

(* notify_all() while the guard is still held.                               *)
OpenBarrier(t) ==
  /\ pc[t] = "notify"
  /\ NotifyAll(t)
  /\ Goto(t, "lead")
  /\ UNCHANGED <<count, generation, my_generation, arrivals, departures, leaders>>

(* Mutant: one wait is enough, whatever ended it.                            *)
LoopOnce(t) ==
  /\ pc[t] = "loop" /\ cv[t] = "out" /\ owner = t
  /\ Wait(t, FALSE) /\ Goto(t, "leave")
  /\ UNCHANGED <<count, generation, my_generation, arrivals, departures, leaders>>

(* while guard.generation == my_generation: wait, else leave.                *)
Loop(t) ==
  /\ pc[t] = "loop" /\ cv[t] = "out" /\ owner = t
  /\ IF generation = my_generation[t]
     THEN Wait(t, FALSE) /\ UNCHANGED pc
     ELSE Goto(t, "leave") /\ UNCHANGED cvVars
  /\ UNCHANGED <<count, generation, my_generation, arrivals, departures, leaders>>

(* Mutant: the leader is told from the others by the generation it finds.    *)
LeaveByGeneration(t) ==
  /\ pc[t] \in {"leave", "lead"}
  /\ Unlock(t)
  /\ leaders' = IF generation # my_generation[t]
                THEN leaders \cup {<<my_generation[t], t>>} ELSE leaders
  /\ departures' = [departures EXCEPT ![t] = @ + 1]
  /\ Goto(t, "idle")
  /\ UNCHANGED <<count, generation, my_generation, arrivals>>

(* The guard is dropped and the result returned.                             *)
Leave(t) ==
  /\ pc[t] \in {"leave", "lead"}
  /\ Unlock(t)
  /\ leaders' = IF pc[t] = "lead" THEN leaders \cup {<<my_generation[t], t>>} ELSE leaders
  /\ departures' = [departures EXCEPT ![t] = @ + 1]
  /\ Goto(t, "idle")
  /\ UNCHANGED <<count, generation, my_generation, arrivals>>

-----------------------------------------------------------------------------
CvAlone(t) == CvStep(t) /\ UNCHANGED barrierVars

Running(t) == \/ ArriveEarly(t) \/ ArriveLast(t) \/ OpenBarrier(t)
              \/ Loop(t) \/ Leave(t)

Next == \E t \in Threads : WaitCall(t) \/ Running(t) \/ CvAlone(t)

Spec == Init /\ [][Next]_vars

-----------------------------------------------------------------------------
(* A barrier of all the threads keeps them in step: nobody returns from its  *)
(* k-th wait() before everybody has arrived at theirs, spurious wakeups and  *)
(* re-entry of fast threads included.                                        *)
NobodyLeavesEarly ==
  Cardinality(Threads) = num_threads =>
    \A t, u \in Threads : departures[t] <= arrivals[u]

(* "Exactly one thread per barrier synchronization is designated as the      *)
(* leader" (barrier.vr:95): no two threads are told so of one generation,    *)
(* and by the time anybody else leaves it somebody has been.                 *)
OneLeader ==
  /\ \A a, b \in leaders : a[1] = b[1] => a = b
  /\ \A t \in Threads :
       pc[t] = "leave" => \E l \in leaders : l[1] = my_generation[t]

(* No wakeup of the condition variable is lost: a thread that sleeps on      *)
(* although its generation is over has a notify_all() coming, whichever      *)
(* thread it is, and whatever arrived or slept between its test of the       *)
(* generation and its sleep.  What follows the wakeup, the return of lock(), *)
(* is the mutex's to give and is not promised here.                          *)
SleepersWoken ==
  \A t \in parked :
    \/ my_generation[t] = generation
    \/ \E u \in Threads : pc[u] = "notify" \/ cv[u] = "wake_all"
=============================================================================
