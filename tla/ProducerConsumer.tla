-------------------------- MODULE ProducerConsumer --------------------------
(***************************************************************************)
(* The use of Mutex and Condvar that condvar.vr documents and builds       *)
(* producer_consumer_pair for: producers push under the mutex and call     *)
(* notify_one before or after releasing it; consumers call wait_while (or  *)
(* loop on wait_timeout) until the queue is not empty, then pop.           *)
(***************************************************************************)
EXTENDS Condvar

CONSTANTS Producers, Consumers,   \* disjoint sets of threads
          MaxItems,               \* bound: pushes altogether
          MaxTimeouts             \* bound: calls of wait_timeout altogether

PCAssumption ==
  /\ Producers \cap Consumers = {} /\ Producers \cup Consumers = Threads
  /\ MaxItems \in Nat /\ MaxTimeouts \in Nat

VARIABLES
  items,     \* items in the queue
  pushed,    \* items pushed so far
  limited,   \* calls of wait_timeout so far
  pc         \* where each thread is in its own code

vars == <<cvVars, items, pushed, limited, pc>>

PC == {"idle", "push", "notify", "unlock", "unlock_notify", "notify_out",
       "check"}

TypeOK ==
  /\ CvTypeOK
  /\ items \in Nat /\ pushed \in 0..MaxItems /\ limited \in 0..MaxTimeouts
  /\ pc \in [Threads -> PC]

Init ==
  /\ CvInit
  /\ items = 0 /\ pushed = 0 /\ limited = 0
  /\ pc = [t \in Threads |-> "idle"]

Goto(t, l) == pc' = [pc EXCEPT ![t] = l]

-----------------------------------------------------------------------------
(* The producer.                                                             *)
ProducerLock(p) ==
  /\ pc[p] = "idle" /\ pushed < MaxItems
  /\ Lock(p)
  /\ Goto(p, "push")
  /\ UNCHANGED <<items, pushed, limited>>

(* A push that another producer has not already used the bound for; the      *)
(* notification then comes under the lock or after it.                       *)
Push(p) ==
  /\ pc[p] = "push" /\ cv[p] = "out"
  /\ IF pushed < MaxItems
     THEN /\ items' = items + 1 /\ pushed' = pushed + 1
          /\ Goto(p, "notify") \/ Goto(p, "unlock_notify")
     ELSE Goto(p, "unlock") /\ UNCHANGED <<items, pushed>>
  /\ UNCHANGED <<limited, cvVars>>

Notify(p) ==
  /\ \/ pc[p] = "notify" /\ Goto(p, "unlock")
     \/ pc[p] = "notify_out" /\ Goto(p, "idle")
  /\ NotifyOne(p)
  /\ UNCHANGED <<items, pushed, limited>>

Release(t) ==
  /\ \/ pc[t] = "unlock" /\ Goto(t, "idle")
     \/ pc[t] = "unlock_notify" /\ Goto(t, "notify_out")
  /\ Unlock(t)
  /\ UNCHANGED <<items, pushed, limited>>

-----------------------------------------------------------------------------
(* The consumer.                                                             *)
ConsumerLock(c) ==
  /\ pc[c] = "idle"
  /\ Lock(c)
  /\ Goto(c, "check")
  /\ UNCHANGED <<items, pushed, limited>>

(* wait_while, or a loop on wait_timeout: the predicate is tested with the   *)
(* lock held; a return of the wait leads back to the test.                   *)
WaitWhile(c) ==
  /\ pc[c] = "check" /\ cv[c] = "out" /\ items = 0
  /\ \/ Wait(c, FALSE) /\ UNCHANGED limited
     \/ limited < MaxTimeouts /\ Wait(c, TRUE) /\ limited' = limited + 1
  /\ UNCHANGED <<items, pushed, pc>>

(* A consumer that is told timed_out and still finds nothing may give up.    *)
GiveUp(c) ==
  /\ pc[c] = "check" /\ cv[c] = "out" /\ owner = c /\ items = 0
  /\ TimedOut(c)
  /\ Goto(c, "unlock")
  /\ UNCHANGED <<items, pushed, limited, cvVars>>

Pop(c) ==
  /\ pc[c] = "check" /\ cv[c] = "out" /\ owner = c /\ items > 0
  /\ items' = items - 1
  /\ Goto(c, "unlock")
  /\ UNCHANGED <<pushed, limited, cvVars>>

-----------------------------------------------------------------------------
CvAlone(t) == CvStep(t) /\ UNCHANGED <<items, pushed, limited, pc>>

Next ==
  \/ \E p \in Producers : ProducerLock(p) \/ Push(p) \/ Notify(p)
  \/ \E c \in Consumers : ConsumerLock(c) \/ WaitWhile(c) \/ Pop(c) \/ GiveUp(c)
  \/ \E t \in Threads : Release(t) \/ CvAlone(t)

(* A step of thread t that waits for nobody.                                 *)
Running(t) ==
  \/ t \in Producers /\ (Push(t) \/ Notify(t))
  \/ t \in Consumers /\ (WaitWhile(t) \/ GiveUp(t) \/ Pop(t))
  \/ Release(t)
  \/ CvProgress(t) /\ UNCHANGED <<items, pushed, limited, pc>>

(* Every thread inside a call keeps running, and a consumer back from its    *)
(* sleep that asks for the mutex again and again while it is free gets it.   *)
Fairness ==
  /\ \A t \in Threads : WF_vars(Running(t))
  /\ \A c \in Consumers :
       SF_vars(Relock(c) /\ UNCHANGED <<items, pushed, limited, pc>>)

Spec == Init /\ [][Next]_vars /\ Fairness

-----------------------------------------------------------------------------
(* Consumers that are inside their call and not parked.                      *)
Awake == {c \in Consumers : pc[c] = "check" /\ c \notin parked}

(* Producers whose push has not been announced by a completed notify_one.    *)
Announcing ==
  {p \in Producers : pc[p] \in {"notify", "unlock_notify", "notify_out"}
                       \/ cv[p] = "wake_one"}

(* No wakeup is lost: while somebody sleeps, every queued item has an awake  *)
(* consumer or a notification on its way, whether producers notify under     *)
(* the lock or after it.                                                     *)
ItemsCovered ==
  parked # {} => items <= Cardinality(Awake) + Cardinality(Announcing)

(* A consumer that sleeps while there is an item does not sleep forever      *)
(* unless another one takes the item.                                        *)
ItemsTaken == (items > 0 /\ parked # {}) ~> (items = 0 \/ parked = {})
=============================================================================
