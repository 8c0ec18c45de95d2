----------------------------- MODULE MCProgress -----------------------------
(***************************************************************************)
(* Once, OnceLock and the queue of ProducerConsumer for TLC.  They share   *)
(* no state: a behaviour exercises the one that `client` names, the others *)
(* stay in their initial states.  Fairness is that of the three modules.   *)
(***************************************************************************)
EXTENDS Once

CONSTANTS LockCalls, NoValue,
          Producers, Consumers, NoOwner, MaxItems, MaxTimeouts,
          Watched   \* the thread OnceCallsEnd is stated for

VARIABLES
  client,
  lock_state, lock_pc, lock_op, lock_seen, lock_calls, lock_succ, lock_overruns,
  value, got, abandoned,
  items, pushed, limited, pc_pc,
  owner, waiters, seq, parked, cv, my_seq, timed, ret

wordVars  == <<lock_state, lock_pc, lock_op, lock_seen, lock_calls, lock_succ,
               lock_overruns>>
lockVars  == <<wordVars, value, got, abandoned>>
queueVars == <<items, pushed, limited, pc_pc>>
itemVars  == <<queueVars, owner, waiters, seq, parked, cv, my_seq, timed, ret>>
allVars   == <<client, onceVars, lockVars, itemVars>>

OL == INSTANCE OnceLock WITH
  MaxCalls <- LockCalls, state <- lock_state, pc <- lock_pc, op <- lock_op,
  seen <- lock_seen, calls <- lock_calls, succ <- lock_succ,
  overruns <- lock_overruns

Queue == INSTANCE ProducerConsumer WITH
  Threads <- Producers \cup Consumers, pc <- pc_pc

ASSUME LockAssumption == LockCalls \in Nat /\ OL!OnceLockAssumption
ASSUME WatchedAssumption == Watched \in Threads
ASSUME QueueAssumption ==
  /\ Queue!PCAssumption
  /\ NoOwner \notin Producers \cup Consumers /\ IsFiniteSet(Producers \cup Consumers)

AllInit ==
  /\ client \in {"once", "lock", "queue"}
  /\ Init /\ OL!LockInit /\ Queue!Init

OfOnce(A)  == client = "once" /\ A /\ UNCHANGED <<client, lockVars, itemVars>>
OfLock(A)  == client = "lock" /\ A /\ UNCHANGED <<client, onceVars, itemVars>>
OfQueue(A) == client = "queue" /\ A /\ UNCHANGED <<client, onceVars, lockVars>>

AllNext == OfOnce(Next) \/ OfLock(OL!LockNext) \/ OfQueue(Queue!Next)

AllFairness ==
  /\ \A t \in Threads : WF_allVars(OfOnce(OnceStep(t)) \/ OfLock(OL!LockStep(t)))
  /\ \A t \in Producers \cup Consumers : WF_allVars(OfQueue(Queue!Running(t)))
  /\ \A c \in Consumers : SF_allVars(OfQueue(Queue!Relock(c) /\ UNCHANGED queueVars))

AllSpec == AllInit /\ [][AllNext]_allVars /\ AllFairness

-----------------------------------------------------------------------------
(* Once and OnceLock: every call ends.  A spinner is let go when f panics,   *)
(* fails or has its claim overrun; only a panic in get_or_try_init, which    *)
(* has no guard, leaves the word RUNNING for good.  The threads are          *)
(* interchangeable, so one of them stands for all.                           *)
OnceCallsEnd ==
  (pc[Watched] # "idle" \/ lock_pc[Watched] # "idle") ~>
    (pc[Watched] = "idle" /\ lock_pc[Watched] = "idle") \/ abandoned

(* OnceLock: all references ever handed out are to the stored value, and the *)
(* value a losing set() gives back is not the stored one.                    *)
AnswersAgree == client = "lock" => OL!AnswersAgree

(* OnceLock: COMPLETE is published only over a stored value, and from then   *)
(* on only take(), with no call in progress, removes it.                     *)
ValueIsFinal == OL!ValueIsFinal

(* Condvar: while a consumer sleeps, every queued item has an awake consumer *)
(* or a notification on its way.                                             *)
ItemsCovered == client = "queue" => Queue!TypeOK /\ Queue!ItemsCovered

(* Condvar: a consumer that sleeps while there is an item is woken, or       *)
(* another one takes the item.                                               *)
ItemsTaken == Queue!ItemsTaken
=============================================================================
