----------------------------- MODULE MutexSpec -----------------------------
(***************************************************************************)
(* What a lock promises its callers: at most one owner, and only the owner *)
(* gives it up.  FutexLock is shown to implement it; Condvar, Barrier,     *)
(* CountDownLatch and Phaser are built on it.                              *)
(***************************************************************************)
CONSTANTS Threads,
          NoOwner     \* stands for "nobody": not a thread

VARIABLE owner

Init == owner = NoOwner

Acquire(t) == owner = NoOwner /\ owner' = t

Release(t) == owner = t /\ owner' = NoOwner

Next == \E t \in Threads : Acquire(t) \/ Release(t)

Spec == Init /\ [][Next]_owner
=============================================================================
