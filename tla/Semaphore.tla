----------------------------- MODULE Semaphore -----------------------------
(***************************************************************************)
(* Semaphore of core/sync/semaphore.vr.  One action per atomic instruction *)
(* or system call.  acquire() and release() are acquire_many(1) and        *)
(* release_many(1): the two texts differ only for a negative count, which  *)
(* TypeOK excludes.                                                        *)
(***************************************************************************)
EXTENDS Integers, FiniteSets, Futex

CONSTANTS Threads,
          Amounts,      \* the n of the calls with an amount
          Initial,      \* Semaphore.new(Initial)
          MaxAdds,      \* bound: calls of add_permits
          MaxForgets    \* bound: calls of forget_permit

SemaphoreAssumption ==
  /\ IsFiniteSet(Threads)
  /\ Amounts \subseteq Nat \ {0}
  /\ Initial \in Nat
  /\ MaxAdds \in Nat
  /\ MaxForgets \in Nat

VARIABLES
  permits, max_permits, waiters,   \* the three words
  parked,     \* threads parked in futex_wait on permits
  pc,         \* where each thread is in its call
  n,          \* the amount of the thread's call
  snap,       \* the value of permits the thread loaded last
  held,       \* permits each caller owns
  adds,       \* calls of add_permits so far
  forgets     \* calls of forget_permit so far

vars == <<permits, max_permits, waiters, parked, pc, n, snap, held, adds, forgets>>

PC == {"idle", "load", "cas", "register", "recheck", "wait", "asleep",
       "try_cas", "assert", "panicked", "waiters", "wake", "add"}

(* The sum of f over the threads, as the number of pairs of a thread and     *)
(* one of the units it accounts for.                                         *)
Units(f) == UNION {{t} \X (1 .. f[t]) : t \in Threads}
Total(f) == Cardinality(Units(f))

(* Permits that add_permits has announced in max_permits and not yet added. *)
Announced == Total([t \in Threads |-> IF pc[t] = "add" THEN n[t] ELSE 0])
Held      == Total(held)

TypeOK ==
  /\ permits \in Nat /\ max_permits \in Nat /\ waiters \in Nat
  /\ parked \subseteq {t \in Threads : pc[t] = "asleep"}
  /\ pc \in [Threads -> PC]
  /\ n \in [Threads -> Amounts \cup {1}]
  /\ snap \in [Threads -> Nat]
  /\ held \in [Threads -> Nat]
  /\ adds \in 0..MaxAdds /\ forgets \in 0..MaxForgets

Init ==
  /\ permits = Initial /\ max_permits = Initial /\ waiters = 0
  /\ parked = {}
  /\ pc = [t \in Threads |-> "idle"]
  /\ n = [t \in Threads |-> 1]
  /\ snap = [t \in Threads |-> 0]
  /\ held = [t \in Threads |-> 0]
  /\ adds = 0 /\ forgets = 0

Goto(t, l) == pc' = [pc EXCEPT ![t] = l]

(* Back to the caller: the locals of the call are gone.                      *)
Return(t) ==
  /\ Goto(t, "idle")
  /\ n' = [n EXCEPT ![t] = 1]
  /\ snap' = [snap EXCEPT ![t] = 0]

-----------------------------------------------------------------------------
(* acquire(), acquire_many(n), try_acquire() and try_acquire_many(n).        *)

(* acquire() asks for one permit without the assertion of acquire_many(n).    *)
AcquireMany(t) ==
  /\ pc[t] = "idle"
  /\ \E k \in Amounts :
       /\ k = 1 \/ k <= max_permits
       /\ n' = [n EXCEPT ![t] = k]
  /\ Goto(t, "load")
  /\ UNCHANGED <<permits, max_permits, waiters, parked, snap, held, adds, forgets>>

LoadPermits(t) ==
  /\ pc[t] = "load"
  /\ snap' = [snap EXCEPT ![t] = permits]
  /\ Goto(t, IF permits >= n[t] THEN "cas" ELSE "register")
  /\ UNCHANGED <<permits, max_permits, waiters, parked, n, held, adds, forgets>>

TryAcquireMany(t) ==
  /\ pc[t] = "idle"
  /\ \E k \in Amounts :
       IF permits >= k
       THEN /\ n' = [n EXCEPT ![t] = k]
            /\ snap' = [snap EXCEPT ![t] = permits]
            /\ Goto(t, "try_cas")
       ELSE UNCHANGED <<n, snap, pc>>
  /\ UNCHANGED <<permits, max_permits, waiters, parked, held, adds, forgets>>

(* Mutant: a plain store of the decremented value.                           *)
TakeStores(t) ==
  /\ permits' = snap[t] - n[t]
  /\ held' = [held EXCEPT ![t] = @ + n[t]]
  /\ Return(t)

(* A successful compare_exchange(snap, snap - n).                            *)
Take(t) ==
  /\ permits = snap[t]
  /\ permits' = snap[t] - n[t]
  /\ held' = [held EXCEPT ![t] = @ + n[t]]
  /\ Return(t)

AcquireCas(t) ==
  /\ pc[t] = "cas"
  /\ \/ Take(t)
     \/ /\ permits # snap[t]
        /\ Goto(t, "load")
        /\ UNCHANGED <<permits, held, n, snap>>
  /\ UNCHANGED <<max_permits, waiters, parked, adds, forgets>>

TryAcquireCas(t) ==
  /\ pc[t] = "try_cas"
  /\ \/ Take(t)
     \/ permits # snap[t] /\ Return(t) /\ UNCHANGED <<permits, held>>
  /\ UNCHANGED <<max_permits, waiters, parked, adds, forgets>>

Register(t) ==
  /\ pc[t] = "register"
  /\ waiters' = waiters + 1
  /\ Goto(t, "recheck")
  /\ UNCHANGED <<permits, max_permits, parked, n, snap, held, adds, forgets>>

(* The second load, after the registration; "asleep" without being parked    *)
(* leads straight to the deregistration.                                     *)
Recheck(t) ==
  /\ pc[t] = "recheck"
  /\ snap' = [snap EXCEPT ![t] = permits]
  /\ Goto(t, IF permits < n[t] THEN "wait" ELSE "asleep")
  /\ UNCHANGED <<permits, max_permits, waiters, parked, n, held, adds, forgets>>

FutexWait(t) ==
  /\ pc[t] = "wait"
  /\ parked' = Parked(parked, permits, snap[t], t)
  /\ Goto(t, "asleep")
  /\ UNCHANGED <<permits, max_permits, waiters, n, snap, held, adds, forgets>>

(* A signal may end futex_wait early (EINTR).                                *)
Interrupted(t) ==
  /\ t \in parked
  /\ parked' = parked \ {t}
  /\ UNCHANGED <<permits, max_permits, waiters, pc, n, snap, held, adds, forgets>>

Deregister(t) ==
  /\ pc[t] = "asleep" /\ t \notin parked
  /\ waiters' = waiters - 1
  /\ Goto(t, "load")
  /\ UNCHANGED <<permits, max_permits, parked, n, snap, held, adds, forgets>>

-----------------------------------------------------------------------------
(* release(), release_many(n), add_permits(n) and forget_permit().           *)

(* The caller gives back permits it owns.  snap keeps old + n for the        *)
(* assertion.                                                                *)
ReleaseMany(t) ==
  /\ pc[t] = "idle"
  /\ \E k \in Amounts :
       /\ k <= held[t]
       /\ permits' = permits + k
       /\ held' = [held EXCEPT ![t] = @ - k]
       /\ n' = [n EXCEPT ![t] = k]
       /\ snap' = [snap EXCEPT ![t] = permits + k]
  /\ Goto(t, "assert")
  /\ UNCHANGED <<max_permits, waiters, parked, adds, forgets>>

AssertNotOverReleased(t) ==
  /\ pc[t] = "assert"
  /\ Goto(t, IF snap[t] <= max_permits THEN "waiters" ELSE "panicked")
  /\ UNCHANGED <<permits, max_permits, waiters, parked, n, snap, held, adds, forgets>>

(* Mutant: the capacity is not raised.                                       *)
AddPermitsKeepsMax(t) ==
  /\ pc[t] = "idle"
  /\ adds < MaxAdds /\ adds' = adds + 1
  /\ \E k \in Amounts : n' = [n EXCEPT ![t] = k]
  /\ Goto(t, "add")
  /\ UNCHANGED <<permits, max_permits, waiters, parked, snap, held, forgets>>

AddPermits(t) ==
  /\ pc[t] = "idle"
  /\ adds < MaxAdds /\ adds' = adds + 1
  /\ \E k \in Amounts :
       /\ max_permits' = max_permits + k
       /\ n' = [n EXCEPT ![t] = k]
  /\ Goto(t, "add")
  /\ UNCHANGED <<permits, waiters, parked, snap, held, forgets>>

AddToPermits(t) ==
  /\ pc[t] = "add"
  /\ permits' = permits + n[t]
  /\ Goto(t, "waiters")
  /\ UNCHANGED <<max_permits, waiters, parked, n, snap, held, adds, forgets>>

(* Mutant: off by one, a single waiter is not worth a wake.                  *)
LoadWaitersMissesOne(t) ==
  /\ pc[t] = "waiters"
  /\ IF waiters > 1
     THEN /\ snap' = [snap EXCEPT ![t] = IF n[t] < waiters THEN n[t] ELSE waiters]
          /\ Goto(t, "wake")
          /\ UNCHANGED n
     ELSE Return(t)
  /\ UNCHANGED <<permits, max_permits, waiters, parked, held, adds, forgets>>

(* snap is now to_wake.                                                      *)
LoadWaiters(t) ==
  /\ pc[t] = "waiters"
  /\ IF waiters > 0
     THEN /\ snap' = [snap EXCEPT ![t] = IF n[t] < waiters THEN n[t] ELSE waiters]
          /\ Goto(t, "wake")
          /\ UNCHANGED n
     ELSE Return(t)
  /\ UNCHANGED <<permits, max_permits, waiters, parked, held, adds, forgets>>

Wake(t) ==
  /\ pc[t] = "wake"
  /\ parked' \in StillParked(parked, snap[t])
  /\ Return(t)
  /\ UNCHANGED <<permits, max_permits, waiters, held, adds, forgets>>

(* The caller keeps a permit for good: it must own one (semaphore.vr:210).   *)
ForgetPermit(t) ==
  /\ pc[t] = "idle" /\ held[t] > 0
  /\ forgets < MaxForgets /\ forgets' = forgets + 1
  /\ max_permits' = max_permits - 1
  /\ held' = [held EXCEPT ![t] = @ - 1]
  /\ UNCHANGED <<permits, waiters, parked, pc, n, snap, adds>>

-----------------------------------------------------------------------------
Acquiring(t) == \/ AcquireMany(t) \/ LoadPermits(t) \/ AcquireCas(t)
                \/ TryAcquireMany(t) \/ TryAcquireCas(t)
                \/ Register(t) \/ Recheck(t) \/ FutexWait(t)
                \/ Interrupted(t) \/ Deregister(t)

Releasing(t) == \/ ReleaseMany(t) \/ AssertNotOverReleased(t)
                \/ AddPermits(t) \/ AddToPermits(t)
                \/ LoadWaiters(t) \/ Wake(t) \/ ForgetPermit(t)

Next == \E t \in Threads : Acquiring(t) \/ Releasing(t)

Spec == Init /\ [][Next]_vars

-----------------------------------------------------------------------------
(* No permit is created or lost by a race: what is available, what callers   *)
(* own and what add_permits is about to add make up the capacity.            *)
PermitsConserved == permits + Held + Announced = max_permits

(* waiters counts the threads between registration and deregistration.  A    *)
(* releaser that reads 0 skips the wake, so an undercount loses wakeups.     *)
WaitersExact ==
  waiters = Cardinality({t \in Threads : pc[t] \in {"recheck", "wait", "asleep"}})

(* Threads inside acquire() or acquire_many(), asleep or awake.              *)
Acquirers ==
  {t \in Threads : pc[t] \in {"load", "cas", "register", "recheck", "wait", "asleep"}}

(* Sleepers are served: while nobody has forgotten a permit and there are    *)
(* enough for the largest call that waits, nobody sleeps unless an acquirer  *)
(* is awake, which can take them, or a releaser is on its way to its wake;   *)
(* a caller that panicked or is back does not count.  acquire() is "blocking *)
(* via futex until available" (semaphore.vr:77).  After a forget_permit the  *)
(* assertion of a release may fail before its wake, and with fewer permits   *)
(* than the largest call asks for the wake may go to that call: then a       *)
(* sleeper may be left with its permit available.                            *)
SleepersServed ==
  (forgets = 0 /\ parked # {} /\ \A t \in Acquirers : n[t] <= permits) =>
     \E t \in Threads : \/ t \in Acquirers \ parked
                       \/ pc[t] \in {"assert", "waiters", "wake"}

(* As long as nobody forgets a permit, a caller that returns only what it    *)
(* acquired never meets the assertion "Semaphore released more than          *)
(* acquired" (semaphore.vr:164, :175), which loads the maximum after it has  *)
(* added the permits.                                                        *)
ReleaseAssertHolds == forgets = 0 => \A t \in Threads : pc[t] # "panicked"
=============================================================================
