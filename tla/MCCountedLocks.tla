--------------------------- MODULE MCCountedLocks ---------------------------
(***************************************************************************)
(* RwLock and Semaphore for TLC: the two locks that keep a count in one    *)
(* futex word and the number of waiters in another.  They share no state,  *)
(* so a behaviour exercises one of them, which `client` names; the other   *)
(* stays in its initial state.                                             *)
(***************************************************************************)
EXTENDS RwLock, TLC

CONSTANTS SemThreads, Amounts, Initial, MaxAdds, MaxForgets

VARIABLES
  client,
  permits, max_permits, waiters, sem_parked, sem_pc, n, snap, held, adds, forgets

semVars == <<permits, max_permits, waiters, sem_parked, sem_pc, n, snap, held, adds, forgets>>

Sem == INSTANCE Semaphore WITH
  Threads <- SemThreads, parked <- sem_parked, pc <- sem_pc

ASSUME LocksAssumption == Sem!SemaphoreAssumption

LocksInit ==
  /\ client \in {"rwlock", "semaphore"}
  /\ Init /\ Sem!Init

LocksNext ==
  /\ UNCHANGED client
  /\ \/ client = "rwlock" /\ Next /\ UNCHANGED semVars
     \/ client = "semaphore" /\ Sem!Next /\ UNCHANGED vars

LocksSpec == LocksInit /\ [][LocksNext]_<<client, vars, semVars>>

(* Each component treats its threads alike.                                  *)
Perms == Permutations(Threads) \cup Permutations(SemThreads)

-----------------------------------------------------------------------------
(* Semaphore: no permit is created or lost by a race, and waiters counts the *)
(* threads between registration and deregistration.                          *)
PermitsConserved ==
  client = "semaphore" => Sem!TypeOK /\ Sem!PermitsConserved /\ Sem!WaitersExact

(* Semaphore: while nobody has forgotten a permit and there are enough for   *)
(* the largest call that waits, nobody sleeps unless an acquirer is awake or *)
(* a releaser is on its way to its wake.                                     *)
SleepersServed == client = "semaphore" => Sem!SleepersServed

(* Semaphore: as long as nobody forgets a permit, a caller that returns what *)
(* it acquired never meets "Semaphore released more than acquired".          *)
ReleaseAssertHolds == client = "semaphore" => Sem!ReleaseAssertHolds
=============================================================================
