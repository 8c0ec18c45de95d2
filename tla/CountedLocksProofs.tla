------------------------- MODULE CountedLocksProofs -------------------------
(***************************************************************************)
(* RwLock keeps writers apart from everybody, its two counters are exact,  *)
(* readers yield to a waiting writer and writers are not stranded by one   *)
(* another, for any finite set of threads.  The Semaphore conserves its    *)
(* permits, its assertion holds for callers that return what they took,    *)
(* and no sleeper is forgotten, for any finite set of threads, any amounts *)
(* and any number of calls.                                                *)
(***************************************************************************)
EXTENDS MCCountedLocks, FiniteSetTheorems, TLAPS

-----------------------------------------------------------------------------
(* RwLock                                                                    *)

Registered == {t \in Threads : pc[t] \in InWrite \cup {"w_dereg"}}

(* The counters need the exclusion and the exclusion needs the counter of    *)
(* readers: an exchange that finds 0 must mean that nobody holds the lock.   *)
(* PassedGate keeps the value a reader took through the gate: a reader whose *)
(* exchange succeeds found a count, not WRITE_LOCKED.                        *)
Shape ==
  /\ state \in Int
  /\ pc \in [Threads -> PC]
  /\ seen \in [Threads -> Int]

PassedGate == \A t \in Threads : pc[t] \in {"r_cas", "try_cas"} => seen[t] >= 0

IInv == Shape /\ PassedGate /\ StateCounts /\ Exclusion /\ WaitingExact

-----------------------------------------------------------------------------
(* What a step can do to the holders and to the word.                        *)
Same == Readers' = Readers /\ Writers' = Writers /\ state' = state
ReaderIn(t) ==
  /\ t \notin Readers /\ Readers' = Readers \cup {t} /\ Writers' = Writers
  /\ state >= 0 /\ state' = state + 1
ReaderOut(t) ==
  /\ t \in Readers /\ Readers' = Readers \ {t} /\ Writers' = Writers
  /\ state' = state - 1
WriterIn(t) ==
  /\ Readers' = Readers /\ Writers' = Writers \cup {t}
  /\ state = 0 /\ state' = WRITE_LOCKED
WriterOut(t) ==
  /\ Readers' = Readers /\ t \in Writers /\ Writers' = Writers \ {t}
  /\ state' = 0

LEMMA HoldersFinite ==
  /\ IsFiniteSet(Readers) /\ IsFiniteSet(Writers) /\ IsFiniteSet(Registered)
  /\ Cardinality(Readers) \in Nat /\ Cardinality(Registered) \in Nat
<1>1. Readers \subseteq Threads /\ Writers \subseteq Threads /\ Registered \subseteq Threads
  BY DEF Readers, Writers, Registered
<1> QED
  BY <1>1, ThreadsAssumption, FS_Subset, FS_CardinalityType

(* The five effects keep the word exact and the writer alone.                *)
LEMMA EffectsKeepExclusion ==
  ASSUME StateCounts, Exclusion, NEW t \in Threads,
         Same \/ ReaderIn(t) \/ ReaderOut(t) \/ WriterIn(t) \/ WriterOut(t)
  PROVE  StateCounts' /\ Exclusion'
<1> USE DEF WRITE_LOCKED
<1>1. CASE Same
  BY <1>1 DEF Same, StateCounts, Exclusion
<1>2. CASE ReaderIn(t)
  <2>1. Writers = {}
    BY <1>2 DEF ReaderIn, StateCounts
  <2>2. Cardinality(Readers') = Cardinality(Readers) + 1
    BY <1>2, HoldersFinite, FS_AddElement DEF ReaderIn
  <2> QED
    BY <1>2, <2>1, <2>2, HoldersFinite DEF ReaderIn, StateCounts, Exclusion
<1>3. CASE ReaderOut(t)
  <2>1. Writers = {}
    BY <1>3 DEF ReaderOut, Exclusion
  <2>2. Cardinality(Readers') = Cardinality(Readers) - 1
    BY <1>3, HoldersFinite, FS_RemoveElement DEF ReaderOut
  <2> QED
    BY <1>3, <2>1, <2>2, HoldersFinite DEF ReaderOut, StateCounts, Exclusion
<1>4. CASE WriterIn(t)
  <2>1. Writers = {} /\ Cardinality(Readers) = 0
    BY <1>4 DEF WriterIn, StateCounts
  <2>2. Readers = {}
    BY <2>1, HoldersFinite, FS_EmptySet
  <2> QED
    BY <1>4, <2>1, <2>2 DEF WriterIn, StateCounts, Exclusion
<1>5. CASE WriterOut(t)
  <2>1. Readers = {} /\ Writers' = {}
    BY <1>5 DEF WriterOut, Exclusion
  <2>2. Cardinality(Readers') = 0
    BY <1>5, <2>1, FS_EmptySet DEF WriterOut
  <2> QED
    BY <1>5, <2>1, <2>2 DEF WriterOut, StateCounts, Exclusion
<1> QED
  BY <1>1, <1>2, <1>3, <1>4, <1>5

(* What a step can do to the registered writers and their count.             *)
SameQueue == Registered' = Registered /\ writers_waiting' = writers_waiting
Enqueue(t) ==
  /\ t \notin Registered /\ Registered' = Registered \cup {t}
  /\ writers_waiting' = writers_waiting + 1
Dequeue(t) ==
  /\ t \in Registered /\ Registered' = Registered \ {t}
  /\ writers_waiting' = writers_waiting - 1

LEMMA EffectsKeepWaiting ==
  ASSUME WaitingExact, NEW t \in Threads,
         SameQueue \/ Enqueue(t) \/ Dequeue(t)
  PROVE  WaitingExact'
<1>0. writers_waiting = Cardinality(Registered)
  BY DEF WaitingExact, Registered
<1>1. WaitingExact' <=> writers_waiting' = Cardinality(Registered')
  BY DEF WaitingExact, Registered
<1>2. CASE SameQueue
  BY <1>0, <1>1, <1>2 DEF SameQueue
<1>3. CASE Enqueue(t)
  <2>1. Cardinality(Registered') = Cardinality(Registered) + 1
    BY <1>3, HoldersFinite, FS_AddElement DEF Enqueue
  <2> QED BY <1>0, <1>1, <1>3, <2>1 DEF Enqueue
<1>4. CASE Dequeue(t)
  <2>1. Cardinality(Registered') = Cardinality(Registered) - 1
    BY <1>4, HoldersFinite, FS_RemoveElement DEF Dequeue
  <2> QED BY <1>0, <1>1, <1>4, <2>1 DEF Dequeue
<1> QED
  BY <1>2, <1>3, <1>4

-----------------------------------------------------------------------------
Effect(t) ==
  /\ Same \/ ReaderIn(t) \/ ReaderOut(t) \/ WriterIn(t) \/ WriterOut(t)
  /\ SameQueue \/ Enqueue(t) \/ Dequeue(t)

LEMMA InitIInv == Init => IInv
<1> SUFFICES ASSUME Init PROVE IInv
  OBVIOUS
<1> USE DEF Init, PC, InWrite, WRITE_LOCKED
<1>1. Shape /\ PassedGate
  BY DEF Shape, PassedGate
<1>2. Readers = {} /\ Writers = {} /\ Registered = {}
  BY DEF Readers, Writers, Registered
<1>3. StateCounts /\ Exclusion
  BY <1>2, FS_EmptySet DEF StateCounts, Exclusion
<1>4. WaitingExact
  BY <1>2, FS_EmptySet DEF WaitingExact, Registered
<1> QED
  BY <1>1, <1>3, <1>4 DEF IInv

(* Every step keeps the shape and what passed the gate, and has one of the   *)
(* effects above on the holders and one on the queue.                        *)
LEMMA StepEffect ==
  ASSUME Shape, PassedGate, NEW t \in Threads,
         ReaderStep(t) \/ WriterStep(t) \/ WaitStep(t)
  PROVE  Shape' /\ PassedGate' /\ Effect(t)
<1> USE DEF Shape, PassedGate, Effect, Goto, Forget, PC, InWrite, WRITE_LOCKED,
            Same, SameQueue, Readers, Writers, Registered
<1>1. CASE ReadCall(t)
  BY <1>1 DEF ReadCall
<1>2. CASE ReadLoad(t)
  BY <1>2 DEF ReadLoad, Load
<1>3. CASE TryReadLoad(t)
  BY <1>3 DEF TryReadLoad, Load
<1>4. CASE ReadGate(t)
  BY <1>4 DEF ReadGate, Gate
<1>5. CASE TryReadGate(t)
  BY <1>5 DEF TryReadGate, Gate
<1>6. CASE ReadCas(t)
  BY <1>6 DEF ReadCas, ReaderCas, ReaderIn
<1>7. CASE TryReadCas(t)
  BY <1>7 DEF TryReadCas, ReaderCas, ReaderIn
<1>8. CASE ReleaseRead(t)
  BY <1>8 DEF ReleaseRead, ReaderOut
<1>9. CASE WakeOne(t)
  BY <1>9 DEF WakeOne
<1>10. CASE WriteRegister(t)
  BY <1>10 DEF WriteRegister, Enqueue
<1>11. CASE WriteLoad(t)
  BY <1>11 DEF WriteLoad, Load
<1>12. CASE WriteCas(t)
  BY <1>12 DEF WriteCas, WriterCas, WriterIn
<1>13. CASE TryWrite(t)
  BY <1>13 DEF TryWrite, WriterCas, WriterIn
<1>14. CASE WriteDeregister(t)
  BY <1>14 DEF WriteDeregister, Dequeue
<1>15. CASE ReleaseWrite(t)
  BY <1>15 DEF ReleaseWrite, WriterOut
<1>16. CASE WakeAll(t)
  BY <1>16 DEF WakeAll
<1>17. CASE FutexWait(t)
  BY <1>17 DEF FutexWait
<1>18. CASE WaitReturns(t)
  BY <1>18 DEF WaitReturns
<1>19. CASE Interrupted(t)
  BY <1>19 DEF Interrupted
<1> QED
  BY <1>1, <1>2, <1>3, <1>4, <1>5, <1>6, <1>7, <1>8, <1>9, <1>10, <1>11, <1>12,
     <1>13, <1>14, <1>15, <1>16, <1>17, <1>18, <1>19
  DEF ReaderStep, WriterStep, WaitStep

LEMMA NextIInv == IInv /\ [Next]_vars => IInv'
<1> SUFFICES ASSUME IInv, [Next]_vars PROVE IInv'
  OBVIOUS
<1>1. ASSUME NEW t \in Threads, ReaderStep(t) \/ WriterStep(t) \/ WaitStep(t)
      PROVE  IInv'
  <2>1. Shape' /\ PassedGate' /\ Effect(t)
    BY <1>1, StepEffect DEF IInv
  <2>2. StateCounts' /\ Exclusion'
    BY <2>1, EffectsKeepExclusion DEF IInv, Effect
  <2>3. WaitingExact'
    BY <2>1, EffectsKeepWaiting DEF IInv, Effect
  <2> QED
    BY <2>1, <2>2, <2>3 DEF IInv
<1>2. CASE UNCHANGED vars
  BY <1>2 DEF vars, IInv, Shape, PassedGate, StateCounts, Exclusion,
              WaitingExact, Readers, Writers
<1> QED
  BY <1>1, <1>2 DEF Next

(* A writer is alone, for any finite number of threads: &mut T handed out by *)
(* a write guard is never aliased by another guard.                          *)
THEOREM RwLockExclusion == Spec => []Exclusion
<1>1. IInv => Exclusion
  BY DEF IInv
<1> QED
  BY InitIInv, NextIInv, <1>1, PTL DEF Spec

(* RwLock implements the abstract reader-writer lock, for any finite set of  *)
(* threads: a successful exchange finds in the word what the abstract lock   *)
(* asks of the guards, stale loads, gates and wakes are invisible.           *)
THEOREM RwLockRefinement == Spec => ImplementsRwLock
<1>1. Init => Abstract!Init
  BY DEF Init, Abstract!Init, Readers, Writers
<1>2. IInv /\ [Next]_vars => [Abstract!Next]_<<Readers, Writers>>
  <2> SUFFICES ASSUME IInv, [Next]_vars PROVE [Abstract!Next]_<<Readers, Writers>>
    OBVIOUS
  <2>1. CASE UNCHANGED vars
    BY <2>1 DEF vars, Readers, Writers
  <2>2. ASSUME NEW t \in Threads, ReaderStep(t) \/ WriterStep(t) \/ WaitStep(t)
        PROVE  [Abstract!Next]_<<Readers, Writers>>
    <3>1. Same \/ ReaderIn(t) \/ ReaderOut(t) \/ WriterIn(t) \/ WriterOut(t)
      BY <2>2, StepEffect DEF IInv, Effect
    <3>2. StateCounts /\ Exclusion
      BY DEF IInv
    <3>3. ASSUME ReaderIn(t) PROVE Abstract!AcquireRead(t)
      <4>1. Writers = {}
        BY <3>2, <3>3 DEF ReaderIn, StateCounts, WRITE_LOCKED
      <4> QED
        BY <3>3, <4>1 DEF ReaderIn, Abstract!AcquireRead
    <3>4. ASSUME ReaderOut(t) PROVE Abstract!ReleaseRead(t)
      BY <3>4 DEF ReaderOut, Abstract!ReleaseRead
    <3>5. ASSUME WriterIn(t) PROVE Abstract!AcquireWrite(t)
      <4>1. Writers = {} /\ Cardinality(Readers) = 0
        BY <3>2, <3>5 DEF WriterIn, StateCounts, WRITE_LOCKED
      <4>2. Readers = {}
        BY <4>1, HoldersFinite, FS_EmptySet
      <4> QED
        BY <3>5, <4>1, <4>2 DEF WriterIn, Abstract!AcquireWrite
    <3>6. ASSUME WriterOut(t) PROVE Abstract!ReleaseWrite(t)
      BY <3>2, <3>6 DEF WriterOut, Exclusion, Abstract!ReleaseWrite
    <3> QED
      BY <3>1, <3>3, <3>4, <3>5, <3>6 DEF Same, Abstract!Next
  <2> QED
    BY <2>1, <2>2 DEF Next
<1> QED
  BY <1>1, <1>2, InitIInv, NextIInv, PTL DEF Spec, ImplementsRwLock, Abstract!Spec

(* The word counts the readers, or marks the writer, at every instant.       *)
THEOREM RwLockStateCounts == Spec => []StateCounts
<1>1. IInv => StateCounts
  BY DEF IInv
<1> QED
  BY InitIInv, NextIInv, <1>1, PTL DEF Spec

(* writers_waiting counts the registered writers at every instant: no path   *)
(* through write() leaks a registration.                                     *)
THEOREM RwLockWaitingExact == Spec => []WaitingExact
<1>1. IInv => WaitingExact
  BY DEF IInv
<1> QED
  BY InitIInv, NextIInv, <1>1, PTL DEF Spec

-----------------------------------------------------------------------------
(* Who has to see to the sleeping writers while the word is 0: a thread that *)
(* is about to wake, or one on its way through a blocking call.  A reader    *)
(* that sleeps counts: with one around, nothing is promised.  Writers sleep  *)
(* on a word that was not 0.                                                 *)
Passing == {"rr_wake", "rw_wake", "r_load", "r_gate", "r_cas", "r_wait", "r_asleep"}
             \cup InWrite

Carrier(t) == pc[t] \in Passing /\ ~(t \in parked /\ pc[t] = "w_asleep")

ParkedAsleep == \A t \in parked : t \in Threads /\ pc[t] \in {"r_asleep", "w_asleep"}
WritersSawHolder == \A t \in Threads : pc[t] = "w_wait" => seen[t] # 0
Carried ==
  (state = 0 /\ \E w \in parked : pc[w] = "w_asleep") => \E t \in Threads : Carrier(t)

(* A reader that was admitted while w waits is not past the gate again, and  *)
(* the record of a writer starts empty.                                      *)
Yielding ==
  \A w \in Threads :
    /\ w \in Queued => \A r \in overtook[w] : pc[r] \notin {"r_cas", "try_cas"}
    /\ pc[w] \notin InWrite \cup {"w_dereg"} => overtook[w] = {}

QInv == /\ IInv /\ ParkedAsleep /\ WritersSawHolder /\ Carried
        /\ overtook \in [Threads -> SUBSET Threads] /\ Yielding

LEMMA QInit == Init => QInv
<1> SUFFICES ASSUME Init PROVE QInv
  OBVIOUS
<1>1. IInv
  BY InitIInv
<1>2. ParkedAsleep /\ WritersSawHolder /\ Carried
  BY DEF Init, ParkedAsleep, WritersSawHolder, Carried
<1>3. overtook \in [Threads -> SUBSET Threads] /\ Yielding
  BY DEF Init, Yielding, Queued, InWrite
<1> QED
  BY <1>1, <1>2, <1>3 DEF QInv

(* A thread that goes on inside its call, or that was not in one, keeps the  *)
(* sleeping writers in somebody's care.                                      *)
LEMMA CarrierStays ==
  ASSUME ParkedAsleep, Carried, Shape, NEW t \in Threads, NEW l \in PC,
         state' = state, parked' \subseteq parked, pc' = [pc EXCEPT ![t] = l],
         pc[t] \in Passing => l \in Passing,
         t \notin parked'
  PROVE  Carried'
<1> SUFFICES ASSUME state' = 0, NEW w \in parked', pc'[w] = "w_asleep"
             PROVE  \E c \in Threads : Carrier(c)'
  BY DEF Carried
<1>1. w \in parked /\ pc[w] = "w_asleep"
  BY DEF ParkedAsleep, Shape
<1>2. PICK c \in Threads : Carrier(c)
  BY <1>1 DEF Carried
<1>3. Carrier(c)'
  BY <1>2 DEF Carrier, Shape
<1> QED
  BY <1>3

(* futex_wake(1) releases a sleeper if there is one.                         *)
LEMMA WakeOneWakes ==
  ASSUME NEW P \in SUBSET Threads, NEW Q \in StillParked(P, 1), P # {}
  PROVE  Q \subseteq P /\ \E u \in P : u \notin Q
<1>1. Q \subseteq P /\ IsFiniteSet(P) /\ Cardinality(P) \in Nat
  BY ThreadsAssumption, FS_Subset, FS_CardinalityType DEF StillParked
<1>2. Cardinality(P) # 0
  BY <1>1, FS_EmptySet
<1>3. Cardinality(Q) # Cardinality(P)
  BY <1>1, <1>2 DEF StillParked
<1> QED
  BY <1>1, <1>3

LEMMA CarriedKept ==
  ASSUME QInv, NEW t \in Threads, ReaderStep(t) \/ WriterStep(t) \/ WaitStep(t)
  PROVE  ParkedAsleep' /\ WritersSawHolder' /\ Carried'
<1> USE DEF QInv, IInv, Shape, Goto, Forget, PC, InWrite
<1>1. ParkedAsleep'
  BY DEF ParkedAsleep, ReaderStep, WriterStep, WaitStep, ReadCall, ReadLoad, ReadGate,
     ReadCas, TryReadLoad, TryReadGate, TryReadCas, ReleaseRead, WakeOne, WriteRegister,
     WriteLoad, WriteCas, WriteDeregister, TryWrite, ReleaseWrite, WakeAll, FutexWait,
     WaitReturns, Interrupted, Load, Gate, ReaderCas, WriterCas, Parked, StillParked,
     NoneParked
<1>2. WritersSawHolder'
  BY DEF WritersSawHolder, ReaderStep, WriterStep, WaitStep, ReadCall, ReadLoad, ReadGate,
     ReadCas, TryReadLoad, TryReadGate, TryReadCas, ReleaseRead, WakeOne, WriteRegister,
     WriteLoad, WriteCas, WriteDeregister, TryWrite, ReleaseWrite, WakeAll, FutexWait,
     WaitReturns, Interrupted, Load, Gate, ReaderCas, WriterCas
<1>3. pc[t] \notin {"r_asleep", "w_asleep"} => t \notin parked
  BY DEF ParkedAsleep
<1>4. CASE \/ ReadCall(t) \/ ReadLoad(t) \/ ReadGate(t) \/ TryReadLoad(t) \/ TryReadGate(t)
  BY <1>1, <1>2, <1>3, <1>4, CarrierStays
  DEF ReadCall, ReadLoad, ReadGate, TryReadLoad, TryReadGate, Load, Gate, Passing
<1>5. CASE ReadCas(t) \/ TryReadCas(t)
  <2>1. CASE state = seen[t]
    <3>1. state' > 0
      BY <1>5, <2>1 DEF ReadCas, TryReadCas, ReaderCas, PassedGate
    <3> QED
      BY <1>1, <1>2, <3>1 DEF Carried
  <2>2. CASE state # seen[t]
    BY <1>1, <1>2, <1>3, <1>5, <2>2, CarrierStays
    DEF ReadCas, TryReadCas, ReaderCas, Passing
  <2> QED
    BY <2>1, <2>2
<1>6. CASE ReleaseRead(t)
  <2>1. CASE state = 1
    <3>1. Carrier(t)'
      BY <1>6, <2>1 DEF ReleaseRead, Carrier, Passing
    <3> QED
      BY <1>1, <1>2, <3>1 DEF Carried
  <2>2. CASE state # 1
    <3>1. state' # 0
      BY <1>6, <2>2 DEF ReleaseRead
    <3> QED
      BY <1>1, <1>2, <3>1 DEF Carried
  <2> QED
    BY <2>1, <2>2
<1>7. CASE WakeOne(t)
  <2> SUFFICES ASSUME state' = 0, NEW w \in parked' PROVE \E c \in Threads : Carrier(c)'
    BY <1>1, <1>2 DEF Carried
  <2>1. parked \in SUBSET Threads /\ parked' \in StillParked(parked, 1) /\ parked # {}
    BY <1>7 DEF WakeOne, ParkedAsleep, StillParked
  <2>2. PICK u \in parked : u \notin parked'
    BY <2>1, WakeOneWakes
  <2>3. u \in Threads /\ pc'[u] \in {"r_asleep", "w_asleep"}
    BY <1>7, <2>1 DEF WakeOne, ParkedAsleep
  <2>4. Carrier(u)'
    BY <2>2, <2>3 DEF Carrier, Passing
  <2> QED
    BY <2>3, <2>4
<1>8. CASE WriteRegister(t) \/ WriteLoad(t) \/ WriteDeregister(t)
  BY <1>1, <1>2, <1>3, <1>8, CarrierStays
  DEF WriteRegister, WriteLoad, WriteDeregister, Load, Passing
<1>9. CASE WriteCas(t) \/ TryWrite(t)
  <2>1. CASE state = 0
    BY <1>1, <1>2, <1>9, <2>1 DEF WriteCas, TryWrite, WriterCas, WRITE_LOCKED, Carried
  <2>2. CASE state # 0
    BY <1>1, <1>2, <1>9, <2>2 DEF WriteCas, TryWrite, WriterCas, Carried
  <2> QED
    BY <2>1, <2>2
<1>10. CASE ReleaseWrite(t)
  <2>1. Carrier(t)'
    BY <1>10 DEF ReleaseWrite, Carrier, Passing
  <2> QED
    BY <1>1, <1>2, <2>1 DEF Carried
<1>11. CASE WakeAll(t)
  BY <1>1, <1>2, <1>11 DEF WakeAll, NoneParked, Carried
<1>12. CASE FutexWait(t)
  <2>1. CASE state # seen[t]
    BY <1>1, <1>2, <1>3, <1>12, <2>1, CarrierStays DEF FutexWait, Parked, Passing
  <2>2. CASE state = seen[t] /\ pc[t] = "r_wait"
    <3>1. Carrier(t)'
      BY <1>12, <2>2 DEF FutexWait, Carrier, Passing
    <3> QED
      BY <1>1, <1>2, <3>1 DEF Carried
  <2>3. CASE state = seen[t] /\ pc[t] = "w_wait"
    <3>1. state' # 0
      BY <1>12, <2>3 DEF FutexWait, WritersSawHolder
    <3> QED
      BY <1>1, <1>2, <3>1 DEF Carried
  <2> QED
    BY <1>12, <2>1, <2>2, <2>3 DEF FutexWait
<1>13. CASE WaitReturns(t)
  BY <1>1, <1>2, <1>13, CarrierStays DEF WaitReturns, Passing
<1>14. CASE Interrupted(t)
  <2>1. Carrier(t)'
    BY <1>14 DEF Interrupted, ParkedAsleep, Carrier, Passing
  <2> QED
    BY <1>1, <1>2, <2>1 DEF Carried
<1> QED
  BY <1>1, <1>2, <1>4, <1>5, <1>6, <1>7, <1>8, <1>9, <1>10, <1>11, <1>12, <1>13, <1>14
  DEF ReaderStep, WriterStep, WaitStep

LEMMA YieldingKept ==
  ASSUME QInv, NEW t \in Threads, ReaderStep(t) \/ WriterStep(t) \/ WaitStep(t)
  PROVE  overtook' \in [Threads -> SUBSET Threads] /\ Yielding'
<1> USE DEF QInv, IInv, Shape, Goto, Forget, PC, InWrite, Yielding, Queued
<1>1. writers_waiting = 0 => \A w \in Threads : w \notin Queued
  <2> SUFFICES ASSUME writers_waiting = 0 PROVE \A w \in Threads : w \notin Registered
    BY DEF Registered
  <2>1. Cardinality(Registered) = 0
    BY DEF WaitingExact, Registered
  <2> QED
    BY <2>1, HoldersFinite, FS_EmptySet
<1>2. CASE ReadCall(t) \/ ReadLoad(t) \/ TryReadLoad(t)
  BY <1>2 DEF ReadCall, ReadLoad, TryReadLoad, Load
<1>3. CASE ReadGate(t) \/ TryReadGate(t)
  <2>1. CASE writers_waiting = 0
    BY <1>1, <1>3, <2>1 DEF ReadGate, TryReadGate, Gate
  <2>2. CASE writers_waiting # 0
    BY <1>3, <2>2 DEF ReadGate, TryReadGate, Gate
  <2> QED
    BY <2>1, <2>2
<1>4. CASE ReadCas(t) \/ TryReadCas(t)
  <2>1. CASE state = seen[t]
    BY <1>4, <2>1 DEF ReadCas, TryReadCas, ReaderCas
  <2>2. CASE state # seen[t]
    BY <1>4, <2>2 DEF ReadCas, TryReadCas, ReaderCas
  <2> QED
    BY <2>1, <2>2
<1>5. CASE ReleaseRead(t) \/ WakeOne(t)
  BY <1>5 DEF ReleaseRead, WakeOne
<1>6. CASE WriteRegister(t) \/ WriteLoad(t)
  BY <1>6 DEF WriteRegister, WriteLoad, Load
<1>7. CASE WriteCas(t) \/ TryWrite(t)
  BY <1>7 DEF WriteCas, TryWrite, WriterCas
<1>8. CASE WriteDeregister(t)
  BY <1>8 DEF WriteDeregister
<1>9. CASE ReleaseWrite(t) \/ WakeAll(t)
  BY <1>9 DEF ReleaseWrite, WakeAll
<1>10. CASE FutexWait(t) \/ WaitReturns(t)
  BY <1>10 DEF FutexWait, WaitReturns
<1>11. CASE Interrupted(t)
  BY <1>11 DEF Interrupted
<1> QED
  BY <1>2, <1>3, <1>4, <1>5, <1>6, <1>7, <1>8, <1>9, <1>10, <1>11
  DEF ReaderStep, WriterStep, WaitStep

LEMMA QNext == QInv /\ [Next]_vars => QInv'
<1> SUFFICES ASSUME QInv, [Next]_vars PROVE QInv'
  OBVIOUS
<1>1. IInv'
  BY NextIInv DEF QInv
<1>2. CASE UNCHANGED vars
  BY <1>1, <1>2 DEF vars, QInv, ParkedAsleep, WritersSawHolder, Carried, Carrier,
                    Yielding, Queued
<1>3. ASSUME NEW t \in Threads, ReaderStep(t) \/ WriterStep(t) \/ WaitStep(t)
      PROVE  QInv'
  BY <1>1, <1>3, CarriedKept, YieldingKept DEF QInv
<1> QED
  BY <1>2, <1>3 DEF Next

(* Writers are not stranded by one another: while no thread is inside        *)
(* read(), a writer sleeps only if somebody holds the lock, is about to wake *)
(* or is a writer awake in write(), although the last reader wakes one       *)
(* thread only.                                                              *)
THEOREM RwLockWritersServed == Spec => []WritersServed
<1>1. QInv => WritersServed
  <2> SUFFICES ASSUME QInv, \E t \in parked : pc[t] = "w_asleep",
                      \A t \in Threads : ~InRead(t)
               PROVE  \E t \in Threads : Serves(t)
    BY DEF WritersServed
  <2>1. CASE state = 0
    <3>1. PICK c \in Threads : Carrier(c)
      BY <2>1 DEF QInv, Carried
    <3> QED
      BY <3>1 DEF Carrier, Passing, InWrite, InRead, Serves, QInv, ParkedAsleep
  <2>2. CASE state # 0
    <3>1. Readers # {} \/ Writers # {}
      BY <2>2, FS_EmptySet DEF QInv, IInv, StateCounts
    <3> QED
      BY <3>1 DEF Readers, Writers, Serves
  <2> QED
    BY <2>1, <2>2
<1> QED
  BY QInit, QNext, <1>1, PTL DEF Spec

(* A reader overtakes a waiting writer at most once, for any number of       *)
(* threads.                                                                  *)
THEOREM RwLockReadersYield == Spec => ReadersYield
<1>1. QInv /\ [Next]_vars =>
        [\A w, r \in Threads :
           (w \in Queued /\ r \in overtook[w]) =>
              ~(pc[r] # "reading" /\ pc'[r] = "reading")]_vars
  <2> SUFFICES ASSUME QInv, NEW t \in Threads,
                      ReaderStep(t) \/ WriterStep(t) \/ WaitStep(t),
                      NEW w \in Threads, NEW r \in Threads, w \in Queued, r \in overtook[w],
                      pc[r] # "reading", pc'[r] = "reading"
               PROVE  FALSE
    BY DEF Next
  <2>1. pc[r] \in {"r_cas", "try_cas"}
    BY DEF QInv, IInv, Shape, Goto, ReaderStep, WriterStep, WaitStep, ReadCall, ReadLoad,
       ReadGate, ReadCas, TryReadLoad, TryReadGate, TryReadCas, ReleaseRead, WakeOne,
       WriteRegister, WriteLoad, WriteCas, WriteDeregister, TryWrite, ReleaseWrite,
       WakeAll, FutexWait, WaitReturns, Interrupted, Load, Gate, ReaderCas, WriterCas
  <2> QED
    BY <2>1 DEF QInv, Yielding
<1> QED
  BY QInit, QNext, <1>1, PTL DEF Spec, ReadersYield

-----------------------------------------------------------------------------
(* Semaphore                                                                 *)
SemRegistered == {t \in SemThreads : sem_pc[t] \in {"recheck", "wait", "asleep"}}

(* A thread goes to wait because it saw too few permits for its call.        *)
WaitsShort == \A t \in SemThreads : sem_pc[t] = "wait" => snap[t] < n[t]
Takes      == \A t \in SemThreads : sem_pc[t] \in {"cas", "try_cas"} => snap[t] >= n[t]

(* The assertion of release(), before it is evaluated.                       *)
AssertHolds == forgets = 0 => \A t \in SemThreads :
                 /\ sem_pc[t] # "panicked"
                 /\ sem_pc[t] = "assert" => snap[t] <= max_permits

(* Threads that will look at permits again by themselves, and the wakes that *)
(* releasers have still to send.                                             *)
Awake == {t \in SemThreads \ sem_parked :
            sem_pc[t] \in {"load", "cas", "register", "recheck", "wait", "asleep"}}
Owed  == [t \in SemThreads |-> IF sem_pc[t] \in {"assert", "waiters"} THEN n[t]
                               ELSE IF sem_pc[t] = "wake" THEN snap[t] ELSE 0]

(* Sleepers are accounted for: a releaser is about to wake all of them, or   *)
(* some acquirer M wants so much that the permits in excess of its wish are  *)
(* covered by wakes still to be sent and by acquirers that are awake.        *)
Covered ==
  \/ sem_parked = {}
  \/ \E t \in SemThreads : sem_pc[t] = "panicked"
  \/ \E t \in SemThreads : sem_pc[t] = "wake" /\ Cardinality(sem_parked) <= snap[t]
  \/ \E m \in sem_parked \cup Awake : permits < n[m] + Sem!Total(Owed) + Cardinality(Awake)

SemIInv == /\ Sem!TypeOK /\ Sem!PermitsConserved /\ Sem!WaitersExact /\ WaitsShort /\ Takes
           /\ AssertHolds /\ Covered

-----------------------------------------------------------------------------
(* The Semaphore counts with the Cardinality this module counts with.        *)
LEMMA SameCounts ==
  /\ \A S : Sem!Cardinality(S) = Cardinality(S)
  /\ \A S : Sem!IsFiniteSet(S) <=> IsFiniteSet(S)
BY DEF Cardinality, Sem!Cardinality, IsFiniteSet, Sem!IsFiniteSet

(* Finite sets of threads, and the sum of a function over the threads.       *)
LEMMA ThreadSets ==
  ASSUME Sem!SemaphoreAssumption, NEW S \in SUBSET SemThreads
  PROVE  IsFiniteSet(S) /\ Cardinality(S) \in Nat
BY FS_Subset, FS_CardinalityType, SameCounts DEF Sem!SemaphoreAssumption

LEMMA UnitsIn ==
  ASSUME NEW f \in [SemThreads -> Nat]
  PROVE  \A x : x \in Sem!Units(f) <=> \E t \in SemThreads : \E k \in 1 .. f[t] : x = <<t, k>>
BY DEF Sem!Units

LEMMA TotalType ==
  ASSUME Sem!SemaphoreAssumption, NEW f \in [SemThreads -> Nat]
  PROVE  IsFiniteSet(Sem!Units(f)) /\ Sem!Total(f) \in Nat
<1> DEFINE part == [t \in SemThreads |-> {t} \X (1 .. f[t])]
           parts == {{t} \X (1 .. f[t]) : t \in SemThreads}
<1>1. part \in Surjection(SemThreads, parts)
  BY DEF Surjection
<1>2. IsFiniteSet(parts)
  BY <1>1, FS_Surjection, SameCounts DEF Sem!SemaphoreAssumption
<1>3. \A t \in SemThreads : IsFiniteSet({t} \X (1 .. f[t]))
  <2> TAKE t \in SemThreads
  <2>1. IsFiniteSet({t})
    BY FS_Singleton
  <2>2. 1 \in Int /\ f[t] \in Int
    OBVIOUS
  <2>3. IsFiniteSet(1 .. f[t])
    BY <2>2, FS_Interval
  <2> QED BY <2>1, <2>3, FS_Product
<1>4. \A P \in parts : IsFiniteSet(P)
  BY <1>3
<1>5. IsFiniteSet(UNION parts)
  BY <1>2, <1>4, FS_UNION
<1> QED BY <1>5, FS_CardinalityType, SameCounts DEF Sem!Units, Sem!Total

(* One thread accounts for d units more, the others for what they did.       *)
LEMMA TotalGrows ==
  ASSUME Sem!SemaphoreAssumption, NEW f \in [SemThreads -> Nat], NEW g \in [SemThreads -> Nat],
         NEW t \in SemThreads, NEW d \in Nat, g[t] = f[t] + d,
         \A u \in SemThreads \ {t} : g[u] = f[u]
  PROVE  Sem!Total(g) = Sem!Total(f) + d
<1> DEFINE new == {t} \X (f[t] + 1 .. f[t] + d)
<1>1. IsFiniteSet(Sem!Units(f)) /\ Cardinality(Sem!Units(f)) \in Nat
  BY TotalType, SameCounts DEF Sem!Total
<1>2. IsFiniteSet(new) /\ Cardinality(new) = d
  <2> DEFINE a == f[t] + 1
             b == f[t] + d
             I == a .. b
  <2>1. a \in Int /\ b \in Int /\ (IF a > b THEN 0 ELSE b - a + 1) = d
    OBVIOUS
  <2>2. IsFiniteSet({t}) /\ Cardinality({t}) = 1
    BY FS_Singleton
  <2>3. new = {t} \X I
    OBVIOUS
  <2> HIDE DEF a, b, new
  <2>4. IsFiniteSet(I) /\ Cardinality(I) = d
    BY <2>1, FS_Interval
  <2> HIDE DEF I
  <2>5. IsFiniteSet(new) /\ Cardinality(new) = Cardinality({t}) * Cardinality(I)
    BY <2>2, <2>3, <2>4, FS_Product
  <2>6. Cardinality({t}) * Cardinality(I) = d
    BY <2>2, <2>4
  <2> QED BY <2>5, <2>6
<1>3. Sem!Units(g) = Sem!Units(f) \cup new
  <2>1. ASSUME NEW x \in Sem!Units(g) PROVE x \in Sem!Units(f) \cup new
    <3>1. PICK u \in SemThreads, k \in Nat : k \in 1 .. g[u] /\ x = <<u, k>>
      BY UnitsIn
    <3>2. CASE u # t
      BY <3>1, <3>2, UnitsIn
    <3>3. CASE u = t /\ k <= f[t]
      <4>1. k \in 1 .. f[t]
        BY <3>1, <3>3
      <4> QED BY <3>1, <3>3, <4>1, UnitsIn
    <3>4. CASE u = t /\ k > f[t]
      <4>1. k \in f[t] + 1 .. f[t] + d
        BY <3>1, <3>4
      <4> QED BY <3>1, <3>4, <4>1
    <3> QED BY <3>2, <3>3, <3>4
  <2>2. ASSUME NEW x \in Sem!Units(f) PROVE x \in Sem!Units(g)
    <3>1. PICK u \in SemThreads, k \in Nat : k \in 1 .. f[u] /\ x = <<u, k>>
      BY UnitsIn
    <3>2. k \in 1 .. g[u]
      BY <3>1
    <3> QED BY <3>1, <3>2, UnitsIn
  <2>3. ASSUME NEW x \in new PROVE x \in Sem!Units(g)
    <3>1. PICK k \in f[t] + 1 .. f[t] + d : x = <<t, k>>
      OBVIOUS
    <3>2. k \in 1 .. g[t]
      OBVIOUS
    <3> QED BY <3>1, <3>2, UnitsIn
  <2> QED BY <2>1, <2>2, <2>3
<1>4. Sem!Units(f) \cap new = {}
  <2> SUFFICES ASSUME NEW x \in Sem!Units(f), x \in new PROVE FALSE
    OBVIOUS
  <2>1. PICK u \in SemThreads, k \in Nat : k \in 1 .. f[u] /\ x = <<u, k>>
    BY UnitsIn
  <2>2. u = t /\ k \in f[t] + 1 .. f[t] + d
    BY <2>1
  <2> QED BY <2>1, <2>2
<1>5. Cardinality(Sem!Units(f) \cap new) = 0
  BY <1>4, FS_EmptySet
<1> HIDE DEF new
<1>6. Cardinality(Sem!Units(f) \cup new) = Cardinality(Sem!Units(f)) + Cardinality(new) - 0
  BY <1>1, <1>2, <1>5, FS_Union
<1> QED BY <1>1, <1>2, <1>3, <1>6, SameCounts DEF Sem!Total

LEMMA TotalSame ==
  ASSUME NEW f \in [SemThreads -> Nat], NEW g \in [SemThreads -> Nat],
         \A t \in SemThreads : g[t] = f[t]
  PROVE  Sem!Total(g) = Sem!Total(f)
<1>1. g = f
  OBVIOUS
<1> QED BY <1>1

-----------------------------------------------------------------------------
(* A step is one thread's: it leaves the other threads where they are.       *)
Frame(t) == \A u \in SemThreads \ {t} :
  sem_pc'[u] = sem_pc[u] /\ n'[u] = n[u] /\ snap'[u] = snap[u] /\ held'[u] = held[u]

LEMMA Types ==
  ASSUME Sem!SemaphoreAssumption, Sem!TypeOK
  PROVE  /\ permits \in Nat /\ max_permits \in Nat /\ waiters \in Nat
         /\ sem_pc \in [SemThreads -> Sem!PC] /\ n \in [SemThreads -> Amounts \cup {1}]
         /\ \A t \in SemThreads : n[t] \in Nat \ {0}
         /\ snap \in [SemThreads -> Nat] /\ held \in [SemThreads -> Nat]
         /\ \A k \in Amounts : k \in Nat \ {0} /\ k \in Amounts \cup {1}
<1>1. /\ n \in [SemThreads -> Amounts \cup {1}]
      /\ \A k \in Amounts : k \in Nat \ {0} /\ k \in Amounts \cup {1}
  BY DEF Sem!SemaphoreAssumption, Sem!TypeOK
<1>2. \A t \in SemThreads : n[t] \in Amounts \cup {1}
  BY <1>1
<1>3. \A t \in SemThreads : n[t] \in Nat \ {0}
  BY <1>1, <1>2
<1> QED BY <1>1, <1>3 DEF Sem!TypeOK

LEMMA FrameStep ==
  ASSUME Sem!SemaphoreAssumption, Sem!TypeOK, NEW t \in SemThreads,
         Sem!Acquiring(t) \/ Sem!Releasing(t)
  PROVE  Frame(t)
<1>0. /\ sem_pc \in [SemThreads -> Sem!PC] /\ n \in [SemThreads -> Amounts \cup {1}]
      /\ snap \in [SemThreads -> Nat] /\ held \in [SemThreads -> Nat]
  BY Types
<1> USE DEF Frame, Sem!Goto, Sem!Return, Sem!Take
<1>1. CASE Sem!AcquireMany(t) \/ Sem!LoadPermits(t) \/ Sem!AcquireCas(t)
  BY <1>0, <1>1 DEF Sem!AcquireMany, Sem!LoadPermits, Sem!AcquireCas
<1>2. CASE Sem!TryAcquireMany(t) \/ Sem!TryAcquireCas(t)
  BY <1>0, <1>2 DEF Sem!TryAcquireMany, Sem!TryAcquireCas
<1>3. CASE Sem!Register(t) \/ Sem!Recheck(t) \/ Sem!FutexWait(t) \/ Sem!Interrupted(t)
           \/ Sem!Deregister(t)
  BY <1>0, <1>3 DEF Sem!Register, Sem!Recheck, Sem!FutexWait, Sem!Interrupted,
     Sem!Deregister
<1>4. CASE Sem!ReleaseMany(t) \/ Sem!AssertNotOverReleased(t) \/ Sem!AddPermits(t)
           \/ Sem!AddToPermits(t)
  BY <1>0, <1>4 DEF Sem!ReleaseMany, Sem!AssertNotOverReleased, Sem!AddPermits,
     Sem!AddToPermits
<1>5. CASE Sem!LoadWaiters(t) \/ Sem!Wake(t) \/ Sem!ForgetPermit(t)
  BY <1>0, <1>5 DEF Sem!LoadWaiters, Sem!Wake, Sem!ForgetPermit
<1> QED BY <1>1, <1>2, <1>3, <1>4, <1>5 DEF Sem!Acquiring, Sem!Releasing

(* What add_permits has announced, as a function.                            *)
Adding == [t \in SemThreads |-> IF sem_pc[t] = "add" THEN n[t] ELSE 0]

LEMMA Sums ==
  ASSUME Sem!SemaphoreAssumption, Sem!TypeOK
  PROVE  /\ Adding \in [SemThreads -> Nat]
         /\ Sem!Announced = Sem!Total(Adding) /\ Sem!Announced \in Nat
         /\ Sem!Held = Sem!Total(held) /\ Sem!Held \in Nat
         /\ Owed \in [SemThreads -> Nat] /\ Sem!Total(Owed) \in Nat
<1>0. /\ \A t \in SemThreads : n[t] \in Nat /\ snap[t] \in Nat
      /\ held \in [SemThreads -> Nat]
  BY Types
<1>1. Adding \in [SemThreads -> Nat] /\ Owed \in [SemThreads -> Nat]
  BY <1>0 DEF Adding, Owed
<1> QED BY <1>0, <1>1, TotalType DEF Sem!Announced, Sem!Held, Adding

(* The type invariant, for the actions that only add and compare.            *)
LEMMA TypeStep ==
  ASSUME Sem!SemaphoreAssumption, SemIInv, NEW t \in SemThreads,
         Sem!Acquiring(t) \/ Sem!Releasing(t)
  PROVE  /\ permits' \in Nat /\ waiters' \in Nat /\ max_permits' \in Int
         /\ sem_pc' \in [SemThreads -> Sem!PC] /\ n' \in [SemThreads -> Amounts \cup {1}]
         /\ snap' \in [SemThreads -> Nat] /\ held' \in [SemThreads -> Nat]
         /\ sem_parked' \subseteq {u \in SemThreads : sem_pc'[u] = "asleep"}
         /\ adds' \in 0..MaxAdds /\ forgets' \in 0..MaxForgets
<1>0. /\ permits \in Nat /\ max_permits \in Nat /\ waiters \in Nat
      /\ sem_pc \in [SemThreads -> Sem!PC] /\ n \in [SemThreads -> Amounts \cup {1}]
      /\ n[t] \in Nat \ {0} /\ 1 \in Amounts \cup {1}
      /\ snap \in [SemThreads -> Nat] /\ held \in [SemThreads -> Nat]
      /\ \A k \in Amounts : k \in Nat \ {0} /\ k \in Amounts \cup {1}
      /\ sem_parked \subseteq {u \in SemThreads : sem_pc[u] = "asleep"}
      /\ adds \in 0..MaxAdds /\ forgets \in 0..MaxForgets
      /\ MaxAdds \in Nat /\ MaxForgets \in Nat /\ Sem!TypeOK
  BY Types DEF SemIInv, Sem!TypeOK, Sem!SemaphoreAssumption
<1>1. sem_pc' \in [SemThreads -> Sem!PC] /\ n' \in [SemThreads -> Amounts \cup {1}]
  <2> USE DEF Sem!Goto, Sem!Return, Sem!Take, Sem!PC
  <2>1. CASE Sem!AcquireMany(t) \/ Sem!LoadPermits(t) \/ Sem!AcquireCas(t)
    BY <1>0, <2>1 DEF Sem!AcquireMany, Sem!LoadPermits, Sem!AcquireCas
  <2>2. CASE Sem!TryAcquireMany(t) \/ Sem!TryAcquireCas(t)
    BY <1>0, <2>2 DEF Sem!TryAcquireMany, Sem!TryAcquireCas
  <2>3. CASE Sem!Register(t) \/ Sem!Recheck(t) \/ Sem!FutexWait(t) \/ Sem!Interrupted(t)
             \/ Sem!Deregister(t)
    BY <1>0, <2>3 DEF Sem!Register, Sem!Recheck, Sem!FutexWait, Sem!Interrupted,
       Sem!Deregister
  <2>4. CASE Sem!ReleaseMany(t) \/ Sem!AssertNotOverReleased(t) \/ Sem!AddPermits(t)
             \/ Sem!AddToPermits(t)
    BY <1>0, <2>4 DEF Sem!ReleaseMany, Sem!AssertNotOverReleased, Sem!AddPermits,
       Sem!AddToPermits
  <2>5. CASE Sem!LoadWaiters(t) \/ Sem!Wake(t) \/ Sem!ForgetPermit(t)
    BY <1>0, <2>5 DEF Sem!LoadWaiters, Sem!Wake, Sem!ForgetPermit
  <2> QED BY <2>1, <2>2, <2>3, <2>4, <2>5 DEF Sem!Acquiring, Sem!Releasing
<1>2. permits' \in Nat /\ held' \in [SemThreads -> Nat] /\ snap' \in [SemThreads -> Nat]
  <2> USE DEF Sem!Goto, Sem!Return, Sem!Take
  <2>1. CASE Sem!AcquireCas(t) \/ Sem!TryAcquireCas(t)
    <3>1. snap[t] >= n[t]
      BY <2>1 DEF SemIInv, Takes, Sem!AcquireCas, Sem!TryAcquireCas
    <3> QED BY <1>0, <2>1, <3>1 DEF Sem!AcquireCas, Sem!TryAcquireCas
  <2>2. CASE Sem!AcquireMany(t) \/ Sem!LoadPermits(t) \/ Sem!TryAcquireMany(t)
    BY <1>0, <2>2 DEF Sem!AcquireMany, Sem!LoadPermits, Sem!TryAcquireMany
  <2>3. CASE Sem!Register(t) \/ Sem!Recheck(t) \/ Sem!FutexWait(t) \/ Sem!Interrupted(t)
             \/ Sem!Deregister(t)
    BY <1>0, <2>3 DEF Sem!Register, Sem!Recheck, Sem!FutexWait, Sem!Interrupted,
       Sem!Deregister
  <2>4. CASE Sem!ReleaseMany(t) \/ Sem!AssertNotOverReleased(t) \/ Sem!AddPermits(t)
             \/ Sem!AddToPermits(t)
    BY <1>0, <2>4 DEF Sem!ReleaseMany, Sem!AssertNotOverReleased, Sem!AddPermits,
       Sem!AddToPermits
  <2>5. CASE Sem!LoadWaiters(t) \/ Sem!Wake(t) \/ Sem!ForgetPermit(t)
    BY <1>0, <2>5 DEF Sem!LoadWaiters, Sem!Wake, Sem!ForgetPermit
  <2> QED BY <2>1, <2>2, <2>3, <2>4, <2>5 DEF Sem!Acquiring, Sem!Releasing
<1>3. waiters' \in Nat
  <2>1. CASE Sem!Deregister(t)
    <3>1. SemRegistered \subseteq SemThreads /\ t \in SemRegistered
      BY <2>1 DEF SemRegistered, Sem!Deregister
    <3>2. IsFiniteSet(SemRegistered) /\ Cardinality(SemRegistered) \in Nat
      BY <3>1, ThreadSets
    <3>3. Cardinality(SemRegistered \ {t}) = Cardinality(SemRegistered) - 1
      BY <3>1, <3>2, FS_RemoveElement
    <3>4. Cardinality(SemRegistered \ {t}) \in Nat
      BY <3>1, ThreadSets
    <3> QED BY <3>2, <3>3, <3>4, <2>1, SameCounts DEF SemIInv, Sem!WaitersExact,
               SemRegistered, Sem!Deregister
  <2>2. CASE ~ Sem!Deregister(t)
    BY <1>0, <2>2 DEF Sem!Acquiring, Sem!Releasing, Sem!AcquireMany, Sem!LoadPermits,
       Sem!AcquireCas,
         Sem!TryAcquireMany, Sem!TryAcquireCas, Sem!Register, Sem!Recheck, Sem!FutexWait,
         Sem!Interrupted,
         Sem!ReleaseMany, Sem!AssertNotOverReleased, Sem!AddPermits, Sem!AddToPermits,
         Sem!LoadWaiters, Sem!Wake,
         Sem!ForgetPermit
  <2> QED BY <2>1, <2>2
<1>4. max_permits' \in Int /\ adds' \in 0..MaxAdds /\ forgets' \in 0..MaxForgets
  BY <1>0 DEF Sem!Acquiring, Sem!Releasing, Sem!AcquireMany, Sem!LoadPermits,
     Sem!AcquireCas,
       Sem!TryAcquireMany, Sem!TryAcquireCas, Sem!Register, Sem!Recheck, Sem!FutexWait,
       Sem!Interrupted, Sem!Deregister,
       Sem!ReleaseMany, Sem!AssertNotOverReleased, Sem!AddPermits, Sem!AddToPermits,
       Sem!LoadWaiters, Sem!Wake,
       Sem!ForgetPermit
<1>5. sem_parked' \subseteq {u \in SemThreads : sem_pc'[u] = "asleep"}
  <2>1. CASE Sem!FutexWait(t)
    BY <1>0, <2>1 DEF Sem!FutexWait, Sem!Goto, Sem!Parked
  <2>2. CASE Sem!Interrupted(t)
    BY <1>0, <2>2 DEF Sem!Interrupted
  <2>3. CASE Sem!Wake(t)
    <3>1. sem_parked' \subseteq sem_parked /\ t \notin sem_parked
      BY <1>0, <2>3 DEF Sem!Wake, Sem!StillParked
    <3> QED BY <1>0, <3>1, <2>3 DEF Sem!Wake, Sem!Return, Sem!Goto
  <2>4. CASE ~ (Sem!FutexWait(t) \/ Sem!Interrupted(t) \/ Sem!Wake(t))
    <3>1. sem_parked' = sem_parked /\ t \notin sem_parked
      BY <1>0, <2>4 DEF Sem!Acquiring, Sem!Releasing, Sem!AcquireMany, Sem!LoadPermits,
         Sem!AcquireCas,
           Sem!TryAcquireMany, Sem!TryAcquireCas, Sem!Register, Sem!Recheck, Sem!Deregister,
           Sem!ReleaseMany, Sem!AssertNotOverReleased, Sem!AddPermits, Sem!AddToPermits,
           Sem!LoadWaiters,
           Sem!ForgetPermit
    <3>2. Frame(t)
      BY <1>0, FrameStep
    <3> QED BY <1>0, <3>1, <3>2 DEF Frame
  <2> QED BY <2>1, <2>2, <2>3, <2>4
<1> QED BY <1>1, <1>2, <1>3, <1>4, <1>5

LEMMA NextSums ==
  ASSUME Sem!SemaphoreAssumption, n' \in [SemThreads -> Amounts \cup {1}],
         snap' \in [SemThreads -> Nat], held' \in [SemThreads -> Nat]
  PROVE  /\ Adding' \in [SemThreads -> Nat]
         /\ Sem!Announced' = Sem!Total(Adding') /\ Sem!Announced' \in Nat
         /\ Sem!Held' = Sem!Total(held') /\ Sem!Held' \in Nat
         /\ Owed' \in [SemThreads -> Nat]
         /\ Sem!Total(Owed)' = Sem!Total(Owed') /\ Sem!Total(Owed') \in Nat
         /\ \A t \in SemThreads : n'[t] \in Nat \ {0}
<1>0. \A t \in SemThreads : n'[t] \in Nat \ {0} /\ n'[t] \in Nat
  <2>1. Amounts \cup {1} \subseteq Nat \ {0}
    BY DEF Sem!SemaphoreAssumption
  <2> QED BY <2>1
<1>1. Adding' \in [SemThreads -> Nat] /\ Owed' \in [SemThreads -> Nat]
  BY <1>0 DEF Adding, Owed
<1>2. /\ Sem!Announced' = Sem!Total(Adding') /\ Sem!Held' = Sem!Total(held')
      /\ Sem!Total(Owed)' = Sem!Total(Owed')
  BY DEF Sem!Announced, Sem!Held, Adding, Sem!Total, Sem!Units
<1> QED BY <1>0, <1>1, <1>2, TotalType

LEMMA ConservedStep ==
  ASSUME Sem!SemaphoreAssumption, SemIInv, NEW t \in SemThreads,
         Sem!Acquiring(t) \/ Sem!Releasing(t)
  PROVE  Sem!PermitsConserved' /\ Sem!TypeOK'
<1>0. /\ permits \in Nat /\ max_permits \in Nat /\ n[t] \in Nat \ {0}
      /\ sem_pc \in [SemThreads -> Sem!PC] /\ n \in [SemThreads -> Amounts \cup {1}]
      /\ snap \in [SemThreads -> Nat] /\ held \in [SemThreads -> Nat]
      /\ \A k \in Amounts : k \in Nat \ {0}
      /\ permits + Sem!Total(held) + Sem!Total(Adding) = max_permits
      /\ Adding \in [SemThreads -> Nat] /\ Sem!Total(Adding) \in Nat /\ Sem!Total(held) \in Nat
      /\ Sem!TypeOK
  BY Types, Sums DEF SemIInv, Sem!PermitsConserved
<1>1. /\ permits' \in Nat /\ waiters' \in Nat /\ max_permits' \in Int
      /\ sem_pc' \in [SemThreads -> Sem!PC] /\ n' \in [SemThreads -> Amounts \cup {1}]
      /\ snap' \in [SemThreads -> Nat] /\ held' \in [SemThreads -> Nat]
      /\ sem_parked' \subseteq {u \in SemThreads : sem_pc'[u] = "asleep"}
      /\ adds' \in 0..MaxAdds /\ forgets' \in 0..MaxForgets
  BY TypeStep
<1>2. /\ Adding' \in [SemThreads -> Nat] /\ Sem!Announced' = Sem!Total(Adding')
      /\ Sem!Held' = Sem!Total(held') /\ Sem!Total(held') \in Nat /\ Sem!Total(Adding') \in Nat
  BY <1>1, NextSums
<1>3. \A u \in SemThreads \ {t} : Adding'[u] = Adding[u] /\ held'[u] = held[u]
  BY <1>0, FrameStep DEF Frame, Adding
<1>4. /\ Adding[t] = IF sem_pc[t] = "add" THEN n[t] ELSE 0
      /\ Adding'[t] = IF sem_pc'[t] = "add" THEN n'[t] ELSE 0
  BY DEF Adding
<1>5. permits' + Sem!Total(held') + Sem!Total(Adding') = max_permits'
  <2>1. CASE Sem!Take(t) /\ sem_pc[t] \in {"cas", "try_cas"} /\ max_permits' = max_permits
    <3>1. /\ sem_pc'[t] = "idle" /\ held'[t] = held[t] + n[t] /\ permits' = permits - n[t]
      BY <1>0, <2>1 DEF Sem!Take, Sem!Return, Sem!Goto
    <3>2. Sem!Total(held') = Sem!Total(held) + n[t]
      BY <3>1, <1>0, <1>1, <1>3, TotalGrows
    <3>3. Sem!Total(Adding') = Sem!Total(Adding)
      BY <3>1, <2>1, <1>0, <1>2, <1>3, <1>4, TotalSame
    <3> QED BY <3>1, <3>2, <3>3, <2>1, <1>0
  <2>2. CASE Sem!ReleaseMany(t)
    <3>1. PICK k \in Amounts :
            /\ k <= held[t] /\ permits' = permits + k /\ held' = [held EXCEPT ![t] = @ - k]
            /\ sem_pc[t] = "idle" /\ sem_pc' = [sem_pc EXCEPT ![t] = "assert"]
            /\ max_permits' = max_permits
      BY <2>2 DEF Sem!ReleaseMany, Sem!Goto
    <3>2. k \in Nat /\ held[t] = held'[t] + k /\ sem_pc'[t] = "assert"
      BY <3>1, <1>0
    <3>3. \A u \in SemThreads \ {t} : held[u] = held'[u]
      BY <1>3
    <3>4. held \in [SemThreads -> Nat] /\ held' \in [SemThreads -> Nat]
      BY <1>0, <1>1
    <3>5. Sem!Total(held) = Sem!Total(held') + k
      BY <3>2, <3>3, <3>4, TotalGrows
    <3>6. Sem!Total(Adding') = Sem!Total(Adding)
      BY <3>1, <3>2, <1>0, <1>2, <1>3, <1>4, TotalSame
    <3>7. /\ permits \in Nat /\ Sem!Total(held') \in Nat /\ Sem!Total(Adding) \in Nat
          /\ permits + Sem!Total(held) + Sem!Total(Adding) = max_permits
      BY <1>0, <1>2
    <3>8. permits' = permits + k /\ max_permits' = max_permits /\ k \in Nat
      BY <3>1, <3>2
    <3> QED BY <3>5, <3>6, <3>7, <3>8
  <2>3. CASE Sem!AddPermits(t)
    <3>1. PICK k \in Amounts :
            /\ max_permits' = max_permits + k /\ n' = [n EXCEPT ![t] = k]
            /\ sem_pc[t] = "idle" /\ sem_pc' = [sem_pc EXCEPT ![t] = "add"]
            /\ permits' = permits /\ held' = held
      BY <2>3 DEF Sem!AddPermits, Sem!Goto
    <3>2. k \in Nat /\ n'[t] = k /\ sem_pc'[t] = "add"
      BY <3>1, <1>0
    <3>3. Adding'[t] = Adding[t] + k
      BY <3>1, <3>2, <1>4
    <3>4. Sem!Total(Adding') = Sem!Total(Adding) + k
      BY <3>2, <3>3, <1>0, <1>2, <1>3, TotalGrows
    <3> QED BY <3>1, <3>2, <3>4, <1>0
  <2>4. CASE Sem!AddToPermits(t)
    <3>1. /\ sem_pc[t] = "add" /\ permits' = permits + n[t] /\ sem_pc'[t] = "waiters"
          /\ max_permits' = max_permits /\ held' = held
      BY <2>4, <1>0 DEF Sem!AddToPermits, Sem!Goto
    <3>2. Adding[t] = Adding'[t] + n[t]
      BY <3>1, <1>0, <1>4
    <3>3. Sem!Total(Adding) = Sem!Total(Adding') + n[t]
      BY <3>2, <1>0, <1>2, <1>3, TotalGrows
    <3> QED BY <3>1, <3>3, <1>0, <1>2
  <2>5. CASE Sem!ForgetPermit(t)
    <3>1. /\ held[t] = held'[t] + 1 /\ max_permits' = max_permits - 1 /\ permits' = permits
          /\ sem_pc' = sem_pc /\ n' = n
      BY <2>5, <1>0 DEF Sem!ForgetPermit
    <3>2. Sem!Total(held) = Sem!Total(held') + 1
      <4>1. /\ held \in [SemThreads -> Nat] /\ held' \in [SemThreads -> Nat] /\ 1 \in Nat
            /\ held[t] = held'[t] + 1 /\ \A u \in SemThreads \ {t} : held[u] = held'[u]
        BY <3>1, <1>0, <1>1, <1>3
      <4> QED BY <4>1, TotalGrows
    <3>3. Sem!Total(Adding') = Sem!Total(Adding)
      BY <3>1 DEF Adding
    <3> QED BY <3>1, <3>2, <3>3, <1>0, <1>2
  <2>6. ASSUME sem_pc[t] # "add", sem_pc'[t] # "add", held' = held,
               UNCHANGED <<permits, max_permits>>
        PROVE  permits' + Sem!Total(held') + Sem!Total(Adding') = max_permits'
    <3>1. Sem!Total(Adding') = Sem!Total(Adding)
      BY <2>6, <1>0, <1>2, <1>3, <1>4, TotalSame
    <3> QED BY <3>1, <2>6, <1>0
  <2>7. CASE Sem!AcquireCas(t) \/ Sem!TryAcquireCas(t)
    BY <2>1, <2>6, <2>7, <1>0 DEF Sem!AcquireCas, Sem!TryAcquireCas, Sem!Return, Sem!Goto
  <2>8. CASE Sem!AcquireMany(t) \/ Sem!LoadPermits(t) \/ Sem!TryAcquireMany(t)
    BY <2>6, <2>8, <1>0 DEF Sem!AcquireMany, Sem!LoadPermits, Sem!TryAcquireMany, Sem!Goto
  <2>9. CASE Sem!Register(t) \/ Sem!Recheck(t) \/ Sem!FutexWait(t) \/ Sem!Interrupted(t)
             \/ Sem!Deregister(t)
    <3>1. Sem!Interrupted(t) => sem_pc[t] = "asleep"
      BY DEF Sem!Interrupted, SemIInv, Sem!TypeOK
    <3> QED BY <3>1, <2>6, <2>9, <1>0
            DEF Sem!Register, Sem!Recheck, Sem!FutexWait, Sem!Interrupted, Sem!Deregister,
            Sem!Goto
  <2>10. CASE Sem!AssertNotOverReleased(t) \/ Sem!LoadWaiters(t) \/ Sem!Wake(t)
    BY <2>6, <2>10, <1>0 DEF Sem!AssertNotOverReleased, Sem!LoadWaiters, Sem!Wake,
       Sem!Return, Sem!Goto
  <2> QED BY <2>2, <2>3, <2>4, <2>5, <2>7, <2>8, <2>9, <2>10 DEF Sem!Acquiring,
             Sem!Releasing
<1>6. Sem!PermitsConserved' /\ max_permits' \in Nat
  BY <1>1, <1>2, <1>5 DEF Sem!PermitsConserved
<1> QED BY <1>1, <1>6 DEF Sem!TypeOK

(* waiters counts the registered threads.                                    *)
LEMMA WaitersStep ==
  ASSUME Sem!SemaphoreAssumption, SemIInv, NEW t \in SemThreads,
         Sem!Acquiring(t) \/ Sem!Releasing(t)
  PROVE  Sem!WaitersExact'
<1>0. /\ waiters = Cardinality(SemRegistered) /\ waiters \in Nat /\ SemRegistered \subseteq SemThreads
      /\ IsFiniteSet(SemRegistered) /\ sem_pc \in [SemThreads -> Sem!PC]
      /\ \A u \in SemThreads \ {t} : sem_pc'[u] = sem_pc[u]
      /\ Sem!WaitersExact' <=> waiters' = Cardinality(SemRegistered')
  <2>1. SemRegistered \subseteq SemThreads
    BY DEF SemRegistered
  <2>2. IsFiniteSet(SemRegistered)
    BY <2>1, ThreadSets
  <2>3. Frame(t)
    BY FrameStep DEF SemIInv
  <2> QED BY <2>1, <2>2, <2>3, SameCounts DEF SemIInv, Sem!WaitersExact, SemRegistered,
             Sem!TypeOK, Frame
<1>1. CASE Sem!Register(t)
  <2>1. /\ SemRegistered' = SemRegistered \cup {t} /\ t \notin SemRegistered /\ waiters' = waiters + 1
    BY <1>0, <1>1 DEF Sem!Register, SemRegistered, Sem!Goto
  <2> QED BY <2>1, <1>0, FS_AddElement
<1>2. CASE Sem!Deregister(t)
  <2>1. /\ SemRegistered' = SemRegistered \ {t} /\ t \in SemRegistered /\ waiters' = waiters - 1
    BY <1>0, <1>2 DEF Sem!Deregister, SemRegistered, Sem!Goto
  <2> QED BY <2>1, <1>0, FS_RemoveElement
<1>3. ASSUME sem_pc[t] \in {"recheck", "wait", "asleep"} <=> sem_pc'[t] \in {"recheck", "wait", "asleep"},
             waiters' = waiters
      PROVE  Sem!WaitersExact'
  <2>1. SemRegistered' = SemRegistered
    BY <1>0, <1>3 DEF SemRegistered
  <2> QED BY <2>1, <1>0, <1>3
<1> USE DEF Sem!Goto, Sem!Return, Sem!Take
<1>4. CASE Sem!AcquireCas(t) \/ Sem!TryAcquireCas(t)
  BY <1>3, <1>4, <1>0 DEF Sem!AcquireCas, Sem!TryAcquireCas
<1>5. CASE Sem!AcquireMany(t) \/ Sem!LoadPermits(t) \/ Sem!TryAcquireMany(t)
  BY <1>3, <1>5, <1>0 DEF Sem!AcquireMany, Sem!LoadPermits, Sem!TryAcquireMany
<1>6. CASE Sem!Recheck(t) \/ Sem!FutexWait(t) \/ Sem!Interrupted(t)
  BY <1>3, <1>6, <1>0 DEF Sem!Recheck, Sem!FutexWait, Sem!Interrupted
<1>7. CASE Sem!ReleaseMany(t) \/ Sem!AssertNotOverReleased(t) \/ Sem!AddPermits(t)
           \/ Sem!AddToPermits(t)
  BY <1>3, <1>7, <1>0 DEF Sem!ReleaseMany, Sem!AssertNotOverReleased, Sem!AddPermits,
     Sem!AddToPermits
<1>8. CASE Sem!LoadWaiters(t) \/ Sem!Wake(t) \/ Sem!ForgetPermit(t)
  BY <1>3, <1>8, <1>0 DEF Sem!LoadWaiters, Sem!Wake, Sem!ForgetPermit
<1> QED BY <1>1, <1>2, <1>4, <1>5, <1>6, <1>7, <1>8 DEF Sem!Acquiring, Sem!Releasing

(* What a thread knows at its next step.                                     *)
LEMMA LocalStep ==
  ASSUME Sem!SemaphoreAssumption, SemIInv, NEW t \in SemThreads,
         Sem!Acquiring(t) \/ Sem!Releasing(t)
  PROVE  WaitsShort' /\ Takes' /\ AssertHolds'
<1>0. /\ permits \in Nat /\ max_permits \in Nat /\ n[t] \in Nat \ {0}
      /\ sem_pc \in [SemThreads -> Sem!PC] /\ n \in [SemThreads -> Amounts \cup {1}]
      /\ snap \in [SemThreads -> Nat] /\ held \in [SemThreads -> Nat]
      /\ \A k \in Amounts : k \in Nat \ {0}
      /\ forgets \in Nat /\ Frame(t)
  BY Types, FrameStep DEF SemIInv, Sem!TypeOK
<1>1. ASSUME sem_pc'[t] = "wait" => snap'[t] < n'[t],
             sem_pc'[t] \in {"cas", "try_cas"} => snap'[t] >= n'[t]
      PROVE  WaitsShort' /\ Takes'
  BY <1>0, <1>1 DEF SemIInv, WaitsShort, Takes, Frame
<1>2. WaitsShort' /\ Takes'
  <2> USE DEF Sem!Goto, Sem!Return, Sem!Take
  <2>1. CASE Sem!AcquireMany(t) \/ Sem!LoadPermits(t) \/ Sem!AcquireCas(t)
    BY <1>0, <1>1, <2>1 DEF Sem!AcquireMany, Sem!LoadPermits, Sem!AcquireCas
  <2>2. CASE Sem!TryAcquireMany(t)
    BY <1>0, <1>1, <2>2 DEF Sem!TryAcquireMany, SemIInv, WaitsShort, Takes
  <2>3. CASE Sem!TryAcquireCas(t) \/ Sem!Register(t) \/ Sem!Recheck(t)
             \/ Sem!FutexWait(t) \/ Sem!Deregister(t)
    BY <1>0, <1>1, <2>3 DEF Sem!TryAcquireCas, Sem!Register, Sem!Recheck, Sem!FutexWait,
       Sem!Deregister
  <2>4. CASE Sem!Interrupted(t) \/ Sem!ForgetPermit(t)
    BY <2>4 DEF Sem!Interrupted, Sem!ForgetPermit, SemIInv, WaitsShort, Takes
  <2>5. CASE Sem!ReleaseMany(t) \/ Sem!AssertNotOverReleased(t) \/ Sem!AddPermits(t)
             \/ Sem!AddToPermits(t)
    BY <1>0, <1>1, <2>5 DEF Sem!ReleaseMany, Sem!AssertNotOverReleased, Sem!AddPermits,
       Sem!AddToPermits
  <2>6. CASE Sem!LoadWaiters(t) \/ Sem!Wake(t)
    BY <1>0, <1>1, <2>6 DEF Sem!LoadWaiters, Sem!Wake
  <2> QED BY <2>1, <2>2, <2>3, <2>4, <2>5, <2>6 DEF Sem!Acquiring, Sem!Releasing
<1>3. ASSUME forgets = 0 => sem_pc'[t] # "panicked" /\ (sem_pc'[t] = "assert" => snap'[t] <= max_permits'),
             max_permits' >= max_permits, max_permits' \in Nat, forgets' = forgets
      PROVE  AssertHolds'
  BY <1>0, <1>3 DEF SemIInv, AssertHolds, Frame
<1>4. AssertHolds'
  <2> USE DEF Sem!Goto, Sem!Return, Sem!Take
  <2>1. CASE Sem!AcquireMany(t) \/ Sem!LoadPermits(t) \/ Sem!AcquireCas(t)
    BY <1>0, <1>3, <2>1 DEF Sem!AcquireMany, Sem!LoadPermits, Sem!AcquireCas
  <2>2. CASE Sem!TryAcquireMany(t)
    BY <1>0, <1>3, <2>2 DEF Sem!TryAcquireMany
  <2>3. CASE Sem!TryAcquireCas(t) \/ Sem!Register(t) \/ Sem!Recheck(t)
             \/ Sem!FutexWait(t) \/ Sem!Deregister(t)
    BY <1>0, <1>3, <2>3 DEF Sem!TryAcquireCas, Sem!Register, Sem!Recheck, Sem!FutexWait,
       Sem!Deregister
  <2>4. CASE Sem!Interrupted(t)
    BY <2>4 DEF Sem!Interrupted, SemIInv, AssertHolds
  <2>5. CASE Sem!ForgetPermit(t)
    <3>1. forgets' # 0
      BY <1>0, <2>5 DEF Sem!ForgetPermit
    <3> QED BY <3>1 DEF AssertHolds
  <2>6. CASE Sem!ReleaseMany(t)
    <3>1. snap'[t] = permits' /\ UNCHANGED <<max_permits, forgets>> /\ sem_pc'[t] = "assert"
      BY <1>0, <2>6 DEF Sem!ReleaseMany
    <3>2. permits' <= max_permits'
      <4>1. Sem!PermitsConserved' /\ Sem!TypeOK'
        BY ConservedStep
      <4>2. /\ permits' \in Nat /\ n' \in [SemThreads -> Amounts \cup {1}]
            /\ snap' \in [SemThreads -> Nat] /\ held' \in [SemThreads -> Nat]
        BY <4>1 DEF Sem!TypeOK
      <4>3. Sem!Held' \in Nat /\ Sem!Announced' \in Nat
        BY <4>2, NextSums
      <4> QED BY <4>1, <4>2, <4>3 DEF Sem!PermitsConserved
    <3> QED BY <3>1, <3>2, <1>0, <1>3
  <2>7. CASE Sem!AssertNotOverReleased(t)
    BY <1>0, <1>3, <2>7 DEF Sem!AssertNotOverReleased, SemIInv, AssertHolds
  <2>8. CASE Sem!AddPermits(t)
    <3>1. max_permits' >= max_permits /\ max_permits' \in Nat /\ sem_pc'[t] = "add"
      BY <1>0, <2>8 DEF Sem!AddPermits
    <3> QED BY <3>1, <1>3, <2>8 DEF Sem!AddPermits
  <2>9. CASE Sem!AddToPermits(t) \/ Sem!LoadWaiters(t) \/ Sem!Wake(t)
    BY <1>0, <1>3, <2>9 DEF Sem!AddToPermits, Sem!LoadWaiters, Sem!Wake
  <2> QED BY <2>1, <2>2, <2>3, <2>4, <2>5, <2>6, <2>7, <2>8, <2>9 DEF Sem!Acquiring,
             Sem!Releasing
<1> QED BY <1>2, <1>4

-----------------------------------------------------------------------------
(* Sleepers stay covered.                                                    *)
Seeking == {"load", "cas", "register", "recheck", "wait", "asleep"}
Due == \E m \in sem_parked \cup Awake : permits < n[m] + Sem!Total(Owed) + Cardinality(Awake)

(* A step of a thread that is not parked, parks nobody and wakes nobody.     *)
LEMMA CoveredFrame ==
  ASSUME Covered, NEW t \in SemThreads, Frame(t), sem_parked' = sem_parked,
         sem_pc[t] \notin {"wake", "panicked"}, sem_parked # {} /\ Due => Covered'
  PROVE  Covered'
<1>1. CASE sem_parked = {}
  BY <1>1 DEF Covered
<1>2. CASE \E u \in SemThreads : sem_pc[u] = "panicked"
  BY <1>2 DEF Covered, Frame
<1>3. CASE \E u \in SemThreads : sem_pc[u] = "wake" /\ Cardinality(sem_parked) <= snap[u]
  BY <1>3 DEF Covered, Frame
<1> QED BY <1>1, <1>2, <1>3 DEF Covered, Due

(* Such a step keeps what is due when it changes neither who is awake nor    *)
(* what is owed, and takes permits rather than gives them.                   *)
LEMMA CoveredQuiet ==
  ASSUME Sem!SemaphoreAssumption, Sem!TypeOK, Sem!TypeOK', Covered,
         NEW t \in SemThreads \ sem_parked, Frame(t),
         sem_parked' = sem_parked, sem_pc[t] \notin {"wake", "panicked"}, permits' <= permits,
         sem_pc[t] \in Seeking <=> sem_pc'[t] \in Seeking, sem_pc[t] \in Seeking => n'[t] = n[t],
         Owed'[t] = Owed[t]
  PROVE  Covered'
<1>0. /\ Owed \in [SemThreads -> Nat] /\ Sem!Total(Owed) \in Nat /\ permits \in Nat
      /\ Owed' \in [SemThreads -> Nat] /\ Sem!Total(Owed)' = Sem!Total(Owed') /\ permits' \in Nat
      /\ \A u \in SemThreads : n[u] \in Nat \ {0} /\ n'[u] \in Nat \ {0}
      /\ sem_parked \subseteq SemThreads
  BY Sums, NextSums, Types DEF Sem!TypeOK
<1>1. Awake' = Awake /\ Awake \subseteq SemThreads /\ Cardinality(Awake) \in Nat
  <2>1. Awake' = Awake /\ Awake \subseteq SemThreads
    BY DEF Awake, Frame, Seeking
  <2> QED BY <2>1, ThreadSets
<1>2. \A u \in SemThreads : Owed'[u] = Owed[u]
  BY DEF Owed, Frame
<1>3. Sem!Total(Owed') = Sem!Total(Owed)
  BY <1>0, <1>2, TotalSame
<1>4. \A m \in sem_parked \cup Awake : n'[m] = n[m] /\ m \in SemThreads
  BY <1>0, <1>1 DEF Frame, Awake, Seeking
<1>5. ASSUME Due PROVE Due'
  <2>1. PICK m \in sem_parked \cup Awake : permits < n[m] + Sem!Total(Owed) + Cardinality(Awake)
    BY <1>5 DEF Due
  <2>2. m \in sem_parked' \cup Awake' /\ permits' < n'[m] + Sem!Total(Owed)' + Cardinality(Awake')
    BY <2>1, <1>0, <1>1, <1>3, <1>4
  <2> QED BY <2>2 DEF Due
<1> QED BY <1>5, CoveredFrame DEF Covered, Due

(* A release gives d permits and owes d wakes.                               *)
LEMMA CoveredGive ==
  ASSUME Sem!SemaphoreAssumption, Sem!TypeOK, Sem!TypeOK', Covered,
         NEW t \in SemThreads \ sem_parked, Frame(t),
         NEW d \in Nat, sem_parked' = sem_parked, sem_pc[t] \notin {"wake", "panicked"} \cup Seeking,
         sem_pc'[t] \notin Seeking, permits' = permits + d, Owed'[t] = Owed[t] + d
  PROVE  Covered'
<1>0. /\ Owed \in [SemThreads -> Nat] /\ Sem!Total(Owed) \in Nat /\ permits \in Nat
      /\ Owed' \in [SemThreads -> Nat] /\ Sem!Total(Owed)' = Sem!Total(Owed')
      /\ \A u \in SemThreads : n[u] \in Nat \ {0} /\ n'[u] \in Nat \ {0}
      /\ sem_parked \subseteq SemThreads
  BY Sums, NextSums, Types DEF Sem!TypeOK
<1>1. Awake' = Awake /\ Awake \subseteq SemThreads /\ Cardinality(Awake) \in Nat
  <2>1. Awake' = Awake /\ Awake \subseteq SemThreads
    BY DEF Awake, Frame, Seeking
  <2> QED BY <2>1, ThreadSets
<1>2. \A u \in SemThreads \ {t} : Owed'[u] = Owed[u]
  BY DEF Owed, Frame
<1>3. Sem!Total(Owed') = Sem!Total(Owed) + d
  BY <1>0, <1>2, TotalGrows
<1>4. \A m \in sem_parked \cup Awake : n'[m] = n[m] /\ m \in SemThreads
  BY <1>0, <1>1 DEF Frame, Awake, Seeking
<1>5. ASSUME Due PROVE Due'
  <2>1. PICK m \in sem_parked \cup Awake : permits < n[m] + Sem!Total(Owed) + Cardinality(Awake)
    BY <1>5 DEF Due
  <2>2. n[m] \in Nat /\ n'[m] = n[m]
    BY <1>0, <1>4
  <2>3. permits' < n'[m] + Sem!Total(Owed') + Cardinality(Awake)
    BY <2>1, <2>2, <1>0, <1>1, <1>3
  <2> QED BY <2>1, <2>3, <1>0, <1>1 DEF Due
<1> QED BY <1>5, CoveredFrame DEF Covered, Due

(* An acquirer that is awake takes its permits and leaves: at least one.     *)
LEMMA CoveredTake ==
  ASSUME Sem!SemaphoreAssumption, Sem!TypeOK, Sem!TypeOK', Covered,
         NEW t \in SemThreads \ sem_parked, Frame(t),
         sem_parked' = sem_parked, sem_pc[t] = "cas", sem_pc'[t] = "idle", permits' = permits - n[t]
  PROVE  Covered'
<1>0. /\ Owed \in [SemThreads -> Nat] /\ Sem!Total(Owed) \in Nat /\ permits \in Nat
      /\ Owed' \in [SemThreads -> Nat] /\ Sem!Total(Owed)' = Sem!Total(Owed')
      /\ \A u \in SemThreads : n[u] \in Nat \ {0} /\ n'[u] \in Nat \ {0}
      /\ sem_parked \subseteq SemThreads
  BY Sums, NextSums, Types DEF Sem!TypeOK
<1>1. /\ Awake' = Awake \ {t} /\ t \in Awake /\ Awake \subseteq SemThreads
  BY DEF Awake, Frame
<1>2. /\ IsFiniteSet(Awake) /\ Cardinality(Awake) \in Nat /\ Cardinality(Awake') \in Nat
      /\ Cardinality(Awake') = Cardinality(Awake) - 1
  <2>1. IsFiniteSet(Awake) /\ Cardinality(Awake) \in Nat /\ Cardinality(Awake \ {t}) \in Nat
    BY <1>1, ThreadSets
  <2> QED BY <2>1, <1>1, FS_RemoveElement
<1>3. \A u \in SemThreads : Owed'[u] = Owed[u]
  BY DEF Owed, Frame
<1>4. Sem!Total(Owed') = Sem!Total(Owed)
  BY <1>0, <1>3, TotalSame
<1>5. ASSUME sem_parked # {}, Due PROVE Due'
  <2>1. PICK m \in sem_parked \cup Awake : permits < n[m] + Sem!Total(Owed) + Cardinality(Awake)
    BY <1>5 DEF Due
  <2>2. CASE m = t
    <3>1. PICK q \in sem_parked : q \in SemThreads /\ q # t
      BY <1>0, <1>5
    <3>2. n'[q] \in Nat /\ n'[q] >= 1 /\ n[t] \in Nat
      BY <3>1, <1>0
    <3>3. permits - n[t] < Sem!Total(Owed) + Cardinality(Awake)
      BY <2>1, <2>2, <3>2, <1>0, <1>2
    <3>4. permits' < Sem!Total(Owed') + Cardinality(Awake') + 1
      BY <3>2, <3>3, <1>0, <1>2, <1>4
    <3>5. permits' < n'[q] + Sem!Total(Owed') + Cardinality(Awake')
      BY <3>2, <3>4, <1>0, <1>2, <1>4
    <3> QED BY <3>1, <3>5, <1>0 DEF Due
  <2>3. CASE m # t
    <3>1. m \in sem_parked' \cup Awake' /\ n'[m] = n[m] /\ n[m] \in Nat /\ n[t] \in Nat \ {0}
      BY <2>1, <2>3, <1>0, <1>1 DEF Frame
    <3>2. permits' < n'[m] + Sem!Total(Owed') + Cardinality(Awake')
      <4>1. permits' = permits - n[t] /\ Cardinality(Awake') = Cardinality(Awake) - 1
        BY <1>2
      <4> QED BY <2>1, <3>1, <4>1, <1>0, <1>2, <1>4
    <3> QED BY <3>1, <3>2, <1>0 DEF Due
  <2> QED BY <2>2, <2>3
<1> QED BY <1>5, CoveredFrame DEF Covered, Due

(* A new acquirer.                                                           *)
LEMMA CoveredEnter ==
  ASSUME Sem!SemaphoreAssumption, Sem!TypeOK, Sem!TypeOK', Covered,
         NEW t \in SemThreads \ sem_parked, Frame(t),
         sem_parked' = sem_parked, sem_pc[t] = "idle", sem_pc'[t] = "load", permits' = permits
  PROVE  Covered'
<1>0. /\ Owed \in [SemThreads -> Nat] /\ Sem!Total(Owed) \in Nat /\ permits \in Nat
      /\ Owed' \in [SemThreads -> Nat] /\ Sem!Total(Owed)' = Sem!Total(Owed')
      /\ \A u \in SemThreads : n[u] \in Nat \ {0} /\ n'[u] \in Nat \ {0}
      /\ sem_parked \subseteq SemThreads
  BY Sums, NextSums, Types DEF Sem!TypeOK
<1>1. /\ Awake' = Awake \cup {t} /\ t \notin Awake /\ Awake \subseteq SemThreads
  BY DEF Awake, Frame
<1>2. Cardinality(Awake) \in Nat /\ Cardinality(Awake') = Cardinality(Awake) + 1
  <2>1. IsFiniteSet(Awake) /\ Cardinality(Awake) \in Nat
    BY <1>1, ThreadSets
  <2> QED BY <2>1, <1>1, FS_AddElement
<1>3. \A u \in SemThreads : Owed'[u] = Owed[u]
  BY DEF Owed, Frame
<1>4. Sem!Total(Owed') = Sem!Total(Owed)
  BY <1>0, <1>3, TotalSame
<1>5. ASSUME Due PROVE Due'
  <2>1. PICK m \in sem_parked \cup Awake : permits < n[m] + Sem!Total(Owed) + Cardinality(Awake)
    BY <1>5 DEF Due
  <2>2. m \in sem_parked' \cup Awake' /\ n'[m] = n[m] /\ n[m] \in Nat
    BY <2>1, <1>0, <1>1 DEF Frame
  <2>3. permits' < n'[m] + Sem!Total(Owed') + Cardinality(Awake')
    BY <2>1, <2>2, <1>0, <1>2, <1>4
  <2> QED BY <2>2, <2>3, <1>0 DEF Due
<1> QED BY <1>5, CoveredFrame DEF Covered, Due

(* A thread parks because the word is what it saw, too small for its call.   *)
LEMMA CoveredPark ==
  ASSUME Sem!SemaphoreAssumption, Sem!TypeOK, Sem!TypeOK', NEW t \in SemThreads,
         t \in sem_parked', permits < n[t], permits' = permits, n' = n
  PROVE  Covered'
<1>0. /\ Sem!Total(Owed)' = Sem!Total(Owed') /\ Sem!Total(Owed') \in Nat /\ permits \in Nat
      /\ n[t] \in Nat
  BY NextSums, Types DEF Sem!TypeOK
<1>1. Awake' \subseteq SemThreads
  BY DEF Awake
<1>2. Cardinality(Awake') \in Nat
  BY <1>1, ThreadSets
<1>3. permits' < n'[t] + Sem!Total(Owed)' + Cardinality(Awake')
  BY <1>0, <1>2
<1> QED BY <1>3 DEF Covered

(* Sleepers wake up: as many as leave are awake now, and as many wakes have  *)
(* been sent as are no longer owed.                                          *)
LEMMA CoveredWakeUp ==
  ASSUME Sem!SemaphoreAssumption, Sem!TypeOK, Sem!TypeOK', Covered, NEW W \in SUBSET sem_parked,
         sem_parked' = sem_parked \ W, permits' = permits, \A u \in sem_parked \cup Awake : n'[u] = n[u],
         \A u \in SemThreads : sem_pc[u] \in Seeking \cup {"panicked"} => sem_pc'[u] = sem_pc[u],
         \A u \in SemThreads : sem_pc[u] \notin Seeking => sem_pc'[u] \notin Seeking,
         Sem!Total(Owed') + Cardinality(W) >= Sem!Total(Owed),
         sem_parked' # {} => \A u \in SemThreads : sem_pc[u] = "wake" /\ Cardinality(sem_parked) <= snap[u]
                                              => sem_pc'[u] = "wake" /\ snap'[u] = snap[u]
  PROVE  Covered'
<1>0. /\ Sem!Total(Owed) \in Nat /\ permits \in Nat /\ Sem!Total(Owed)' = Sem!Total(Owed')
      /\ Sem!Total(Owed') \in Nat
      /\ \A u \in SemThreads : n[u] \in Nat \ {0} /\ n'[u] \in Nat \ {0} /\ snap[u] \in Nat
      /\ sem_parked \subseteq {u \in SemThreads : sem_pc[u] = "asleep"}
  BY Sums, NextSums, Types DEF Sem!TypeOK
<1>1. /\ Awake' = Awake \cup W /\ Awake \cap W = {}
      /\ Awake \subseteq SemThreads /\ W \subseteq SemThreads /\ sem_parked \subseteq SemThreads
  BY <1>0 DEF Awake, Seeking
<1>2. /\ Cardinality(Awake) \in Nat /\ Cardinality(W) \in Nat
      /\ Cardinality(Awake') = Cardinality(Awake) + Cardinality(W)
  <2>1. /\ IsFiniteSet(Awake) /\ Cardinality(Awake) \in Nat
        /\ IsFiniteSet(W) /\ Cardinality(W) \in Nat
    BY <1>1, ThreadSets
  <2>2. Cardinality(Awake \cap W) = 0
    BY <1>1, FS_EmptySet
  <2>3. Cardinality(Awake \cup W) = Cardinality(Awake) + Cardinality(W) - Cardinality(Awake \cap W)
    BY <2>1, FS_Union
  <2> QED BY <2>1, <2>2, <2>3, <1>1
<1>3. CASE sem_parked' = {}
  BY <1>3 DEF Covered
<1>4. CASE sem_parked' # {} /\ \E u \in SemThreads : sem_pc[u] = "panicked"
  BY <1>4 DEF Covered
<1>5. CASE sem_parked' # {} /\ \E u \in SemThreads : sem_pc[u] = "wake" /\ Cardinality(sem_parked) <= snap[u]
  <2>1. PICK u \in SemThreads : sem_pc[u] = "wake" /\ Cardinality(sem_parked) <= snap[u]
    BY <1>5
  <2>2. /\ IsFiniteSet(sem_parked) /\ Cardinality(sem_parked) \in Nat
        /\ Cardinality(sem_parked') \in Nat
    BY <1>1, ThreadSets
  <2>3. Cardinality(sem_parked') <= Cardinality(sem_parked)
    BY <2>2, FS_Subset
  <2>4. Cardinality(sem_parked') <= snap[u]
    BY <2>1, <2>2, <2>3, <1>0
  <2> QED BY <2>1, <2>4, <1>5 DEF Covered
<1>6. CASE Due
  <2>1. PICK m \in sem_parked \cup Awake : permits < n[m] + Sem!Total(Owed) + Cardinality(Awake)
    BY <1>6 DEF Due
  <2>2. m \in sem_parked' \cup Awake' /\ n'[m] = n[m] /\ n[m] \in Nat
    BY <2>1, <1>0, <1>1
  <2>3. permits' < n'[m] + Sem!Total(Owed') + Cardinality(Awake')
    BY <2>1, <2>2, <1>0, <1>2
  <2> QED BY <2>2, <2>3, <1>0 DEF Covered
<1>7. sem_parked = {} => sem_parked' = {}
  OBVIOUS
<1> QED BY <1>3, <1>4, <1>5, <1>6, <1>7 DEF Covered, Due

LEMMA CoveredStep ==
  ASSUME Sem!SemaphoreAssumption, SemIInv, Sem!TypeOK', NEW t \in SemThreads,
         Sem!Acquiring(t) \/ Sem!Releasing(t)
  PROVE  Covered'
<1>0. /\ permits \in Nat /\ waiters \in Nat /\ n[t] \in Nat \ {0}
      /\ sem_pc \in [SemThreads -> Sem!PC] /\ n \in [SemThreads -> Amounts \cup {1}]
      /\ snap \in [SemThreads -> Nat] /\ \A k \in Amounts : k \in Nat \ {0}
      /\ sem_parked \subseteq {u \in SemThreads : sem_pc[u] = "asleep"}
      /\ Sem!TypeOK /\ Covered /\ Frame(t) /\ permits' \in Nat
  BY Types, FrameStep DEF SemIInv, Sem!TypeOK
<1>1. /\ Owed[t] = IF sem_pc[t] \in {"assert", "waiters"} THEN n[t]
                   ELSE IF sem_pc[t] = "wake" THEN snap[t] ELSE 0
      /\ Owed'[t] = IF sem_pc'[t] \in {"assert", "waiters"} THEN n'[t]
                    ELSE IF sem_pc'[t] = "wake" THEN snap'[t] ELSE 0
  BY DEF Owed
<1>2. ASSUME t \notin sem_parked, sem_parked' = sem_parked, sem_pc[t] \notin {"wake", "panicked"},
             permits' <= permits, sem_pc[t] \in Seeking <=> sem_pc'[t] \in Seeking,
             sem_pc[t] \in Seeking => n'[t] = n[t], Owed'[t] = Owed[t]
      PROVE  Covered'
  BY <1>0, <1>2, CoveredQuiet
<1>3. CASE Sem!AcquireMany(t)
  <2>1. /\ t \notin sem_parked /\ sem_parked' = sem_parked /\ sem_pc[t] = "idle" /\ sem_pc'[t] = "load"
        /\ permits' = permits
    BY <1>0, <1>3 DEF Sem!AcquireMany, Sem!Goto
  <2> QED BY <2>1, <1>0, CoveredEnter
<1>4. CASE Sem!LoadPermits(t) \/ Sem!Register(t) \/ Sem!Recheck(t)
  <2>1. /\ sem_pc[t] \in {"load", "register", "recheck"} /\ n' = n /\ permits' = permits
        /\ sem_pc'[t] \in {"cas", "register", "recheck", "wait", "asleep"} /\ sem_parked' = sem_parked
    BY <1>0, <1>4 DEF Sem!LoadPermits, Sem!Register, Sem!Recheck, Sem!Goto
  <2> QED BY <2>1, <1>0, <1>1, <1>2 DEF Seeking
<1>5. CASE Sem!AcquireCas(t)
  <2>1. sem_pc[t] = "cas" /\ sem_parked' = sem_parked /\ t \notin sem_parked
    BY <1>0, <1>5 DEF Sem!AcquireCas
  <2>2. CASE Sem!Take(t)
    <3>1. permits' = permits - n[t] /\ sem_pc'[t] = "idle"
      BY <2>2, <1>0 DEF Sem!Take, Sem!Return, Sem!Goto
    <3> QED BY <2>1, <3>1, <1>0, CoveredTake
  <2>3. CASE ~ Sem!Take(t)
    <3>1. sem_pc'[t] = "load" /\ permits' = permits /\ n' = n
      BY <2>3, <1>0, <1>5 DEF Sem!AcquireCas, Sem!Goto
    <3> QED BY <2>1, <3>1, <1>0, <1>1, <1>2 DEF Seeking
  <2> QED BY <2>2, <2>3
<1>6. CASE Sem!TryAcquireMany(t)
  <2>1. /\ sem_pc[t] = "idle" /\ sem_pc'[t] \in {"idle", "try_cas"} /\ sem_parked' = sem_parked
        /\ permits' = permits /\ t \notin sem_parked
    BY <1>0, <1>6 DEF Sem!TryAcquireMany, Sem!Goto
  <2> QED BY <2>1, <1>0, <1>1, <1>2 DEF Seeking
<1>7. CASE Sem!TryAcquireCas(t)
  <2>1. /\ sem_pc[t] = "try_cas" /\ sem_pc'[t] = "idle" /\ sem_parked' = sem_parked /\ t \notin sem_parked
    BY <1>0, <1>7 DEF Sem!TryAcquireCas, Sem!Take, Sem!Return, Sem!Goto
  <2>2. permits' <= permits
    BY <1>0, <1>7 DEF Sem!TryAcquireCas, Sem!Take
  <2> QED BY <2>1, <2>2, <1>0, <1>1, <1>2 DEF Seeking
<1>8. CASE Sem!FutexWait(t)
  <2>1. /\ sem_pc[t] = "wait" /\ sem_pc'[t] = "asleep" /\ permits' = permits /\ n' = n
        /\ sem_parked' = IF permits = snap[t] THEN sem_parked \cup {t} ELSE sem_parked
    BY <1>0, <1>8 DEF Sem!FutexWait, Sem!Goto, Sem!Parked
  <2>2. CASE permits = snap[t]
    <3>1. permits < n[t]
      BY <2>1, <2>2 DEF SemIInv, WaitsShort
    <3> QED BY <2>1, <2>2, <3>1, <1>0, CoveredPark
  <2>3. CASE permits # snap[t]
    BY <2>1, <2>3, <1>0, <1>1, <1>2 DEF Seeking
  <2> QED BY <2>2, <2>3
<1>9. CASE Sem!Interrupted(t)
  <2>1. /\ {t} \in SUBSET sem_parked /\ sem_parked' = sem_parked \ {t} /\ permits' = permits
        /\ UNCHANGED <<sem_pc, n, snap>>
    BY <1>9 DEF Sem!Interrupted
  <2>2. Owed' = Owed
    BY <2>1 DEF Owed
  <2>3. Sem!Total(Owed') + Cardinality({t}) >= Sem!Total(Owed)
    <3>1. Sem!Total(Owed) \in Nat
      BY <1>0, Sums
    <3>2. Cardinality({t}) = 1
      BY FS_Singleton
    <3> QED BY <3>1, <3>2, <2>2
  <2> QED BY <2>1, <2>3, <1>0, CoveredWakeUp
<1>10. CASE Sem!Deregister(t)
  <2>1. /\ sem_pc[t] = "asleep" /\ sem_pc'[t] = "load" /\ sem_parked' = sem_parked /\ n' = n
        /\ permits' = permits /\ t \notin sem_parked
    BY <1>0, <1>10 DEF Sem!Deregister, Sem!Goto
  <2> QED BY <2>1, <1>0, <1>1, <1>2 DEF Seeking
<1>11. CASE Sem!ReleaseMany(t)
  <2>1. PICK k \in Amounts : /\ permits' = permits + k /\ n' = [n EXCEPT ![t] = k]
                             /\ sem_pc[t] = "idle" /\ sem_pc' = [sem_pc EXCEPT ![t] = "assert"]
                             /\ sem_parked' = sem_parked
    BY <1>11 DEF Sem!ReleaseMany, Sem!Goto
  <2>2. k \in Nat /\ sem_pc'[t] = "assert" /\ n'[t] = k /\ t \notin sem_parked
    BY <2>1, <1>0
  <2>3. Owed'[t] = Owed[t] + k
    BY <2>1, <2>2, <1>1
  <2> QED BY <2>1, <2>2, <2>3, <1>0, CoveredGive DEF Seeking
<1>12. CASE Sem!AssertNotOverReleased(t)
  <2>1. /\ sem_pc[t] = "assert" /\ sem_pc'[t] \in {"waiters", "panicked"} /\ sem_parked' = sem_parked
        /\ permits' = permits /\ n' = n /\ t \notin sem_parked
    BY <1>0, <1>12 DEF Sem!AssertNotOverReleased, Sem!Goto
  <2>2. CASE sem_pc'[t] = "panicked"
    BY <2>2 DEF Covered
  <2>3. CASE sem_pc'[t] = "waiters"
    BY <2>1, <2>3, <1>0, <1>1, <1>2 DEF Seeking
  <2> QED BY <2>1, <2>2, <2>3
<1>13. CASE Sem!AddPermits(t)
  <2>1. /\ sem_pc[t] = "idle" /\ sem_pc'[t] = "add" /\ sem_parked' = sem_parked /\ permits' = permits
        /\ t \notin sem_parked
    BY <1>0, <1>13 DEF Sem!AddPermits, Sem!Goto
  <2> QED BY <2>1, <1>0, <1>1, <1>2 DEF Seeking
<1>14. CASE Sem!AddToPermits(t)
  <2>1. /\ sem_pc[t] = "add" /\ sem_pc'[t] = "waiters" /\ sem_parked' = sem_parked /\ n' = n
        /\ permits' = permits + n[t] /\ t \notin sem_parked
    BY <1>0, <1>14 DEF Sem!AddToPermits, Sem!Goto
  <2>2. Owed'[t] = Owed[t] + n[t] /\ n[t] \in Nat
    BY <2>1, <1>0, <1>1
  <2> QED BY <2>1, <2>2, <1>0, CoveredGive DEF Seeking
<1>15. CASE Sem!LoadWaiters(t)
  <2>1. sem_pc[t] = "waiters" /\ sem_parked' = sem_parked /\ permits' = permits /\ t \notin sem_parked
    BY <1>0, <1>15 DEF Sem!LoadWaiters
  <2>2. /\ Cardinality(sem_parked) <= waiters /\ Cardinality(sem_parked) \in Nat
        /\ IsFiniteSet(sem_parked)
    <3>1. sem_parked \subseteq SemRegistered /\ SemRegistered \subseteq SemThreads
      BY <1>0 DEF SemRegistered
    <3>2. IsFiniteSet(SemRegistered) /\ IsFiniteSet(sem_parked) /\ Cardinality(sem_parked) \in Nat
      BY <3>1, ThreadSets
    <3>3. Cardinality(sem_parked) <= Cardinality(SemRegistered)
      BY <3>1, <3>2, FS_Subset
    <3> QED BY <3>2, <3>3, SameCounts DEF SemIInv, Sem!WaitersExact, SemRegistered
  <2>3. CASE ~ (waiters > 0)
    <3>1. Cardinality(sem_parked) = 0
      BY <2>2, <2>3, <1>0
    <3>2. sem_parked = {}
      BY <3>1, <2>2, FS_EmptySet
    <3> QED BY <3>2, <2>1 DEF Covered
  <2>4. CASE waiters > 0
    <3>1. /\ sem_pc'[t] = "wake" /\ n' = n
          /\ snap'[t] = IF n[t] < waiters THEN n[t] ELSE waiters
      BY <2>4, <1>0, <1>15 DEF Sem!LoadWaiters, Sem!Goto
    <3>2. CASE n[t] < waiters
      BY <3>1, <3>2, <2>1, <1>0, <1>1, <1>2 DEF Seeking
    <3>3. CASE ~ (n[t] < waiters)
      BY <3>1, <3>3, <2>1, <2>2 DEF Covered
    <3> QED BY <3>2, <3>3
  <2> QED BY <2>3, <2>4
<1>16. CASE Sem!Wake(t)
  <2>1. /\ sem_pc[t] = "wake" /\ sem_parked' \in Sem!StillParked(sem_parked, snap[t]) /\ sem_pc'[t] = "idle"
        /\ permits' = permits /\ t \notin sem_parked
    BY <1>0, <1>16 DEF Sem!Wake, Sem!Return, Sem!Goto
  <2>2. /\ IsFiniteSet(sem_parked) /\ Cardinality(sem_parked) \in Nat /\ snap[t] \in Nat
    BY <1>0, ThreadSets
  <2>3. /\ sem_parked' \subseteq sem_parked
        /\ Cardinality(sem_parked') = IF Cardinality(sem_parked) <= snap[t] THEN 0
                                      ELSE Cardinality(sem_parked) - snap[t]
    BY <2>1, SameCounts DEF Sem!StillParked
  <2>4. CASE Cardinality(sem_parked) <= snap[t]
    <3>1. IsFiniteSet(sem_parked') /\ Cardinality(sem_parked') = 0
      BY <2>2, <2>3, <2>4, FS_Subset
    <3>2. sem_parked' = {}
      BY <3>1, FS_EmptySet
    <3> QED BY <3>2 DEF Covered
  <2>5. CASE ~ (Cardinality(sem_parked) <= snap[t])
    <3> DEFINE W == sem_parked \ sem_parked'
    <3>1. W \in SUBSET sem_parked /\ sem_parked' = sem_parked \ W /\ sem_parked \cap sem_parked' = sem_parked'
      BY <2>3
    <3>2. Cardinality(W) = snap[t]
      <4>1. Cardinality(W) = Cardinality(sem_parked) - Cardinality(sem_parked \cap sem_parked')
        BY <2>2, FS_Difference
      <4> QED BY <4>1, <3>1, <2>2, <2>3, <2>5
    <3>3. Sem!Total(Owed) = Sem!Total(Owed') + snap[t]
      <4>1. /\ Owed \in [SemThreads -> Nat] /\ Owed' \in [SemThreads -> Nat]
        BY <1>0, Sums, NextSums DEF Sem!TypeOK
      <4>2. \A u \in SemThreads \ {t} : Owed[u] = Owed'[u]
        BY <1>0 DEF Owed, Frame
      <4>3. Owed[t] = Owed'[t] + snap[t]
        BY <2>1, <2>2, <1>1
      <4> QED BY <4>1, <4>2, <4>3, <2>2, TotalGrows
    <3>4. Sem!Total(Owed') + Cardinality(W) >= Sem!Total(Owed)
      <4>1. Sem!Total(Owed') \in Nat
        BY <1>0, NextSums DEF Sem!TypeOK
      <4> QED BY <4>1, <3>2, <3>3, <2>2
    <3>5. \A u \in sem_parked \cup Awake : u # t /\ u \in SemThreads
      BY <2>1, <1>0 DEF Awake
    <3>6. \A u \in sem_parked \cup Awake : n'[u] = n[u]
      BY <3>5, <1>0 DEF Frame
    <3>7. /\ \A u \in SemThreads : sem_pc[u] \in Seeking \cup {"panicked"} => sem_pc'[u] = sem_pc[u]
          /\ \A u \in SemThreads : sem_pc[u] \notin Seeking => sem_pc'[u] \notin Seeking
      BY <2>1, <1>0 DEF Frame, Seeking
    <3>8. \A u \in SemThreads : sem_pc[u] = "wake" /\ Cardinality(sem_parked) <= snap[u] =>
                               sem_pc'[u] = "wake" /\ snap'[u] = snap[u]
      BY <2>5, <1>0 DEF Frame
    <3> HIDE DEF W
    <3> QED BY <3>1, <3>4, <3>6, <3>7, <3>8, <2>1, <1>0, CoveredWakeUp
  <2> QED BY <2>4, <2>5
<1>17. CASE Sem!ForgetPermit(t)
  <2>1. /\ sem_pc[t] = "idle" /\ sem_pc'[t] = "idle" /\ sem_parked' = sem_parked /\ permits' = permits
        /\ t \notin sem_parked
    BY <1>0, <1>17 DEF Sem!ForgetPermit
  <2> QED BY <2>1, <1>0, <1>1, <1>2 DEF Seeking
<1> QED BY <1>3, <1>4, <1>5, <1>6, <1>7, <1>8, <1>9, <1>10, <1>11, <1>12, <1>13, <1>14,
           <1>15, <1>16, <1>17 DEF Sem!Acquiring, Sem!Releasing

-----------------------------------------------------------------------------
LEMMA SemInitIInv ==
  ASSUME Sem!SemaphoreAssumption, Sem!Init
  PROVE  SemIInv
<1> USE DEF Sem!Init
<1>1. Sem!TypeOK
  BY DEF Sem!TypeOK, Sem!PC, Sem!SemaphoreAssumption
<1>2. Sem!Held = 0 /\ Sem!Announced = 0
  <2>1. Sem!Units(held) = {} /\ Sem!Units([t \in SemThreads |-> IF sem_pc[t] = "add" THEN n[t] ELSE 0]) = {}
    BY DEF Sem!Units
  <2> QED BY <2>1, FS_EmptySet, SameCounts DEF Sem!Held, Sem!Announced, Sem!Total
<1>3. Sem!PermitsConserved
  BY <1>2 DEF Sem!PermitsConserved, Sem!SemaphoreAssumption
<1>4. Sem!WaitersExact
  <2>1. {t \in SemThreads : sem_pc[t] \in {"recheck", "wait", "asleep"}} = {}
    OBVIOUS
  <2> QED BY <2>1, FS_EmptySet, SameCounts DEF Sem!WaitersExact
<1>5. WaitsShort /\ Takes /\ AssertHolds /\ Covered
  BY DEF WaitsShort, Takes, AssertHolds, Covered
<1> QED BY <1>1, <1>3, <1>4, <1>5 DEF SemIInv

LEMMA SemNextIInv ==
  ASSUME Sem!SemaphoreAssumption, SemIInv, [Sem!Next]_(Sem!vars)
  PROVE  SemIInv'
<1>1. ASSUME NEW t \in SemThreads, Sem!Acquiring(t) \/ Sem!Releasing(t) PROVE SemIInv'
  <2>1. Sem!PermitsConserved' /\ Sem!TypeOK'
    BY <1>1, ConservedStep
  <2>2. Sem!WaitersExact' /\ WaitsShort' /\ Takes' /\ AssertHolds'
    BY <1>1, WaitersStep, LocalStep
  <2>3. Covered'
    BY <1>1, <2>1, CoveredStep
  <2> QED BY <2>1, <2>2, <2>3 DEF SemIInv
<1>2. CASE UNCHANGED Sem!vars
  <2>1. UNCHANGED <<permits, max_permits, waiters, sem_parked, sem_pc, n, snap, held, adds, forgets>>
    BY <1>2 DEF Sem!vars
  <2>2. Sem!TypeOK'
    BY <2>1 DEF SemIInv, Sem!TypeOK
  <2>3. Sem!PermitsConserved'
    BY <2>1 DEF SemIInv, Sem!PermitsConserved, Sem!Held, Sem!Announced, Sem!Total, Sem!Units
  <2>4. Sem!WaitersExact' /\ WaitsShort' /\ Takes' /\ AssertHolds'
    BY <2>1 DEF SemIInv, Sem!WaitersExact, WaitsShort, Takes, AssertHolds
  <2>5. Awake' = Awake /\ Owed' = Owed
    BY <2>1 DEF Awake, Owed
  <2>6. Covered'
    BY <2>1, <2>5 DEF SemIInv, Covered, Sem!Total, Sem!Units
  <2> QED BY <2>2, <2>3, <2>4, <2>6 DEF SemIInv
<1> QED BY <1>1, <1>2 DEF Sem!Next

(* In the composition of the two locks a step is one of the Semaphore or     *)
(* leaves it alone.                                                          *)
LEMMA SemAlways == LocksSpec => []SemIInv
<1>1. LocksInit => SemIInv
  BY LocksAssumption, SemInitIInv DEF LocksInit
<1>2. SemIInv /\ [LocksNext]_<<client, vars, semVars>> => SemIInv'
  <2>1. [LocksNext]_<<client, vars, semVars>> => [Sem!Next]_(Sem!vars)
    BY DEF LocksNext, semVars, Sem!vars
  <2> QED BY <2>1, LocksAssumption, SemNextIInv
<1> QED BY <1>1, <1>2, PTL DEF LocksSpec

(* No permit is created or lost by a race, and waiters counts the threads    *)
(* between registration and deregistration.                                  *)
THEOREM SemaphorePermitsConserved == LocksSpec => []PermitsConserved
<1>1. SemIInv => PermitsConserved
  BY DEF SemIInv, PermitsConserved
<1> QED BY <1>1, SemAlways, PTL

(* A caller that returns what it took never meets "Semaphore released more   *)
(* than acquired", as long as nobody forgets a permit.                       *)
THEOREM SemaphoreReleaseAssertHolds == LocksSpec => []ReleaseAssertHolds
<1>1. SemIInv => ReleaseAssertHolds
  BY DEF SemIInv, AssertHolds, ReleaseAssertHolds, Sem!ReleaseAssertHolds
<1> QED BY <1>1, SemAlways, PTL

(* While nobody has forgotten a permit and there are enough for the largest  *)
(* call that waits, nobody sleeps unless an acquirer is awake or a releaser  *)
(* is on its way to its wake.                                                *)
THEOREM SemaphoreSleepersServed == LocksSpec => []SleepersServed
<1>1. SemIInv => SleepersServed
  <2> SUFFICES ASSUME SemIInv, forgets = 0, sem_parked # {},
                      \A t \in Sem!Acquirers : n[t] <= permits,
                      \A t \in SemThreads : /\ t \notin Sem!Acquirers \ sem_parked
                                            /\ sem_pc[t] \notin {"assert", "waiters", "wake"}
               PROVE  FALSE
    BY DEF SleepersServed, Sem!SleepersServed
  <2>1. sem_parked \subseteq {t \in SemThreads : sem_pc[t] = "asleep"}
    BY DEF SemIInv, Sem!TypeOK
  <2>2. Awake = {} /\ Owed = [t \in SemThreads |-> 0]
    BY <2>1 DEF Awake, Owed, Seeking, Sem!Acquirers
  <2>3. Cardinality(Awake) = 0 /\ Sem!Total(Owed) = 0
    <3>1. Sem!Units(Owed) = {}
      BY <2>2 DEF Sem!Units
    <3> QED BY <3>1, <2>2, FS_EmptySet, SameCounts DEF Sem!Total
  <2>4. ~ \E t \in SemThreads : sem_pc[t] \in {"panicked", "wake"}
    BY DEF SemIInv, AssertHolds, Sem!ReleaseAssertHolds
  <2>5. PICK m \in sem_parked : permits < n[m] + 0 + 0
    BY <2>2, <2>3, <2>4 DEF SemIInv, Covered
  <2>6. permits \in Nat /\ n[m] \in Nat /\ m \in Sem!Acquirers
    BY <2>1, LocksAssumption, Types DEF SemIInv, Sem!Acquirers
  <2> QED BY <2>5, <2>6
<1> QED BY <1>1, SemAlways, PTL
=============================================================================
