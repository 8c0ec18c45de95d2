--------------------------- MODULE BarriersProofs ---------------------------
(***************************************************************************)
(* The Barrier keeps its threads in step and names one leader per          *)
(* generation, for any set of threads, any size of the barrier and any     *)
(* number of rounds, spurious wakeups and timeouts of the condition        *)
(* variable included.  The CountDownLatch of the same file lets nobody     *)
(* through before the count is zero.                                       *)
(***************************************************************************)
EXTENDS MCBarriers, FiniteSetTheorems, TLAPS

(* The Barrier counts with the operators this module counts with.            *)
LEMMA SameCounts ==
  /\ \A S : Bar!Cardinality(S) = Cardinality(S)
  /\ \A S : Bar!IsFiniteSet(S) <=> IsFiniteSet(S)
BY DEF Cardinality, Bar!Cardinality, IsFiniteSet, Bar!IsFiniteSet

(* The diagnostic count of the Condvar is the number of threads registered.  *)
Registered == {t \in BarThreads : bar_cv[t] \in {"snap", "drop", "wait", "asleep"}}
WaitersCounted == bar_waiters = Cardinality(Registered)

(* The mutex is held wherever wait() touches the state, and a call of the    *)
(* Condvar is made from two places only.                                     *)
Guarded ==
  \A t \in BarThreads :
    /\ bar_pc[t] \in {"arrive", "notify", "leave", "lead"} => bar_owner = t
    /\ bar_pc[t] = "loop" /\ bar_cv[t] \in {"out", "snap", "drop"} => bar_owner = t
    /\ bar_pc[t] \in {"idle", "arrive", "notify", "leave"} => bar_cv[t] = "out"
    /\ bar_pc[t] = "lead" => bar_cv[t] \in {"out", "wake_all"}
    /\ bar_pc[t] = "loop" => bar_cv[t] \notin {"wake_one", "wake_all"}

(* A thread takes part in a generation at most once, and is past it when it  *)
(* leaves.                                                                   *)
InStep ==
  \A t \in BarThreads :
    /\ bar_pc[t] \in {"idle", "arrive"} =>
         arrivals[t] = departures[t] /\ arrivals[t] <= generation
    /\ bar_pc[t] = "arrive" => arrivals[t] < MaxRounds
    /\ bar_pc[t] \notin {"idle", "arrive"} =>
         /\ arrivals[t] = departures[t] + 1
         /\ departures[t] <= my_generation[t]
         /\ my_generation[t] <= generation
    /\ bar_pc[t] \in {"notify", "leave", "lead"} => my_generation[t] < generation

(* With all the threads on board, the count says who is in the generation    *)
(* already, and nobody is behind it.                                         *)
Arrivals == {t \in BarThreads : arrivals[t] > generation}
AllOnBoard ==
  Cardinality(BarThreads) = num_threads =>
    /\ bar_count = Cardinality(Arrivals)
    /\ \A t \in BarThreads : generation <= arrivals[t]

(* A generation that is over has its leader, told or about to be told.       *)
Led ==
  /\ \A l \in leaders : l[1] < generation
  /\ \A a, b \in leaders : a[1] = b[1] => a = b
  /\ \A t \in BarThreads : bar_pc[t] \in {"notify", "lead"} =>
       \A l \in leaders : l[1] # my_generation[t]
  /\ \A g \in 0 .. generation - 1 :
       \/ \E l \in leaders : l[1] = g
       \/ \E t \in BarThreads : bar_pc[t] \in {"notify", "lead"} /\ my_generation[t] = g

IInv == /\ Bar!TypeOK /\ WaitersCounted /\ Guarded /\ InStep /\ AllOnBoard /\ Led

LEMMA InitIInv ==
  ASSUME Bar!Init
  PROVE  IInv
<1> USE BarriersAssumption DEF Bar!BarrierAssumption, Bar!Init, Bar!CvInit, BarriersAssumption
<1>1. Bar!TypeOK
  BY DEF Bar!TypeOK, Bar!CvTypeOK, Bar!CV, Bar!RET, Bar!PC, Bar!Lk!Init
<1>2. WaitersCounted
  <2>1. Registered = {}
    BY DEF Registered
  <2> QED
    BY <2>1, FS_EmptySet DEF WaitersCounted
<1>3. Guarded /\ InStep
  BY DEF Guarded, InStep
<1>4. AllOnBoard
  <2>1. Arrivals = {}
    BY DEF Arrivals
  <2> QED
    BY <2>1, FS_EmptySet DEF AllOnBoard
<1>5. Led
  BY DEF Led
<1> QED
  BY <1>1, <1>2, <1>3, <1>4, <1>5 DEF IInv

-----------------------------------------------------------------------------
(* The steps of the Condvar.  A thread joins the registered ones in Wait and *)
(* leaves them in Deregister; nothing else changes the set.                  *)
LEMMA RegisteredFinite == IsFiniteSet(Registered)
BY BarriersAssumption, FS_Subset DEF BarriersAssumption, Registered

LEMMA WaitJoins ==
  ASSUME Bar!CvTypeOK, WaitersCounted, NEW t \in BarThreads, NEW w \in BOOLEAN, Bar!Wait(t, w)
  PROVE  Bar!CvTypeOK' /\ WaitersCounted'
<1>1. /\ bar_cv[t] = "out" /\ bar_cv' = [bar_cv EXCEPT ![t] = "snap"]
      /\ bar_waiters' = bar_waiters + 1
  BY DEF Bar!Wait, Bar!CvGoto
<1>2. Bar!CvTypeOK'
  BY <1>1 DEF Bar!Wait, Bar!CvTypeOK, Bar!CV, Bar!RET
<1>3. t \notin Registered /\ Registered' = Registered \cup {t}
  BY <1>1 DEF Registered, Bar!CvTypeOK
<1>4. Cardinality(Registered \cup {t}) = Cardinality(Registered) + 1
  BY <1>3, RegisteredFinite, FS_AddElement
<1> QED
  BY <1>1, <1>2, <1>3, <1>4 DEF WaitersCounted

LEMMA DeregisterLeaves ==
  ASSUME Bar!CvTypeOK, WaitersCounted, NEW t \in BarThreads, Bar!Deregister(t)
  PROVE  Bar!CvTypeOK' /\ WaitersCounted'
<1>1. /\ bar_cv[t] = "asleep" /\ t \notin bar_parked
      /\ bar_cv' = [bar_cv EXCEPT ![t] = "relock"] /\ bar_waiters' = bar_waiters - 1
  BY DEF Bar!Deregister, Bar!CvGoto
<1>2. t \in Registered /\ Registered' = Registered \ {t}
  BY <1>1 DEF Registered, Bar!CvTypeOK
<1>3. Cardinality(Registered \ {t}) = Cardinality(Registered) - 1
  BY <1>2, RegisteredFinite, FS_RemoveElement
<1>4. WaitersCounted'
  BY <1>1, <1>2, <1>3 DEF WaitersCounted
<1>5. bar_waiters' \in Nat
  <2>1. IsFiniteSet(Registered')
    BY <1>2, RegisteredFinite, FS_Subset
  <2> QED
    BY <2>1, <1>4, FS_CardinalityType DEF WaitersCounted
<1>6. Bar!CvTypeOK'
  BY <1>1, <1>5 DEF Bar!Deregister, Bar!CvTypeOK, Bar!CV, Bar!RET
<1> QED
  BY <1>4, <1>6

LEMMA OthersStay ==
  ASSUME Bar!CvTypeOK, WaitersCounted, NEW t \in BarThreads,
         \/ Bar!Lock(t) \/ Bar!Unlock(t) \/ Bar!NotifyAll(t) \/ Bar!Snapshot(t)
         \/ Bar!DropGuard(t) \/ Bar!FutexWait(t) \/ Bar!WakeOne(t) \/ Bar!WakeAll(t)
         \/ Bar!Relock(t) \/ Bar!Interrupted(t) \/ Bar!TimeExpires(t)
  PROVE  Bar!CvTypeOK' /\ WaitersCounted'
<1> USE BarriersAssumption DEF Bar!CvTypeOK, Bar!CV, Bar!RET, BarriersAssumption
<1> DEFINE Inside == {"snap", "drop", "wait", "asleep"}
<1>1. /\ Bar!CvTypeOK' /\ bar_waiters' = bar_waiters
      /\ \A u \in BarThreads : bar_cv'[u] \in Inside <=> bar_cv[u] \in Inside
  <2>1. CASE Bar!Lock(t) \/ Bar!Unlock(t)
    BY <2>1 DEF Bar!Lock, Bar!Unlock, Bar!Lk!Acquire, Bar!Lk!Release
  <2>2. CASE Bar!NotifyAll(t)
    BY <2>2 DEF Bar!NotifyAll, Bar!Bump, Bar!CvGoto
  <2>3. CASE Bar!Snapshot(t)
    BY <2>3 DEF Bar!Snapshot, Bar!CvGoto
  <2>4. CASE Bar!DropGuard(t)
    BY <2>4 DEF Bar!DropGuard, Bar!CvGoto, Bar!Lk!Release
  <2>5. CASE Bar!FutexWait(t)
    BY <2>5 DEF Bar!FutexWait, Bar!CvGoto, Bar!Parked
  <2>6. CASE Bar!WakeOne(t)
    BY <2>6 DEF Bar!WakeOne, Bar!CvGoto, Bar!StillParked
  <2>7. CASE Bar!WakeAll(t)
    BY <2>7 DEF Bar!WakeAll, Bar!CvGoto, Bar!NoneParked
  <2>8. CASE Bar!Relock(t)
    BY <2>8 DEF Bar!Relock, Bar!CvGoto, Bar!Lk!Acquire
  <2>9. CASE Bar!Interrupted(t) \/ Bar!TimeExpires(t)
    BY <2>9 DEF Bar!Interrupted, Bar!TimeExpires, Bar!SleepEnds
  <2> QED
    BY <2>1, <2>2, <2>3, <2>4, <2>5, <2>6, <2>7, <2>8, <2>9
<1>2. Registered' = Registered
  BY <1>1 DEF Registered
<1> QED
  BY <1>1, <1>2 DEF WaitersCounted

-----------------------------------------------------------------------------
(* What the Condvar does by itself leaves the barrier alone, and gives the   *)
(* mutex only to a thread that is out of the call.                           *)
LEMMA CvAloneIInv ==
  ASSUME IInv, NEW t \in BarThreads, Bar!CvAlone(t)
  PROVE  IInv'
<1> USE DEF IInv, Bar!CvAlone
<1>1. UNCHANGED <<bar_count, generation, my_generation, bar_pc, arrivals, departures, leaders>>
  BY DEF Bar!barrierVars
<1>2. Bar!CvTypeOK' /\ WaitersCounted'
  BY DeregisterLeaves, OthersStay DEF Bar!TypeOK, Bar!CvStep, Bar!CvProgress
<1>3. Bar!TypeOK'
  BY <1>1, <1>2 DEF Bar!TypeOK
<1>4. Guarded'
  <2> USE <1>1, BarriersAssumption
      DEF Guarded, Bar!TypeOK, Bar!CvTypeOK, Bar!CV, Bar!PC, Bar!CvGoto, BarriersAssumption
  <2>1. CASE Bar!Snapshot(t)
    BY <2>1 DEF Bar!Snapshot
  <2>2. CASE Bar!DropGuard(t)
    BY <2>2 DEF Bar!DropGuard, Bar!Lk!Release
  <2>3. CASE Bar!FutexWait(t)
    BY <2>3 DEF Bar!FutexWait
  <2>4. CASE Bar!Deregister(t)
    BY <2>4 DEF Bar!Deregister
  <2>5. CASE Bar!WakeOne(t) \/ Bar!WakeAll(t)
    BY <2>5 DEF Bar!WakeOne, Bar!WakeAll
  <2>6. CASE Bar!Relock(t)
    BY <2>6 DEF Bar!Relock, Bar!Lk!Acquire
  <2>7. CASE Bar!Interrupted(t) \/ Bar!TimeExpires(t)
    BY <2>7 DEF Bar!Interrupted, Bar!TimeExpires, Bar!SleepEnds
  <2> QED
    BY <2>1, <2>2, <2>3, <2>4, <2>5, <2>6, <2>7 DEF Bar!CvStep, Bar!CvProgress
<1>5. InStep' /\ AllOnBoard' /\ Led'
  BY <1>1 DEF InStep, AllOnBoard, Arrivals, Led
<1> QED
  BY <1>2, <1>3, <1>4, <1>5

-----------------------------------------------------------------------------
(* A thread that is about to be counted is not in the generation yet.        *)
LEMMA ArrivingIsNew ==
  ASSUME IInv, NEW t \in BarThreads, Bar!Counted(t)
  PROVE  /\ t \notin Arrivals
         /\ IsFiniteSet(Arrivals)
         /\ Cardinality(Arrivals \cup {t}) = Cardinality(Arrivals) + 1
<1>1. t \notin Arrivals
  BY DEF IInv, InStep, Bar!TypeOK, Bar!Counted, Arrivals
<1>2. IsFiniteSet(Arrivals)
  BY BarriersAssumption, FS_Subset DEF BarriersAssumption, Arrivals
<1> QED
  BY <1>1, <1>2, FS_AddElement

LEMMA ArriveEarlyIInv ==
  ASSUME IInv, NEW t \in BarThreads, Bar!ArriveEarly(t)
  PROVE  IInv'
<1> USE BarriersAssumption
    DEF Bar!ArriveEarly, Bar!Counted, Bar!Goto, Bar!cvVars, IInv, Bar!BarrierAssumption,
    BarriersAssumption
<1>1. Bar!CvTypeOK' /\ WaitersCounted'
  BY DEF Bar!TypeOK, Bar!CvTypeOK, WaitersCounted, Registered
<1>2. Bar!TypeOK'
  BY <1>1 DEF Bar!TypeOK, Bar!PC, InStep
<1>3. Guarded'
  BY DEF Guarded, Bar!TypeOK, Bar!CvTypeOK
<1>4. InStep'
  BY DEF InStep, Bar!TypeOK
<1>5. AllOnBoard'
  <2> SUFFICES ASSUME Cardinality(BarThreads) = num_threads
               PROVE  /\ bar_count' = Cardinality(Arrivals')
                      /\ \A u \in BarThreads : generation' <= arrivals'[u]
    BY DEF AllOnBoard
  <2>1. Arrivals' = Arrivals \cup {t}
    BY DEF Arrivals, AllOnBoard, InStep, Bar!TypeOK
  <2>2. Cardinality(Arrivals') = Cardinality(Arrivals) + 1
    BY <2>1, ArrivingIsNew
  <2>3. \A u \in BarThreads : generation' <= arrivals'[u]
    BY DEF AllOnBoard, Bar!TypeOK
  <2> QED
    BY <2>2, <2>3 DEF AllOnBoard
<1>6. Led'
  BY DEF Led, Bar!TypeOK
<1> QED
  BY <1>1, <1>2, <1>3, <1>4, <1>5, <1>6

LEMMA ArriveLastIInv ==
  ASSUME IInv, NEW t \in BarThreads, Bar!ArriveLast(t)
  PROVE  IInv'
<1> USE BarriersAssumption
    DEF Bar!ArriveLast, Bar!Counted, Bar!Goto, Bar!cvVars, IInv, Bar!BarrierAssumption,
    BarriersAssumption
<1>1. Bar!CvTypeOK' /\ WaitersCounted'
  BY DEF Bar!TypeOK, Bar!CvTypeOK, WaitersCounted, Registered
<1>2. Bar!TypeOK'
  BY <1>1 DEF Bar!TypeOK, Bar!PC, InStep
<1>3. Guarded'
  BY DEF Guarded, Bar!TypeOK, Bar!CvTypeOK
<1>4. InStep'
  BY DEF InStep, Bar!TypeOK
<1>5. AllOnBoard'
  <2> SUFFICES ASSUME Cardinality(BarThreads) = num_threads
               PROVE  /\ bar_count' = Cardinality(Arrivals')
                      /\ \A u \in BarThreads : generation' <= arrivals'[u]
    BY DEF AllOnBoard
  <2>1. Cardinality(Arrivals \cup {t}) = Cardinality(BarThreads)
    BY ArrivingIsNew DEF AllOnBoard
  <2>2. Arrivals \cup {t} = BarThreads
    <3>1. Arrivals \cup {t} \subseteq BarThreads
      BY DEF Arrivals
    <3> QED
      BY <2>1, <3>1, FS_Subset
  <2>3. \A u \in BarThreads : generation' <= arrivals'[u]
    BY <2>2 DEF Arrivals, AllOnBoard, Bar!TypeOK
  <2>4. Arrivals' = {}
    BY DEF Arrivals, InStep, Bar!TypeOK
  <2> QED
    BY <2>3, <2>4, FS_EmptySet
<1>6. Led'
  <2>1. \A u \in BarThreads : u # t => bar_pc[u] \notin {"notify", "lead"}
    BY DEF Guarded
  <2>2. generation' = generation + 1 /\ generation \in Nat /\ my_generation'[t] = generation
    BY DEF Bar!TypeOK
  <2>3. \A l \in leaders : l[1] < generation /\ l[1] \in Nat
    BY DEF Led, Bar!TypeOK
  <2>4. /\ \A l \in leaders' : l[1] < generation'
        /\ \A a, b \in leaders' : a[1] = b[1] => a = b
    BY <2>2, <2>3 DEF Led
  <2>5. \A u \in BarThreads : bar_pc'[u] \in {"notify", "lead"} =>
          \A l \in leaders' : l[1] # my_generation'[u]
    BY <2>1, <2>2, <2>3 DEF Bar!TypeOK
  <2>6. ASSUME NEW g \in 0 .. generation' - 1
        PROVE  \/ \E l \in leaders' : l[1] = g
               \/ \E u \in BarThreads : bar_pc'[u] \in {"notify", "lead"} /\ my_generation'[u] = g
    <3>1. CASE g = generation
      BY <2>2, <3>1 DEF Bar!TypeOK
    <3>2. CASE g # generation
      <4>1. g \in 0 .. generation - 1
        BY <2>2, <3>2
      <4>2. bar_pc[t] = "arrive"
        OBVIOUS
      <4> QED
        BY <4>1, <4>2, <2>1 DEF Led
    <3> QED
      BY <3>1, <3>2
  <2> QED
    BY <2>4, <2>5, <2>6 DEF Led
<1> QED
  BY <1>1, <1>2, <1>3, <1>4, <1>5, <1>6

LEMMA WaitCallIInv ==
  ASSUME IInv, NEW t \in BarThreads, Bar!WaitCall(t)
  PROVE  IInv'
<1> USE BarriersAssumption DEF Bar!WaitCall, Bar!Goto, IInv, BarriersAssumption
<1>1. Bar!CvTypeOK' /\ WaitersCounted'
  BY OthersStay DEF Bar!TypeOK
<1>2. Bar!TypeOK'
  BY <1>1 DEF Bar!TypeOK, Bar!PC
<1>3. Guarded'
  BY DEF Guarded, Bar!TypeOK, Bar!CvTypeOK, Bar!Lock, Bar!Lk!Acquire
<1>4. InStep'
  BY DEF InStep, Bar!TypeOK
<1>5. AllOnBoard' /\ Led'
  BY DEF AllOnBoard, Arrivals, Led, Bar!TypeOK
<1> QED
  BY <1>1, <1>2, <1>3, <1>4, <1>5

LEMMA OpenBarrierIInv ==
  ASSUME IInv, NEW t \in BarThreads, Bar!OpenBarrier(t)
  PROVE  IInv'
<1> USE BarriersAssumption DEF Bar!OpenBarrier, Bar!Goto, IInv, BarriersAssumption
<1>1. Bar!CvTypeOK' /\ WaitersCounted'
  BY OthersStay DEF Bar!TypeOK
<1>2. Bar!TypeOK'
  BY <1>1 DEF Bar!TypeOK, Bar!PC
<1>3. Guarded'
  BY DEF Guarded, Bar!TypeOK, Bar!CvTypeOK, Bar!NotifyAll, Bar!Bump, Bar!CvGoto
<1>4. InStep'
  BY DEF InStep, Bar!TypeOK
<1>5. AllOnBoard' /\ Led'
  BY DEF AllOnBoard, Arrivals, Led, Bar!TypeOK
<1> QED
  BY <1>1, <1>2, <1>3, <1>4, <1>5

LEMMA LoopIInv ==
  ASSUME IInv, NEW t \in BarThreads, Bar!Loop(t)
  PROVE  IInv'
<1> USE BarriersAssumption DEF Bar!Loop, Bar!Goto, IInv, BarriersAssumption
<1>1. Bar!CvTypeOK' /\ WaitersCounted'
  <2>1. CASE generation = my_generation[t]
    BY <2>1, WaitJoins DEF Bar!TypeOK
  <2>2. CASE generation # my_generation[t]
    BY <2>2 DEF Bar!TypeOK, Bar!CvTypeOK, Bar!cvVars, WaitersCounted, Registered
  <2> QED
    BY <2>1, <2>2
<1>2. Bar!TypeOK'
  BY <1>1 DEF Bar!TypeOK, Bar!PC
<1>3. Guarded'
  BY DEF Guarded, Bar!TypeOK, Bar!CvTypeOK, Bar!cvVars, Bar!Wait, Bar!CvGoto
<1>4. InStep'
  <2>1. CASE bar_pc' = bar_pc
    BY <2>1 DEF InStep
  <2>2. CASE bar_pc' = [bar_pc EXCEPT ![t] = "leave"] /\ generation # my_generation[t]
    BY <2>2 DEF InStep, Bar!TypeOK
  <2> QED
    BY <2>1, <2>2
<1>5. AllOnBoard'
  BY DEF AllOnBoard, Arrivals
<1>6. Led'
  <2>1. \A u \in BarThreads :
          bar_pc'[u] \in {"notify", "lead"} <=> bar_pc[u] \in {"notify", "lead"}
    BY DEF Bar!TypeOK
  <2> QED
    BY <2>1 DEF Led
<1> QED
  BY <1>1, <1>2, <1>3, <1>4, <1>5, <1>6

LEMMA LeaveIInv ==
  ASSUME IInv, NEW t \in BarThreads, Bar!Leave(t)
  PROVE  IInv'
<1> USE BarriersAssumption DEF Bar!Leave, Bar!Goto, IInv, BarriersAssumption
<1>1. Bar!CvTypeOK' /\ WaitersCounted'
  BY OthersStay DEF Bar!TypeOK
<1>2. Bar!TypeOK'
  BY <1>1 DEF Bar!TypeOK, Bar!PC, InStep
<1>3. Guarded'
  BY DEF Guarded, Bar!TypeOK, Bar!CvTypeOK, Bar!Unlock, Bar!Lk!Release
<1>4. InStep'
  BY DEF InStep, Bar!TypeOK
<1>5. AllOnBoard'
  BY DEF AllOnBoard, Arrivals
<1>6. Led'
  <2>1. CASE bar_pc[t] = "leave"
    BY <2>1 DEF Led, Bar!TypeOK
  <2>2. CASE bar_pc[t] = "lead"
    <3> DEFINE me == <<my_generation[t], t>>
    <3>1. leaders' = leaders \cup {me} /\ me[1] = my_generation[t]
      BY <2>2
    <3>2. \A l \in leaders : l[1] # my_generation[t]
      BY <2>2 DEF Led
    <3>3. my_generation[t] < generation
      BY <2>2 DEF InStep
    <3> HIDE DEF me
    <3>4. /\ \A l \in leaders' : l[1] < generation'
          /\ \A a, b \in leaders' : a[1] = b[1] => a = b
      BY <3>1, <3>2, <3>3 DEF Led
    <3>5. \A u \in BarThreads : bar_pc'[u] \notin {"notify", "lead"}
      BY <2>2 DEF Guarded, Bar!TypeOK
    <3>6. \A g \in 0 .. generation' - 1 : \E l \in leaders' : l[1] = g
      <4> SUFFICES ASSUME NEW g \in 0 .. generation - 1 PROVE \E l \in leaders' : l[1] = g
        OBVIOUS
      <4>1. (\E l \in leaders : l[1] = g) \/ my_generation[t] = g
        BY <2>2 DEF Led, Guarded
      <4> QED
        BY <4>1, <3>1
    <3> QED
      BY <3>4, <3>5, <3>6 DEF Led
  <2> QED
    BY <2>1, <2>2
<1> QED
  BY <1>1, <1>2, <1>3, <1>4, <1>5, <1>6

LEMMA NextIInv ==
  ASSUME IInv, [Bar!Next]_(Bar!vars)
  PROVE  IInv'
<1>1. CASE UNCHANGED Bar!vars
  <2> USE <1>1 DEF Bar!vars, Bar!cvVars, Bar!barrierVars, IInv
  <2>1. Bar!TypeOK' /\ WaitersCounted' /\ Guarded'
    BY DEF Bar!TypeOK, Bar!CvTypeOK, WaitersCounted, Registered, Guarded
  <2>2. InStep' /\ AllOnBoard' /\ Led'
    BY DEF InStep, AllOnBoard, Arrivals, Led
  <2> QED
    BY <2>1, <2>2
<1>2. ASSUME NEW t \in BarThreads, Bar!Running(t) PROVE IInv'
  BY <1>2, ArriveEarlyIInv, ArriveLastIInv, OpenBarrierIInv, LoopIInv, LeaveIInv
  DEF Bar!Running
<1> QED
  BY <1>1, <1>2, WaitCallIInv, CvAloneIInv DEF Bar!Next

-----------------------------------------------------------------------------
(* A step of the two components is one of the Barrier or leaves it alone.    *)
LEMMA BarrierStep ==
  ASSUME [BothNext]_allVars
  PROVE  [Bar!Next]_(Bar!vars)
<1>1. (UNCHANGED barVars) => UNCHANGED Bar!vars
  BY DEF barVars, ownVars, Bar!vars, Bar!cvVars, Bar!barrierVars
<1> QED
  BY <1>1 DEF BothNext, OfLatch, OfBarrier, allVars

(* Nobody returns from its k-th wait() before everybody has arrived at       *)
(* theirs, when the barrier is made for all the threads.                     *)
THEOREM BarrierNobodyLeavesEarly == BothSpec => []NobodyLeavesEarly
<1>1. BothInit => IInv
  BY InitIInv DEF BothInit
<1>2. IInv /\ [BothNext]_allVars => IInv'
  BY NextIInv, BarrierStep
<1>3. IInv => NobodyLeavesEarly
  <2> SUFFICES ASSUME IInv, Cardinality(BarThreads) = num_threads,
                      NEW t \in BarThreads, NEW u \in BarThreads
               PROVE  departures[t] <= arrivals[u]
    BY SameCounts DEF IInv, NobodyLeavesEarly, Bar!NobodyLeavesEarly
  <2>1. departures[t] <= generation
    BY DEF IInv, InStep, Bar!TypeOK
  <2>2. generation <= arrivals[u]
    BY DEF IInv, AllOnBoard
  <2> QED
    BY <2>1, <2>2 DEF IInv, Bar!TypeOK
<1> QED
  BY <1>1, <1>2, <1>3, PTL DEF BothSpec

(* A generation has one leader, told so before anybody else leaves it: for a *)
(* barrier of any size, also when more threads come than it is made for.     *)
THEOREM BarrierOneLeader == BothSpec => []OneLeader
<1>1. BothInit => IInv
  BY InitIInv DEF BothInit
<1>2. IInv /\ [BothNext]_allVars => IInv'
  BY NextIInv, BarrierStep
<1>3. IInv => OneLeader
  <2> SUFFICES ASSUME IInv, NEW t \in BarThreads, bar_pc[t] = "leave"
               PROVE  \E l \in leaders : l[1] = my_generation[t]
    BY DEF IInv, Led, OneLeader, Bar!OneLeader
  <2>1. my_generation[t] \in 0 .. generation - 1
    BY DEF IInv, InStep, Bar!TypeOK
  <2>2. \A u \in BarThreads : bar_pc[u] \notin {"notify", "lead"}
    BY DEF IInv, Guarded
  <2> QED
    BY <2>1, <2>2 DEF IInv, Led
<1> QED
  BY <1>1, <1>2, <1>3, PTL DEF BothSpec

-----------------------------------------------------------------------------
(* Why no wakeup of the Barrier is lost.  A thread that registers does so in *)
(* a generation that is not over, and that stays so while it has the mutex;  *)
(* afterwards the generation ends only with a notify_all(), which changes    *)
(* the number the thread has noted or finds it parked.                       *)
Opening == \E u \in BarThreads : bar_pc[u] = "notify"
Waking  == \E u \in BarThreads : bar_cv[u] = "wake_all"

Noted ==
  \A t \in BarThreads :
    /\ bar_my_seq[t] <= bar_seq
    /\ bar_cv[t] \in {"snap", "drop"} => my_generation[t] = generation
    /\ bar_cv[t] = "wait" /\ bar_my_seq[t] = bar_seq =>
         my_generation[t] = generation \/ Opening
    /\ t \in bar_parked => my_generation[t] = generation \/ Opening \/ Waking

(* The steps that leave the barrier alone.                                   *)
LEMMA NotedAlone ==
  ASSUME IInv, Noted, NEW t \in BarThreads, Bar!CvAlone(t)
  PROVE  Noted'
<1>1. UNCHANGED <<generation, my_generation, bar_pc>>
  BY DEF Bar!CvAlone, Bar!barrierVars
<1>2. Opening' <=> Opening
  BY <1>1 DEF Opening
<1> USE <1>1, <1>2 DEF IInv, Bar!TypeOK, Bar!CvTypeOK, Bar!CV, Bar!CvGoto, Noted
<1>3. CASE Bar!Snapshot(t)
  <2>1. Waking' <=> Waking
    BY <1>3 DEF Bar!Snapshot, Waking
  <2> QED
    BY <1>3, <2>1 DEF Bar!Snapshot
<1>4. CASE Bar!DropGuard(t)
  <2>1. Waking' <=> Waking
    BY <1>4 DEF Bar!DropGuard, Waking
  <2> QED
    BY <1>4, <2>1 DEF Bar!DropGuard
<1>5. CASE Bar!FutexWait(t)
  <2>1. Waking' <=> Waking
    BY <1>5 DEF Bar!FutexWait, Waking
  <2> QED
    BY <1>5, <2>1 DEF Bar!FutexWait, Bar!Parked
<1>6. CASE Bar!Deregister(t)
  <2>1. Waking' <=> Waking
    BY <1>6 DEF Bar!Deregister, Waking
  <2> QED
    BY <1>6, <2>1 DEF Bar!Deregister
<1>7. CASE Bar!WakeOne(t)
  <2>1. bar_cv[t] # "wake_one"
    BY DEF Guarded, Bar!PC
  <2> QED
    BY <1>7, <2>1 DEF Bar!WakeOne
<1>8. CASE Bar!WakeAll(t)
  BY <1>8 DEF Bar!WakeAll, Bar!NoneParked
<1>9. CASE Bar!Relock(t)
  <2>1. Waking' <=> Waking
    BY <1>9 DEF Bar!Relock, Waking
  <2> QED
    BY <1>9, <2>1 DEF Bar!Relock
<1>10. CASE Bar!Interrupted(t) \/ Bar!TimeExpires(t)
  <2>1. Waking' <=> Waking
    BY <1>10 DEF Bar!Interrupted, Bar!TimeExpires, Bar!SleepEnds, Waking
  <2> QED
    BY <1>10, <2>1 DEF Bar!Interrupted, Bar!TimeExpires, Bar!SleepEnds
<1> QED
  BY <1>3, <1>4, <1>5, <1>6, <1>7, <1>8, <1>9, <1>10
  DEF Bar!CvAlone, Bar!CvStep, Bar!CvProgress

(* The steps of wait() itself.                                               *)
LEMMA NotedRunning ==
  ASSUME IInv, Noted, NEW t \in BarThreads, Bar!WaitCall(t) \/ Bar!Running(t)
  PROVE  Noted'
<1> USE DEF IInv, Bar!TypeOK, Bar!CvTypeOK, Bar!PC, Bar!Goto
<1>1. CASE Bar!WaitCall(t)
  <2>1. /\ UNCHANGED <<generation, my_generation, bar_cv, bar_my_seq, bar_seq, bar_parked>>
        /\ bar_pc[t] = "idle" /\ bar_pc' = [bar_pc EXCEPT ![t] = "arrive"]
    BY <1>1 DEF Bar!WaitCall, Bar!Lock
  <2>2. (Opening' <=> Opening) /\ (Waking' <=> Waking)
    BY <2>1 DEF Opening, Waking
  <2> QED
    BY <2>1, <2>2 DEF Noted
<1>2. CASE Bar!ArriveEarly(t)
  <2>1. /\ UNCHANGED <<generation, bar_cv, bar_my_seq, bar_seq, bar_parked>>
        /\ bar_pc[t] = "arrive" /\ bar_pc' = [bar_pc EXCEPT ![t] = "loop"]
        /\ my_generation' = [my_generation EXCEPT ![t] = generation]
    BY <1>2 DEF Bar!ArriveEarly, Bar!Counted, Bar!cvVars
  <2>2. (Opening' <=> Opening) /\ (Waking' <=> Waking)
    BY <2>1 DEF Opening, Waking
  <2> QED
    BY <2>1, <2>2 DEF Noted
<1>3. CASE Bar!ArriveLast(t)
  <2>1. /\ UNCHANGED <<bar_cv, bar_my_seq, bar_seq, bar_parked>>
        /\ bar_pc[t] = "arrive" /\ bar_pc' = [bar_pc EXCEPT ![t] = "notify"]
    BY <1>3 DEF Bar!ArriveLast, Bar!Counted, Bar!cvVars
  <2>2. Opening'
    BY <2>1 DEF Opening
  <2>3. \A u \in BarThreads : bar_cv[u] \notin {"snap", "drop"}
    BY <2>1 DEF Guarded
  <2> QED
    BY <2>1, <2>2, <2>3 DEF Noted
<1>4. CASE Bar!OpenBarrier(t)
  <2>1. /\ UNCHANGED <<generation, my_generation, bar_my_seq, bar_parked>>
        /\ bar_seq' = bar_seq + 1 /\ bar_cv' = [bar_cv EXCEPT ![t] = "wake_all"]
    BY <1>4 DEF Bar!OpenBarrier, Bar!NotifyAll, Bar!Bump, Bar!CvGoto
  <2>2. Waking'
    BY <2>1 DEF Waking
  <2> QED
    BY <2>1, <2>2 DEF Noted
<1>5. CASE Bar!Loop(t)
  <2>1. UNCHANGED <<generation, my_generation, bar_my_seq, bar_seq, bar_parked>>
    BY <1>5 DEF Bar!Loop, Bar!Wait, Bar!cvVars
  <2>2. \/ /\ bar_pc' = bar_pc /\ bar_cv' = [bar_cv EXCEPT ![t] = "snap"]
           /\ generation = my_generation[t]
        \/ bar_pc' = [bar_pc EXCEPT ![t] = "leave"] /\ bar_cv' = bar_cv
    BY <1>5 DEF Bar!Loop, Bar!Wait, Bar!cvVars, Bar!CvGoto
  <2>3. bar_pc[t] = "loop" /\ bar_cv[t] = "out"
    BY <1>5 DEF Bar!Loop
  <2>4. (Opening' <=> Opening) /\ (Waking' <=> Waking)
    BY <2>2, <2>3 DEF Opening, Waking
  <2> QED
    BY <2>1, <2>2, <2>4 DEF Noted
<1>6. CASE Bar!Leave(t)
  <2>1. /\ UNCHANGED <<generation, my_generation, bar_cv, bar_my_seq, bar_seq, bar_parked>>
        /\ bar_pc[t] \in {"leave", "lead"} /\ bar_pc' = [bar_pc EXCEPT ![t] = "idle"]
    BY <1>6 DEF Bar!Leave, Bar!Unlock
  <2>2. (Opening' <=> Opening) /\ (Waking' <=> Waking)
    BY <2>1 DEF Opening, Waking
  <2> QED
    BY <2>1, <2>2 DEF Noted
<1> QED
  BY <1>1, <1>2, <1>3, <1>4, <1>5, <1>6 DEF Bar!Running

(* No wakeup of a Barrier is lost, for any threads, size and rounds: whoever *)
(* still sleeps when its generation is over has a notify_all() coming.  This *)
(* is what calling it with the guard held is for, and what the               *)
(* CountDownLatch of the same file, which does not, lacks.                   *)
THEOREM BarrierSleepersWoken == BothSpec => []SleepersWoken
<1>1. BothInit => IInv /\ Noted
  <2> SUFFICES ASSUME BothInit PROVE IInv /\ Noted
    OBVIOUS
  <2>1. IInv
    BY InitIInv DEF BothInit
  <2>2. Noted
    BY DEF BothInit, Bar!Init, Bar!CvInit, Noted
  <2> QED
    BY <2>1, <2>2
<1>2. IInv /\ Noted /\ [BothNext]_allVars => (IInv /\ Noted)'
  <2> SUFFICES ASSUME IInv, Noted, [Bar!Next]_(Bar!vars) PROVE IInv' /\ Noted'
    BY BarrierStep
  <2>1. ASSUME UNCHANGED Bar!vars PROVE Noted'
    BY <2>1 DEF Bar!vars, Bar!cvVars, Bar!barrierVars, Noted, Opening, Waking
  <2> QED
    BY <2>1, NextIInv, NotedAlone, NotedRunning DEF Bar!Next
<1>3. IInv /\ Noted => SleepersWoken
  BY DEF IInv, Bar!TypeOK, Bar!CvTypeOK, Noted, Opening, Waking, Bar!SleepersWoken,
         SleepersWoken
<1> QED
  BY <1>1, <1>2, <1>3, PTL DEF BothSpec

-----------------------------------------------------------------------------
(* The count only falls, a poll is made by a call that polls, and an answer  *)
(* stays with the call that got it.                                          *)
LatchIInv ==
  /\ count \in Int
  /\ pc \in [Threads -> PC]
  /\ call \in [Threads -> Waits \cup {"none"}]
  /\ expired \in [Threads -> BOOLEAN]
  /\ result \in [Threads -> {"none", "zero", "timed_out"}]
  /\ \A t \in Threads : pc[t] = "poll" => call[t] = "poll"
  /\ AnswersTrue

(* Nobody is let through a CountDownLatch before its count has reached zero, *)
(* and a timed call gives up only after its deadline, for any number of      *)
(* threads, counts and spurious or interrupted wakeups.                      *)
THEOREM LatchAnswersTrue == Spec => []AnswersTrue
<1>1. Init => LatchIInv
  BY LatchAssumption DEF LatchAssumption, Init, LatchIInv, AnswersTrue, PC
<1>2. LatchIInv /\ [Next]_vars => LatchIInv'
  <2> SUFFICES ASSUME LatchIInv, [Next]_vars PROVE LatchIInv'
    OBVIOUS
  <2> USE DEF LatchIInv, AnswersTrue, PC, Goto, Answer
  <2>1. CASE UNCHANGED vars
    BY <2>1 DEF vars, latchVars
  <2>2. ASSUME NEW t \in Threads, CvAlone(t) \/ SleepTimesOut(t)
        PROVE  LatchIInv'
    BY <2>2 DEF CvAlone, SleepTimesOut, latchVars
  <2>3. ASSUME NEW t \in Threads, CountDown(t) \/ NotifyZero(t)
        PROVE  LatchIInv'
    BY <2>3 DEF CountDown, NotifyZero
  <2>4. ASSUME NEW t \in Threads, WaitCall(t) PROVE LatchIInv'
    BY <2>4 DEF WaitCall
  <2>5. ASSUME NEW t \in Threads, FastPath(t) \/ Poll(t) PROVE LatchIInv'
    BY <2>5 DEF FastPath, Poll
  <2>6. ASSUME NEW t \in Threads, LockLatch(t) \/ Return(t) PROVE LatchIInv'
    BY <2>6 DEF LockLatch, Return
  <2>7. ASSUME NEW t \in Threads, TestCount(t) PROVE LatchIInv'
    BY <2>7 DEF TestCount
  <2>8. ASSUME NEW t \in Threads, WaitMore(t) PROVE LatchIInv'
    BY <2>8 DEF WaitMore
  <2>9. ASSUME NEW t \in Threads, DeadlinePasses(t) PROVE LatchIInv'
    BY <2>9 DEF DeadlinePasses
  <2> HIDE DEF LatchIInv
  <2> QED
    BY <2>1, <2>2, <2>3, <2>4, <2>5, <2>6, <2>7, <2>8, <2>9
    DEF Next, Running
<1>3. LatchIInv => AnswersTrue
  BY DEF LatchIInv
<1> QED
  BY <1>1, <1>2, <1>3, PTL DEF Spec
=============================================================================
