------------------------------- MODULE RwLock -------------------------------
(***************************************************************************)
(* RwLock of core/sync/rwlock.vr: a reader count or WRITE_LOCKED in one    *)
(* futex word, and a count of registered writers that makes incoming       *)
(* readers step aside.  One action per atomic instruction or system call.  *)
(* The poison flag only colours the result of an acquisition; it is        *)
(* modelled in Mutex, whose code for it is the same.                       *)
(***************************************************************************)
EXTENDS Integers, FiniteSets, Futex

CONSTANT Threads

ASSUME ThreadsAssumption == IsFiniteSet(Threads)

WRITE_LOCKED == -1

VARIABLES
  state,             \* 0, the number of readers, or WRITE_LOCKED
  writers_waiting,   \* writers registered in write()
  parked,            \* threads parked in futex_wait on state
  pc,                \* where each thread is in its call
  seen,              \* the value of state a thread loaded last
  overtook           \* history: readers admitted while a writer waits

vars == <<state, writers_waiting, parked, pc, seen, overtook>>

(* A thread between the registration in write() and its compare_exchange.   *)
InWrite == {"w_load", "w_cas", "w_wait", "w_asleep"}

PC == InWrite \cup
      {"idle", "r_load", "r_gate", "r_cas", "r_wait", "r_asleep",
       "try_gate", "try_cas", "reading", "rr_wake",
       "w_dereg", "writing", "rw_wake"}

Readers == {t \in Threads : pc[t] = "reading"}
Writers == {t \in Threads : pc[t] \in {"w_dereg", "writing"}}
Queued  == {t \in Threads : pc[t] \in InWrite}

TypeOK ==
  /\ state \in Int /\ state >= WRITE_LOCKED
  /\ writers_waiting \in Nat
  /\ parked \in SUBSET {t \in Threads : pc[t] \in {"r_asleep", "w_asleep"}}
  /\ pc \in [Threads -> PC]
  /\ seen \in [Threads -> Int]
  /\ overtook \in [Threads -> SUBSET Threads]

Init ==
  /\ state = 0
  /\ writers_waiting = 0
  /\ parked = {}
  /\ pc = [t \in Threads |-> "idle"]
  /\ seen = [t \in Threads |-> 0]
  /\ overtook = [t \in Threads |-> {}]

Goto(t, l) == pc' = [pc EXCEPT ![t] = l]

(* The loaded value goes out of scope at the end of an iteration.            *)
Forget(t) == seen' = [seen EXCEPT ![t] = 0]

-----------------------------------------------------------------------------
(* read() and try_read(): load state, load writers_waiting, exchange.        *)

Load(t, from, to) ==
  /\ pc[t] = from
  /\ seen' = [seen EXCEPT ![t] = state]
  /\ Goto(t, to)
  /\ UNCHANGED <<state, writers_waiting, parked, overtook>>

ReadCall(t) ==
  /\ pc[t] = "idle"
  /\ Goto(t, "r_load")
  /\ UNCHANGED <<state, writers_waiting, parked, seen, overtook>>

ReadLoad(t) == Load(t, "r_load", "r_gate")

TryReadLoad(t) == Load(t, "idle", "try_gate")

(* Mutant: the writer-preference gate is left out.                           *)
GateIgnoresQueue(t, from, pass, fail) ==
  /\ pc[t] = from
  /\ Goto(t, IF seen[t] >= 0 THEN pass ELSE fail)
  /\ UNCHANGED <<state, writers_waiting, parked, seen, overtook>>

(* Mutant: the gate forgets to ask whether a writer holds the lock.          *)
GateIgnoresWriter(t, from, pass, fail) ==
  /\ pc[t] = from
  /\ Goto(t, IF writers_waiting = 0 THEN pass ELSE fail)
  /\ UNCHANGED <<state, writers_waiting, parked, seen, overtook>>

(* The gate: no writer held the lock at the load and none is queued now.     *)
Gate(t, from, pass, fail) ==
  /\ pc[t] = from
  /\ Goto(t, IF seen[t] >= 0 /\ writers_waiting = 0 THEN pass ELSE fail)
  /\ UNCHANGED <<state, writers_waiting, parked, seen, overtook>>

ReadGate(t) == Gate(t, "r_gate", "r_cas", "r_wait")

TryReadGate(t) == Gate(t, "try_gate", "try_cas", "idle")

(* compare_exchange(seen, seen + 1).  A success is recorded in overtook for  *)
(* every writer that is waiting.                                             *)
ReaderCas(t, from, fail) ==
  /\ pc[t] = from
  /\ \/ /\ state = seen[t]
        /\ state' = seen[t] + 1
        /\ Goto(t, "reading")
        /\ overtook' = [w \in Threads |->
                          IF w \in Queued THEN overtook[w] \cup {t} ELSE overtook[w]]
     \/ /\ state # seen[t]
        /\ Goto(t, fail)
        /\ UNCHANGED <<state, overtook>>
  /\ Forget(t)
  /\ UNCHANGED <<writers_waiting, parked>>

ReadCas(t) == ReaderCas(t, "r_cas", "r_load")

TryReadCas(t) == ReaderCas(t, "try_cas", "idle")

-----------------------------------------------------------------------------
(* write() and try_write().                                                  *)

WriteRegister(t) ==
  /\ pc[t] = "idle"
  /\ writers_waiting' = writers_waiting + 1
  /\ Goto(t, "w_load")
  /\ UNCHANGED <<state, parked, seen, overtook>>

WriteLoad(t) == Load(t, "w_load", IF state = 0 THEN "w_cas" ELSE "w_wait")

(* Mutant: the exchange expects whatever was loaded last.                    *)
WriterCasBlind(t, from, ok, fail) ==
  /\ pc[t] = from
  /\ state' = WRITE_LOCKED
  /\ Goto(t, ok)
  /\ UNCHANGED <<writers_waiting, parked, seen, overtook>>

(* compare_exchange(0, WRITE_LOCKED).                                        *)
WriterCas(t, from, ok, fail) ==
  /\ pc[t] = from
  /\ \/ /\ state = 0
        /\ state' = WRITE_LOCKED
        /\ Goto(t, ok)
     \/ /\ state # 0
        /\ Goto(t, fail)
        /\ UNCHANGED state
  /\ UNCHANGED <<writers_waiting, parked, seen, overtook>>

WriteCas(t) == WriterCas(t, "w_cas", "w_dereg", "w_load")

TryWrite(t) == WriterCas(t, "idle", "writing", "idle")

(* Mutant: the acquired writer stays registered.                             *)
WriteDeregisterForgets(t) ==
  /\ pc[t] = "w_dereg"
  /\ Goto(t, "writing")
  /\ UNCHANGED <<state, writers_waiting, parked, seen, overtook>>

WriteDeregister(t) ==
  /\ pc[t] = "w_dereg"
  /\ writers_waiting' = writers_waiting - 1
  /\ overtook' = [overtook EXCEPT ![t] = {}]
  /\ Goto(t, "writing")
  /\ UNCHANGED <<state, parked, seen>>

-----------------------------------------------------------------------------
(* futex_wait(state, seen), its return, and the releases.                    *)

FutexWait(t) ==
  /\ \/ pc[t] = "r_wait" /\ Goto(t, "r_asleep")
     \/ pc[t] = "w_wait" /\ Goto(t, "w_asleep")
  /\ parked' = Parked(parked, state, seen[t], t)
  /\ UNCHANGED <<state, writers_waiting, seen, overtook>>

WaitReturns(t) ==
  /\ t \notin parked
  /\ \/ pc[t] = "r_asleep" /\ Goto(t, "r_load")
     \/ pc[t] = "w_asleep" /\ Goto(t, "w_load")
  /\ Forget(t)
  /\ UNCHANGED <<state, writers_waiting, parked, overtook>>

(* A signal may end futex_wait early (EINTR).                                *)
Interrupted(t) ==
  /\ t \in parked
  /\ parked' = parked \ {t}
  /\ UNCHANGED <<state, writers_waiting, pc, seen, overtook>>

(* Mutant: off by one, the last reader does not see that it is the last.     *)
ReleaseReadSilent(t) ==
  /\ pc[t] = "reading"
  /\ state' = state - 1
  /\ Goto(t, IF state = 0 THEN "rr_wake" ELSE "idle")
  /\ UNCHANGED <<writers_waiting, parked, seen, overtook>>

ReleaseRead(t) ==
  /\ pc[t] = "reading"
  /\ state' = state - 1
  /\ Goto(t, IF state = 1 THEN "rr_wake" ELSE "idle")
  /\ UNCHANGED <<writers_waiting, parked, seen, overtook>>

WakeOne(t) ==
  /\ pc[t] = "rr_wake"
  /\ parked' \in StillParked(parked, 1)
  /\ Goto(t, "idle")
  /\ UNCHANGED <<state, writers_waiting, seen, overtook>>

ReleaseWrite(t) ==
  /\ pc[t] = "writing"
  /\ state' = 0
  /\ Goto(t, "rw_wake")
  /\ UNCHANGED <<writers_waiting, parked, seen, overtook>>

WakeAll(t) ==
  /\ pc[t] = "rw_wake"
  /\ parked' = NoneParked
  /\ Goto(t, "idle")
  /\ UNCHANGED <<state, writers_waiting, seen, overtook>>

-----------------------------------------------------------------------------
ReaderStep(t) == \/ ReadCall(t) \/ ReadLoad(t) \/ ReadGate(t) \/ ReadCas(t)
                 \/ TryReadLoad(t) \/ TryReadGate(t) \/ TryReadCas(t)
                 \/ ReleaseRead(t) \/ WakeOne(t)

WriterStep(t) == \/ WriteRegister(t) \/ WriteLoad(t) \/ WriteCas(t)
                 \/ WriteDeregister(t) \/ TryWrite(t)
                 \/ ReleaseWrite(t) \/ WakeAll(t)

WaitStep(t) == FutexWait(t) \/ WaitReturns(t) \/ Interrupted(t)

Next == \E t \in Threads : ReaderStep(t) \/ WriterStep(t) \/ WaitStep(t)

Spec == Init /\ [][Next]_vars

-----------------------------------------------------------------------------
(* While a writer holds the lock nobody else does, reader or writer: a       *)
(* RwLockWriteGuard may hand out &mut T without further synchronisation.     *)
Exclusion ==
  \A w \in Writers : Readers = {} /\ \A u \in Writers : u = w

Abstract == INSTANCE RwLockSpec WITH readers <- Readers, writers <- Writers

(* To its callers the lock is the abstract one: each exchange, subtraction   *)
(* and store on the word is a guard given to a thread that may have it at    *)
(* that moment, a guard given back by its owner, or invisible.               *)
ImplementsRwLock == Abstract!Spec

(* The word counts the guards that exist, whatever stale value a failed or   *)
(* delayed exchange carries: readers when nobody writes, -1 for a writer.    *)
StateCounts ==
  state = IF Writers = {} THEN Cardinality(Readers) ELSE WRITE_LOCKED

(* writers_waiting is exactly the number of writers between their            *)
(* registration and their deregistration; a leak would lock readers out for  *)
(* good, a double decrement would switch the preference off.                 *)
WaitingExact ==
  writers_waiting =
    Cardinality({t \in Threads : pc[t] \in InWrite \cup {"w_dereg"}})

(* Writer preference: while a writer waits, each reader is admitted at most  *)
(* once, the reader that had passed the gate before the writer registered.   *)
(* This bounds how many readers a writer waits for.                          *)
ReadersYield ==
  [][\A w, r \in Threads :
       (w \in Queued /\ r \in overtook[w]) =>
          ~(pc[r] # "reading" /\ pc'[r] = "reading")]_vars

(* Who brings a sleeping writer its turn: a holder, a releaser about to      *)
(* wake, a writer that is awake in write().  A thread in read() is none of   *)
(* them: while a writer is queued it parks again and passes nothing on.      *)
Serves(t) ==
  \/ pc[t] \in {"reading", "rr_wake", "writing", "w_dereg", "rw_wake"}
  \/ pc[t] \in InWrite /\ t \notin parked

InRead(t) == pc[t] \in {"r_load", "r_gate", "r_cas", "r_wait", "r_asleep"}

(* Writers do not strand one another: while no thread is inside read(), a    *)
(* writer sleeps only if somebody holds the lock, is about to wake or is a   *)
(* writer that will take it, although the last reader wakes one thread only. *)
(* With a thread inside read() nothing is promised: that one wake may have   *)
(* gone to it, and the lock stays free over a sleeping writer, against       *)
(* "Last reader - wake writers" (rwlock.vr:242).                             *)
WritersServed ==
  ((\E t \in parked : pc[t] = "w_asleep") /\ \A t \in Threads : ~InRead(t)) =>
     \E t \in Threads : Serves(t)
=============================================================================
